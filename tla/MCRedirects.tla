---------------------------- MODULE MCRedirects ----------------------------
(* Every short path over a handful of segments, per site; what is published, *)
(* and the URLs that documents, tests and comments name for it.              *)
EXTENDS Redirects

At(host, paths, queries) == [host : {host}, path : paths, query : queries]
Upto(n, segments) == UNION {[1..k -> segments] : k \in 1..n}

-----------------------------------------------------------------------------
(* crates.io.                                                              *)

Name      == Text("serde")
Version   == Text("1")
PlusBuild == <<"1", "+", "b">>

CratesPaths ==
  Upto(4, {Empty, Text("crates"), Name, Version, PlusBuild, Encode(PlusBuild),
           Text("download"), Text("db-dump.zip")})
  \union {VersionDownloads, VersionDownloadsBare, VersionDownloadsIndex, << Text("db-dump.tar.gz") >>,
          << <<"old-", "db-dump.zip">> >>}
  \union {d.path : d \in {e \in Documented : e.host = "static.crates.io"}}

ApiPaths ==
  {<< Text("api"), Text("v1"), Text("crates"), k, v, f >> :
     k, v \in {Name, Version, PlusBuild, Encode(PlusBuild), Empty},
     f \in {Text("download"), Text("readme"), Text("versions")}}

\* S3 keys, spelled as in a URL.
CratesFiles ==
  {CrateFile(Name, Encode(v)) : v \in {Version, PlusBuild}}
    \union {ReadmeFile(Name, Encode(v)) : v \in {Version, PlusBuild}}
    \union {VersionDownloadsIndex, << Text("db-dump.zip") >>, << Text("db-dump.tar.gz") >>}

AllVersions == [name : {Name}, version : {Version, PlusBuild}]

-----------------------------------------------------------------------------
(* The releases.                                                           *)

V5 == <<"1", ".", "5">>
V36 == <<"1", ".", "36", ".", "0">>

DocFiles ==
  {<< Doc, c, b, Index >> : c \in {Stable, Nightly, Text("beta"), V36, WithPatch(<< V5 >>)[1]},
                            b \in {Text("std"), Text("book"), Text("nomicon")}}
    \union {<< Doc, c, Index >> : c \in {Stable, V36}}
    \union {<< Doc, Stable, Text("book"), Text("ch1.html") >>, << Doc, Text("favicon.ico") >>}

InstallerFiles ==
  {<< Text("rustup"), Text("dist") >> \o Installer(a) :
     a \in {"i686-pc-windows-msvc", "x86_64-pc-windows-msvc", "aarch64-pc-windows-msvc"}}

ReleaseFiles == DocFiles \union InstallerFiles \union
  {ListFiles, << Text("dist"), Text("2024-01-01"), Text("channel.toml") >>}

\* The index of a directory has three URLs, but none without a slash for a version.
Shown(url) ==
  LET dir == SubSeq(url, 1, Len(url) - 1) IN
  IF url[Len(url)] # Index THEN {url}
  ELSE {url, dir \o Root} \union
       IF dir = << >> \/ (Len(dir) = 1 /\ IsVersion(dir \o Root, 3)) THEN {} ELSE {dir}

\* Below the channel, and for the stable channel also without it.
UrlsToday(page) == Shown(page) \union IF page[1] = Stable THEN Shown(Tail(page)) ELSE {}

\* Older URLs of a URL: below /doc, by the old name of a book or of the nightly
\* channel, or by the minor version.
OlderUrls(url) ==
  {<< Doc >> \o url}
    \union {Replace(url, r.to, r.from) : r \in {s \in Renames : StartsWith(url, s.to)}}
    \union IF url[1] = Nightly THEN {Replace(url, << Nightly >>, << Master >>)}
           ELSE IF url[1] = Append(Append(V5, "."), "0") /\ Len(url) > 1 THEN {<< V5 >> \o Tail(url)}
           ELSE {}

DocUrls(page) ==
  LET today == UrlsToday(page)
      old   == UNION {OlderUrls(u) : u \in today}
  IN today \union old \union UNION {OlderUrls(u) : u \in old}

AllSpellings == [page \in {Tail(key) : key \in DocFiles} |-> DocUrls(page)]

DocPaths ==
  Upto(4, {Empty, Doc, <<"doc", "s">>, Master, Stable, Nightly, Text("trpl"), Text("book"),
           Text("time"), V5})
  \union UNION {AllSpellings[page] : page \in DOMAIN AllSpellings}

StaticPaths ==
  Upto(3, {Empty, Text("dist"), Text("2024-01-01"), Index, Text("channel.toml"), Text("rustup.sh"), Doc,
           Master, <<"master", "s">>, Text("book")})

WinPaths == {n[1] : n \in InstallerNames} \union Upto(2, {Empty, Text("i686"), Text("rustup-init.exe")})

-----------------------------------------------------------------------------

AllStarts ==
  At("static.crates.io", CratesPaths, {FALSE})
    \union At("crates.io", CratesPaths \union ApiPaths, {FALSE})
    \union At("doc.rust-lang.org", DocPaths, {FALSE})
    \union At("static.rust-lang.org", StaticPaths, BOOLEAN)
    \union At("win.rustup.rs", WinPaths, {FALSE})
    \union At("prev.rust-lang.org", Upto(2, {Empty, Text("book")}), {FALSE})

AllFiles == [b \in Buckets |-> IF b = "crates-io" THEN CratesFiles ELSE ReleaseFiles]

=============================================================================
