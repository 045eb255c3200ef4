----------------------------- MODULE Redirects -----------------------------
(***************************************************************************)
(* The routers of all sites, composed: one URL asked for by two clients,   *)
(* of whom DNS sends one to Fastly and the other to CloudFront where a     *)
(* site has both.  Each follows redirects, from site to site, until an     *)
(* edge asks a bucket for an object or the client leaves our sites.        *)
(***************************************************************************)
EXTENDS CratesRouting, ReleaseRouting

CONSTANTS
  Starts,          \* the URLs clients ask for: [host, path, query]
  Files,           \* the keys that are in each bucket
  CrateVersions,   \* the published versions of crates: [name, version]
  Spellings        \* per page of the documentation, the paths that are named for it

Cdns    == {"fastly", "cloudfront"}
Buckets == {"crates-io", "static-rust-lang-org"}

\* Sites that both CDNs serve, or that send clients to one they serve.
OnBothCdns == {"static.crates.io", "crates.io", "static.rust-lang.org"}

OurHosts == OnBothCdns \union
  {"cloudfront-static.crates.io", "doc.rust-lang.org", "win.rustup.rs", "prev.rust-lang.org"}

ASSUME StartsAssumption ==
  Starts \subseteq [host : OurHosts, path : Path \ {<< >>}, query : BOOLEAN]

VARIABLES
  start,   \* where the clients start
  client   \* per CDN, where its client is

vars == <<start, client>>

Clients == IF start.host \in OnBothCdns THEN Cdns ELSE {"cloudfront"}

Init ==
  /\ start \in Starts
  /\ client = [c \in Clients |-> [at |-> start.host, path |-> start.path,
                                  query |-> start.query, hops |-> 0]]

BucketOf(host) ==
  IF host \in {"static.crates.io", "cloudfront-static.crates.io"} THEN "crates-io"
  ELSE "static-rust-lang-org"

\* A website of S3 answers for a directory with its index, and redirects to the
\* directory, of whose name the viewer sees the whole, when its slash is missing.
Website(key) ==
  LET index == Append(key, Index) IN
  IF key[Len(key)] = Empty THEN Fetch(SubSeq(key, 1, Len(key) - 1) \o << Index >>)
  ELSE IF key \notin Files["static-rust-lang-org"] /\ index \in Files["static-rust-lang-org"]
    THEN Moved(key \o Root, 302)
  ELSE Fetch(key)

\* doc.rust-lang.org: the Lambda function, then the website that is its origin.
DocAnswer(path) ==
  LET route == DocRoute(path) IN
  IF route.do = "fetch" THEN Website(DocKey(route.path)) ELSE route

Answer(c) ==
  LET path  == client[c].path
      query == client[c].query
      host  == client[c].at
  IN CASE host = "static.crates.io" /\ c = "fastly"     -> FastlyRoute(path)
       [] host = "static.crates.io" /\ c = "cloudfront" -> CloudFrontRoute(path)
       [] host = "cloudfront-static.crates.io"          -> CloudFrontRoute(path)
       [] host = "crates.io"                            -> WebappRoute(path)
       [] host = "static.rust-lang.org" /\ c = "fastly" -> StaticFastlyRoute(path, query)
       [] host = "static.rust-lang.org" /\ c = "cloudfront" -> StaticRoute(path)
       [] host = "doc.rust-lang.org"                    -> DocAnswer(path)
       [] host = "win.rustup.rs"                        -> WinRoute(path)
       [] host = "prev.rust-lang.org"                   -> PrevRoute(path)

\* Where the answer takes the client.
After(c, answer) ==
  CASE answer.do = "fetch"    -> BucketOf(client[c].at)
    [] answer.do = "redirect" -> client[c].at
    [] OTHER                  -> answer.do

Arrived(c) == client[c].at \notin OurHosts

\* No later router looks at the query.
Ask(c) ==
  /\ ~Arrived(c)
  /\ LET answer == Answer(c) IN
     client' = [client EXCEPT ![c] = [at |-> After(c, answer), path |-> answer.path,
                                      query |-> FALSE, hops |-> @.hops + 1]]
  /\ UNCHANGED start

Next == \E c \in Clients : Ask(c)

Spec == Init /\ [][Next]_vars

-----------------------------------------------------------------------------
(* What is published, and at which URLs: [host, path, bucket, key].        *)

OnCrates(host, path, key) == [host |-> host, path |-> path, bucket |-> "crates-io", key |-> key]

\* The URLs of a version of a crate: cargo's, that of its readme, and the files'.
CrateUrls(k, v) ==
  { OnCrates("crates.io", << Text("api"), Text("v1"), Text("crates"), k, v, Text("download") >>,
             CrateFile(k, Encode(v))),
    OnCrates("crates.io", << Text("api"), Text("v1"), Text("crates"), k, v, Text("readme") >>,
             ReadmeFile(k, Encode(v))),
    OnCrates("static.crates.io", << Text("crates"), k, v, Text("download") >>, CrateFile(k, Encode(v))),
    OnCrates("static.crates.io", CrateFile(k, v), CrateFile(k, Encode(v))),
    OnCrates("static.crates.io", ReadmeFile(k, v), ReadmeFile(k, Encode(v))) }

\* The URLs of the database dumps and of the version downloads.
DataUrls ==
  {OnCrates("static.crates.io", p, VersionDownloadsIndex) :
     p \in {VersionDownloads, VersionDownloadsBare}}
  \union {OnCrates("static.crates.io", << Text(d) >>, << Text(d) >>) : d \in Dumps}

\* The short names of the installers, and the architecture of each.
InstallerNames ==
  { << Root, "i686-pc-windows-msvc" >>, << << Text("i686") >>, "i686-pc-windows-msvc" >>,
    << << Text("x86_64") >>, "x86_64-pc-windows-msvc" >>,
    << << Text("aarch64") >>, "aarch64-pc-windows-msvc" >> }

InstallerUrls ==
  {[host |-> "win.rustup.rs", path |-> n[1], bucket |-> "static-rust-lang-org",
    key |-> << Text("rustup"), Text("dist") >> \o Installer(n[2])] : n \in InstallerNames}

PageUrl(f, p) ==
  [host |-> "doc.rust-lang.org", path |-> p, bucket |-> "static-rust-lang-org", key |-> DocKey(f)]

Documented ==
  DataUrls \union InstallerUrls
    \union (UNION {CrateUrls(c.name, c.version) : c \in CrateVersions})
    \union (UNION {{PageUrl(f, p) : p \in Spellings[f]} : f \in DOMAIN Spellings})

\* What a path of today stands for: itself on a channel, at a version or as one of
\* the special files; any other path without a meaning of its own is one below the
\* stable channel.
OfCrate(p)   == \E c \in Crates : StartsWith(p, << c >>)
OnChannel(p) == \E c \in Channels : StartsWith(p, << c >>)
Renamed(p)   == \E r \in Renames : StartsWith(p, r.from)

Ordinary(p) ==
  /\ p \notin {Root, << Index >>} \union SpecialFiles
  /\ ~IsVersion(p, 3) /\ ~IsVersion(p, 2) /\ ~OfCrate(p) /\ ~Renamed(p)
  /\ ~StartsWith(p, << Master >>) /\ ~InOldDirectory(p) /\ ~OnChannel(p)

Serves(p, t) ==
  \/ t = p /\ (IsVersion(p, 3) \/ p \in SpecialFiles \/ (OnChannel(p) /\ ~Renamed(p)))
  \/ t = << Stable >> \o p /\ Ordinary(p)

\* One path is another with a new beginning.
Swapped(p, u, old, new) ==
  \E n \in 0..Len(p) : LET z == SubSeq(p, n + 1, Len(p)) IN p = old \o z /\ u = new \o z

\* No slashes in a row.
Tidy(p) == \A i \in 1..Len(p) - 1 : p[i] # Empty

\* An older path for a path: the root, or below /doc, on the channel by its old name,
\* at the minor version, at the book by one of its old names.
Older(p, u) ==
  \/ p \in {Root, << Index >>} /\ u = << Stable, Empty >>
  \/ p = << Doc >> \o u /\ Tidy(u)
  \/ Swapped(p, u, << Master >>, << Nightly >>)
  \/ IsVersion(p, 2) /\ u = WithPatch(p)
  \/ \E r \in Renames : Swapped(p, u, r.from, r.to)

DirOf(f)   == SubSeq(f, 1, Len(f) - 1)
IsIndex(f) == Len(f) > 1 /\ f[Len(f)] = Index

\* A path that stands for a page, or for the directory of which the page is the index.
Arrives(p, f) == Serves(p, f) \/ (f[Len(f)] = Index /\ Serves(p, DirOf(f) \o Root))

\* A path that leads to another: it is older, or lacks the slash of the directory.
LeadsTo(p, u, f) ==
  \/ Older(p, u)
  \/ LET dir == DirOf(f) IN
     /\ IsIndex(f) /\ dir[Len(dir)] # Empty /\ Serves(p, dir)
     /\ DocKey(dir) \notin Files["static-rust-lang-org"] /\ u = DocKey(dir) \o Root

\* Paths of which each stands for the page or leads to another of them.
AreSpellings(S, f) == \A p \in S : Arrives(p, f) \/ \E u \in S : LeadsTo(p, u, f)

\* Published are crates with the names and versions that crates.io knows, and pages
\* with a name, at paths that were documented for them.
ASSUME PublishedAssumption ==
  /\ \A c \in CrateVersions : /\ c.name \in Seq(STRING) /\ PlainName(c.name)
                              /\ c.version \in Seq(STRING) /\ PlainVersion(c.version)
  /\ \A f \in DOMAIN Spellings :
       /\ f \in Path \ {<< >>} /\ f[Len(f)] # Empty /\ DocKey(f) \in Files["static-rust-lang-org"]
       /\ Spellings[f] \subseteq Path \ {<< >>} /\ AreSpellings(Spellings[f], f)

-----------------------------------------------------------------------------
(* Properties.                                                             *)

\* How many requests a client may need.  On doc.rust-lang.org each /doc in front
\* costs one; then come an old name of the site's nightly channel, one of a book,
\* the missing slash with the directory's whole name, and the page.
Longest ==
  CASE start.host \in {"win.rustup.rs", "prev.rust-lang.org"} -> 1
    [] start.host \in {"static.crates.io", "crates.io"}       -> 3
    [] OTHER -> 5 + Cardinality({s \in DOMAIN start.path : start.path[s] = Doc})

\* Redirects end, across sites and through the redirects that S3 makes on its own:
\* no router's answer leads back, through any of the others, to where it came from.
RedirectsEnd ==
  \A c \in Clients : client[c].hops <= Longest /\ (client[c].hops = Longest => Arrived(c))

\* Where the routers are known to differ: the VCL of static.rust-lang.org matches
\* the query with the path, and /doc/master only with a slash; the Compute program
\* of static.crates.io finds the database dumps at the end of any URL.
KnownDifference ==
  \/ /\ start.host = "static.rust-lang.org"
     /\ \/ start.query /\ (IsDay(start.path) \/ start.path = RustupSh)
        \/ /\ StartsWith(start.path, DocMaster)
           /\ Len(start.path) = 2 \/ start.path[2] # Master
  \/ /\ start.host = "static.crates.io"
     /\ start.path \notin {<< Text(d) >> : d \in DumpOf(start.path)}
     /\ DumpOf(start.path) # {}

\* Both CDNs lead to the same object or the same other site, however a URL is spelled
\* and whether or not the object exists: the routers agree although they encode the
\* plus, match downloads and redirect dumps and documentation differently.
SameFileOnBothCdns ==
  /\ start.host \in OnBothCdns
  /\ \A c \in Cdns : Arrived(c)
  /\ ~KnownDifference
  => /\ client["fastly"].at = client["cloudfront"].at
     /\ client["fastly"].path = client["cloudfront"].path

\* A client that starts at a URL arrives where the object is.
Found(d) ==
  start.host = d.host /\ start.path = d.path =>
    \A c \in Clients : Arrived(c) => client[c].at = d.bucket /\ client[c].path = d.key

\* Everything published is found at each of its URLs, those of today and all older
\* ones: no branch of a router for old or special names hides a file, and what one
\* router redirects to is not rewritten once more by the next.
PublishedIsFound == \A d \in Documented : Found(d)

=============================================================================
