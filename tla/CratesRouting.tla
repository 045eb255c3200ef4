--------------------------- MODULE CratesRouting ---------------------------
(***************************************************************************)
(* How the edges of crates.io turn the path of a request into the key of   *)
(* an S3 object: the Fastly Compute program and the CloudFront function of *)
(* static.crates.io, and the VCL of the web application, which redirects   *)
(* downloads to static.crates.io.                                          *)
(***************************************************************************)
EXTENDS UrlPaths

VersionDownloads      == << Text("archive"), Text("version-downloads"), Empty >>
VersionDownloadsBare  == << Text("archive"), Text("version-downloads") >>
VersionDownloadsIndex == << Text("archive"), Text("version-downloads"), Text("index.html") >>

Dumps == {"db-dump.tar.gz", "db-dump.zip"}

\* `+` becomes `%2B`.
Encode(segment) == [i \in DOMAIN segment |-> IF segment[i] = "+" THEN "%2B" ELSE segment[i]]

HasPlus(path) == \E s \in DOMAIN path : \E i \in DOMAIN path[s] : path[s][i] = "+"

EncodePlus(path) == [s \in DOMAIN path |-> Encode(path[s])]

CrateFile(krate, version) ==
  << Text("crates"), krate, krate \o Text("-") \o version \o Text(".crate") >>

ReadmeFile(krate, version) ==
  << Text("readmes"), krate, krate \o Text("-") \o version \o Text(".html") >>

\* The other hosts an edge sends a client to.
ToCloudFront(path) == MovedTo("cloudfront-static.crates.io", path, 307)
ToStatic(path)     == MovedTo("static.crates.io", path, 302)
ToHeroku(path)     == MovedTo("heroku", path, 200)

-----------------------------------------------------------------------------
(* compute-static/src/main.rs.                                             *)

\* "/crates/{crate}/{version}/download", neither part empty nor with a slash.
IsDownload(path) ==
  /\ Len(path) = 4
  /\ path[1] = Text("crates")
  /\ path[2] # Empty
  /\ path[3] # Empty
  /\ path[4] = Text("download")

\* Mutant: whatever has a crate and a file below /crates/ is rewritten.
BugRewriteTwice(path) ==
  IF Len(path) = 3 /\ path[1] = Text("crates") THEN CrateFile(path[2], path[3])
  ELSE IF IsDownload(path) THEN CrateFile(path[2], path[3]) ELSE path

RewriteDownload(path) == IF IsDownload(path) THEN CrateFile(path[2], path[3]) ELSE path

RewriteVersionDownloads(path) ==
  IF path = VersionDownloads THEN VersionDownloadsIndex ELSE path

\* Mutant: the plus is encoded after the download URL is matched, and lost.
BugFastlyKeyNoPlus(path) == RewriteVersionDownloads(RewriteDownload(path))

\* The three rewrites, in the order of handle_request.
FastlyKey(path) == RewriteVersionDownloads(RewriteDownload(EncodePlus(path)))

\* The dump whose name ends the rewritten URL, if any.
DumpOf(path) ==
  {d \in Dumps : path # <<>> /\ Ends(path[Len(path)], d)}

\* Mutant: the path with the slash is redirected as well.
BugRedirectToItself(path) ==
  IF path \in {VersionDownloads, VersionDownloadsBare} THEN Moved(VersionDownloads, 308)
  ELSE Fetch(FastlyKey(path))

FastlyRoute(path) ==
  IF path = VersionDownloadsBare THEN Moved(VersionDownloads, 308)
  ELSE LET key == FastlyKey(path) IN
    IF DumpOf(key) # {}
    THEN ToCloudFront(<< Text(CHOOSE d \in DumpOf(key) : TRUE) >>)
    ELSE Fetch(key)

-----------------------------------------------------------------------------
(* cloudfront-functions/static-router.js.                                  *)

MatchDownload(path) ==
  IF /\ Len(path) = 4
     /\ path[1] = Text("crates") /\ path[4] = Text("download")
     /\ \A s \in {2, 3} : Len(path[s]) > 0
  THEN CrateFile(path[2], path[3])
  ELSE path

CloudFrontRoute(path) ==
  IF HasPlus(path) THEN Fetch(MatchDownload(EncodePlus(path)))
  ELSE IF path = VersionDownloads THEN Fetch(VersionDownloadsIndex)
  ELSE IF path = VersionDownloadsBare THEN Moved(VersionDownloads, 301)
  ELSE Fetch(MatchDownload(path))

-----------------------------------------------------------------------------
(* vcl/static-redirect-recv.vcl and static-redirect-error.vcl.tftpl.       *)

\* The name and version patterns leave out what has to be escaped in a URL.
PlainName(segment)    == segment # Empty /\ \A i \in DOMAIN segment : segment[i] \notin {"+", "%2B"}
PlainVersion(segment) == segment # Empty /\ \A i \in DOMAIN segment : segment[i] # "%2B"

IsApiFile(path) ==
  /\ Len(path) = 6
  /\ SubSeq(path, 1, 3) = << Text("api"), Text("v1"), Text("crates") >>
  /\ PlainName(path[4])
  /\ PlainVersion(path[5])
  /\ path[6] \in {Text("download"), Text("readme")}

WebappRoute(path) ==
  IF ~IsApiFile(path) THEN ToHeroku(path)
  ELSE LET version == Encode(path[5]) IN
    IF path[6] = Text("download")
    THEN ToStatic(CrateFile(path[4], version))
    ELSE ToStatic(ReadmeFile(path[4], version))

=============================================================================
