--------------------------- MODULE Redirects_proofs ---------------------------
(***************************************************************************)
(* Redirects end, both CDNs lead to the same place, and what is published  *)
(* is found: for any URL of our sites, with any path, and whatever files   *)
(* are in the buckets.                                                     *)
(*                                                                         *)
(* That redirects end needs a rank that each answer lowers: the number of  *)
(* requests that are left, which on the documentation depends on the       *)
(* number of /doc segments, on the book or channel that is named, and on   *)
(* the missing slash.  That the CDNs agree follows for crates.io from the  *)
(* place a path leads to, which no answer changes, and for the releases    *)
(* from one trail that both clients are on.  A file of a crate is found    *)
(* because it is that place; a page of the documentation because each      *)
(* answer for a spelling of it is the page or another spelling.            *)
(***************************************************************************)
EXTENDS Redirects, SequenceTheorems, FiniteSetTheorems, TLAPS

-----------------------------------------------------------------------------
(* The routers of crates.io.                                               *)

\* What the routers write out.  (No prover knows of a literal that it is in STRING.)
Literals ==
  {"%2B", "archive", "version-downloads", "index.html", "crates", "readmes", "-", ".crate", ".html",
   "db-dump.tar.gz", "db-dump.zip", "stable", "nightly", "doc", "master", "book", "nomicon", "trpl",
   "adv-book", "rustonomicon", "rustinomicon", ".", "0",
   "list-files.html", "rustup", "dist", "rustup-init.exe", "i686-pc-windows-msvc",
   "x86_64-pc-windows-msvc", "aarch64-pc-windows-msvc"}

\* A path of a URL has a segment, which may be empty.
Segments == Seq(STRING \union Literals)
Paths    == Seq(Segments) \ {<< >>}

\* The paths clients ask for are such.
LEMMA PathsAreTyped ==
  Path \ {<< >>} \subseteq Paths
PROOF
<1>1. Seq(STRING) \subseteq Segments
  BY SeqMonotonic DEF Segments
<1>2. Seq(Seq(STRING)) \subseteq Seq(Segments)
  BY <1>1, SeqMonotonic
<1> QED BY <1>2 DEF Path, Paths

\* What a path is made of.
LEMMA PathIs ==
  ASSUME NEW p \in Paths
  PROVE  /\ p \in Seq(Segments) /\ Len(p) \in Nat \ {0} /\ DOMAIN p = 1..Len(p)
         /\ \A i \in 1..Len(p) : p[i] \in Segments
         /\ 1 \in 1..Len(p) /\ Len(p) \in 1..Len(p)
PROOF
<1>1. p \in Seq(Segments) /\ Len(p) \in Nat /\ Len(p) # 0 /\ DOMAIN p = 1..Len(p)
  BY DEF Paths
<1> QED BY <1>1

\* What a segment is made of.
LEMMA SegmentIs ==
  ASSUME NEW s \in Segments
  PROVE  /\ Len(s) \in Nat /\ DOMAIN s = 1..Len(s)
         /\ \A i \in 1..Len(s) : s[i] \in STRING \union Literals
         /\ s = Empty <=> Len(s) = 0
PROOF
  BY DEF Segments, Empty

\* Paths that are written out.
LEMMA WrittenPaths ==
  /\ \A a \in Literals : Text(a) \in Segments
  /\ Empty \in Segments
  /\ \A s \in Segments : << s >> \in Paths
  /\ \A s, t \in Segments : s \o t \in Segments /\ << s, t >> \in Paths
  /\ \A s, t, u \in Segments : << s, t, u >> \in Paths
  /\ \A p \in Paths, r \in Seq(Segments) : p \o r \in Paths /\ r \o p \in Paths
PROOF
<1>1. \A a \in Literals : Text(a) \in Segments
  BY DEF Text, Segments
<1>2. Empty \in Segments
  BY DEF Empty, Segments
<1>3. \A s \in Segments : << s >> \in Paths
  BY DEF Paths
<1>4. \A s, t \in Segments : s \o t \in Segments
  BY DEF Segments
<1>5. \A s, t \in Segments : << s, t >> \in Paths
  BY DEF Paths
<1>6. \A s, t, u \in Segments : << s, t, u >> \in Paths
  BY DEF Paths
<1>7. ASSUME NEW p \in Paths, NEW r \in Seq(Segments)
      PROVE  p \o r \in Paths /\ r \o p \in Paths
  <2>1. /\ p \in Seq(Segments) /\ Len(p) \in Nat \ {0} /\ Len(r) \in Nat
        /\ p \o r \in Seq(Segments) /\ Len(p \o r) = Len(p) + Len(r)
        /\ r \o p \in Seq(Segments) /\ Len(r \o p) = Len(r) + Len(p)
    BY PathIs, ConcatProperties
  <2>2. Len(p \o r) # 0 /\ Len(r \o p) # 0
    BY <2>1
  <2> QED BY <2>1, <2>2 DEF Paths
<1> QED BY <1>1, <1>2, <1>3, <1>4, <1>5, <1>6, <1>7

\* Encoding keeps the atoms that are no plus, and leaves none.
LEMMA EncodeIs ==
  ASSUME NEW s \in Segments
  PROVE  /\ Encode(s) \in Segments /\ Len(Encode(s)) = Len(s)
         /\ \A i \in 1..Len(s) : Encode(s)[i] = IF s[i] = "+" THEN "%2B" ELSE s[i]
PROOF
<1>1. Len(s) \in Nat /\ DOMAIN s = 1..Len(s) /\ \A i \in 1..Len(s) : s[i] \in STRING \union Literals
  BY SegmentIs
<1>2. Encode(s) = [i \in 1..Len(s) |-> IF s[i] = "+" THEN "%2B" ELSE s[i]]
  BY <1>1 DEF Encode
<1>3. "%2B" \in Literals
  BY DEF Literals
<1>4. Encode(s) \in [1..Len(s) -> STRING \union Literals]
  BY <1>1, <1>2, <1>3
<1> QED BY <1>1, <1>2, <1>4 DEF Segments

\* And so in each segment of a path.
LEMMA EncodePlusIs ==
  ASSUME NEW p \in Paths
  PROVE  /\ EncodePlus(p) \in Paths /\ Len(EncodePlus(p)) = Len(p)
         /\ \A i \in 1..Len(p) : EncodePlus(p)[i] = Encode(p[i])
PROOF
<1>1. Len(p) \in Nat \ {0} /\ DOMAIN p = 1..Len(p) /\ \A i \in 1..Len(p) : p[i] \in Segments
  BY PathIs
<1>2. EncodePlus(p) = [i \in 1..Len(p) |-> Encode(p[i])]
  BY <1>1 DEF EncodePlus
<1>3. \A i \in 1..Len(p) : Encode(p[i]) \in Segments
  BY <1>1, EncodeIs
<1>4. EncodePlus(p) \in Seq(Segments) /\ Len(EncodePlus(p)) = Len(p)
  BY <1>1, <1>2, <1>3
<1>5. EncodePlus(p) # << >>
  BY <1>1, <1>4
<1> QED BY <1>1, <1>2, <1>4, <1>5 DEF Paths

\* What has no plus is not changed.
LEMMA NoPlusStays ==
  /\ \A s \in Segments : (\A i \in 1..Len(s) : s[i] # "+") => Encode(s) = s
  /\ \A p \in Paths : ~HasPlus(p) => EncodePlus(p) = p
PROOF
<1>1. ASSUME NEW s \in Segments, \A i \in 1..Len(s) : s[i] # "+"
      PROVE  Encode(s) = s
  <2>1. Encode(s) \in Segments /\ Len(Encode(s)) = Len(s) /\ \A i \in 1..Len(s) : Encode(s)[i] = s[i]
    BY <1>1, EncodeIs
  <2> QED BY <2>1, SeqEqual DEF Segments
<1>2. ASSUME NEW p \in Paths, ~HasPlus(p)
      PROVE  EncodePlus(p) = p
  <2>1. /\ EncodePlus(p) \in Paths /\ Len(EncodePlus(p)) = Len(p)
        /\ \A i \in 1..Len(p) : EncodePlus(p)[i] = Encode(p[i])
    BY EncodePlusIs
  <2>2. ASSUME NEW i \in 1..Len(p)
        PROVE  Encode(p[i]) = p[i]
    <3>1. p[i] \in Segments /\ i \in DOMAIN p
      BY PathIs
    <3>2. \A j \in 1..Len(p[i]) : p[i][j] # "+"
      BY <1>2, <3>1, SegmentIs DEF HasPlus
    <3> QED BY <1>1, <3>1, <3>2
  <2> QED BY <2>1, <2>2, SeqEqual DEF Paths
<1> QED BY <1>1, <1>2

\* The atom a path ends with, if its last segment has one.
LEMMA EncodeKeepsDumps ==
  ASSUME NEW p \in Paths
  PROVE  DumpOf(EncodePlus(p)) = DumpOf(p)
PROOF
<1> DEFINE s == p[Len(p)]
<1>1. Len(p) \in 1..Len(p) /\ s \in Segments /\ p # << >>
  BY PathIs DEF Paths
<1>2. EncodePlus(p) # << >> /\ EncodePlus(p)[Len(EncodePlus(p))] = Encode(s)
  BY <1>1, EncodePlusIs DEF Paths
<1>3. /\ Encode(s) \in Segments /\ Len(Encode(s)) = Len(s) /\ Len(s) \in Nat
      /\ \A i \in 1..Len(s) : Encode(s)[i] = IF s[i] = "+" THEN "%2B" ELSE s[i]
  BY <1>1, EncodeIs, SegmentIs
<1>4. (s = Empty <=> Len(s) = 0) /\ (Encode(s) = Empty <=> Len(s) = 0)
  BY <1>1, <1>3, SegmentIs
<1>5. ASSUME NEW d \in Dumps
      PROVE  Ends(Encode(s), d) <=> Ends(s, d)
  <2>1. d # "+" /\ d # "%2B"
    BY DEF Dumps
  <2>2. Len(s) # 0 => Len(s) \in 1..Len(s)
    BY <1>3
  <2> HIDE DEF s
  <2> QED BY <1>3, <1>4, <2>1, <2>2 DEF Ends
<1> QED BY <1>1, <1>2, <1>5 DEF DumpOf

\* A segment with a written atom behind ends with that.
LEMMA LastAtom ==
  ASSUME NEW s \in Segments, NEW z \in Literals
  PROVE  s \o << z >> # Empty /\ (s \o << z >>)[Len(s \o << z >>)] = z
PROOF
<1>1. s \in Seq(STRING \union Literals) /\ << z >> \in Seq(STRING \union Literals) /\ Len(<< z >>) = 1
  BY DEF Segments
<1>2. Len(s) \in Nat /\ Len(s \o << z >>) = Len(s) + 1
  BY <1>1
<1>3. (s \o << z >>)[Len(s) + 1] = << z >>[1]
  BY <1>1, <1>2
<1> QED BY <1>1, <1>2, <1>3 DEF Empty

\* Where the file of a crate or its readme is.
LEMMA CrateFileIs ==
  ASSUME NEW k \in Segments, NEW v \in Segments, NEW p \in {CrateFile(k, v), ReadmeFile(k, v)}
  PROVE  p \in Paths /\ Len(p) = 3 /\ p[3] # Empty /\ DumpOf(p) = {}
PROOF
<1>1. PICK a \in {"crates", "readmes"}, z \in {".crate", ".html"} :
        p = << Text(a), k, k \o Text("-") \o v \o Text(z) >>
  BY DEF CrateFile, ReadmeFile
<1>2. /\ Text(a) \in Segments /\ Text("-") \in Segments /\ Text(z) \in Segments
      /\ z \in Literals /\ \A d \in Dumps : z # d
  BY WrittenPaths DEF Literals, Dumps
<1>3. PICK w \in Segments : p = << Text(a), k, w \o << z >> >> /\ w \o << z >> \in Segments
  <2>1. k \o Text("-") \o v \in Segments
    BY <1>2, WrittenPaths
  <2>2. (k \o Text("-") \o v) \o << z >> \in Segments
    BY <1>2, <2>1, WrittenPaths DEF Text
  <2> QED BY <1>1, <2>1, <2>2 DEF Text
<1>4. p \in Paths /\ Len(p) = 3 /\ p # << >> /\ p[3] = w \o << z >>
  BY <1>2, <1>3, WrittenPaths
<1>5. w \o << z >> # Empty /\ (w \o << z >>)[Len(w \o << z >>)] = z
  BY <1>2, <1>3, LastAtom
<1> QED BY <1>2, <1>4, <1>5 DEF DumpOf, Ends

\* Both programs match the same downloads; no rewrite makes or removes the name of
\* a dump, or makes a path that the next rewrite is for.
LEMMA DownloadsAgree ==
  ASSUME NEW p \in Paths
  PROVE  /\ RewriteDownload(p) \in Paths /\ MatchDownload(p) = RewriteDownload(p)
         /\ RewriteDownload(p) = VersionDownloads <=> p = VersionDownloads
         /\ DumpOf(RewriteDownload(p)) = DumpOf(p)
PROOF
<1>1. IsDownload(p) <=> /\ Len(p) = 4
                        /\ p[1] = Text("crates") /\ p[4] = Text("download")
                        /\ \A s \in {2, 3} : Len(p[s]) > 0
  <2>1. Len(p) = 4 => \A s \in {2, 3} : /\ p[s] \in Segments /\ Len(p[s]) \in Nat
                                        /\ p[s] = Empty <=> Len(p[s]) = 0
    <3>1. ASSUME Len(p) = 4, NEW s \in {2, 3}
          PROVE  p[s] \in Segments
      BY <3>1, PathIs
    <3> QED BY <3>1, SegmentIs
  <2> QED BY <2>1 DEF IsDownload
<1>2. CASE ~IsDownload(p)
  BY <1>1, <1>2 DEF RewriteDownload, MatchDownload
<1>3. CASE IsDownload(p)
  <2>1. Len(p) = 4 /\ p[2] \in Segments /\ p[3] \in Segments /\ p[4] = Text("download") /\ p # << >>
    BY <1>3, PathIs DEF IsDownload, Paths
  <2>2. RewriteDownload(p) = CrateFile(p[2], p[3]) /\ MatchDownload(p) = CrateFile(p[2], p[3])
    BY <1>1, <1>3 DEF RewriteDownload, MatchDownload
  <2>3. /\ CrateFile(p[2], p[3]) \in Paths /\ DumpOf(CrateFile(p[2], p[3])) = {}
        /\ CrateFile(p[2], p[3])[3] # Empty
    BY <2>1, CrateFileIs
  <2>4. DumpOf(p) = {}
    BY <2>1 DEF DumpOf, Ends, Dumps, Text
  <2>5. VersionDownloads[3] = Empty /\ Len(VersionDownloads) = 3
    BY DEF VersionDownloads
  <2>6. CrateFile(p[2], p[3])[3] # VersionDownloads[3] /\ Len(p) # Len(VersionDownloads)
    BY <2>1, <2>3, <2>5
  <2> QED BY <2>2, <2>3, <2>4, <2>6
<1> QED BY <1>2, <1>3

\* The three names of the version downloads, of which only the first encodes to itself.
LEMMA VersionDownloadsHasNoPlus ==
  /\ VersionDownloads \in Paths /\ VersionDownloadsBare \in Paths /\ VersionDownloadsIndex \in Paths
  /\ ~HasPlus(VersionDownloads) /\ ~HasPlus(VersionDownloadsBare)
  /\ DumpOf(VersionDownloads) = {} /\ DumpOf(VersionDownloadsIndex) = {}
  /\ VersionDownloads # VersionDownloadsBare
  /\ \A p \in Paths : EncodePlus(p) = VersionDownloads => p = VersionDownloads
PROOF
<1>1. /\ VersionDownloads \in Paths /\ VersionDownloadsBare \in Paths /\ VersionDownloadsIndex \in Paths
  BY WrittenPaths DEF VersionDownloads, VersionDownloadsBare, VersionDownloadsIndex, Literals
<1>2. ~HasPlus(VersionDownloads)
  BY DEF VersionDownloads, HasPlus, Text, Empty
<1>3. ~HasPlus(VersionDownloadsBare)
  BY DEF VersionDownloadsBare, HasPlus, Text
<1>4. DumpOf(VersionDownloads) = {} /\ DumpOf(VersionDownloadsIndex) = {}
  BY DEF VersionDownloads, VersionDownloadsIndex, DumpOf, Ends, Dumps, Text, Empty
<1>5. VersionDownloads # VersionDownloadsBare
  BY DEF VersionDownloads, VersionDownloadsBare
<1>6. ASSUME NEW p \in Paths, EncodePlus(p) = VersionDownloads
      PROVE  p = VersionDownloads
  <2>1. /\ Len(p) = 3 /\ \A i \in 1..3 : p[i] \in Segments
        /\ \A i \in 1..3 : VersionDownloads[i] = Encode(p[i])
    BY <1>6, EncodePlusIs, PathIs DEF VersionDownloads
  <2>2. ASSUME NEW i \in 1..3
        PROVE  p[i] = VersionDownloads[i]
    <3>1. /\ p[i] \in Segments /\ Len(p[i]) = Len(VersionDownloads[i])
          /\ \A j \in 1..Len(p[i]) : VersionDownloads[i][j] = IF p[i][j] = "+" THEN "%2B" ELSE p[i][j]
      BY <2>1, EncodeIs
    <3>2. \A j \in 1..Len(VersionDownloads[i]) : VersionDownloads[i][j] # "%2B"
      BY DEF VersionDownloads, Text, Empty
    <3>3. VersionDownloads[i] \in Segments
      BY <1>1, PathIs DEF VersionDownloads
    <3> QED BY <3>1, <3>2, <3>3, SeqEqual DEF Segments
  <2> QED BY <1>1, <2>1, <2>2, SeqEqual DEF Paths, VersionDownloads
<1> QED BY <1>1, <1>2, <1>3, <1>4, <1>5, <1>6

\* The two routers of static.crates.io differ in where they find a dump, no more.
LEMMA StaticRoutersAre ==
  ASSUME NEW p \in Paths
  PROVE  /\ FastlyKey(p) \in Paths
         /\ FastlyRoute(p) =
              IF p = VersionDownloadsBare THEN Moved(VersionDownloads, 308)
              ELSE IF DumpOf(p) # {} THEN ToCloudFront(<< Text(CHOOSE d \in DumpOf(p) : TRUE) >>)
              ELSE Fetch(FastlyKey(p))
         /\ CloudFrontRoute(p) =
              IF p = VersionDownloadsBare THEN Moved(VersionDownloads, 301) ELSE Fetch(FastlyKey(p))
PROOF
<1> DEFINE e == EncodePlus(p)
           d == RewriteDownload(e)
<1>1. /\ e \in Paths /\ DumpOf(e) = DumpOf(p) /\ (~HasPlus(p) => e = p)
      /\ d \in Paths /\ MatchDownload(e) = d
      /\ (d = VersionDownloads <=> e = VersionDownloads) /\ DumpOf(d) = DumpOf(p)
  <2>1. e \in Paths /\ DumpOf(e) = DumpOf(p) /\ (~HasPlus(p) => e = p)
    BY EncodePlusIs, EncodeKeepsDumps, NoPlusStays
  <2> QED BY <2>1, DownloadsAgree
<1>2. FastlyKey(p) = IF d = VersionDownloads THEN VersionDownloadsIndex ELSE d
  BY DEF FastlyKey, RewriteVersionDownloads
<1>3. e = VersionDownloads <=> p = VersionDownloads
  BY <1>1, VersionDownloadsHasNoPlus
<1>4. FastlyKey(p) \in Paths /\ DumpOf(FastlyKey(p)) = DumpOf(p)
  BY <1>1, <1>2, <1>3, VersionDownloadsHasNoPlus
<1>5. ASSUME p # VersionDownloadsBare
      PROVE  CloudFrontRoute(p) = Fetch(FastlyKey(p))
  <2>1. CASE HasPlus(p)
    <3>1. p # VersionDownloads
      BY <2>1, VersionDownloadsHasNoPlus
    <3> QED BY <1>1, <1>2, <1>3, <2>1, <3>1 DEF CloudFrontRoute
  <2>2. CASE ~HasPlus(p)
    BY <1>1, <1>2, <1>3, <1>5, <2>2 DEF CloudFrontRoute
  <2> QED BY <2>1, <2>2
<1>6. p = VersionDownloadsBare => CloudFrontRoute(p) = Moved(VersionDownloads, 301)
  BY VersionDownloadsHasNoPlus DEF CloudFrontRoute
<1>7. FastlyRoute(p) =
              IF p = VersionDownloadsBare THEN Moved(VersionDownloads, 308)
              ELSE IF DumpOf(p) # {} THEN ToCloudFront(<< Text(CHOOSE x \in DumpOf(p) : TRUE) >>)
              ELSE Fetch(FastlyKey(p))
  BY <1>4 DEF FastlyRoute
<1> QED BY <1>4, <1>5, <1>6, <1>7

\* A dump itself is fetched under its own name.
LEMMA DumpIsItsKey ==
  ASSUME NEW d \in Dumps
  PROVE  /\ << Text(d) >> \in Paths /\ DumpOf(<< Text(d) >>) = {d}
         /\ << Text(d) >> # VersionDownloadsBare
         /\ FastlyKey(<< Text(d) >>) = << Text(d) >>
PROOF
<1>1. << Text(d) >> \in Paths
  BY WrittenPaths DEF Literals, Dumps
<1>2. DumpOf(<< Text(d) >>) = {d}
  BY DEF DumpOf, Ends, Text, Empty
<1>3. ~HasPlus(<< Text(d) >>)
  BY DEF HasPlus, Text, Dumps
<1>4. << Text(d) >> # VersionDownloadsBare /\ << Text(d) >> # VersionDownloads
  BY DEF VersionDownloads, VersionDownloadsBare
<1>5. EncodePlus(<< Text(d) >>) = << Text(d) >>
  BY <1>1, <1>3, NoPlusStays
<1>6. ~IsDownload(<< Text(d) >>)
  BY DEF IsDownload
<1> QED BY <1>1, <1>2, <1>4, <1>5, <1>6 DEF FastlyKey, RewriteDownload, RewriteVersionDownloads

DocsIn(p) == {s \in DOMAIN p : p[s] = Doc}
Docs(p)   == Cardinality(DocsIn(p))

\* A path has finitely many segments that are /doc.
LEMMA DocsIsNat ==
  ASSUME NEW p \in Paths
  PROVE  IsFiniteSet(DocsIn(p)) /\ Docs(p) \in Nat
PROOF
<1>1. IsFiniteSet(1..Len(p)) /\ DocsIn(p) \subseteq 1..Len(p)
  <2>1. Len(p) \in Int /\ DOMAIN p = 1..Len(p)
    BY PathIs
  <2> QED BY <2>1, FS_Interval DEF DocsIn
<1>2. IsFiniteSet(DocsIn(p))
  BY <1>1, FS_Subset
<1> QED BY <1>2, FS_CardinalityType DEF Docs

\* A path that has each of its /doc one segment further in another, which begins
\* with one more.
LEMMA OneDocLess ==
  ASSUME NEW p \in Paths, NEW t \in Paths, p[1] = Doc,
         \A i \in 1..Len(t) : t[i] = Doc => i + 1 \in 1..Len(p) /\ p[i + 1] = Doc
  PROVE  Docs(t) + 1 <= Docs(p)
PROOF
<1> DEFINE next == [i \in DocsIn(t) |-> i + 1]
<1>1. 1 \in DocsIn(p) /\ DocsIn(t) \subseteq Nat \ {0}
  BY PathIs DEF DocsIn
<1>2. next \in [DocsIn(t) -> DocsIn(p) \ {1}]
  BY <1>1, PathIs DEF DocsIn
<1>3. next \in Injection(DocsIn(t), DocsIn(p) \ {1})
  BY <1>1, <1>2 DEF Injection, IsInjective
<1>4. /\ IsFiniteSet(DocsIn(p) \ {1}) /\ Cardinality(DocsIn(p) \ {1}) = Docs(p) - 1
  BY <1>1, DocsIsNat, FS_RemoveElement DEF Docs
<1>5. Docs(t) <= Docs(p) - 1
  BY <1>3, <1>4, FS_Injection DEF Docs
<1> QED BY <1>5, DocsIsNat

\* One slash is left of several in a row, and one at the end: the other segments
\* are those of the path, in their order.
LEMMA CollapseIs ==
  ASSUME NEW p \in Paths
  PROVE  /\ Collapse(p) \in Paths
         /\ Collapse(p)[Len(Collapse(p))] = p[Len(p)]
         /\ Docs(Collapse(p)) <= Docs(p)
         /\ p[1] # Empty => Collapse(p)[1] = p[1]
         /\ p[1] # Empty /\ Len(p) > 1 => Len(Collapse(p)) > 1
         /\ Len(p) > 1 /\ p[1] # Empty /\ p[2] # Empty => Collapse(p)[2] = p[2]
PROOF
<1> DEFINE kept     == {s \in DOMAIN p : p[s] # Empty \/ s = Len(p)}
           below(s) == {r \in kept : r <= s}
           rank     == [s \in kept |-> Cardinality(below(s))]
           m        == Cardinality(kept)
           nth(i)   == CHOOSE s \in kept : Cardinality(below(s)) = i
           t        == Collapse(p)
<1>1. /\ kept \subseteq 1..Len(p) /\ Len(p) \in kept /\ Len(p) \in Nat \ {0}
      /\ IsFiniteSet(kept) /\ m \in Nat
      /\ \A s \in kept : s \in Nat /\ 1 <= s /\ s <= Len(p)
  <2>1. kept \subseteq 1..Len(p) /\ Len(p) \in kept /\ Len(p) \in Nat \ {0}
    BY PathIs
  <2>2. IsFiniteSet(kept)
    BY <2>1, FS_Interval, FS_Subset
  <2>3. \A s \in kept : s \in Nat /\ 1 <= s /\ s <= Len(p)
    BY PathIs
  <2> HIDE DEF kept
  <2> QED BY <2>1, <2>2, <2>3, FS_CardinalityType
<1>2. t = [i \in 1..m |-> p[nth(i)]]
  BY DEF Collapse
<1>3. (p[1] # Empty => 1 \in kept) /\ (Len(p) > 1 /\ p[2] # Empty => 2 \in kept)
  BY PathIs
<1>4. \A s \in kept : s \in DOMAIN p /\ p[s] \in Segments
  BY PathIs
<1> HIDE DEF kept, t
<1>5. ASSUME NEW s \in kept
      PROVE  /\ s \in below(s) /\ below(s) \subseteq kept /\ IsFiniteSet(below(s))
             /\ rank[s] = Cardinality(below(s)) /\ rank[s] \in 1..m
             /\ rank[s] \in Nat /\ m # 0
  <2>1. s \in below(s) /\ below(s) \subseteq kept
    BY <1>1
  <2>2. IsFiniteSet(below(s)) /\ Cardinality(below(s)) <= m
    BY <1>1, <2>1, FS_Subset
  <2>3. Cardinality(below(s)) \in Nat /\ Cardinality(below(s)) # 0
    BY <2>1, <2>2, FS_CardinalityType, FS_EmptySet
  <2> QED BY <1>1, <2>1, <2>2, <2>3
<1>6. ASSUME NEW r \in kept, NEW s \in kept, r < s
      PROVE  rank[r] < rank[s]
  <2>1. below(r) \subseteq below(s) /\ s \notin below(r) /\ s \in below(s)
    <3>1. r \in Nat /\ s \in Nat /\ r <= s /\ ~(s <= r)
      BY <1>1, <1>6
    <3>2. \A q \in kept : q \in Nat /\ (q <= r => q <= s)
      BY <1>1, <3>1
    <3>3. below(r) \subseteq below(s)
      BY <3>2
    <3>4. s \notin below(r) /\ s \in below(s)
      BY <3>1
    <3> QED BY <3>3, <3>4
  <2>2. Cardinality(below(r)) <= Cardinality(below(s)) /\ Cardinality(below(r)) # Cardinality(below(s))
    BY <1>5, <2>1, FS_Subset
  <2>3. /\ rank[r] = Cardinality(below(r)) /\ rank[s] = Cardinality(below(s))
        /\ rank[r] \in Nat /\ rank[s] \in Nat
    BY <1>5
  <2> HIDE DEF rank, below
  <2> QED BY <2>2, <2>3
<1>7. rank \in Injection(kept, 1..m)
  <2>1. rank \in [kept -> 1..m]
    BY <1>5
  <2>2. ASSUME NEW r \in kept, NEW s \in kept, rank[r] = rank[s]
        PROVE  r = s
    <3>1. rank[r] \in Nat /\ r \in Nat /\ s \in Nat
      BY <1>1, <1>5
    <3> HIDE DEF rank
    <3> QED BY <1>6, <2>2, <3>1
  <2> HIDE DEF rank
  <2> QED BY <2>1, <2>2 DEF Injection, IsInjective
<1>8. rank \in Surjection(kept, 1..m)
  <2>1. IsFiniteSet(1..m) /\ Cardinality(1..m) = m
    BY <1>1, FS_Interval
  <2> HIDE DEF rank
  <2> QED BY <1>7, <2>1, FS_Injection
<1>9. ASSUME NEW i \in 1..m
      PROVE  nth(i) \in kept /\ rank[nth(i)] = i
  <2>1. \E s \in kept : Cardinality(below(s)) = i
    <3>1. \E s \in kept : rank[s] = i
      BY <1>8 DEF Surjection
    <3> QED BY <1>5, <3>1
  <2>2. nth(i) \in kept /\ Cardinality(below(nth(i))) = i
    BY <2>1
  <2> QED BY <1>5, <2>2
<1>10. ASSUME NEW s \in kept
       PROVE  rank[s] \in 1..m /\ t[rank[s]] = p[s]
  <2>1. rank[s] \in 1..m /\ nth(rank[s]) \in kept /\ rank[nth(rank[s])] = rank[s]
    BY <1>5, <1>9
  <2>2. nth(rank[s]) = s
    BY <1>7, <2>1 DEF Injection, IsInjective
  <2> QED BY <1>2, <2>1, <2>2
<1>11. t \in Paths /\ Len(t) = m
  <2>1. m # 0
    BY <1>1, <1>5
  <2>2. \A i \in 1..m : p[nth(i)] \in Segments
    BY <1>4, <1>9
  <2>3. t \in [1..m -> Segments]
    BY <1>2, <2>2
  <2>4. t \in Seq(Segments) /\ Len(t) = m
    BY <1>1, <2>3
  <2> QED BY <2>1, <2>4 DEF Paths
<1>12. rank[Len(p)] = m
  <2>1. below(Len(p)) = kept
    BY <1>1
  <2> QED BY <1>1, <1>5, <2>1
<1>13. 1 \in kept => rank[1] = 1
  <2>1. 1 \in kept => below(1) = {1}
    <3>1. \A q \in kept : q <= 1 <=> q = 1
      BY <1>1
    <3> QED BY <3>1
  <2> QED BY <1>5, <2>1, FS_Singleton
<1>14. 1 \in kept /\ 2 \in kept => rank[2] = 2
  <2>1. 1 \in kept /\ 2 \in kept => below(2) = {1} \union {2}
    <3>1. \A q \in kept : q <= 2 <=> q = 1 \/ q = 2
      BY <1>1
    <3> QED BY <3>1
  <2>2. \A x : IsFiniteSet({x}) /\ Cardinality({x}) = 1
    BY FS_Singleton
  <2>3. Cardinality({1} \union {2}) = 2
    <3>1. IsFiniteSet({1}) /\ Cardinality({1}) = 1 /\ 2 \notin {1}
      BY <2>2
    <3> QED BY <3>1, FS_AddElement
  <2> QED BY <1>5, <2>1, <2>3
<1>15. Docs(t) <= Docs(p)
  <2> DEFINE from == [i \in DocsIn(t) |-> nth(i)]
  <2>1. DocsIn(t) \subseteq 1..m
    BY <1>2 DEF DocsIn
  <2>2. \A i \in DocsIn(t) : nth(i) \in DocsIn(p)
    BY <1>2, <1>4, <1>9, <2>1 DEF DocsIn
  <2>3. \A i, j \in DocsIn(t) : nth(i) = nth(j) => i = j
    BY <1>9, <2>1
  <2>4. from \in Injection(DocsIn(t), DocsIn(p))
    BY <2>2, <2>3 DEF Injection, IsInjective
  <2> HIDE DEF from
  <2> QED BY <2>4, DocsIsNat, FS_Injection DEF Docs
<1>16. t[Len(t)] = p[Len(p)]
  BY <1>1, <1>10, <1>11, <1>12
<1>17. p[1] # Empty => t[1] = p[1]
  BY <1>3, <1>10, <1>13
<1>18. p[1] # Empty /\ Len(p) > 1 => Len(t) > 1
  BY <1>1, <1>3, <1>6, <1>11, <1>12, <1>13
<1>19. Len(p) > 1 /\ p[1] # Empty /\ p[2] # Empty => t[2] = p[2]
  BY <1>3, <1>10, <1>14
<1> QED BY <1>11, <1>15, <1>16, <1>17, <1>18, <1>19 DEF t

\* The prefixes of the routers: one or two segments of one atom each.
LEMMA PrefixIs ==
  ASSUME NEW p \in Paths, NEW a, NEW b
  PROVE  /\ StartsWith(p, << Text(a) >>) <=> p[1] # Empty /\ p[1][1] = a
         /\ StartsWith(p, << Text(a), Text(b) >>) <=>
              Len(p) > 1 /\ p[1] = Text(a) /\ p[2] # Empty /\ p[2][1] = b
PROOF
<1>1. /\ Len(p) \in Nat \ {0} /\ \A i \in 1..Len(p) : p[i] \in Segments
      /\ p[1] \in Segments /\ (Len(p) > 1 => p[2] \in Segments)
  BY PathIs
<1>2. ASSUME NEW s \in Segments, NEW x
      PROVE  /\ Len(s) >= Len(Text(x)) <=> s # Empty
             /\ s # Empty => (SubSeq(s, 1, Len(Text(x))) = Text(x) <=> s[1] = x)
  <2>1. Len(Text(x)) = 1 /\ Len(s) \in Nat /\ (s = Empty <=> Len(s) = 0)
    BY SegmentIs DEF Text
  <2>2. s # Empty => SubSeq(s, 1, 1) = << s[1] >>
    <3>1. s # Empty => \A i \in 1..1 : s[i] \in STRING \union Literals
      BY <2>1, SegmentIs
    <3>2. s # Empty => /\ SubSeq(s, 1, 1) \in Segments /\ Len(SubSeq(s, 1, 1)) = 1
                       /\ SubSeq(s, 1, 1)[1] = s[1]
      BY <3>1, SubSeqProperties DEF Segments
    <3>3. ASSUME s # Empty
          PROVE  SubSeq(s, 1, 1) = << s[1] >>
      <4> DEFINE q == SubSeq(s, 1, 1)
      <4>1. q \in Segments /\ Len(q) = 1 /\ q[1] = s[1]
        BY <3>2, <3>3
      <4> HIDE DEF q
      <4>2. q = << q[1] >>
        BY <4>1 DEF Segments
      <4> QED BY <4>1, <4>2 DEF q
    <3> QED BY <3>3
  <2> QED BY <2>1, <2>2 DEF Text
<1>3. /\ Len(<< Text(a) >>) = 1 /\ << Text(a) >>[1] = Text(a)
      /\ Len(<< Text(a), Text(b) >>) = 2
      /\ << Text(a), Text(b) >>[1] = Text(a) /\ << Text(a), Text(b) >>[2] = Text(b)
  OBVIOUS
<1>4. StartsWith(p, << Text(a) >>) <=> p[1] # Empty /\ p[1][1] = a
  BY <1>1, <1>2, <1>3 DEF StartsWith
<1>5. StartsWith(p, << Text(a), Text(b) >>) <=>
        Len(p) > 1 /\ p[1] = Text(a) /\ p[2] # Empty /\ p[2][1] = b
  BY <1>1, <1>2, <1>3 DEF StartsWith
<1> QED BY <1>4, <1>5

\* One more segment.
LEMMA AddedSegment ==
  ASSUME NEW x \in Seq(Segments), NEW w \in Segments
  PROVE  /\ x \o << w >> \in Seq(Segments) /\ Len(x) \in Nat /\ Len(x \o << w >>) = Len(x) + 1
         /\ \A i \in 1..Len(x) : (x \o << w >>)[i] = x[i]
         /\ (x \o << w >>)[Len(x) + 1] = w
PROOF
<1> DEFINE y == x \o << w >>
<1>1. << w >> \in Seq(Segments) /\ Len(<< w >>) = 1 /\ << w >>[1] = w
  OBVIOUS
<1>2. y \in Seq(Segments) /\ Len(x) \in Nat /\ Len(y) = Len(x) + 1
  BY <1>1
<1>3. \A i \in 1..Len(x) + 1 : y[i] = IF i <= Len(x) THEN x[i] ELSE << w >>[i - Len(x)]
  BY <1>1, ConcatProperties
<1> QED BY <1>1, <1>2, <1>3

\* Segments before one, and after it.
Around(x, w, z) == (x \o << w >>) \o z

\* Where the segments of such a path are.
LEMMA AroundASegment ==
  ASSUME NEW x \in Seq(Segments), NEW w \in Segments, NEW z \in Seq(Segments)
  PROVE  /\ Around(x, w, z) \in Paths /\ Len(Around(x, w, z)) = Len(x) + 1 + Len(z)
         /\ \A i \in 1..Len(x) : Around(x, w, z)[i] = x[i]
         /\ Around(x, w, z)[Len(x) + 1] = w
         /\ \A i \in 1..Len(z) : Around(x, w, z)[Len(x) + 1 + i] = z[i]
PROOF
<1> DEFINE y == x \o << w >>
           t == y \o z
<1>1. /\ y \in Seq(Segments) /\ Len(x) \in Nat /\ Len(z) \in Nat /\ Len(y) = Len(x) + 1
      /\ \A i \in 1..Len(x) : y[i] = x[i]
      /\ y[Len(x) + 1] = w
  BY AddedSegment
<1> HIDE DEF y
<1>2. /\ t \in Seq(Segments) /\ Len(t) = Len(y) + Len(z)
      /\ \A i \in 1..Len(y) + Len(z) : t[i] = IF i <= Len(y) THEN y[i] ELSE z[i - Len(y)]
  BY <1>1, ConcatProperties
<1> HIDE DEF t
<1>3. t \in Paths /\ Len(t) = Len(x) + 1 + Len(z)
  <2>1. Len(t) # 0 /\ Len(t) = Len(x) + 1 + Len(z)
    BY <1>1, <1>2
  <2>2. t # << >>
    BY <2>1
  <2> QED BY <1>2, <2>1, <2>2 DEF Paths
<1>4. \A i \in 1..Len(x) : t[i] = x[i]
  BY <1>1, <1>2
<1>5. t[Len(x) + 1] = w
  BY <1>1, <1>2
<1>6. ASSUME NEW i \in 1..Len(z)
      PROVE  t[Len(x) + 1 + i] = z[i]
  <2>1. /\ Len(y) + i \in 1..Len(y) + Len(z) /\ ~(Len(y) + i <= Len(y))
        /\ Len(y) + i - Len(y) = i
    BY <1>1
  <2>2. t[Len(y) + i] = z[i]
    BY <1>2, <2>1
  <2> QED BY <1>1, <2>2
<1>7. Around(x, w, z) = t
  BY DEF Around, t, y
<1> QED BY <1>3, <1>4, <1>5, <1>6, <1>7

\* A path with another prefix, which may end within a segment of both.
Rewritten(t, p, old, new) ==
  /\ t \in Paths /\ Len(t) = Len(p) - Len(old) + Len(new)
  /\ \A i \in 1..Len(new) - 1 : t[i] = new[i]
  /\ t[Len(new)] # Empty /\ t[Len(new)][1] = new[Len(new)][1]
  /\ \A i \in 1..Len(p) - Len(old) : t[Len(new) + i] = p[Len(old) + i]
  /\ t[Len(t)] = Empty <=> p[Len(p)] = Empty

\* A prefix is replaced in its last segment, before what follows there.
LEMMA ReplaceIs ==
  ASSUME NEW p \in Paths, NEW old \in Paths, NEW new \in Paths, StartsWith(p, old),
         old[Len(old)] # Empty, new[Len(new)] # Empty
  PROVE  Rewritten(Replace(p, old, new), p, old, new)
PROOF
<1> DEFINE t    == Replace(p, old, new)
           n    == Len(old)
           m    == Len(new)
           rest == SubSeq(p[n], Len(old[n]) + 1, Len(p[n]))
           xp   == SubSeq(new, 1, m - 1)
           wp   == new[m] \o rest
           zp   == SubSeq(p, n + 1, Len(p))
<1>1. /\ n \in Nat \ {0} /\ m \in Nat \ {0} /\ Len(p) \in Nat \ {0} /\ n <= Len(p)
      /\ \A i \in 1..Len(p) : p[i] \in Segments
      /\ \A i \in 1..m : new[i] \in Segments
      /\ old[n] \in Segments /\ new[m] \in Segments /\ p[n] \in Segments
      /\ Len(old[n]) \in Nat \ {0} /\ Len(p[n]) \in Nat /\ Len(p[n]) >= Len(old[n])
  <2>1. n \in Nat \ {0} /\ m \in Nat \ {0} /\ Len(p) \in Nat \ {0} /\ n <= Len(p)
    BY PathIs DEF StartsWith
  <2>2. /\ \A i \in 1..Len(p) : p[i] \in Segments
        /\ \A i \in 1..m : new[i] \in Segments
        /\ old[n] \in Segments /\ new[m] \in Segments
    BY PathIs
  <2>3. p[n] \in Segments /\ Len(p[n]) >= Len(old[n])
    BY <2>1, <2>2 DEF StartsWith
  <2> QED BY <2>1, <2>2, <2>3, SegmentIs
<1>2. rest \in Segments
  <2>1. \A i \in Len(old[n]) + 1..Len(p[n]) : p[n][i] \in STRING \union Literals
    BY <1>1, SegmentIs
  <2> QED BY <1>1, <2>1, SubSeqProperties DEF Segments
<1>3. wp \in Segments /\ wp # Empty /\ wp[1] = new[m][1]
  <2> HIDE DEF rest
  <2>1. /\ wp \in Segments /\ Len(wp) = Len(new[m]) + Len(rest)
        /\ Len(new[m]) \in Nat \ {0} /\ Len(rest) \in Nat
    BY <1>1, <1>2, SegmentIs, ConcatProperties DEF Segments
  <2>2. wp[1] = new[m][1]
    BY <1>1, <1>2, <2>1, ConcatProperties DEF Segments
  <2> HIDE DEF wp
  <2> QED BY <2>1, <2>2, SegmentIs
<1>4. xp \in Seq(Segments) /\ Len(xp) = m - 1 /\ \A i \in 1..m - 1 : xp[i] = new[i]
  <2> DEFINE k == m - 1
  <2>1. k \in Nat /\ \A i \in 1..k : new[i] \in Segments
    BY <1>1
  <2> HIDE DEF k
  <2>2. /\ SubSeq(new, 1, k) \in Seq(Segments) /\ Len(SubSeq(new, 1, k)) = k
        /\ \A i \in 1..k : SubSeq(new, 1, k)[i] = new[i]
    BY <2>1, SubSeqProperties
  <2> QED BY <2>2 DEF k
<1>5. zp \in Seq(Segments) /\ Len(zp) = Len(p) - n /\ \A i \in 1..Len(p) - n : zp[i] = p[n + i]
  <2>1. \A i \in n + 1..Len(p) : p[i] \in Segments
    BY <1>1
  <2> QED BY <1>1, <2>1, SubSeqProperties
<1> HIDE DEF wp, xp, zp
<1>6. PICK x \in Seq(Segments), w \in Segments, z \in Seq(Segments) :
        /\ t = Around(x, w, z)
        /\ w # Empty /\ w[1] = new[m][1]
        /\ Len(x) = m - 1 /\ \A i \in 1..m - 1 : x[i] = new[i]
        /\ Len(z) = Len(p) - n /\ \A i \in 1..Len(p) - n : z[i] = p[n + i]
  <2>1. t = Around(xp, wp, zp)
    BY DEF Replace, Around, xp, wp, zp
  <2> HIDE DEF t
  <2> QED BY <1>3, <1>4, <1>5, <2>1
<1> HIDE DEF t, n, m
<1>7. /\ t \in Paths /\ Len(t) = Len(p) - n + m
      /\ \A i \in 1..m - 1 : t[i] = new[i]
      /\ t[m] = w
      /\ \A i \in 1..Len(p) - n : t[m + i] = p[n + i]
  <2>1. /\ t \in Paths /\ Len(t) = Len(x) + 1 + Len(z)
        /\ \A i \in 1..Len(x) : t[i] = x[i]
        /\ t[Len(x) + 1] = w
        /\ \A i \in 1..Len(z) : t[Len(x) + 1 + i] = z[i]
    <3> DEFINE a == Around(x, w, z)
    <3>1. /\ a \in Paths /\ Len(a) = Len(x) + 1 + Len(z)
          /\ \A i \in 1..Len(x) : a[i] = x[i]
          /\ a[Len(x) + 1] = w
          /\ \A i \in 1..Len(z) : a[Len(x) + 1 + i] = z[i]
      BY AroundASegment
    <3>2. t = a
      BY <1>6
    <3> HIDE DEF a
    <3> QED BY <3>1, <3>2
  <2>2. Len(x) + 1 = m /\ Len(t) = Len(p) - n + m
    BY <1>1, <1>6, <2>1
  <2> QED BY <1>6, <2>1, <2>2
<1>8. t[Len(t)] = Empty <=> p[Len(p)] = Empty
  <2>1. CASE Len(p) = n
    <3>1. p[Len(p)] # Empty
      BY <1>1, <2>1, SegmentIs DEF n
    <3>2. Len(t) = m
      BY <1>1, <1>7, <2>1
    <3> QED BY <1>6, <1>7, <3>1, <3>2
  <2>2. CASE Len(p) # n
    <3>1. Len(p) - n \in 1..Len(p) - n /\ m + (Len(p) - n) = Len(t) /\ n + (Len(p) - n) = Len(p)
      BY <1>1, <1>7, <2>2
    <3>2. t[m + (Len(p) - n)] = p[n + (Len(p) - n)]
      BY <1>7, <3>1
    <3> QED BY <3>1, <3>2
  <2> QED BY <2>1, <2>2
<1> QED BY <1>6, <1>7, <1>8 DEF Rewritten, t, n, m

\* What the router of the documentation looks for.
Booked(p)    == \E r \in Renames : StartsWith(p, r.to)
Directory(p) == p[Len(p)] = Empty

ChannelNames == {"stable", "beta", "nightly"}
FileNames    == {"favicon.ico", "google49c5ce1b6ff59509.html"}
BookNames    == {"book", "nomicon"}
OldNames     == {"trpl", "adv-book", "rustonomicon", "rustinomicon"}
CrateNames   == {"regex", "uuid", "time", "rustc-serialize", "log", "getopts", "glob", "libc",
                 "bitflags", "rand", "tempdir", "term"}

\* The names a book has had, without a channel or below one.
LEMMA RenamesAre ==
  ASSUME NEW r \in Renames
  PROVE  \E o \in OldNames, n \in BookNames :
           \/ r.from = << Text(o) >> /\ r.to = << Stable, Text(n) >>
           \/ \E c \in {Stable, Nightly} : r.from = << c, Text(o) >> /\ r.to = << c, Text(n) >>
PROOF
<1>1. PICK b \in Books :
        \/ r.from = << b.old >> /\ r.to = << Stable, b.new >>
        \/ \E c \in Prefixes : r.from = << c, b.old >> /\ r.to = << c, b.new >>
  BY SMT DEF Renames
<1>2. \E o \in OldNames, n \in BookNames : b.old = Text(o) /\ b.new = Text(n)
  BY DEF Books, OldNames, BookNames
<1> QED BY <1>1, <1>2 DEF Prefixes

\* The first atoms tell the branches of the router apart.
LEMMA BranchIs ==
  ASSUME NEW p \in Paths
  PROVE  /\ \A n \in {2, 3} : IsVersion(p, n) =>
              /\ Len(p) > 1 /\ Len(p[1]) = 2 * n - 1 /\ p[1] # Empty
              /\ p[1][1] \in {"0", "1", "5", "36", "80"}
         /\ OfCrate(p) <=> p[1] # Empty /\ p[1][1] \in CrateNames
         /\ OnChannel(p) <=> p[1] # Empty /\ p[1][1] \in ChannelNames
         /\ StartsWith(p, << Master >>) <=> p[1] # Empty /\ p[1][1] = "master"
         /\ Renamed(p) =>
              \/ p[1] # Empty /\ p[1][1] \in OldNames
              \/ p[1] \in {Stable, Nightly} /\ Len(p) > 1 /\ p[2] # Empty /\ p[2][1] \in OldNames
         /\ Booked(p) =>
              p[1] \in {Stable, Nightly} /\ Len(p) > 1 /\ p[2] # Empty /\ p[2][1] \in BookNames
         /\ p \in SpecialFiles <=> \E f \in FileNames : p = << Text(f) >>
PROOF
<1>1. \A a, b : /\ StartsWith(p, << Text(a) >>) <=> p[1] # Empty /\ p[1][1] = a
                /\ StartsWith(p, << Text(a), Text(b) >>) <=>
                     Len(p) > 1 /\ p[1] = Text(a) /\ p[2] # Empty /\ p[2][1] = b
  BY PrefixIs
<1>2. ASSUME NEW n \in {2, 3}, IsVersion(p, n)
      PROVE  /\ Len(p) > 1 /\ Len(p[1]) = 2 * n - 1 /\ p[1] # Empty
             /\ p[1][1] \in {"0", "1", "5", "36", "80"}
  <2>1. p[1] \in Segments /\ Len(p[1]) = 2 * n - 1 /\ Len(p) > 1
    BY <1>2, PathIs DEF IsVersion
  <2>2. p[1] # Empty /\ 1 \in DOMAIN p[1] /\ 1 % 2 = 1
    BY <2>1, SegmentIs
  <2>3. IsNumber(p[1][1])
    BY <1>2, <2>2 DEF IsVersion
  <2> QED BY <2>1, <2>2, <2>3 DEF IsNumber
<1>3. OfCrate(p) <=> p[1] # Empty /\ p[1][1] \in CrateNames
  <2>1. \A c : c \in Crates <=> \E a \in CrateNames : c = Text(a)
    BY DEF Crates, CrateNames
  <2>2. OfCrate(p) <=> \E a \in CrateNames : StartsWith(p, << Text(a) >>)
    BY <2>1 DEF OfCrate
  <2> QED BY <1>1, <2>2
<1>4. OnChannel(p) <=> p[1] # Empty /\ p[1][1] \in ChannelNames
  <2>1. \A c : c \in Channels <=> \E a \in ChannelNames : c = Text(a)
    BY DEF Channels, ChannelNames, Stable, Nightly
  <2>2. OnChannel(p) <=> \E a \in ChannelNames : StartsWith(p, << Text(a) >>)
    BY <2>1 DEF OnChannel
  <2> QED BY <1>1, <2>2
<1>5. StartsWith(p, << Master >>) <=> p[1] # Empty /\ p[1][1] = "master"
  BY <1>1 DEF Master
<1>6. Renamed(p) =>
        \/ p[1] # Empty /\ p[1][1] \in OldNames
        \/ p[1] \in {Stable, Nightly} /\ Len(p) > 1 /\ p[2] # Empty /\ p[2][1] \in OldNames
  <2>1. Renamed(p) => \E o \in OldNames : \/ StartsWith(p, << Text(o) >>)
                                         \/ \E c \in {Stable, Nightly} : StartsWith(p, << c, Text(o) >>)
    <3>1. ASSUME NEW r \in Renames, StartsWith(p, r.from)
          PROVE  \E o \in OldNames : \/ StartsWith(p, << Text(o) >>)
                                    \/ \E c \in {Stable, Nightly} : StartsWith(p, << c, Text(o) >>)
      BY <3>1, RenamesAre
    <3> QED BY <3>1 DEF Renamed
  <2> QED BY <1>1, <2>1 DEF Stable, Nightly
<1>7. Booked(p) =>
        p[1] \in {Stable, Nightly} /\ Len(p) > 1 /\ p[2] # Empty /\ p[2][1] \in BookNames
  <2>1. Booked(p) => \E n \in BookNames, c \in {Stable, Nightly} : StartsWith(p, << c, Text(n) >>)
    <3>1. ASSUME NEW r \in Renames, StartsWith(p, r.to)
          PROVE  \E n \in BookNames, c \in {Stable, Nightly} : StartsWith(p, << c, Text(n) >>)
      BY <3>1, RenamesAre
    <3> QED BY <3>1 DEF Booked
  <2> QED BY <1>1, <2>1 DEF Stable, Nightly
<1>8. p \in SpecialFiles <=> \E f \in FileNames : p = << Text(f) >>
  BY DEF SpecialFiles, FileNames
<1> QED BY <1>2, <1>3, <1>4, <1>5, <1>6, <1>7, <1>8

\* How many requests a client may still need on doc.rust-lang.org, where a directory
\* needs no redirect of the website, and below /doc, where slashes are collapsed.
LeftAt(p) ==
  IF p \in {Root, << Index >>} THEN 2
  ELSE IF IsVersion(p, 3) THEN IF Directory(p) THEN 1 ELSE 3
  ELSE IF IsVersion(p, 2) THEN IF Directory(p) THEN 2 ELSE 4
  ELSE IF OfCrate(p) THEN 1
  ELSE IF Renamed(p) THEN IF Directory(p) THEN 2 ELSE 4
  ELSE IF StartsWith(p, << Master >>) THEN IF Directory(p) THEN 3 ELSE 5
  ELSE IF Directory(p) THEN 1 ELSE IF Booked(p) THEN 3 ELSE 4

Left(p) ==
  IF ~InOldDirectory(p) THEN LeftAt(p)
  ELSE IF ~InOldDirectory(Collapse(Tail(p))) THEN 1 + LeftAt(Collapse(Tail(p)))
  ELSE 5 + Docs(p)

\* Below /doc the path without it is shorter by a segment, and keeps its end.
LEMMA OldDirectoryIs ==
  ASSUME NEW p \in Paths, InOldDirectory(p)
  PROVE  /\ Tail(p) \in Paths /\ Collapse(Tail(p)) \in Paths
         /\ Docs(Collapse(Tail(p))) + 1 <= Docs(p)
PROOF
<1>1. p \in Seq(Segments) /\ p # << >> /\ Len(p) \in Nat /\ Len(p) > 1 /\ p[1] = Doc
  BY PathIs DEF InOldDirectory, Paths
<1>2. /\ Tail(p) \in Seq(Segments) /\ Len(Tail(p)) = Len(p) - 1
      /\ \A i \in 1..Len(Tail(p)) : Tail(p)[i] = p[i + 1]
  BY <1>1, HeadTailProperties
<1>3. Tail(p) \in Paths
  <2> DEFINE t == Tail(p)
  <2>1. t \in Seq(Segments) /\ Len(t) # 0
    BY <1>1, <1>2
  <2> HIDE DEF t
  <2>2. t # << >>
    BY <2>1
  <2>3. t \in Paths
    BY <2>1, <2>2 DEF Paths
  <2> QED BY <2>3 DEF t
<1>4. \A i \in 1..Len(Tail(p)) : Tail(p)[i] = Doc => i + 1 \in 1..Len(p) /\ p[i + 1] = Doc
  BY <1>1, <1>2
<1>5. Docs(Tail(p)) + 1 <= Docs(p)
  BY <1>1, <1>3, <1>4, OneDocLess
<1>6. Collapse(Tail(p)) \in Paths /\ Docs(Collapse(Tail(p))) <= Docs(Tail(p))
  BY <1>3, CollapseIs
<1> QED BY <1>3, <1>5, <1>6, DocsIsNat

\* The rank is positive, and bounded by the number of /doc segments.
LEMMA LeftIsBounded ==
  ASSUME NEW p \in Paths
  PROVE  /\ LeftAt(p) \in 1..5
         /\ Left(p) \in Nat \ {0} /\ Left(p) <= 5 + Docs(p)
PROOF
<1>1. \A t : LeftAt(t) \in 1..5
  BY DEF LeftAt
<1>2. Docs(p) \in Nat
  BY DocsIsNat
<1>3. ASSUME InOldDirectory(p)
      PROVE  1 <= Docs(p)
  <2>1. Docs(Collapse(Tail(p))) + 1 <= Docs(p) /\ Docs(Collapse(Tail(p))) \in Nat
    BY <1>3, OldDirectoryIs, DocsIsNat
  <2> QED BY <1>2, <2>1
<1> QED BY <1>1, <1>2, <1>3 DEF Left

\* The first atom of a segment that is written out.
LEMMA FirstAtomIs ==
  ASSUME NEW s
  PROVE  /\ s = Doc => s # Empty /\ s[1] = "doc" /\ Len(s) = 1
         /\ s \in {Stable, Nightly} => s # Empty /\ s[1] \in {"stable", "nightly"}
         /\ s = Index => s # Empty /\ s[1] = "index.html"
PROOF
  BY DEF Doc, Stable, Nightly, Index, Text, Empty

\* One case per branch of the router, with what a client there may still need.
LEMMA DocBranches ==
  ASSUME NEW p \in Paths
  PROVE  LET d == Directory(p) IN
         \/ /\ p \in {Root, << Index >>} /\ Left(p) = 2
            /\ DocRoute(p) = Moved(<< Stable, Empty >>, 302)
         \/ /\ IsVersion(p, 3) /\ Left(p) = IF d THEN 1 ELSE 3
            /\ DocRoute(p) = Fetch(p)
         \/ /\ IsVersion(p, 2) /\ Left(p) = IF d THEN 2 ELSE 4
            /\ DocRoute(p) = Moved(WithPatch(p), 302)
         \/ DocRoute(p) = MovedTo("docs.rs", p, 301)
         \/ /\ \E r \in Renames : /\ StartsWith(p, r.from)
                                  /\ DocRoute(p) = Moved(Replace(p, r.from, r.to), 301)
            /\ Left(p) = IF d THEN 2 ELSE 4
         \/ /\ StartsWith(p, << Master >>) /\ Left(p) = IF d THEN 3 ELSE 5
            /\ DocRoute(p) = Moved(Replace(p, << Master >>, << Nightly >>), 301)
         \/ /\ InOldDirectory(p)
            /\ DocRoute(p) = Moved(Collapse(Tail(p)), 301)
         \/ /\ OnChannel(p) \/ p \in SpecialFiles
            /\ Left(p) = IF d THEN 1 ELSE IF Booked(p) THEN 3 ELSE 4
            /\ DocRoute(p) = Fetch(p)
         \/ /\ Left(p) = IF d THEN 1 ELSE 4
            /\ DocRoute(p) = Fetch(<< Stable >> \o p)
PROOF
<1> DEFINE renamed == {r \in Renames : StartsWith(p, r.from)}
<1>1. Renamed(p) <=> renamed # {}
  BY DEF Renamed
<1>2. Renamed(p) => (CHOOSE r \in renamed : TRUE) \in renamed
  BY <1>1
<1>3. /\ OfCrate(p) <=> \E c \in Crates : StartsWith(p, << c >>)
      /\ OnChannel(p) <=> \E c \in Channels : StartsWith(p, << c >>)
  BY DEF OfCrate, OnChannel
<1>4. p \in {Root, << Index >>} => Len(p) = 1
  BY DEF Root
<1>5. InOldDirectory(p) =>
        /\ p \notin {Root, << Index >>} /\ ~IsVersion(p, 3) /\ ~IsVersion(p, 2) /\ ~OfCrate(p)
        /\ ~Renamed(p) /\ ~StartsWith(p, << Master >>)
  <2>1. InOldDirectory(p) => p[1] # Empty /\ p[1][1] = "doc" /\ Len(p[1]) = 1 /\ Len(p) > 1
    BY FirstAtomIs DEF InOldDirectory
  <2>2. InOldDirectory(p) => p \notin {Root, << Index >>}
    BY <1>4, <2>1, PathIs
  <2>3. InOldDirectory(p) => ~IsVersion(p, 3) /\ ~IsVersion(p, 2)
    BY <2>1, BranchIs
  <2>4. InOldDirectory(p) => ~OfCrate(p) /\ ~StartsWith(p, << Master >>)
    BY <2>1, BranchIs DEF CrateNames
  <2>5. InOldDirectory(p) => ~Renamed(p)
    <3>1. p[1] \in {Stable, Nightly} => p[1][1] \in {"stable", "nightly"}
      BY FirstAtomIs
    <3>2. Renamed(p) => p[1][1] \in OldNames \/ p[1] \in {Stable, Nightly}
      BY BranchIs
    <3> QED BY <2>1, <3>1, <3>2 DEF OldNames
  <2> QED BY <2>2, <2>3, <2>4, <2>5
<1>6. ~InOldDirectory(p) => Left(p) = LeftAt(p)
  BY DEF Left
<1>7. Booked(p) => OnChannel(p)
  <2>1. Booked(p) => p[1] # Empty /\ p[1][1] \in {"stable", "nightly"}
    BY BranchIs, FirstAtomIs
  <2> QED BY <2>1, BranchIs DEF ChannelNames
<1>8. CASE InOldDirectory(p)
  BY <1>1, <1>3, <1>5, <1>8 DEF DocRoute
<1>9. CASE ~InOldDirectory(p) /\ p \in {Root, << Index >>}
  <2>1. Left(p) = 2
    BY <1>6, <1>9 DEF LeftAt
  <2> QED BY <1>9, <2>1 DEF DocRoute
<1> DEFINE other == ~InOldDirectory(p) /\ p \notin {Root, << Index >>}
<1>10. CASE other /\ IsVersion(p, 3)
  <2>1. Left(p) = IF Directory(p) THEN 1 ELSE 3
    BY <1>6, <1>10 DEF LeftAt
  <2> QED BY <1>10, <2>1 DEF DocRoute
<1>11. CASE other /\ ~IsVersion(p, 3) /\ IsVersion(p, 2)
  <2>1. Left(p) = IF Directory(p) THEN 2 ELSE 4
    BY <1>6, <1>11 DEF LeftAt
  <2> QED BY <1>11, <2>1 DEF DocRoute
<1> DEFINE new == other /\ ~IsVersion(p, 3) /\ ~IsVersion(p, 2)
<1>12. CASE new /\ OfCrate(p)
  <2>1. DocRoute(p) = MovedTo("docs.rs", p, 301)
    BY <1>3, <1>12 DEF DocRoute
  <2> QED BY <2>1
<1>13. CASE new /\ ~OfCrate(p) /\ Renamed(p)
  <2>1. Left(p) = IF Directory(p) THEN 2 ELSE 4
    BY <1>6, <1>13 DEF LeftAt
  <2> DEFINE r == CHOOSE r \in renamed : TRUE
  <2>2. DocRoute(p) = Moved(Replace(p, r.from, r.to), 301)
    BY <1>1, <1>3, <1>13 DEF DocRoute
  <2>3. r \in Renames /\ StartsWith(p, r.from)
    BY <1>2, <1>13
  <2> HIDE DEF r
  <2> QED BY <2>1, <2>2, <2>3
<1>14. CASE new /\ ~OfCrate(p) /\ ~Renamed(p) /\ StartsWith(p, << Master >>)
  <2>1. Left(p) = IF Directory(p) THEN 3 ELSE 5
    BY <1>6, <1>14 DEF LeftAt
  <2>2. DocRoute(p) = Moved(Replace(p, << Master >>, << Nightly >>), 301)
    BY <1>1, <1>3, <1>14 DEF DocRoute
  <2> QED BY <1>14, <2>1, <2>2
<1>15. CASE new /\ ~OfCrate(p) /\ ~Renamed(p) /\ ~StartsWith(p, << Master >>)
  <2>1. Left(p) = IF Directory(p) THEN 1 ELSE IF Booked(p) THEN 3 ELSE 4
    BY <1>6, <1>15 DEF LeftAt
  <2>2. DocRoute(p) = IF OnChannel(p) \/ p \in SpecialFiles THEN Fetch(p) ELSE Fetch(<< Stable >> \o p)
    BY <1>1, <1>3, <1>15 DEF DocRoute
  <2> QED BY <1>7, <2>1, <2>2
<1> QED BY <1>8, <1>9, <1>10, <1>11, <1>12, <1>13, <1>14, <1>15

\* A client on a channel, and one at a book by its name today.
LEMMA LeftOnChannel ==
  ASSUME NEW p \in Paths, p[1] # Empty, p[1][1] \in ChannelNames \union FileNames
  PROVE  /\ Left(p) <= IF Directory(p) THEN 2 ELSE 4
         /\ ~Renamed(p) => Left(p) = IF Directory(p) THEN 1 ELSE IF Booked(p) THEN 3 ELSE 4
         /\ Booked(p) => ~Renamed(p)
         /\ ~InOldDirectory(p)
PROOF
<1>1. ~InOldDirectory(p) /\ p \notin {Root, << Index >>}
  <2>1. p[1] # Doc
    BY FirstAtomIs DEF ChannelNames, FileNames
  <2>2. Root[1] = Empty /\ << Index >>[1] = Index /\ p[1] # Index
    BY FirstAtomIs DEF Root, ChannelNames, FileNames
  <2> QED BY <2>1, <2>2 DEF InOldDirectory
<1>2. ~IsVersion(p, 3) /\ ~IsVersion(p, 2)
  BY BranchIs DEF ChannelNames, FileNames
<1>3. ~OfCrate(p) /\ ~StartsWith(p, << Master >>)
  BY BranchIs DEF ChannelNames, FileNames, CrateNames
<1>4. Left(p) = IF Renamed(p) THEN IF Directory(p) THEN 2 ELSE 4
                ELSE IF Directory(p) THEN 1 ELSE IF Booked(p) THEN 3 ELSE 4
  BY <1>1, <1>2, <1>3 DEF Left, LeftAt
<1>5. Booked(p) => ~Renamed(p)
  BY BranchIs DEF BookNames, OldNames, ChannelNames, FileNames, Stable, Nightly, Text
<1> QED BY <1>1, <1>4, <1>5

\* A sequence of segments that is not empty is a path.
LEMMA HasASegment ==
  ASSUME NEW s \in Seq(Segments), Len(s) # 0
  PROVE  s \in Paths
PROOF
<1>1. s # << >>
  BY Zenon, EmptySeq
<1> QED BY <1>1 DEF Paths

\* The directory of a page of the website: below /doc again, where slashes are
\* collapsed, the page is left.
LEMMA BelowDoc ==
  ASSUME NEW f \in Paths, f[1] # Empty, f[1] # Doc,
         NEW q, q = DocKey(f) \o Root
  PROVE  LET t == Collapse(f \o Root)
         IN /\ DocKey(f) \in Paths /\ q \in Paths
            /\ t \in Paths /\ Len(t) > 1 /\ Directory(t) /\ t[1] = f[1]
            /\ Len(f) > 1 /\ f[2] # Empty => t[2] = f[2]
            /\ Left(q) = 1 + Left(t)
PROOF
<1> DEFINE u == f \o Root
           t == Collapse(u)
<1>1. /\ f \in Seq(Segments) /\ Len(f) \in Nat \ {0} /\ << Doc >> \in Seq(Segments)
      /\ Root \in Seq(Segments) /\ Len(Root) = 1 /\ Root[1] = Empty
      /\ << Doc >> \in Paths /\ Root \in Paths
  BY PathIs, WrittenPaths DEF Root, Doc, Literals, Paths
<1>2. /\ u \in Paths /\ Len(u) = Len(f) + 1
      /\ \A i \in 1..Len(f) : u[i] = f[i]
      /\ u[Len(f) + 1] = Empty
  <2>1. /\ u \in Seq(Segments) /\ Len(u) = Len(f) + 1
        /\ \A i \in 1..Len(f) : u[i] = f[i]
        /\ u[Len(f) + 1] = Empty
    BY <1>1, WrittenPaths, AddedSegment DEF Root
  <2> HIDE DEF u
  <2> QED BY <1>1, <2>1, HasASegment
<1> HIDE DEF u
<1>3. DocKey(f) \in Paths /\ q \in Paths
  BY <1>1, WrittenPaths DEF DocKey
<1>4. q = << Doc >> \o u
  BY <1>1, ConcatAssociative DEF DocKey, u
<1>5. /\ Len(q) = Len(u) + 1 /\ q[1] = Doc
      /\ \A i \in 1..Len(u) : q[i + 1] = u[i]
  <2>1. u \in Seq(Segments) /\ Len(u) \in Nat
    BY <1>2, PathIs
  <2>2. /\ Len(q) = 1 + Len(u)
        /\ \A i \in 1..1 + Len(u) : q[i] = IF i <= 1 THEN << Doc >>[i] ELSE u[i - 1]
    BY <1>1, <1>4, <2>1, ConcatProperties
  <2> QED BY <2>1, <2>2
<1>6. InOldDirectory(q)
  BY <1>1, <1>2, <1>5 DEF InOldDirectory
<1>7. Tail(q) = u
  <2> DEFINE v == Tail(q)
  <2>1. q \in Seq(Segments) /\ q # << >> /\ u \in Seq(Segments) /\ Len(u) \in Nat
    BY <1>2, <1>3, PathIs DEF Paths
  <2>2. v \in Seq(Segments) /\ Len(v) = Len(q) - 1 /\ \A i \in 1..Len(v) : v[i] = q[i + 1]
    BY <2>1, HeadTailProperties
  <2> HIDE DEF v
  <2>3. Len(v) = Len(u) /\ \A i \in 1..Len(v) : v[i] = u[i]
    <3>1. Len(v) = Len(u)
      BY <1>5, <2>1, <2>2
    <3> QED BY <1>5, <2>2, <3>1
  <2>4. v = u
    BY <2>1, <2>2, <2>3, SeqEqual
  <2> QED BY <2>4 DEF v
<1>8. /\ t \in Paths /\ t[Len(t)] = u[Len(u)] /\ t[1] = f[1] /\ Len(t) > 1
      /\ Len(f) > 1 /\ f[2] # Empty => t[2] = f[2]
  <2>1. u[1] = f[1] /\ u[1] # Empty /\ Len(u) > 1
    BY <1>1, <1>2
  <2>2. Len(f) > 1 => u[2] = f[2]
    BY <1>1, <1>2
  <2> QED BY <1>2, <2>1, <2>2, CollapseIs
<1>9. Directory(t)
  BY <1>2, <1>8 DEF Directory
<1>10. ~InOldDirectory(t)
  BY <1>8 DEF InOldDirectory
<1>11. Left(q) = 1 + Left(t)
  BY <1>6, <1>7, <1>10 DEF Left
<1> QED BY <1>3, <1>8, <1>9, <1>11 DEF u

\* The website of the bucket fetches, or adds the slash that is missing.
LEMMA WebsiteIs ==
  ASSUME NEW f \in Paths
  PROVE  \/ Website(DocKey(f)).do = "fetch" /\ Website(DocKey(f)).path \in Paths
         \/ ~Directory(f) /\ Website(DocKey(f)) = Moved(DocKey(f) \o Root, 302)
PROOF
<1> DEFINE k == DocKey(f)
<1>1. /\ f \in Seq(Segments) /\ Len(f) \in Nat \ {0}
      /\ << Doc >> \in Seq(Segments) /\ << Index >> \in Paths
  BY PathIs, WrittenPaths DEF Doc, Index, Literals
<1>2. k \in Paths
  BY <1>1, WrittenPaths DEF DocKey
<1>3. k[Len(k)] = f[Len(f)]
  <2>1. Len(k) = 1 + Len(f) /\ \A i \in 1..1 + Len(f) : k[i] = IF i <= 1 THEN << Doc >>[i] ELSE f[i - 1]
    BY <1>1, ConcatProperties DEF DocKey
  <2>2. k[1 + Len(f)] = f[1 + Len(f) - 1]
    BY <1>1, <2>1
  <2> QED BY <1>1, <2>1, <2>2
<1> HIDE DEF k
<1>4. SubSeq(k, 1, Len(k) - 1) \o << Index >> \in Paths
  <2>1. /\ Len(k) - 1 \in Int /\ \A i \in 1..Len(k) - 1 : k[i] \in Segments
    BY <1>2, PathIs
  <2>2. SubSeq(k, 1, Len(k) - 1) \in Seq(Segments)
    BY <2>1, SubSeqProperties
  <2> QED BY <1>1, <2>2, WrittenPaths
<1>5. CASE k[Len(k)] = Empty
  <2>1. Website(k) = Fetch(SubSeq(k, 1, Len(k) - 1) \o << Index >>)
    BY <1>5 DEF Website
  <2> QED BY <1>4, <2>1 DEF Fetch, k
<1>6. CASE k[Len(k)] # Empty
  <2>1. Website(k) = Fetch(k) \/ Website(k) = Moved(k \o Root, 302)
    BY <1>6 DEF Website
  <2> QED BY <1>2, <1>3, <1>6, <2>1 DEF Fetch, Directory, k
<1> QED BY <1>5, <1>6

\* An answer that leaves a client on doc.rust-lang.org leaves it nearer to the end.
Nearer(p, answer) ==
  /\ answer.path \in Paths
  /\ answer.do \in {"fetch", "redirect", "docs.rs"}
  /\ answer.do = "redirect" => Left(answer.path) < Left(p)

\* A redirect of the router brings a client nearer if it lowers the rank.
LEMMA NearerWhenMoved ==
  ASSUME NEW p \in Paths, NEW t \in Paths, NEW code, DocRoute(p) = Moved(t, code), Left(t) < Left(p)
  PROVE  Nearer(p, DocAnswer(p))
PROOF
  BY DEF Nearer, DocAnswer, Moved

\* A fetch does if the redirect to the directory lowers it.
LEMMA NearerWhenFetched ==
  ASSUME NEW p \in Paths, NEW f \in Paths, DocRoute(p) = Fetch(f),
         ~Directory(f) => Left(DocKey(f) \o Root) < Left(p) /\ DocKey(f) \o Root \in Paths
  PROVE  Nearer(p, DocAnswer(p))
PROOF
<1>1. DocAnswer(p) = Website(DocKey(f))
  BY DEF DocAnswer, Fetch
<1>2. CASE Website(DocKey(f)).do = "fetch" /\ Website(DocKey(f)).path \in Paths
  BY <1>1, <1>2 DEF Nearer
<1>3. CASE ~Directory(f) /\ Website(DocKey(f)) = Moved(DocKey(f) \o Root, 302)
  <2> DEFINE q == DocKey(f) \o Root
  <2>1. DocAnswer(p) = Moved(q, 302) /\ q \in Paths /\ Left(q) < Left(p)
    BY <1>1, <1>3
  <2> HIDE DEF q
  <2> QED BY <2>1 DEF Nearer, Moved
<1> QED BY <1>2, <1>3, WebsiteIs

\* The three kinds of paths that the website is asked for.
LEMMA NearerFromVersion ==
  ASSUME NEW p \in Paths, IsVersion(p, 3), DocRoute(p) = Fetch(p),
         Left(p) = IF Directory(p) THEN 1 ELSE 3
  PROVE  Nearer(p, DocAnswer(p))
PROOF
<1>1. p[1] # Empty /\ p[1] # Doc
  BY BranchIs, FirstAtomIs
<1> DEFINE q == DocKey(p) \o Root
           t == Collapse(p \o Root)
<1>2. q \in Paths /\ t \in Paths /\ Len(t) > 1 /\ Directory(t) /\ t[1] = p[1] /\ Left(q) = 1 + Left(t)
  BY <1>1, BelowDoc
<1> HIDE DEF q, t
<1>3. IsVersion(t, 3)
  BY <1>2 DEF IsVersion
<1>4. ~InOldDirectory(t) /\ t \notin {Root, << Index >>}
  <2>1. Len(Root) = 1 /\ Len(<< Index >>) = 1
    BY DEF Root
  <2> QED BY <1>1, <1>2, <2>1, PathIs DEF InOldDirectory
<1>5. Left(t) = 1
  BY <1>2, <1>3, <1>4 DEF Left, LeftAt
<1>6. ~Directory(p) => Left(q) < Left(p)
  BY <1>2, <1>5
<1> QED BY <1>2, <1>6, NearerWhenFetched DEF q

\* A page of a channel, or below the one that is put in front, needs the slash at most.
LEMMA NearerFromChannel ==
  ASSUME NEW p \in Paths, NEW f \in Paths, DocRoute(p) = Fetch(f), Directory(f) <=> Directory(p),
         f[1] # Empty, f[1][1] \in ChannelNames \union FileNames,
         Left(p) = (IF Directory(p) THEN 1 ELSE 4) \/ f = p,
         f = p => Left(p) = IF Directory(p) THEN 1 ELSE IF Booked(p) THEN 3 ELSE 4
  PROVE  Nearer(p, DocAnswer(p))
PROOF
<1>1. f[1] # Doc
  BY FirstAtomIs DEF ChannelNames, FileNames
<1> DEFINE q == DocKey(f) \o Root
           t == Collapse(f \o Root)
<1>2. /\ q \in Paths /\ t \in Paths /\ Directory(t) /\ t[1] = f[1] /\ Len(t) > 1
      /\ Len(f) > 1 /\ f[2] # Empty => t[2] = f[2]
      /\ Left(q) = 1 + Left(t)
  BY <1>1, BelowDoc
<1> HIDE DEF q, t
<1>3. Left(t) <= 2 /\ (~Renamed(t) => Left(t) = 1) /\ Left(t) \in Nat
  BY <1>2, LeftOnChannel, LeftIsBounded
<1>4. Booked(f) => ~Renamed(t)
  <2>1. ASSUME Booked(f)
        PROVE  /\ t[1] \in {Stable, Nightly} /\ t[2] # Empty /\ t[2][1] \in BookNames
               /\ t[1][1] \in {"stable", "nightly"}
    <3>1. f[1] \in {Stable, Nightly} /\ Len(f) > 1 /\ f[2] # Empty /\ f[2][1] \in BookNames
      BY <2>1, BranchIs
    <3> QED BY <1>2, <3>1, FirstAtomIs
  <2>2. Renamed(t) => t[1][1] \in OldNames \/ t[2][1] \in OldNames
    BY <1>2, BranchIs
  <2> QED BY <2>1, <2>2 DEF BookNames, OldNames
<1>5. ~Directory(f) => Left(q) < Left(p)
  BY <1>2, <1>3, <1>4
<1> QED BY <1>2, <1>5, NearerWhenFetched DEF q

\* A minor version is completed, and has its pages then.
LEMMA NearerFromMinor ==
  ASSUME NEW p \in Paths, IsVersion(p, 2), DocRoute(p) = Moved(WithPatch(p), 302),
         Left(p) = IF Directory(p) THEN 2 ELSE 4
  PROVE  Nearer(p, DocAnswer(p))
PROOF
<1> DEFINE v == p[1] \o <<".", "0">>
           t == WithPatch(p)
<1>1. /\ p \in Seq(Segments) /\ p # << >> /\ Len(p) \in Nat /\ Len(p) > 1 /\ p[1] \in Segments
      /\ Len(p[1]) = 3 /\ \A i \in 1..3 : IF i % 2 = 1 THEN IsNumber(p[1][i]) ELSE p[1][i] = "."
  <2>1. Len(p[1]) = 3 /\ Len(p) > 1 /\ p[1] \in Segments
    BY PathIs DEF IsVersion
  <2>2. DOMAIN p[1] = 1..3
    BY <2>1, SegmentIs
  <2> QED BY <2>1, <2>2, PathIs DEF IsVersion, Paths
<1>2. /\ v \in Segments /\ Len(v) = 5
      /\ \A i \in 1..3 : v[i] = p[1][i]
      /\ v[4] = "." /\ v[5] = "0"
  <2> DEFINE z == <<".", "0">>
  <2>1. z \in Segments /\ Len(z) = 2 /\ z[1] = "." /\ z[2] = "0"
    BY DEF Segments, Literals
  <2> HIDE DEF z
  <2>2. /\ p[1] \o z \in Segments /\ Len(p[1] \o z) = 5
        /\ \A i \in 1..5 : (p[1] \o z)[i] = IF i <= 3 THEN p[1][i] ELSE z[i - 3]
    <3> DEFINE S == STRING \union Literals
               s == p[1]
    <3>1. s \in Seq(S) /\ z \in Seq(S) /\ Len(s) = 3 /\ Len(s) + Len(z) = 5
      BY <1>1, <2>1 DEF Segments
    <3> HIDE DEF S, s
    <3>2. /\ s \o z \in Seq(S) /\ Len(s \o z) = Len(s) + Len(z)
          /\ \A i \in 1..Len(s) + Len(z) : (s \o z)[i] = IF i <= Len(s) THEN s[i] ELSE z[i - Len(s)]
      BY <3>1, ConcatProperties
    <3>3. /\ s \o z \in Seq(S) /\ Len(s \o z) = 5
          /\ \A i \in 1..5 : (s \o z)[i] = IF i <= 3 THEN s[i] ELSE z[i - 3]
      BY <3>1, <3>2
    <3> QED BY <3>3 DEF S, s, Segments
  <2>3. (p[1] \o z)[4] = z[4 - 3] /\ (p[1] \o z)[5] = z[5 - 3]
    BY <2>2
  <2> QED BY <2>1, <2>2, <2>3 DEF z
<1> HIDE DEF v
<1>3. /\ t \in Paths /\ Len(t) = Len(p) /\ t[1] = v /\ t[Len(t)] = p[Len(p)]
  <2> DEFINE z == Tail(p)
  <2>1. z \in Seq(Segments) /\ Len(z) = Len(p) - 1 /\ \A i \in 1..Len(z) : z[i] = p[i + 1]
    BY <1>1, HeadTailProperties
  <2>2. t = << v >> \o z
    BY DEF WithPatch, v
  <2>3. << v >> \in Seq(Segments) /\ Len(<< v >>) = 1 /\ << v >>[1] = v
    BY <1>2
  <2> HIDE DEF z, t
  <2>4. /\ t \in Seq(Segments) /\ Len(t) = 1 + Len(z)
        /\ \A i \in 1..1 + Len(z) : t[i] = IF i <= 1 THEN << v >>[i] ELSE z[i - 1]
    BY <2>1, <2>2, <2>3, ConcatProperties
  <2>5. t \in Paths /\ Len(t) = Len(p) /\ t[1] = v
    BY <1>1, <2>1, <2>3, <2>4, HasASegment
  <2>6. t[Len(p)] = z[Len(p) - 1]
    BY <1>1, <2>1, <2>4
  <2>7. z[Len(p) - 1] = p[Len(p) - 1 + 1]
    BY <1>1, <2>1
  <2> QED BY <1>1, <2>5, <2>6, <2>7
<1> HIDE DEF t
<1>4. IsVersion(t, 3)
  <2>1. DOMAIN v = 1..5
    BY <1>2, SegmentIs
  <2>2. IsNumber("0")
    BY DEF IsNumber
  <2>3. \A i \in 1..5 : IF i % 2 = 1 THEN IsNumber(v[i]) ELSE v[i] = "."
    <3>1. \A i \in 1..3 : IF i % 2 = 1 THEN IsNumber(v[i]) ELSE v[i] = "."
      BY <1>1, <1>2
    <3>2. 4 % 2 = 0 /\ 5 % 2 = 1
      OBVIOUS
    <3>3. \A i \in 1..5 : i \in 1..3 \/ i = 4 \/ i = 5
      OBVIOUS
    <3> QED BY <1>2, <2>2, <3>1, <3>2, <3>3
  <2> QED BY <1>1, <1>2, <1>3, <2>1, <2>3 DEF IsVersion
<1>5. ~InOldDirectory(t) /\ t \notin {Root, << Index >>}
  <2>1. Len(Root) = 1 /\ Len(<< Index >>) = 1 /\ Len(t) > 1
    BY <1>1, <1>3 DEF Root
  <2>2. t[1] # Doc
    BY <1>2, <1>3, FirstAtomIs
  <2> QED BY <2>1, <2>2 DEF InOldDirectory
<1>6. Left(t) = IF Directory(p) THEN 1 ELSE 3
  BY <1>3, <1>4, <1>5 DEF Left, LeftAt, Directory
<1>7. Left(t) < Left(p)
  BY <1>6
<1> QED BY <1>3, <1>7, NearerWhenMoved DEF t

\* A book is where its name of today is, and has no other name.
LEMMA NearerFromOldName ==
  ASSUME NEW p \in Paths, NEW r \in Renames, StartsWith(p, r.from),
         DocRoute(p) = Moved(Replace(p, r.from, r.to), 301),
         Left(p) = IF Directory(p) THEN 2 ELSE 4
  PROVE  Nearer(p, DocAnswer(p))
PROOF
<1> DEFINE t == Replace(p, r.from, r.to)
<1>1. PICK o \in OldNames, n \in BookNames, c \in {Stable, Nightly} :
        r.from \in {<< Text(o) >>, << c, Text(o) >>} /\ r.to = << c, Text(n) >>
  BY RenamesAre
<1>2. /\ Text(o) \in Segments /\ Text(n) \in Segments /\ c \in Segments
      /\ Text(o) # Empty /\ Text(n) # Empty /\ Text(n)[1] = n
  <2>1. OldNames \subseteq Literals /\ BookNames \subseteq Literals
    BY DEF OldNames, BookNames, Literals
  <2>2. c \in Segments
    BY WrittenPaths DEF Literals, Stable, Nightly
  <2> QED BY <2>1, <2>2, WrittenPaths DEF Text, Empty
<1>3. /\ r.from \in Paths /\ r.to \in Paths /\ Len(r.to) = 2
      /\ r.from[Len(r.from)] = Text(o) /\ r.to[1] = c /\ r.to[2] = Text(n)
      /\ Len(r.from) \in 1..2
  <2>1. << Text(o) >> \in Paths /\ << c, Text(o) >> \in Paths /\ << c, Text(n) >> \in Paths
    BY <1>2, WrittenPaths
  <2>2. /\ Len(<< Text(o) >>) = 1 /\ << Text(o) >>[1] = Text(o)
        /\ Len(<< c, Text(o) >>) = 2 /\ << c, Text(o) >>[2] = Text(o)
        /\ Len(<< c, Text(n) >>) = 2 /\ << c, Text(n) >>[1] = c /\ << c, Text(n) >>[2] = Text(n)
    OBVIOUS
  <2>3. r.to \in Paths /\ Len(r.to) = 2 /\ r.to[1] = c /\ r.to[2] = Text(n)
    BY <1>1, <2>1, <2>2
  <2>4. CASE r.from = << Text(o) >>
    BY <2>1, <2>2, <2>3, <2>4
  <2>5. CASE r.from = << c, Text(o) >>
    BY <2>1, <2>2, <2>3, <2>5
  <2> QED BY <1>1, <2>4, <2>5
<1> DEFINE from == r.from
           to   == r.to
<1>4. /\ t \in Paths /\ Len(t) = Len(p) - Len(from) + 2
      /\ t[1] = c /\ t[2] # Empty /\ t[2][1] = n
      /\ Directory(t) <=> Directory(p)
  <2>1. from \in Paths /\ to \in Paths /\ StartsWith(p, from) /\ from[Len(from)] # Empty
        /\ to[Len(to)] # Empty /\ Len(to) = 2 /\ to[1] = c /\ to[2][1] = n
    BY <1>2, <1>3
  <2>2. t = Replace(p, from, to)
    OBVIOUS
  <2> HIDE DEF from, to, t
  <2>3. Rewritten(t, p, from, to)
    BY <2>1, <2>2, ReplaceIs
  <2> QED BY <2>1, <2>3 DEF Rewritten, Directory
<1> HIDE DEF t
<1>5. Len(t) > 1
  <2>1. Len(from) \in 1..2
    BY <1>3
  <2>2. Len(p) >= Len(from) /\ Len(p) \in Nat
    BY PathIs DEF StartsWith
  <2> HIDE DEF from
  <2> QED BY <1>4, <2>1, <2>2
<1>6. StartsWith(t, r.to)
  <2>1. PICK a \in {"stable", "nightly"} : c = Text(a)
    BY DEF Stable, Nightly
  <2>2. t \in Paths /\ Len(t) > 1 /\ t[1] = Text(a) /\ t[2] # Empty /\ t[2][1] = n
    BY <1>4, <1>5, <2>1
  <2>3. \A b, d : StartsWith(t, << Text(b), Text(d) >>) <=>
                   Len(t) > 1 /\ t[1] = Text(b) /\ t[2] # Empty /\ t[2][1] = d
    BY <2>2, PrefixIs
  <2>4. StartsWith(t, << Text(a), Text(n) >>)
    BY <2>2, <2>3
  <2> QED BY <1>1, <2>1, <2>4
<1>7. Booked(t)
  BY <1>6 DEF Booked
<1>8. t[1] # Empty /\ t[1][1] \in ChannelNames
  BY <1>4, FirstAtomIs DEF ChannelNames
<1>9. Left(t) = IF Directory(p) THEN 1 ELSE 3
  BY <1>4, <1>7, <1>8, LeftOnChannel
<1>10. Left(t) < Left(p)
  BY <1>9
<1> QED BY <1>4, <1>10, NearerWhenMoved DEF t

\* The nightly channel had another name.
LEMMA NearerFromMaster ==
  ASSUME NEW p \in Paths, StartsWith(p, << Master >>),
         DocRoute(p) = Moved(Replace(p, << Master >>, << Nightly >>), 301),
         Left(p) = IF Directory(p) THEN 3 ELSE 5
  PROVE  Nearer(p, DocAnswer(p))
PROOF
<1> DEFINE t == Replace(p, << Master >>, << Nightly >>)
<1>1. /\ << Master >> \in Paths /\ << Nightly >> \in Paths
      /\ Master # Empty /\ Nightly # Empty /\ Nightly[1] = "nightly"
  BY WrittenPaths DEF Master, Nightly, Literals, Text, Empty
<1>2. /\ t \in Paths /\ t[1] # Empty /\ t[1][1] = "nightly"
      /\ Directory(t) <=> Directory(p)
  <2>1. Len(<< Nightly >>) = 1 /\ << Nightly >>[1] = Nightly /\ << Master >>[Len(<< Master >>)] = Master
    OBVIOUS
  <2> DEFINE from == << Master >>
             to   == << Nightly >>
  <2>2. /\ from \in Paths /\ to \in Paths /\ StartsWith(p, from) /\ from[Len(from)] # Empty
        /\ to[Len(to)] # Empty /\ Len(to) = 1 /\ to[1][1] = "nightly"
    BY <1>1, <2>1
  <2>3. t = Replace(p, from, to)
    OBVIOUS
  <2> HIDE DEF from, to, t
  <2>4. Rewritten(t, p, from, to)
    BY <2>2, <2>3, ReplaceIs
  <2> QED BY <2>2, <2>4 DEF Rewritten, Directory
<1> HIDE DEF t
<1>3. Left(t) <= IF Directory(p) THEN 2 ELSE 4
  BY <1>2, LeftOnChannel DEF ChannelNames
<1>4. Left(t) < Left(p)
  BY <1>2, <1>3, LeftIsBounded
<1> QED BY <1>2, <1>4, NearerWhenMoved DEF t

\* Below /doc one segment less is /doc.
LEMMA NearerFromOldDirectory ==
  ASSUME NEW p \in Paths, InOldDirectory(p), DocRoute(p) = Moved(Collapse(Tail(p)), 301)
  PROVE  Nearer(p, DocAnswer(p))
PROOF
<1> DEFINE t == Collapse(Tail(p))
<1>1. t \in Paths /\ Docs(t) + 1 <= Docs(p)
  BY OldDirectoryIs
<1>2. Left(t) \in Nat /\ Left(t) <= 5 + Docs(t) /\ Docs(t) \in Nat /\ Docs(p) \in Nat
  BY <1>1, LeftIsBounded, DocsIsNat
<1>3. Left(p) = IF ~InOldDirectory(t) THEN 1 + Left(t) ELSE 5 + Docs(p)
  BY DEF Left
<1> HIDE DEF t
<1>4. Left(t) < Left(p)
  BY <1>1, <1>2, <1>3
<1> QED BY <1>1, <1>4, NearerWhenMoved DEF t

\* doc.rust-lang.org, its router and the website together.
LEMMA DocAnswerIsNearer ==
  ASSUME NEW p \in Paths
  PROVE  Nearer(p, DocAnswer(p))
PROOF
<1>1. CASE p \in {Root, << Index >>} /\ Left(p) = 2 /\ DocRoute(p) = Moved(<< Stable, Empty >>, 302)
  <2> DEFINE t == << Stable, Empty >>
  <2>1. t \in Paths /\ t[1] # Empty /\ t[1][1] \in ChannelNames /\ Directory(t) /\ t[2] = Empty
    BY WrittenPaths, FirstAtomIs DEF Stable, Literals, ChannelNames, Directory
  <2> HIDE DEF t
  <2>2. ~Renamed(t)
    BY <2>1, BranchIs DEF ChannelNames, OldNames
  <2>3. Left(t) = 1
    BY <2>1, <2>2, LeftOnChannel
  <2>4. Left(t) < Left(p)
    BY <1>1, <2>3
  <2> QED BY <1>1, <2>1, <2>4, NearerWhenMoved DEF t
<1>2. CASE DocRoute(p) = MovedTo("docs.rs", p, 301)
  BY <1>2 DEF Nearer, DocAnswer, MovedTo
<1>3. CASE /\ OnChannel(p) \/ p \in SpecialFiles
           /\ Left(p) = IF Directory(p) THEN 1 ELSE IF Booked(p) THEN 3 ELSE 4
           /\ DocRoute(p) = Fetch(p)
  <2>1. p[1] # Empty /\ p[1][1] \in ChannelNames \union FileNames
    <3>1. \A f : << Text(f) >>[1] = Text(f) /\ Text(f) # Empty /\ Text(f)[1] = f
      BY DEF Text, Empty
    <3> QED BY <1>3, <3>1, BranchIs
  <2> QED BY <1>3, <2>1, NearerFromChannel
<1>4. CASE /\ Left(p) = IF Directory(p) THEN 1 ELSE 4
           /\ DocRoute(p) = Fetch(<< Stable >> \o p)
  <2> DEFINE f == << Stable >> \o p
  <2>1. << Stable >> \in Paths /\ << Stable >> \in Seq(Segments)
    BY WrittenPaths, PathIs DEF Stable, Literals
  <2>2. /\ p \in Seq(Segments) /\ Len(p) \in Nat \ {0}
    BY PathIs
  <2>3. /\ f \in Paths /\ Len(f) = 1 + Len(p)
        /\ \A i \in 1..1 + Len(p) : f[i] = IF i <= 1 THEN << Stable >>[i] ELSE p[i - 1]
    <3>1. f \in Paths
      BY <2>1, <2>2, WrittenPaths
    <3>2. Len(<< Stable >>) = 1
      OBVIOUS
    <3> QED BY <2>1, <2>2, <3>1, <3>2, ConcatProperties
  <2> HIDE DEF f
  <2>4. f[1] = Stable /\ f[1 + Len(p)] = p[1 + Len(p) - 1]
    BY <2>2, <2>3
  <2>5. f[1] = Stable /\ f[Len(f)] = p[Len(p)]
    BY <2>2, <2>3, <2>4
  <2>6. Left(p) = (IF Directory(p) THEN 1 ELSE 4) /\ f # p
    BY <1>4, <2>2, <2>3
  <2>7. f[1] # Empty /\ f[1][1] \in ChannelNames
    BY <2>5, FirstAtomIs DEF ChannelNames
  <2>8. (Directory(f) <=> Directory(p)) /\ DocRoute(p) = Fetch(f)
    BY <1>4, <2>5 DEF Directory, f
  <2> QED BY <2>3, <2>6, <2>7, <2>8, NearerFromChannel
<1> QED BY <1>1, <1>2, <1>3, <1>4, DocBranches, NearerFromVersion, NearerFromMinor,
           NearerFromOldName, NearerFromMaster, NearerFromOldDirectory

-----------------------------------------------------------------------------
(* Redirects end.                                                          *)

OtherSites == Buckets \union {"heroku", "docs.rs", "sh.rustup.rs", "rust-lang.org"}

\* The answer of a site, and where it takes a client of a CDN.
AnswerOf(c, host, p, query) ==
  CASE host = "static.crates.io" /\ c = "fastly"     -> FastlyRoute(p)
    [] host = "static.crates.io" /\ c = "cloudfront" -> CloudFrontRoute(p)
    [] host = "cloudfront-static.crates.io"          -> CloudFrontRoute(p)
    [] host = "crates.io"                            -> WebappRoute(p)
    [] host = "static.rust-lang.org" /\ c = "fastly" -> StaticFastlyRoute(p, query)
    [] host = "static.rust-lang.org" /\ c = "cloudfront" -> StaticRoute(p)
    [] host = "doc.rust-lang.org"                    -> DocAnswer(p)
    [] host = "win.rustup.rs"                        -> WinRoute(p)
    [] host = "prev.rust-lang.org"                   -> PrevRoute(p)

Towards(host, answer) ==
  CASE answer.do = "fetch"    -> BucketOf(host)
    [] answer.do = "redirect" -> host
    [] OTHER                  -> answer.do

\* How many requests a client may still need.
Rank(host, p) ==
  CASE host = "crates.io"                   -> 3
    [] host = "static.crates.io"            -> IF p = VersionDownloads THEN 1 ELSE 2
    [] host = "cloudfront-static.crates.io" -> IF p = VersionDownloadsBare THEN 2 ELSE 1
    [] host = "static.rust-lang.org"        -> 5 + Docs(p)
    [] host = "doc.rust-lang.org"           -> Left(p)
    [] host \in {"win.rustup.rs", "prev.rust-lang.org"} -> 1
    [] OTHER                                -> 0

\* Only who has left our sites needs no more requests.
LEMMA RankIs ==
  ASSUME NEW p \in Paths
  PROVE  /\ \A host \in OurHosts : Rank(host, p) \in Nat \ {0}
         /\ \A host \in OtherSites : Rank(host, p) = 0
PROOF
  BY LeftIsBounded, DocsIsNat DEF Rank, OurHosts, OnBothCdns, OtherSites, Buckets

\* An answer that takes the client on, or to where it stays.
Ahead(host, p, answer) ==
  /\ answer.path \in Paths
  /\ Towards(host, answer) \in OurHosts \union OtherSites
  /\ Rank(Towards(host, answer), answer.path) < Rank(host, p)

\* A router that fetches or sends the client to another site that is not ours.
LEMMA AheadAtOnce ==
  ASSUME NEW host \in OurHosts, NEW p \in Paths, NEW answer, answer.path \in Paths,
         answer.do \in {"fetch"} \union OtherSites
  PROVE  Ahead(host, p, answer)
PROOF
<1>1. Towards(host, answer) \in OtherSites
  BY DEF Towards, BucketOf, OtherSites, Buckets
<1>2. Rank(Towards(host, answer), answer.path) = 0 /\ Rank(host, p) \in Nat \ {0}
  BY <1>1, RankIs
<1> QED BY <1>1, <1>2 DEF Ahead

\* static.crates.io.
LEMMA AheadOnStatic ==
  ASSUME NEW p \in Paths
  PROVE  /\ Ahead("static.crates.io", p, FastlyRoute(p))
         /\ Ahead("static.crates.io", p, CloudFrontRoute(p))
         /\ Ahead("cloudfront-static.crates.io", p, CloudFrontRoute(p))
PROOF
<1>1. /\ FastlyKey(p) \in Paths
      /\ FastlyRoute(p) =
              IF p = VersionDownloadsBare THEN Moved(VersionDownloads, 308)
              ELSE IF DumpOf(p) # {} THEN ToCloudFront(<< Text(CHOOSE d \in DumpOf(p) : TRUE) >>)
              ELSE Fetch(FastlyKey(p))
      /\ CloudFrontRoute(p) =
              IF p = VersionDownloadsBare THEN Moved(VersionDownloads, 301) ELSE Fetch(FastlyKey(p))
  BY StaticRoutersAre
<1>2. /\ VersionDownloads \in Paths /\ VersionDownloads # VersionDownloadsBare
      /\ DumpOf(VersionDownloads) = {}
  BY VersionDownloadsHasNoPlus
<1>3. {"static.crates.io", "cloudfront-static.crates.io"} \subseteq OurHosts
  BY DEF OurHosts, OnBothCdns
<1>4. /\ Ahead("static.crates.io", p, Fetch(FastlyKey(p)))
      /\ Ahead("cloudfront-static.crates.io", p, Fetch(FastlyKey(p)))
  BY <1>1, <1>3, AheadAtOnce DEF Fetch
<1>5. ASSUME p = VersionDownloadsBare, NEW code
      PROVE  /\ Ahead("static.crates.io", p, Moved(VersionDownloads, code))
             /\ Ahead("cloudfront-static.crates.io", p, Moved(VersionDownloads, code))
  BY <1>2, <1>3, <1>5 DEF Ahead, Moved, Towards, Rank
<1>6. ASSUME DumpOf(p) # {}
      PROVE  Ahead("static.crates.io", p, ToCloudFront(<< Text(CHOOSE d \in DumpOf(p) : TRUE) >>))
  <2>1. PICK d \in Dumps : d = CHOOSE x \in DumpOf(p) : TRUE
    BY <1>6 DEF DumpOf
  <2>2. << Text(d) >> \in Paths /\ << Text(d) >> # VersionDownloadsBare
    BY DumpIsItsKey
  <2>3. p # VersionDownloads
    BY <1>2, <1>6
  <2>4. Ahead("static.crates.io", p, ToCloudFront(<< Text(d) >>))
    BY <1>3, <2>2, <2>3 DEF Ahead, ToCloudFront, MovedTo, Towards, Rank
  <2> QED BY <2>1, <2>4
<1> QED BY <1>1, <1>4, <1>5, <1>6

\* crates.io.
LEMMA AheadOnTheWebapp ==
  ASSUME NEW p \in Paths
  PROVE  Ahead("crates.io", p, WebappRoute(p))
PROOF
<1>1. CASE ~IsApiFile(p)
  BY <1>1, AheadAtOnce DEF WebappRoute, ToHeroku, MovedTo, OurHosts, OnBothCdns, OtherSites
<1>2. CASE IsApiFile(p)
  <2>1. p[4] \in Segments /\ p[5] \in Segments
    <3>1. Len(p) = 6
      BY <1>2 DEF IsApiFile
    <3>2. \A i \in 1..6 : p[i] \in Segments
      BY <3>1, PathIs
    <3> QED BY <3>2
  <2>2. Encode(p[5]) \in Segments
    BY <2>1, EncodeIs
  <2>3. PICK t \in {CrateFile(p[4], Encode(p[5])), ReadmeFile(p[4], Encode(p[5]))} :
          WebappRoute(p) = ToStatic(t)
    BY <1>2 DEF WebappRoute
  <2>4. t \in Paths
    BY <2>1, <2>2, <2>3, CrateFileIs
  <2> QED BY <2>3, <2>4 DEF Ahead, ToStatic, MovedTo, Towards, Rank, OurHosts, OnBothCdns
<1> QED BY <1>1, <1>2

\* The prefix that is sent to doc.rust-lang.org is the nightly channel's old name.
LEMMA DocMasterIs ==
  /\ DocMaster \in Paths /\ Len(DocMaster) = 2 /\ DocMaster[1] = Doc /\ DocMaster[2] = Master
  /\ << Stable >> \in Paths /\ Stable # Empty /\ Master # Empty /\ Stable[1] = "stable"
  /\ \A p \in Paths : Len(p) > 2 /\ SubSeq(p, 1, 2) = DocMaster <=>
       Len(p) > 2 /\ p[1] = Doc /\ p[2] = Master
  /\ \A p \in Paths : Len(p) > 2 /\ p[1] = Doc /\ p[2] = Master => StartsWith(p, DocMaster)
  /\ \A p \in Paths : StartsWith(p, DocMaster) => Len(p) > 1 /\ p[1] = Doc
PROOF
<1>1. /\ DocMaster \in Paths /\ Len(DocMaster) = 2 /\ DocMaster[1] = Doc /\ DocMaster[2] = Master
      /\ << Stable >> \in Paths /\ Stable # Empty /\ Master # Empty /\ Stable[1] = "stable"
  BY WrittenPaths DEF DocMaster, Doc, Master, Stable, Literals, Text, Empty
<1>2. ASSUME NEW p \in Paths
      PROVE  StartsWith(p, DocMaster) <=> Len(p) > 1 /\ p[1] = Doc /\ p[2] # Empty /\ p[2][1] = "master"
  BY PrefixIs DEF DocMaster, Doc, Master
<1>3. ASSUME NEW p \in Paths, Len(p) > 2
      PROVE  SubSeq(p, 1, 2) = DocMaster <=> p[1] = Doc /\ p[2] = Master
  <2> DEFINE q == SubSeq(p, 1, 2)
  <2>1. /\ p \in Seq(Segments) /\ Len(p) \in Nat /\ \A i \in 1..2 : p[i] \in Segments
    BY <1>3, PathIs
  <2>2. q \in Seq(Segments) /\ Len(q) = 2 /\ \A i \in 1..2 : q[i] = p[i]
    BY <2>1, SubSeqProperties
  <2> HIDE DEF q
  <2>3. DocMaster \in Seq(Segments)
    BY <1>1, PathIs
  <2>4. q[1] = p[1] /\ q[2] = p[2]
    BY <2>2
  <2>5. q = DocMaster <=> \A i \in 1..2 : q[i] = DocMaster[i]
    BY <1>1, <2>2, <2>3, SeqEqual
  <2> QED BY <1>1, <2>4, <2>5 DEF q
<1>4. Master[1] = "master"
  BY DEF Master, Text
<1>5. ASSUME NEW p \in Paths
      PROVE  Len(p) > 2 <=> Len(p) > 2 /\ Len(p) > 1
  BY PathIs
<1> QED BY <1>1, <1>2, <1>3, <1>4, <1>5

\* On the way from static.rust-lang.org to the documentation one /doc goes.
LEMMA AheadOfTheDocs ==
  ASSUME NEW p \in Paths, StartsWith(p, DocMaster)
  PROVE  Ahead("static.rust-lang.org", p, ToDocs(p))
PROOF
<1> DEFINE t    == Replace(p, DocMaster, << Stable >>)
           old  == DocMaster
           new  == << Stable >>
<1>1. /\ old \in Paths /\ Len(old) = 2 /\ old[2] # Empty
      /\ new \in Paths /\ Len(new) = 1 /\ new[1] # Empty /\ new[1][1] = "stable"
      /\ Len(p) \in Nat /\ Len(p) > 1 /\ p[1] = Doc /\ StartsWith(p, old)
  BY DocMasterIs, PathIs
<1>2. t = Replace(p, old, new)
  OBVIOUS
<1> HIDE DEF t, old, new
<1>3. Rewritten(t, p, old, new)
  BY <1>1, <1>2, ReplaceIs
<1>4. /\ t \in Paths /\ Len(t) = Len(p) - 1
      /\ t[1] # Empty /\ t[1][1] = "stable"
      /\ \A i \in 1..Len(p) - 2 : t[1 + i] = p[2 + i]
  BY <1>1, <1>3 DEF Rewritten
<1>5. t[1] # Doc
  BY <1>4, FirstAtomIs
<1>6. ASSUME NEW i \in 1..Len(t), t[i] = Doc
      PROVE  i + 1 \in 1..Len(p) /\ p[i + 1] = Doc
  <2>1. i # 1 /\ i - 1 \in 1..Len(p) - 2
    BY <1>1, <1>4, <1>5, <1>6
  <2>2. t[1 + (i - 1)] = p[2 + (i - 1)]
    BY <1>4, <2>1
  <2>3. 1 + (i - 1) = i /\ 2 + (i - 1) = i + 1 /\ i + 1 \in 1..Len(p)
    BY <1>1, <1>4, <2>1
  <2> QED BY <1>6, <2>2, <2>3
<1>7. Docs(t) + 1 <= Docs(p)
  BY <1>1, <1>4, <1>6, OneDocLess
<1>8. Left(t) <= 5 + Docs(t) /\ Left(t) \in Nat /\ Docs(t) \in Nat /\ Docs(p) \in Nat
  BY <1>4, LeftIsBounded, DocsIsNat
<1>9. ToDocs(p) = MovedTo("doc.rust-lang.org", t, 301)
  BY <1>2 DEF ToDocs, old, new
<1>10. Ahead("static.rust-lang.org", p, MovedTo("doc.rust-lang.org", t, 301))
  BY <1>4, <1>7, <1>8 DEF Ahead, MovedTo, Towards, Rank, OurHosts
<1> QED BY <1>9, <1>10

\* static.rust-lang.org.
LEMMA AheadOnReleases ==
  ASSUME NEW p \in Paths, NEW query \in BOOLEAN
  PROVE  /\ Ahead("static.rust-lang.org", p, StaticRoute(p))
         /\ Ahead("static.rust-lang.org", p, StaticFastlyRoute(p, query))
PROOF
<1>1. "static.rust-lang.org" \in OurHosts
  BY DEF OurHosts, OnBothCdns
<1>2. ListFiles \in Paths /\ Root \in Paths
  BY WrittenPaths DEF ListFiles, Root, Literals
<1>3. ASSUME NEW t \in Paths
      PROVE  Ahead("static.rust-lang.org", p, Fetch(t))
  BY <1>1, AheadAtOnce DEF Fetch
<1>4. Ahead("static.rust-lang.org", p, ToRustupRs)
  BY <1>1, <1>2, AheadAtOnce DEF ToRustupRs, MovedTo, OtherSites
<1>5. StartsWith(p, DocMaster) => Ahead("static.rust-lang.org", p, ToDocs(p))
  BY AheadOfTheDocs
<1>6. Len(p) > 2 /\ SubSeq(p, 1, 2) = DocMaster => StartsWith(p, DocMaster)
  BY DocMasterIs
<1> QED BY <1>2, <1>3, <1>4, <1>5, <1>6 DEF StaticRoute, StaticFastlyRoute

\* The other sites of the releases.
LEMMA AheadOnOthers ==
  ASSUME NEW p \in Paths
  PROVE  /\ Ahead("doc.rust-lang.org", p, DocAnswer(p))
         /\ Ahead("win.rustup.rs", p, WinRoute(p))
         /\ Ahead("prev.rust-lang.org", p, PrevRoute(p))
PROOF
<1>1. {"doc.rust-lang.org", "win.rustup.rs", "prev.rust-lang.org"} \subseteq OurHosts
  BY DEF OurHosts
<1>2. Ahead("doc.rust-lang.org", p, DocAnswer(p))
  <2>1. Nearer(p, DocAnswer(p))
    BY DocAnswerIsNearer
  <2>2. CASE DocAnswer(p).do = "redirect"
    BY <1>1, <2>1, <2>2 DEF Nearer, Ahead, Towards, Rank
  <2>3. CASE DocAnswer(p).do \in {"fetch", "docs.rs"}
    BY <1>1, <2>1, <2>3, AheadAtOnce DEF Nearer, OtherSites
  <2> QED BY <2>1, <2>2, <2>3 DEF Nearer
<1>3. Ahead("win.rustup.rs", p, WinRoute(p))
  <2>1. ShortName(p) \in Paths
    <3>1. \A a \in Literals : Installer(a) \in Paths
      BY WrittenPaths DEF Installer, Literals
    <3> QED BY <3>1 DEF ShortName, Literals
  <2>2. << Text("rustup"), Text("dist") >> \in Paths /\ ShortName(p) \in Seq(Segments)
    BY <2>1, WrittenPaths, PathIs DEF Literals
  <2>3. << Text("rustup"), Text("dist") >> \o ShortName(p) \in Paths
    BY <2>2, WrittenPaths
  <2> QED BY <1>1, <2>3, AheadAtOnce DEF WinRoute, Fetch
<1>4. Ahead("prev.rust-lang.org", p, PrevRoute(p))
  BY <1>1, AheadAtOnce DEF PrevRoute, MovedTo, OtherSites
<1> QED BY <1>2, <1>3, <1>4

\* All sites.
LEMMA EveryAnswerIsAhead ==
  ASSUME NEW c \in Cdns, NEW host \in OurHosts, NEW p \in Paths, NEW query \in BOOLEAN
  PROVE  Ahead(host, p, AnswerOf(c, host, p, query))
PROOF
<1>1. CASE host = "static.crates.io"
  BY <1>1, AheadOnStatic DEF AnswerOf, Cdns
<1>2. CASE host = "cloudfront-static.crates.io"
  BY <1>2, AheadOnStatic DEF AnswerOf
<1>3. CASE host = "crates.io"
  BY <1>3, AheadOnTheWebapp DEF AnswerOf
<1>4. CASE host = "static.rust-lang.org"
  BY <1>4, AheadOnReleases DEF AnswerOf, Cdns
<1>5. CASE host \in {"doc.rust-lang.org", "win.rustup.rs", "prev.rust-lang.org"}
  BY <1>5, AheadOnOthers DEF AnswerOf
<1> QED BY <1>1, <1>2, <1>3, <1>4, <1>5 DEF OurHosts, OnBothCdns

\* A client is somewhere, and does not need more requests than remain to it.
EndsInv ==
  /\ start \in Starts
  /\ client \in [Clients -> [at : OurHosts \union OtherSites, path : Paths, query : BOOLEAN,
                             hops : Nat]]
  /\ \A c \in Clients : client[c].hops + Rank(client[c].at, client[c].path) <= Longest

\* What the assumption on the starts gives.
LEMMA StartIs ==
  ASSUME start \in Starts
  PROVE  /\ start.host \in OurHosts /\ start.path \in Paths /\ start.query \in BOOLEAN
         /\ Clients \subseteq Cdns
PROOF
  BY StartsAssumption, PathsAreTyped DEF Clients, Cdns

\* The longest way from each site starts there.
LEMMA EndsInit == Init => EndsInv
PROOF
<1> SUFFICES ASSUME Init
             PROVE  EndsInv
  OBVIOUS
<1>1. start.host \in OurHosts /\ start.path \in Paths /\ start.query \in BOOLEAN
  BY StartIs DEF Init
<1>2. client \in [Clients -> [at : OurHosts \union OtherSites, path : Paths, query : BOOLEAN,
                              hops : Nat]]
  BY <1>1 DEF Init
<1>3. \A c \in Clients : client[c].hops = 0 /\ client[c].at = start.host /\ client[c].path = start.path
  BY DEF Init
<1>4. Rank(start.host, start.path) <= Longest /\ Rank(start.host, start.path) \in Nat
  <2>1. Left(start.path) \in Nat /\ Left(start.path) <= 5 + Docs(start.path) /\ Docs(start.path) \in Nat
    BY <1>1, LeftIsBounded, DocsIsNat
  <2>2. Cardinality({s \in DOMAIN start.path : start.path[s] = Doc}) = Docs(start.path)
    BY DEF Docs, DocsIn
  <2> QED BY <1>1, <2>1, <2>2 DEF Rank, Longest, OurHosts, OnBothCdns
<1> QED BY <1>2, <1>3, <1>4 DEF EndsInv, Init

\* An answer costs one request and lowers the rank by one at least.
LEMMA EndsInductive == EndsInv /\ [Next]_vars => EndsInv'
PROOF
<1> SUFFICES ASSUME EndsInv, [Next]_vars
             PROVE  EndsInv'
  OBVIOUS
<1>1. CASE Next
  <2>1. PICK c \in Clients : Ask(c)
    BY <1>1 DEF Next
  <2> DEFINE host   == client[c].at
             path   == client[c].path
             answer == Answer(c)
             to     == Towards(host, answer)
  <2>2. /\ start' = start /\ Clients' = Clients /\ Longest' = Longest
        /\ host \in OurHosts /\ path \in Paths /\ client[c].query \in BOOLEAN
        /\ client[c].hops \in Nat /\ c \in Cdns
    BY <2>1, StartIs DEF Ask, Arrived, EndsInv, Clients, Longest
  <2>3. answer = AnswerOf(c, host, path, client[c].query)
    BY DEF Answer, AnswerOf
  <2>4. After(c, answer) = to
    BY DEF After, Towards
  <2>5. Ahead(host, path, answer)
    BY <2>2, <2>3, EveryAnswerIsAhead
  <2>6. client' = [client EXCEPT ![c] = [at |-> to, path |-> answer.path,
                                        query |-> FALSE, hops |-> @.hops + 1]]
    BY <2>1, <2>4 DEF Ask
  <2> HIDE DEF answer, to
  <2>7. /\ answer.path \in Paths /\ to \in OurHosts \union OtherSites
        /\ Rank(to, answer.path) < Rank(host, path)
    BY <2>5 DEF Ahead, to
  <2>8. Rank(to, answer.path) \in Nat /\ Rank(host, path) \in Nat
    BY <2>2, <2>7, RankIs
  <2>9. client' \in [Clients -> [at : OurHosts \union OtherSites, path : Paths, query : BOOLEAN,
                                 hops : Nat]]
    BY <2>2, <2>6, <2>7 DEF EndsInv
  <2>10. ASSUME NEW d \in Clients
         PROVE  client'[d].hops + Rank(client'[d].at, client'[d].path) <= Longest
    <3>1. CASE d # c
      BY <2>6, <3>1 DEF EndsInv
    <3>2. CASE d = c
      <4>1. /\ client'[d].hops = client[c].hops + 1
            /\ client'[d].at = to /\ client'[d].path = answer.path
        BY <2>6, <3>2 DEF EndsInv
      <4>2. client[c].hops + Rank(host, path) <= Longest /\ Longest \in Int
        <5>1. client[c].hops + Rank(host, path) <= Longest
          BY DEF EndsInv
        <5>2. /\ Docs(start.path) \in Nat
              /\ Cardinality({s \in DOMAIN start.path : start.path[s] = Doc}) = Docs(start.path)
          BY StartIs, DocsIsNat DEF EndsInv, Docs, DocsIn
        <5> QED BY <5>1, <5>2 DEF Longest
      <4> QED BY <2>2, <2>7, <2>8, <4>1, <4>2
    <3> QED BY <3>1, <3>2
  <2> QED BY <2>2, <2>9, <2>10 DEF EndsInv
<1>2. CASE UNCHANGED vars
  BY <1>2 DEF vars, EndsInv, Clients, Longest
<1> QED BY <1>1, <1>2

\* So the invariant holds in every behaviour.
LEMMA EndsAlways == Spec => []EndsInv
PROOF
  BY EndsInit, EndsInductive, PTL DEF Spec

\* From any URL of our sites, and whatever files there are, no router leads back to
\* where another came from: an answer is always nearer to the end.
THEOREM RedirectsTerminate == Spec => []RedirectsEnd
PROOF
<1>1. EndsInv => RedirectsEnd
  <2> SUFFICES ASSUME EndsInv, NEW c \in Clients
               PROVE  client[c].hops <= Longest /\ (client[c].hops = Longest => Arrived(c))
    BY DEF RedirectsEnd
  <2> DEFINE rank == Rank(client[c].at, client[c].path)
  <2>1. /\ client[c].at \in OurHosts \union OtherSites /\ client[c].path \in Paths
        /\ client[c].hops \in Nat /\ client[c].hops + rank <= Longest
    BY DEF EndsInv
  <2>2. rank \in Nat /\ (client[c].at \in OurHosts => rank # 0)
    BY <2>1, RankIs
  <2>3. Longest \in Int
    <3>1. /\ Docs(start.path) \in Nat
          /\ Cardinality({s \in DOMAIN start.path : start.path[s] = Doc}) = Docs(start.path)
      BY StartIs, DocsIsNat DEF EndsInv, Docs, DocsIn
    <3> QED BY <3>1 DEF Longest
  <2> QED BY <2>1, <2>2, <2>3 DEF Arrived
<1> QED BY <1>1, EndsAlways, PTL

-----------------------------------------------------------------------------
(* The CDNs agree: crates.io.                                              *)

CratesSites == {"static.crates.io", "cloudfront-static.crates.io", "crates.io"}

\* No dump is looked for, or its own name.
Plain(p) == DumpOf(p) = {} \/ \E d \in Dumps : p = << Text(d) >>

\* The object of static.crates.io a path leads to.
StaticEnd(p) ==
  [at |-> "crates-io", path |-> IF p = VersionDownloadsBare THEN VersionDownloadsIndex ELSE FastlyKey(p)]

\* Where a client that is at a site ends, through whichever CDN.
Destination(host, p) ==
  IF host \in {"static.crates.io", "cloudfront-static.crates.io"} THEN StaticEnd(p)
  ELSE IF host = "crates.io" /\ IsApiFile(p) THEN StaticEnd(WebappRoute(p).path)
  ELSE IF host = "crates.io" THEN [at |-> "heroku", path |-> p]
  ELSE [at |-> host, path |-> p]

\* An answer that does not change where the client ends.
Keeps(host, p, answer) ==
  LET at == Towards(host, answer) IN
  /\ at \in CratesSites \union OtherSites
  /\ at \in CratesSites \ {"crates.io"} => Plain(answer.path)
  /\ Destination(at, answer.path) = Destination(host, p)

\* Both names of the version downloads lead to the same object.
LEMMA SameEnd ==
  /\ StaticEnd(VersionDownloads) = StaticEnd(VersionDownloadsBare)
  /\ Plain(VersionDownloads)
PROOF
<1>1. /\ VersionDownloads \in Paths /\ ~HasPlus(VersionDownloads) /\ DumpOf(VersionDownloads) = {}
      /\ VersionDownloads # VersionDownloadsBare
  BY VersionDownloadsHasNoPlus
<1>2. EncodePlus(VersionDownloads) = VersionDownloads
  BY <1>1, NoPlusStays
<1>3. ~IsDownload(VersionDownloads)
  BY DEF IsDownload, VersionDownloads
<1>4. FastlyKey(VersionDownloads) = VersionDownloadsIndex
  BY <1>2, <1>3 DEF FastlyKey, RewriteDownload, RewriteVersionDownloads
<1> QED BY <1>1, <1>4 DEF StaticEnd, Plain

\* Neither router of static.crates.io changes where a client ends.
LEMMA StaticKeeps ==
  ASSUME NEW host \in CratesSites \ {"crates.io"}, NEW p \in Paths, Plain(p),
         NEW answer \in {FastlyRoute(p), CloudFrontRoute(p)},
         host = "static.crates.io" \/ answer = CloudFrontRoute(p)
  PROVE  Keeps(host, p, answer)
PROOF
<1>1. host \in {"static.crates.io", "cloudfront-static.crates.io"} /\ Destination(host, p) = StaticEnd(p)
  BY DEF CratesSites, Destination
<1>2. \/ p = VersionDownloadsBare /\ \E code : answer = Moved(VersionDownloads, code)
      \/ p # VersionDownloadsBare /\ answer = Fetch(FastlyKey(p))
      \/ DumpOf(p) # {} /\ answer = ToCloudFront(<< Text(CHOOSE d \in DumpOf(p) : TRUE) >>)
  BY StaticRoutersAre
<1>3. CASE p = VersionDownloadsBare /\ \E code : answer = Moved(VersionDownloads, code)
  <2>1. answer.do = "redirect" /\ answer.path = VersionDownloads
    BY <1>3 DEF Moved
  <2>2. Towards(host, answer) = host
    BY <2>1 DEF Towards
  <2> QED BY <1>1, <1>3, <2>1, <2>2, SameEnd DEF Keeps, Destination
<1>4. CASE p # VersionDownloadsBare /\ answer = Fetch(FastlyKey(p))
  <2>1. Towards(host, answer) = "crates-io" /\ answer.path = FastlyKey(p)
    BY <1>1, <1>4 DEF Towards, BucketOf, Fetch
  <2>2. "crates-io" \in OtherSites /\ "crates-io" \notin CratesSites
    BY DEF OtherSites, Buckets, CratesSites
  <2>3. Destination("crates-io", FastlyKey(p)) = StaticEnd(p)
    BY <1>4 DEF Destination, StaticEnd
  <2> QED BY <1>1, <2>1, <2>2, <2>3 DEF Keeps
<1>5. CASE DumpOf(p) # {} /\ answer = ToCloudFront(<< Text(CHOOSE d \in DumpOf(p) : TRUE) >>)
  <2>1. PICK d \in Dumps : p = << Text(d) >>
    BY <1>5 DEF Plain
  <2>2. DumpOf(p) = {d}
    BY <2>1, DumpIsItsKey
  <2>3. answer = ToCloudFront(p)
    BY <1>5, <2>1, <2>2
  <2>4. Towards(host, answer) = "cloudfront-static.crates.io" /\ answer.path = p
    BY <2>3 DEF Towards, ToCloudFront, MovedTo
  <2> QED BY <1>1, <2>4 DEF Keeps, Destination, CratesSites
<1> QED BY <1>2, <1>3, <1>4, <1>5

\* Nor does the web application.
LEMMA WebappKeeps ==
  ASSUME NEW p \in Paths
  PROVE  Keeps("crates.io", p, WebappRoute(p))
PROOF
<1>1. CASE ~IsApiFile(p)
  <2>1. WebappRoute(p) = ToHeroku(p)
    BY <1>1 DEF WebappRoute
  <2>2. Towards("crates.io", ToHeroku(p)) = "heroku" /\ ToHeroku(p).path = p
    BY DEF Towards, ToHeroku, MovedTo
  <2> QED BY <1>1, <2>1, <2>2 DEF Keeps, Destination, CratesSites, OtherSites
<1>2. CASE IsApiFile(p)
  <2>1. Encode(p[5]) \in Segments /\ p[4] \in Segments
    <3>1. Len(p) = 6
      BY <1>2 DEF IsApiFile
    <3>2. \A i \in 1..6 : p[i] \in Segments
      BY <3>1, PathIs
    <3> QED BY <3>2, EncodeIs
  <2>2. PICK t \in {CrateFile(p[4], Encode(p[5])), ReadmeFile(p[4], Encode(p[5]))} :
          WebappRoute(p) = ToStatic(t)
    BY <1>2 DEF WebappRoute
  <2>3. Plain(t)
    BY <2>1, <2>2, CrateFileIs DEF Plain
  <2>4. Towards("crates.io", ToStatic(t)) = "static.crates.io" /\ ToStatic(t).path = t
    BY DEF Towards, ToStatic, MovedTo
  <2>5. Destination("crates.io", p) = StaticEnd(t)
    BY <1>2, <2>2, <2>4 DEF Destination
  <2>6. Destination("static.crates.io", t) = StaticEnd(t)
    BY DEF Destination
  <2> QED BY <2>2, <2>3, <2>4, <2>5, <2>6 DEF Keeps, CratesSites
<1> QED BY <1>1, <1>2

\* Wherever a client is, it ends where both CDNs take it.
CratesInv ==
  start.host \in {"static.crates.io", "crates.io"} /\ ~KnownDifference =>
    \A c \in Clients :
      /\ client[c].at \in CratesSites \union OtherSites
      /\ client[c].at \in CratesSites \ {"crates.io"} => Plain(client[c].path)
      /\ Destination(client[c].at, client[c].path) = Destination(start.host, start.path)

\* A client starts where it starts.
LEMMA CratesInit == Init => CratesInv
PROOF
<1> SUFFICES ASSUME Init, start.host \in {"static.crates.io", "crates.io"}, ~KnownDifference,
                    NEW c \in Clients
             PROVE  /\ client[c].at \in CratesSites \union OtherSites
                    /\ client[c].at \in CratesSites \ {"crates.io"} => Plain(client[c].path)
                    /\ Destination(client[c].at, client[c].path) = Destination(start.host, start.path)
  BY DEF CratesInv
<1>1. client[c].at = start.host /\ client[c].path = start.path
  BY DEF Init
<1>2. start.host = "static.crates.io" => Plain(start.path)
  BY DEF KnownDifference, Plain, DumpOf
<1> QED BY <1>1, <1>2 DEF CratesSites

\* No answer changes where it ends.
LEMMA CratesInductive == EndsInv /\ CratesInv /\ [Next]_vars => CratesInv'
PROOF
<1> SUFFICES ASSUME EndsInv, CratesInv, [Next]_vars,
                    start'.host \in {"static.crates.io", "crates.io"}, ~KnownDifference',
                    NEW d \in Clients'
             PROVE  /\ client'[d].at \in CratesSites \union OtherSites
                    /\ client'[d].at \in CratesSites \ {"crates.io"} => Plain(client'[d].path)
                    /\ Destination(client'[d].at, client'[d].path) = Destination(start'.host, start'.path)
  BY DEF CratesInv
<1>1. start' = start
  BY DEF Next, Ask, vars
<1>2. /\ Clients' = Clients /\ d \in Clients
      /\ start.host \in {"static.crates.io", "crates.io"} /\ ~KnownDifference
  BY <1>1 DEF Clients, KnownDifference
<1>3. ASSUME NEW c \in Clients
      PROVE  /\ client[c].at \in CratesSites \union OtherSites
             /\ client[c].at \in CratesSites \ {"crates.io"} => Plain(client[c].path)
             /\ Destination(client[c].at, client[c].path) = Destination(start.host, start.path)
  BY <1>2 DEF CratesInv
<1>4. CASE UNCHANGED vars
  BY <1>1, <1>2, <1>3, <1>4 DEF vars
<1>5. CASE Next
  <2>1. PICK c \in Clients : Ask(c)
    BY <1>5 DEF Next
  <2> DEFINE host   == client[c].at
             path   == client[c].path
             answer == Answer(c)
             to     == Towards(host, answer)
  <2>2. host \in OurHosts /\ path \in Paths /\ c \in Cdns
    BY <1>1, <2>1, StartIs DEF Ask, Arrived, EndsInv
  <2>3. answer = AnswerOf(c, host, path, client[c].query)
    BY DEF Answer, AnswerOf
  <2>4. After(c, answer) = to
    BY DEF After, Towards
  <2>5. client' = [client EXCEPT ![c] = [at |-> to, path |-> answer.path,
                                        query |-> FALSE, hops |-> @.hops + 1]]
    BY <2>1, <2>4 DEF Ask
  <2>6. Keeps(host, path, answer)
    <3>1. host \in CratesSites
      BY <1>3, <2>2 DEF OurHosts, OnBothCdns, OtherSites, Buckets, CratesSites
    <3>2. CASE host = "crates.io"
      <4>1. AnswerOf(c, "crates.io", path, client[c].query) = WebappRoute(path)
        BY DEF AnswerOf
      <4> QED BY <2>2, <2>3, <3>2, <4>1, WebappKeeps
    <3>3. CASE host # "crates.io"
      <4>1. \/ host = "static.crates.io" /\ answer \in {FastlyRoute(path), CloudFrontRoute(path)}
            \/ answer = CloudFrontRoute(path)
        BY <2>2, <2>3, <3>1, <3>3 DEF AnswerOf, Cdns, CratesSites
      <4>2. Plain(path)
        BY <1>3, <3>1, <3>3
      <4> QED BY <2>2, <3>1, <3>3, <4>1, <4>2, StaticKeeps
    <3> QED BY <3>2, <3>3
  <2> HIDE DEF answer, to
  <2>7. d # c => client'[d] = client[d]
    BY <1>2, <2>5 DEF EndsInv
  <2>8. d = c => client'[d].at = to /\ client'[d].path = answer.path
    BY <1>2, <2>5 DEF EndsInv
  <2> QED BY <1>1, <1>2, <1>3, <2>6, <2>7, <2>8 DEF Keeps, to
<1> QED BY <1>4, <1>5

-----------------------------------------------------------------------------
(* The CDNs agree: the releases.                                           *)

Places == [at : {"static.rust-lang.org", "doc.rust-lang.org"} \union OtherSites, path : Paths]

\* Where CloudFront takes a client that is at a place.
Forward(place) ==
  LET answer == AnswerOf("cloudfront", place.at, place.path, FALSE)
  IN [at |-> Towards(place.at, answer), path |-> answer.path]

\* The VCL and the Lambda function of static.rust-lang.org differ in what is known.
LEMMA ReleaseRoutersAgree ==
  ASSUME start.host = "static.rust-lang.org", ~KnownDifference, start.path \in Paths,
         start.query \in BOOLEAN
  PROVE  StaticFastlyRoute(start.path, start.query) = StaticRoute(start.path)
PROOF
<1> DEFINE p == start.path
<1>1. start.query => ~IsDay(p) /\ p # RustupSh
  BY DEF KnownDifference
<1>2. StartsWith(p, DocMaster) <=> Len(p) > 2 /\ SubSeq(p, 1, 2) = DocMaster
  <2>1. StartsWith(p, DocMaster) => Len(p) # 2 /\ p[2] = Master
    BY DEF KnownDifference
  <2>2. StartsWith(p, DocMaster) => Len(p) \in Nat /\ Len(p) > 2 /\ p[1] = Doc /\ p[2] = Master
    BY <2>1, DocMasterIs, PathIs
  <2> QED BY <2>2, DocMasterIs
<1> QED BY <1>1, <1>2 DEF StaticFastlyRoute, StaticRoute

\* From the releases a client goes on to the documentation, or leaves our sites.
LEMMA ForwardIs ==
  ASSUME NEW place \in Places, place.at \in OurHosts
  PROVE  /\ Forward(place) \in Places
         /\ Forward(place).at # "static.rust-lang.org"
PROOF
<1> DEFINE p == place.path
<1>1. p \in Paths /\ place.at \in {"static.rust-lang.org", "doc.rust-lang.org"}
  BY DEF Places, OurHosts, OnBothCdns, OtherSites, Buckets
<1>2. CASE place.at = "static.rust-lang.org"
  <2> DEFINE answer == StaticRoute(p)
  <2>1. AnswerOf("cloudfront", place.at, p, FALSE) = answer
    BY <1>2 DEF AnswerOf
  <2>2. answer.do \in {"fetch", "sh.rustup.rs", "doc.rust-lang.org"}
    BY DEF StaticRoute, ToRustupRs, ToDocs, Fetch, MovedTo
  <2>3. answer.path \in Paths
    BY <1>1, AheadOnReleases DEF Ahead
  <2> HIDE DEF answer
  <2>4. Towards(place.at, answer) \in {"static-rust-lang-org", "sh.rustup.rs", "doc.rust-lang.org"}
    BY <1>2, <2>2 DEF Towards, BucketOf
  <2> QED BY <2>1, <2>3, <2>4 DEF Forward, Places, OtherSites, Buckets
<1>3. CASE place.at = "doc.rust-lang.org"
  <2> DEFINE answer == DocAnswer(p)
  <2>1. AnswerOf("cloudfront", place.at, p, FALSE) = answer
    BY <1>3 DEF AnswerOf
  <2>2. answer.do \in {"fetch", "redirect", "docs.rs"} /\ answer.path \in Paths
    BY <1>1, DocAnswerIsNearer DEF Nearer
  <2> HIDE DEF answer
  <2>3. Towards(place.at, answer) \in {"static-rust-lang-org", "docs.rs", "doc.rust-lang.org"}
    BY <1>3, <2>2 DEF Towards, BucketOf
  <2> QED BY <2>1, <2>2, <2>3 DEF Forward, Places, OtherSites, Buckets
<1> QED BY <1>1, <1>2, <1>3

\* A way from where the clients start, as far as the first of them has come.
IsTrail(n, trail) ==
  /\ trail \in [0..n -> Places]
  /\ trail[0] = [at |-> start.host, path |-> start.path]
  /\ \A i \in 1..n : trail[i].at # "static.rust-lang.org"
  /\ \A i \in 0..n - 1 : trail[i].at \in OurHosts /\ trail[i + 1] = Forward(trail[i])

\* A client is on a way after as many steps as it has made requests.
IsOn(c, n, trail) ==
  /\ client[c].hops \in 0..n
  /\ [at |-> client[c].at, path |-> client[c].path] = trail[client[c].hops]
  /\ client[c].hops = 0 => client[c].query = start.query

\* Both clients are on the same way.
TrailInv ==
  start.host = "static.rust-lang.org" /\ ~KnownDifference =>
    \E n \in Nat : \E trail \in [0..n -> Places] :
      IsTrail(n, trail) /\ \A c \in Clients : IsOn(c, n, trail)

\* At first the trail is the start.
LEMMA TrailInit == Init => TrailInv
PROOF
<1> SUFFICES ASSUME Init, start.host = "static.rust-lang.org", ~KnownDifference
             PROVE  \E n \in Nat : \E trail \in [0..n -> Places] :
                      IsTrail(n, trail) /\ \A c \in Clients : IsOn(c, n, trail)
  BY DEF TrailInv
<1> DEFINE trail == [i \in 0..0 |-> [at |-> start.host, path |-> start.path]]
<1>1. start.path \in Paths
  BY StartIs DEF Init
<1>2. trail \in [0..0 -> Places] /\ trail[0] = [at |-> start.host, path |-> start.path]
  BY <1>1 DEF Places
<1>3. IsTrail(0, trail)
  BY <1>2 DEF IsTrail
<1>4. \A c \in Clients : IsOn(c, 0, trail)
  BY <1>2 DEF Init, IsOn
<1> QED BY <1>2, <1>3, <1>4

\* A client that asks goes on along the trail, or makes it longer.
LEMMA TrailInductive == EndsInv /\ TrailInv /\ [Next]_vars => TrailInv'
PROOF
<1> SUFFICES ASSUME EndsInv, TrailInv, [Next]_vars,
                    start'.host = "static.rust-lang.org", ~KnownDifference'
             PROVE  \E n \in Nat : \E trail \in [0..n -> Places] :
                      IsTrail(n, trail)' /\ \A c \in Clients' : IsOn(c, n, trail)'
  BY DEF TrailInv
<1>1. start' = start
  BY DEF Next, Ask, vars
<1>2. /\ Clients' = Clients /\ start.host = "static.rust-lang.org" /\ ~KnownDifference
      /\ start.path \in Paths /\ start.query \in BOOLEAN
  BY <1>1, StartIs DEF Clients, KnownDifference, EndsInv
<1>3. PICK n \in Nat : \E trail \in [0..n -> Places] :
        IsTrail(n, trail) /\ \A c \in Clients : IsOn(c, n, trail)
  BY <1>2 DEF TrailInv
<1>4. PICK trail \in [0..n -> Places] : IsTrail(n, trail) /\ \A c \in Clients : IsOn(c, n, trail)
  BY <1>3
<1>5. CASE UNCHANGED vars
  BY <1>1, <1>2, <1>4, <1>5 DEF vars, IsTrail, IsOn
<1>6. CASE Next
  <2>1. PICK c \in Clients : Ask(c)
    BY <1>6 DEF Next
  <2> DEFINE h      == client[c].hops
             here   == trail[h]
             answer == Answer(c)
             to     == Towards(client[c].at, answer)
  <2>2. /\ client[c].at \in OurHosts /\ client[c].path \in Paths /\ client[c].query \in BOOLEAN
        /\ h \in 0..n /\ h \in Nat /\ c \in Cdns /\ here \in Places
        /\ client[c].at = here.at /\ client[c].path = here.path
        /\ h = 0 => client[c].query = start.query
    <3>1. IsOn(c, n, trail)
      BY <1>4
    <3>2. /\ client[c].at \in OurHosts /\ client[c].path \in Paths /\ client[c].query \in BOOLEAN
          /\ c \in Cdns
      BY <1>1, <2>1, StartIs DEF Ask, Arrived, EndsInv
    <3> QED BY <1>4, <3>1, <3>2 DEF IsOn
  <2>3. After(c, answer) = to
    BY DEF After, Towards
  <2>4. client' = [client EXCEPT ![c] = [at |-> to, path |-> answer.path,
                                        query |-> FALSE, hops |-> @.hops + 1]]
    BY <2>1, <2>3 DEF Ask
  <2>5. answer = AnswerOf("cloudfront", here.at, here.path, FALSE)
    <3>1. answer = AnswerOf(c, here.at, here.path, client[c].query)
      BY <2>2 DEF Answer, AnswerOf
    <3>2. CASE here.at = "doc.rust-lang.org"
      <4>1. \A x, q : AnswerOf(x, "doc.rust-lang.org", here.path, q) = DocAnswer(here.path)
        BY DEF AnswerOf
      <4> QED BY <3>1, <3>2, <4>1
    <3>3. CASE here.at = "static.rust-lang.org"
      <4>1. h = 0
        BY <1>4, <2>2, <3>3 DEF IsTrail
      <4>2. here.path = start.path /\ client[c].query = start.query
        BY <1>4, <2>2, <4>1 DEF IsTrail
      <4>3. StaticFastlyRoute(start.path, start.query) = StaticRoute(start.path)
        BY <1>2, ReleaseRoutersAgree
      <4>4. /\ AnswerOf("cloudfront", "static.rust-lang.org", start.path, FALSE) = StaticRoute(start.path)
            /\ AnswerOf("cloudfront", "static.rust-lang.org", start.path, start.query) = StaticRoute(start.path)
            /\ AnswerOf("fastly", "static.rust-lang.org", start.path, start.query)
                 = StaticFastlyRoute(start.path, start.query)
        BY DEF AnswerOf
      <4> QED BY <2>2, <3>1, <3>3, <4>2, <4>3, <4>4 DEF Cdns
    <3> QED BY <2>2, <3>2, <3>3 DEF Places, OurHosts, OnBothCdns, OtherSites, Buckets
  <2>6. [at |-> to, path |-> answer.path] = Forward(here)
    BY <2>2, <2>5 DEF Forward
  <2>7. Forward(here) \in Places /\ Forward(here).at # "static.rust-lang.org"
    BY <2>2, ForwardIs
  <2>8. /\ client'[c].hops = h + 1
        /\ [at |-> client'[c].at, path |-> client'[c].path] = Forward(here)
        /\ \A d \in Clients : d # c => client'[d] = client[d]
    <3> HIDE DEF answer, to
    <3>1. client'[c] = [at |-> to, path |-> answer.path, query |-> FALSE, hops |-> h + 1]
      BY <2>4 DEF EndsInv
    <3>2. \A d \in Clients : d # c => client'[d] = client[d]
      BY <2>4 DEF EndsInv
    <3> QED BY <2>6, <3>1, <3>2
  <2> HIDE DEF answer, to, here, h
  <2>9. CASE h < n
    <3>1. trail[h + 1] = Forward(here)
      BY <1>4, <2>2, <2>9 DEF IsTrail, here
    <3>2. \A d \in Clients : IsOn(d, n, trail)'
      BY <1>1, <1>4, <2>2, <2>8, <2>9, <3>1 DEF IsOn
    <3>3. IsTrail(n, trail)'
      BY <1>1, <1>4 DEF IsTrail
    <3> QED BY <1>2, <1>4, <3>2, <3>3
  <2>10. CASE h = n
    <3>1. PICK longer \in [0..n + 1 -> Places] :
            (\A i \in 0..n : longer[i] = trail[i]) /\ longer[n + 1] = Forward(here)
      <4> DEFINE more == [i \in 0..n + 1 |-> IF i <= n THEN trail[i] ELSE Forward(here)]
      <4>1. more \in [0..n + 1 -> Places]
        BY <1>4, <2>7
      <4>2. (\A i \in 0..n : more[i] = trail[i]) /\ more[n + 1] = Forward(here)
        OBVIOUS
      <4> QED BY <4>1, <4>2
    <3>2. /\ \A i \in 0..n : longer[i] = trail[i]
          /\ longer[n + 1] = Forward(here)
      BY <3>1
    <3>3. IsTrail(n + 1, longer)'
      <4>1. longer[0] = [at |-> start'.host, path |-> start'.path]
        BY <1>1, <1>4, <3>2 DEF IsTrail
      <4>2. \A i \in 1..n + 1 : longer[i].at # "static.rust-lang.org"
        <5>1. \A i \in 1..n : longer[i].at # "static.rust-lang.org"
          BY <1>4, <3>2 DEF IsTrail
        <5>2. longer[n + 1].at # "static.rust-lang.org"
          BY <2>7, <3>2
        <5> QED BY <5>1, <5>2
      <4>3. ASSUME NEW i \in 0..n
            PROVE  longer[i].at \in OurHosts /\ longer[i + 1] = Forward(longer[i])
        <5>1. CASE i < n
          <6>1. i \in 0..n - 1 /\ i \in 0..n /\ i + 1 \in 0..n
            BY <5>1
          <6>2. trail[i].at \in OurHosts /\ trail[i + 1] = Forward(trail[i])
            BY <1>4, <6>1 DEF IsTrail
          <6> QED BY <3>2, <6>1, <6>2
        <5>2. CASE i = n
          BY <2>2, <2>10, <3>2, <5>2 DEF here
        <5> QED BY <5>1, <5>2
      <4>4. n + 1 - 1 = n
        OBVIOUS
      <4> QED BY <3>1, <4>1, <4>2, <4>3, <4>4 DEF IsTrail
    <3>4. ASSUME NEW d \in Clients
          PROVE  IsOn(d, n + 1, longer)'
      <4>1. CASE d = c
        BY <1>1, <2>2, <2>8, <2>10, <3>2, <4>1 DEF IsOn
      <4>2. CASE d # c
        <5>1. IsOn(d, n, trail) /\ client'[d] = client[d]
          BY <1>4, <2>8, <4>2
        <5>2. client[d].hops \in 0..n /\ client[d].hops \in 0..n + 1
          BY <5>1 DEF IsOn
        <5> QED BY <1>1, <3>2, <5>1, <5>2 DEF IsOn
      <4> QED BY <4>1, <4>2
    <3> QED BY <1>2, <3>3, <3>4
  <2> QED BY <2>2, <2>9, <2>10
<1> QED BY <1>5, <1>6

\* The invariants of both parts.
LEMMA AgreementAlways == Spec => [](EndsInv /\ CratesInv /\ TrailInv)
PROOF
<1>1. Init => EndsInv /\ CratesInv /\ TrailInv
  BY EndsInit, CratesInit, TrailInit
<1>2. EndsInv /\ CratesInv /\ TrailInv /\ [Next]_vars => (EndsInv /\ CratesInv /\ TrailInv)'
  BY EndsInductive, CratesInductive, TrailInductive
<1> QED BY <1>1, <1>2, PTL DEF Spec

\* Whatever URL both CDNs serve, in whatever order the clients follow its redirects,
\* they end at the same place, but for the differences that are known.
THEOREM CdnsAgree == Spec => []SameFileOnBothCdns
PROOF
<1>1. EndsInv /\ CratesInv /\ TrailInv => SameFileOnBothCdns
  <2> SUFFICES ASSUME EndsInv, CratesInv, TrailInv,
                      start.host \in OnBothCdns, \A c \in Cdns : Arrived(c), ~KnownDifference
               PROVE  /\ client["fastly"].at = client["cloudfront"].at
                      /\ client["fastly"].path = client["cloudfront"].path
    BY DEF SameFileOnBothCdns
  <2>1. Clients = Cdns /\ {"fastly", "cloudfront"} \subseteq Cdns
    BY DEF Clients, Cdns
  <2>2. \A c \in Clients : client[c].at \in OtherSites
    BY <2>1 DEF EndsInv, Arrived
  <2>3. CASE start.host \in {"static.crates.io", "crates.io"}
    <3>1. \A c \in Clients : Destination(client[c].at, client[c].path) = Destination(start.host, start.path)
      BY <2>3 DEF CratesInv
    <3>2. \A site \in OtherSites : site \notin CratesSites
      BY DEF OtherSites, Buckets, CratesSites
    <3>3. \A c \in Clients : Destination(client[c].at, client[c].path)
                               = [at |-> client[c].at, path |-> client[c].path]
      BY <2>2, <3>2 DEF Destination, CratesSites
    <3>4. [at |-> client["fastly"].at, path |-> client["fastly"].path]
            = [at |-> client["cloudfront"].at, path |-> client["cloudfront"].path]
      BY <2>1, <3>1, <3>3
    <3> QED BY <3>4
  <2>4. CASE start.host = "static.rust-lang.org"
    <3>1. PICK n \in Nat : \E t \in [0..n -> Places] :
                             IsTrail(n, t) /\ \A c \in Clients : IsOn(c, n, t)
      BY <2>4 DEF TrailInv
    <3>2. PICK trail \in [0..n -> Places] : IsTrail(n, trail) /\ \A c \in Clients : IsOn(c, n, trail)
      BY <3>1
    <3>3. ASSUME NEW c \in Clients
          PROVE  client[c].hops = n
      <4>1. client[c].hops \in 0..n /\ trail[client[c].hops].at \in OtherSites
        <5>1. IsOn(c, n, trail) /\ client[c].at \in OtherSites
          BY <2>2, <3>2
        <5> DEFINE place == trail[client[c].hops]
        <5>2. client[c].hops \in 0..n /\ [at |-> client[c].at, path |-> client[c].path] = place
          BY <5>1 DEF IsOn
        <5> HIDE DEF place
        <5>3. place.at = client[c].at
          BY <5>2
        <5> QED BY <5>1, <5>2, <5>3 DEF place
      <4>2. \A site \in OtherSites : site \notin OurHosts
        BY DEF OtherSites, Buckets, OurHosts, OnBothCdns
      <4>3. client[c].hops \notin 0..n - 1
        BY <3>2, <4>1, <4>2 DEF IsTrail
      <4> QED BY <4>1, <4>3
    <3>4. \A c \in Clients : [at |-> client[c].at, path |-> client[c].path] = trail[n]
      BY <3>2, <3>3 DEF IsOn
    <3>5. [at |-> client["fastly"].at, path |-> client["fastly"].path]
            = [at |-> client["cloudfront"].at, path |-> client["cloudfront"].path]
      BY <2>1, <3>4
    <3> QED BY <3>5
  <2> QED BY <2>3, <2>4 DEF OnBothCdns
<1> QED BY <1>1, AgreementAlways, PTL

-----------------------------------------------------------------------------
(* What is published on crates.io is found.                                *)

Names    == {s \in Segments : PlainName(s)}
Versions == {s \in Segments : PlainVersion(s)}

\* Encoding is done atom by atom.
LEMMA EncodeConcat ==
  ASSUME NEW s \in Segments, NEW t \in Segments
  PROVE  Encode(s \o t) = Encode(s) \o Encode(t)
PROOF
<1> DEFINE S == STRING \union Literals
           a == s \o t
           b == Encode(s) \o Encode(t)
<1>1. /\ s \in Seq(S) /\ t \in Seq(S) /\ Encode(s) \in Seq(S) /\ Encode(t) \in Seq(S)
      /\ Len(s) \in Nat /\ Len(t) \in Nat /\ Len(Encode(s)) = Len(s) /\ Len(Encode(t)) = Len(t)
      /\ \A i \in 1..Len(s) : Encode(s)[i] = IF s[i] = "+" THEN "%2B" ELSE s[i]
      /\ \A i \in 1..Len(t) : Encode(t)[i] = IF t[i] = "+" THEN "%2B" ELSE t[i]
  BY EncodeIs, SegmentIs DEF Segments
<1>2. a \in Segments
  BY WrittenPaths
<1> HIDE DEF S
<1>3. /\ Len(a) = Len(s) + Len(t)
      /\ \A i \in 1..Len(s) + Len(t) : a[i] = IF i <= Len(s) THEN s[i] ELSE t[i - Len(s)]
  BY <1>1, ConcatProperties
<1>4. /\ b \in Seq(S) /\ Len(b) = Len(s) + Len(t)
      /\ \A i \in 1..Len(s) + Len(t) : b[i] = IF i <= Len(s) THEN Encode(s)[i] ELSE Encode(t)[i - Len(s)]
  <2> DEFINE x == Encode(s)
             y == Encode(t)
  <2>1. x \in Seq(S) /\ y \in Seq(S) /\ Len(x) = Len(s) /\ Len(y) = Len(t)
    BY <1>1
  <2> HIDE DEF x, y
  <2>2. /\ x \o y \in Seq(S) /\ Len(x \o y) = Len(x) + Len(y)
        /\ \A i \in 1..Len(x) + Len(y) : (x \o y)[i] = IF i <= Len(x) THEN x[i] ELSE y[i - Len(x)]
    BY <2>1, ConcatProperties
  <2>3. x \o y = b
    BY DEF x, y
  <2> HIDE DEF b
  <2>4. /\ b \in Seq(S) /\ Len(b) = Len(s) + Len(t)
        /\ \A i \in 1..Len(s) + Len(t) : b[i] = IF i <= Len(s) THEN x[i] ELSE y[i - Len(s)]
    BY <2>1, <2>2, <2>3
  <2> QED BY <2>4 DEF x, y
<1>5. /\ Encode(a) \in Seq(S) /\ Len(Encode(a)) = Len(a)
      /\ \A i \in 1..Len(a) : Encode(a)[i] = IF a[i] = "+" THEN "%2B" ELSE a[i]
  BY <1>2, EncodeIs DEF Segments, S
<1> HIDE DEF a, b
<1>6. ASSUME NEW i \in 1..Len(s) + Len(t)
      PROVE  Encode(a)[i] = b[i]
  <2>1. CASE i <= Len(s)
    <3>1. i \in 1..Len(s)
      BY <2>1
    <3> QED BY <1>1, <1>3, <1>4, <1>5, <2>1, <3>1
  <2>2. CASE ~(i <= Len(s))
    <3>1. i - Len(s) \in 1..Len(t)
      BY <1>1, <2>2
    <3> QED BY <1>1, <1>3, <1>4, <1>5, <2>2, <3>1
  <2> QED BY <2>1, <2>2
<1>7. Encode(a) = b
  BY <1>3, <1>4, <1>5, <1>6, SeqEqual
<1> QED BY <1>7 DEF a, b

\* The name of a file is encoded in its version only.
LEMMA EncodedFile ==
  ASSUME NEW k \in Names, NEW v \in Segments, NEW a \in {"crates", "readmes"}, NEW z \in {".crate", ".html"}
  PROVE  EncodePlus(<< Text(a), k, k \o Text("-") \o v \o Text(z) >>)
           = << Text(a), k, k \o Text("-") \o Encode(v) \o Text(z) >>
PROOF
<1> DEFINE m == k \o Text("-")
           n == m \o v
           p == << Text(a), k, n \o Text(z) >>
           w == (m \o Encode(v)) \o Text(z)
           q == << Text(a), k, w >>
<1>1. /\ k \in Segments /\ \A i \in 1..Len(k) : k[i] # "+"
  BY SegmentIs DEF Names, PlainName
<1>2. /\ Text(a) \in Segments /\ Text("-") \in Segments /\ Text(z) \in Segments
  BY WrittenPaths DEF Literals
<1>3. ASSUME NEW x, x # "+", Text(x) \in Segments
      PROVE  Encode(Text(x)) = Text(x)
  <2>1. \A i \in 1..Len(Text(x)) : Text(x)[i] # "+"
    BY <1>3 DEF Text
  <2> QED BY <1>3, <2>1, NoPlusStays
<1>4. /\ Encode(k) = k /\ Encode(Text(a)) = Text(a) /\ Encode(Text("-")) = Text("-")
      /\ Encode(Text(z)) = Text(z)
  BY <1>1, <1>2, <1>3, NoPlusStays
<1>5. m \in Segments /\ Encode(m) = m
  BY <1>1, <1>2, <1>4, EncodeConcat, WrittenPaths
<1> HIDE DEF m
<1>6. n \in Segments /\ Encode(n) = m \o Encode(v)
  BY <1>5, EncodeConcat, WrittenPaths
<1> HIDE DEF n
<1>7. n \o Text(z) \in Segments /\ Encode(n \o Text(z)) = w
  BY <1>2, <1>4, <1>6, EncodeConcat, WrittenPaths
<1>8. w \in Segments
  BY <1>7, EncodeIs
<1> HIDE DEF w
<1>9. p \in Paths /\ Len(p) = 3 /\ p[1] = Text(a) /\ p[2] = k /\ p[3] = n \o Text(z)
  BY <1>1, <1>2, <1>7, WrittenPaths
<1>10. q \in Paths /\ Len(q) = 3 /\ q[1] = Text(a) /\ q[2] = k /\ q[3] = w
  BY <1>1, <1>2, <1>8, WrittenPaths
<1> HIDE DEF p, q
<1>11. /\ EncodePlus(p) \in Paths /\ Len(EncodePlus(p)) = 3
       /\ \A i \in 1..3 : EncodePlus(p)[i] = Encode(p[i])
  BY <1>9, EncodePlusIs
<1>12. EncodePlus(p)[1] = Encode(p[1]) /\ EncodePlus(p)[2] = Encode(p[2]) /\ EncodePlus(p)[3] = Encode(p[3])
  BY <1>11
<1>13. EncodePlus(p) = q
  <2> DEFINE e == EncodePlus(p)
  <2>1. \A i \in 1..3 : e[i] = q[i]
    <3>1. e[1] = q[1] /\ e[2] = q[2] /\ e[3] = q[3]
      BY <1>4, <1>7, <1>9, <1>10, <1>12
    <3> HIDE DEF e
    <3> QED BY <3>1
  <2>2. EncodePlus(p) \in Seq(Segments) /\ q \in Seq(Segments)
    BY <1>10, <1>11, PathIs
  <2> QED BY <1>10, <1>11, <2>1, <2>2, SeqEqual
<1> QED BY <1>13 DEF p, q, w, n, m

\* What is encoded stays as it is.
LEMMA EncodeTwice ==
  ASSUME NEW s \in Segments
  PROVE  Encode(s) \in Segments /\ Encode(Encode(s)) = Encode(s)
PROOF
<1>1. /\ Encode(s) \in Segments /\ Len(Encode(s)) = Len(s)
      /\ \A i \in 1..Len(s) : Encode(s)[i] = IF s[i] = "+" THEN "%2B" ELSE s[i]
  BY EncodeIs
<1> DEFINE e == Encode(s)
<1>2. e \in Segments /\ \A i \in 1..Len(e) : e[i] # "+"
  BY <1>1
<1> HIDE DEF e
<1>3. Encode(e) = e
  BY <1>2, NoPlusStays
<1> QED BY <1>1, <1>3 DEF e

\* A file leads to itself, with the plus of its version encoded.
LEMMA FileEnds ==
  ASSUME NEW k \in Names, NEW v \in Segments
  PROVE  /\ StaticEnd(CrateFile(k, v)) = [at |-> "crates-io", path |-> CrateFile(k, Encode(v))]
         /\ StaticEnd(ReadmeFile(k, v)) = [at |-> "crates-io", path |-> ReadmeFile(k, Encode(v))]
         /\ Plain(CrateFile(k, v)) /\ Plain(ReadmeFile(k, v))
PROOF
<1>1. k \in Segments /\ Encode(v) \in Segments
  BY EncodeTwice DEF Names
<1>2. ASSUME NEW p \in Paths, NEW q \in Paths, Len(p) = 3, Len(q) = 3, q[3] # Empty, EncodePlus(p) = q
      PROVE  StaticEnd(p) = [at |-> "crates-io", path |-> q]
  <2>1. p # VersionDownloadsBare /\ q # VersionDownloads
    <3>1. Len(VersionDownloadsBare) = 2 /\ VersionDownloads[3] = Empty
      BY DEF VersionDownloadsBare, VersionDownloads
    <3> QED BY <1>2, <3>1
  <2>2. ~IsDownload(q)
    BY <1>2 DEF IsDownload
  <2>3. FastlyKey(p) = q
    BY <1>2, <2>1, <2>2 DEF FastlyKey, RewriteDownload, RewriteVersionDownloads
  <2> QED BY <2>1, <2>3 DEF StaticEnd
<1>3. EncodePlus(CrateFile(k, v)) = CrateFile(k, Encode(v))
  <2>1. EncodePlus(<< Text("crates"), k, k \o Text("-") \o v \o Text(".crate") >>)
           = << Text("crates"), k, k \o Text("-") \o Encode(v) \o Text(".crate") >>
    BY EncodedFile
  <2> QED BY <2>1 DEF CrateFile
<1>4. EncodePlus(ReadmeFile(k, v)) = ReadmeFile(k, Encode(v))
  <2>1. EncodePlus(<< Text("readmes"), k, k \o Text("-") \o v \o Text(".html") >>)
           = << Text("readmes"), k, k \o Text("-") \o Encode(v) \o Text(".html") >>
    BY EncodedFile
  <2> QED BY <2>1 DEF ReadmeFile
<1>5. \A w \in Segments : \A p \in {CrateFile(k, w), ReadmeFile(k, w)} :
        p \in Paths /\ Len(p) = 3 /\ p[3] # Empty /\ DumpOf(p) = {}
  BY <1>1, CrateFileIs
<1> QED BY <1>1, <1>2, <1>3, <1>4, <1>5 DEF Plain

\* So does the URL of a download.
LEMMA DownloadEnds ==
  ASSUME NEW k \in Names, NEW v \in Versions,
         NEW p, p = << Text("crates"), k, v, Text("download") >>
  PROVE  StaticEnd(p) = [at |-> "crates-io", path |-> CrateFile(k, Encode(v))] /\ Plain(p)
PROOF
<1> DEFINE q == << Text("crates"), k, Encode(v), Text("download") >>
           e == EncodePlus(p)
<1>1. /\ k \in Segments /\ k # Empty /\ \A i \in 1..Len(k) : k[i] # "+"
      /\ v \in Segments /\ v # Empty
  BY SegmentIs DEF Names, PlainName, Versions, PlainVersion
<1>2. Encode(v) \in Segments /\ Encode(v) # Empty
  BY <1>1, EncodeIs, SegmentIs
<1>3. /\ Encode(k) = k
      /\ Encode(Text("crates")) = Text("crates") /\ Encode(Text("download")) = Text("download")
  <2>1. Encode(k) = k
    BY <1>1, NoPlusStays
  <2>2. Encode(Text("crates")) = Text("crates") /\ Encode(Text("download")) = Text("download")
    BY DEF Encode, Text
  <2> QED BY <2>1, <2>2
<1>4. q = e
  <2>1. DOMAIN p = 1..4 /\ p[1] = Text("crates") /\ p[2] = k /\ p[3] = v /\ p[4] = Text("download")
    OBVIOUS
  <2>2. e = [i \in 1..4 |-> Encode(p[i])]
    BY <2>1 DEF EncodePlus
  <2> HIDE DEF e
  <2>3. DOMAIN e = 1..4 /\ e[1] = q[1] /\ e[2] = q[2] /\ e[3] = q[3] /\ e[4] = q[4]
    BY <1>3, <2>1, <2>2
  <2>4. DOMAIN q = 1..4
    OBVIOUS
  <2> QED BY <2>2, <2>3, <2>4
<1>5. /\ IsDownload(q) /\ q[2] = k /\ q[3] = Encode(v)
  BY <1>1, <1>2 DEF IsDownload
<1> HIDE DEF e
<1>6. CrateFile(k, Encode(v))[3] # Empty
  BY <1>1, <1>2, CrateFileIs
<1>7. FastlyKey(p) = CrateFile(k, Encode(v))
  <2>1. RewriteDownload(q) = CrateFile(k, Encode(v))
    BY <1>5 DEF RewriteDownload
  <2>2. CrateFile(k, Encode(v)) # VersionDownloads
    <3>1. VersionDownloads[3] = Empty
      BY DEF VersionDownloads
    <3> QED BY <1>6, <3>1
  <2> QED BY <1>4, <2>1, <2>2 DEF FastlyKey, RewriteVersionDownloads, e
<1>8. p # VersionDownloadsBare
  BY DEF VersionDownloadsBare
<1>9. DumpOf(p) = {}
  BY DEF DumpOf, Ends, Dumps, Text
<1> QED BY <1>7, <1>8, <1>9 DEF StaticEnd, Plain

\* The URLs of a crate lead to its files.
LEMMA CrateUrlsEnd ==
  ASSUME NEW k \in Names, NEW v \in Versions, NEW d \in CrateUrls(k, v) \union DataUrls
  PROVE  /\ d.host \in {"crates.io", "static.crates.io"}
         /\ d.host = "static.crates.io" => Plain(d.path)
         /\ Destination(d.host, d.path) = [at |-> d.bucket, path |-> d.key]
PROOF
<1> DEFINE file   == CrateFile(k, Encode(v))
           readme == ReadmeFile(k, Encode(v))
<1>1. /\ k \in Segments /\ PlainName(k) /\ v \in Segments /\ PlainVersion(v)
      /\ Encode(v) \in Segments /\ Encode(Encode(v)) = Encode(v)
  BY EncodeTwice DEF Names, Versions
<1>2. ASSUME NEW f \in {"download", "readme"},
             d.path = << Text("api"), Text("v1"), Text("crates"), k, v, Text(f) >>,
             d.host = "crates.io", d.bucket = "crates-io",
             d.key = IF f = "download" THEN file ELSE readme
      PROVE  Destination(d.host, d.path) = [at |-> d.bucket, path |-> d.key]
  <2> DEFINE p == << Text("api"), Text("v1"), Text("crates"), k, v, Text(f) >>
  <2>1. IsApiFile(p)
    <3>1. SubSeq(p, 1, 3) = << Text("api"), Text("v1"), Text("crates") >>
      <4> DEFINE S == {Text("api"), Text("v1"), Text("crates")}
                 q == SubSeq(p, 1, 3)
      <4>1. p[1] = Text("api") /\ p[2] = Text("v1") /\ p[3] = Text("crates")
        OBVIOUS
      <4> HIDE DEF p
      <4>2. \A i \in 1..3 : p[i] \in S
        BY <4>1
      <4> HIDE DEF S
      <4>3. q \in Seq(S) /\ Len(q) = 3 /\ \A i \in 1..3 : q[i] = p[i]
        BY <4>2, SubSeqProperties
      <4> HIDE DEF q
      <4>4. q = << q[1], q[2], q[3] >>
        BY <4>3
      <4> QED BY <4>1, <4>3, <4>4 DEF q
    <3> QED BY <1>1, <3>1 DEF IsApiFile
  <2>2. WebappRoute(p).path = IF f = "download" THEN file ELSE readme
    BY <2>1 DEF WebappRoute, ToStatic, MovedTo, Text
  <2>3. StaticEnd(file) = [at |-> "crates-io", path |-> file]
        /\ StaticEnd(readme) = [at |-> "crates-io", path |-> readme]
    BY <1>1, FileEnds
  <2> HIDE DEF p, file, readme
  <2>4. Destination("crates.io", p) = [at |-> "crates-io", path |-> IF f = "download" THEN file ELSE readme]
    BY <2>1, <2>2, <2>3 DEF Destination
  <2> QED BY <1>2, <2>4 DEF p
<1>3. ASSUME NEW p \in {CrateFile(k, v), ReadmeFile(k, v), << Text("crates"), k, v, Text("download") >>},
             d.path = p, d.host = "static.crates.io", d.bucket = "crates-io",
             d.key = IF p = ReadmeFile(k, v) THEN readme ELSE file
      PROVE  Plain(d.path) /\ Destination(d.host, d.path) = [at |-> d.bucket, path |-> d.key]
  <2>1. CrateFile(k, v) # ReadmeFile(k, v) /\ << Text("crates"), k, v, Text("download") >> # ReadmeFile(k, v)
    BY DEF CrateFile, ReadmeFile, Text
  <2> QED BY <1>1, <1>3, <2>1, FileEnds, DownloadEnds DEF Destination
<1>4. ASSUME NEW p \in {VersionDownloads, VersionDownloadsBare},
             d = OnCrates("static.crates.io", p, VersionDownloadsIndex)
      PROVE  Plain(d.path) /\ Destination(d.host, d.path) = [at |-> d.bucket, path |-> d.key]
  <2>1. DumpOf(VersionDownloadsBare) = {} /\ DumpOf(VersionDownloads) = {}
    BY VersionDownloadsHasNoPlus DEF VersionDownloadsBare, DumpOf, Ends, Dumps, Text
  <2>2. StaticEnd(p) = [at |-> "crates-io", path |-> VersionDownloadsIndex]
    BY <1>4, SameEnd DEF StaticEnd
  <2> QED BY <1>4, <2>1, <2>2 DEF OnCrates, Plain, Destination
<1>5. ASSUME NEW x \in Dumps, d = OnCrates("static.crates.io", << Text(x) >>, << Text(x) >>)
      PROVE  Plain(d.path) /\ Destination(d.host, d.path) = [at |-> d.bucket, path |-> d.key]
  BY <1>5, DumpIsItsKey DEF OnCrates, Plain, Destination, StaticEnd
<1>6. CASE d \in DataUrls
  BY <1>4, <1>5, <1>6 DEF DataUrls, OnCrates
<1>7. CASE d \in CrateUrls(k, v)
  <2>1. CASE d = OnCrates("crates.io", << Text("api"), Text("v1"), Text("crates"), k, v, Text("download") >>, file)
    BY <1>2, <2>1 DEF OnCrates
  <2>2. CASE d = OnCrates("crates.io", << Text("api"), Text("v1"), Text("crates"), k, v, Text("readme") >>, readme)
    BY <1>2, <2>2 DEF OnCrates
  <2>3. ReadmeFile(k, v) \notin {CrateFile(k, v), << Text("crates"), k, v, Text("download") >>}
    BY DEF CrateFile, ReadmeFile, Text
  <2>4. CASE d = OnCrates("static.crates.io", << Text("crates"), k, v, Text("download") >>, file)
    BY <1>3, <2>3, <2>4 DEF OnCrates
  <2>5. CASE d = OnCrates("static.crates.io", CrateFile(k, v), file)
    BY <1>3, <2>3, <2>5 DEF OnCrates
  <2>6. CASE d = OnCrates("static.crates.io", ReadmeFile(k, v), readme)
    BY <1>3, <2>6 DEF OnCrates
  <2> QED BY <1>7, <2>1, <2>2, <2>4, <2>5, <2>6 DEF CrateUrls, OnCrates
<1> QED BY <1>6, <1>7

\* Every version of every crate is found at each of its URLs, through each CDN, and
\* so are the dumps and the version downloads: the plus of a version is encoded
\* wherever it was not, and the name is never rewritten twice.
THEOREM CratesAreFound ==
  Spec => [](\A k \in Names, v \in Versions : \A d \in CrateUrls(k, v) \union DataUrls : Found(d))
PROOF
<1>1. EndsInv /\ CratesInv =>
        \A k \in Names, v \in Versions : \A d \in CrateUrls(k, v) \union DataUrls : Found(d)
  <2> SUFFICES ASSUME EndsInv, CratesInv, NEW k \in Names, NEW v \in Versions,
                      NEW d \in CrateUrls(k, v) \union DataUrls,
                      start.host = d.host, start.path = d.path, NEW c \in Clients, Arrived(c)
               PROVE  client[c].at = d.bucket /\ client[c].path = d.key
    BY DEF Found
  <2>1. /\ start.host \in {"crates.io", "static.crates.io"}
        /\ start.host = "static.crates.io" => Plain(start.path)
        /\ Destination(start.host, start.path) = [at |-> d.bucket, path |-> d.key]
    BY CrateUrlsEnd
  <2>2. ~KnownDifference
    <3>1. start.host = "static.crates.io" /\ DumpOf(start.path) # {}
            => start.path \in {<< Text(x) >> : x \in DumpOf(start.path)}
      <4>1. ASSUME start.host = "static.crates.io", DumpOf(start.path) # {}
            PROVE  start.path \in {<< Text(x) >> : x \in DumpOf(start.path)}
        <5>1. PICK x \in Dumps : start.path = << Text(x) >>
          BY <2>1, <4>1 DEF Plain
        <5>2. DumpOf(start.path) = {x}
          BY <5>1, DumpIsItsKey
        <5> QED BY <5>1, <5>2
      <4> QED BY <4>1
    <3> QED BY <2>1, <3>1 DEF KnownDifference
  <2>3. Destination(client[c].at, client[c].path) = Destination(start.host, start.path)
    BY <2>1, <2>2 DEF CratesInv
  <2>4. client[c].at \in OtherSites /\ client[c].at \notin CratesSites
    BY DEF EndsInv, Arrived, OtherSites, Buckets, CratesSites
  <2>5. Destination(client[c].at, client[c].path) = [at |-> client[c].at, path |-> client[c].path]
    BY <2>4 DEF Destination, CratesSites
  <2>6. [at |-> client[c].at, path |-> client[c].path] = [at |-> d.bucket, path |-> d.key]
    BY <2>1, <2>3, <2>5
  <2> QED BY <2>6
<1> QED BY <1>1, AgreementAlways, PTL

-----------------------------------------------------------------------------
(* What is published of the documentation is found.                        *)

\* The branches of the router are told apart.
LEMMA OneBranch ==
  ASSUME NEW p \in Paths
  PROVE  /\ OnChannel(p) \/ StartsWith(p, << Master >>) \/ InOldDirectory(p) \/ Renamed(p)
              => p \notin {Root, << Index >>} /\ ~IsVersion(p, 3) /\ ~IsVersion(p, 2) /\ ~OfCrate(p)
         /\ IsVersion(p, 2) => ~IsVersion(p, 3)
         /\ IsVersion(p, 2) \/ IsVersion(p, 3) => p \notin {Root, << Index >>}
         /\ InOldDirectory(p) => ~StartsWith(p, << Master >>) /\ ~Renamed(p)
         /\ OnChannel(p) => ~StartsWith(p, << Master >>) /\ ~InOldDirectory(p)
         /\ StartsWith(p, << Master >>) => ~Renamed(p)
         /\ p \in SpecialFiles =>
              /\ p \notin {Root, << Index >>} /\ ~IsVersion(p, 3) /\ ~IsVersion(p, 2) /\ ~OfCrate(p)
              /\ ~Renamed(p) /\ ~StartsWith(p, << Master >>) /\ ~InOldDirectory(p)
PROOF
<1> DEFINE a == p[1][1]
<1>1. \A n \in {2, 3} : IsVersion(p, n) =>
        Len(p) > 1 /\ Len(p[1]) = 2 * n - 1 /\ p[1] # Empty /\ a \in {"0", "1", "5", "36", "80"}
  BY BranchIs
<1>2. /\ OfCrate(p) => a \in CrateNames
      /\ OnChannel(p) => p[1] # Empty /\ a \in ChannelNames
      /\ StartsWith(p, << Master >>) => p[1] # Empty /\ a = "master"
      /\ Renamed(p) => p[1] # Empty /\ (a \in OldNames \/ a \in {"stable", "nightly"})
      /\ InOldDirectory(p) => p[1] # Empty /\ a = "doc"
  <2>1. /\ OfCrate(p) => a \in CrateNames
        /\ OnChannel(p) => p[1] # Empty /\ a \in ChannelNames
        /\ StartsWith(p, << Master >>) => p[1] # Empty /\ a = "master"
    BY BranchIs
  <2>2. InOldDirectory(p) => p[1] # Empty /\ a = "doc"
    BY FirstAtomIs DEF InOldDirectory
  <2>3. Renamed(p) => p[1] # Empty /\ (a \in OldNames \/ a \in {"stable", "nightly"})
    <3>1. p[1] \in {Stable, Nightly} => p[1] # Empty /\ a \in {"stable", "nightly"}
      BY FirstAtomIs
    <3>2. Renamed(p) => (p[1] # Empty /\ a \in OldNames) \/ p[1] \in {Stable, Nightly}
      BY BranchIs
    <3> QED BY <3>1, <3>2
  <2> QED BY <2>1, <2>2, <2>3
<1>3. p \in {Root, << Index >>} => Len(p) = 1 /\ (p[1] = Empty \/ a = "index.html")
  <2>1. Root[1] = Empty /\ Len(Root) = 1 /\ << Index >>[1] = Index /\ Len(<< Index >>) = 1
    BY DEF Root
  <2> QED BY <2>1, FirstAtomIs
<1>4. IsVersion(p, 2) => ~IsVersion(p, 3)
  BY <1>1
<1>5. p \in SpecialFiles => p[1] # Empty /\ a \in FileNames
  <2>1. p \in SpecialFiles => \E f \in FileNames : p = << Text(f) >>
    BY BranchIs
  <2> QED BY <2>1 DEF Text, Empty
<1> HIDE DEF a
<1> QED BY <1>1, <1>2, <1>3, <1>4, <1>5 DEF CrateNames, ChannelNames, OldNames, FileNames

\* Which answer each branch gives.
LEMMA BranchAnswers ==
  ASSUME NEW p \in Paths
  PROVE  /\ p \in {Root, << Index >>} => DocRoute(p) = Moved(<< Stable, Empty >>, 302)
         /\ IsVersion(p, 3) \/ p \in SpecialFiles => DocRoute(p) = Fetch(p)
         /\ IsVersion(p, 2) => DocRoute(p) = Moved(WithPatch(p), 302)
         /\ Renamed(p) => \E r \in Renames : StartsWith(p, r.from)
                                             /\ DocRoute(p) = Moved(Replace(p, r.from, r.to), 301)
         /\ StartsWith(p, << Master >>) => DocRoute(p) = Moved(Replace(p, << Master >>, << Nightly >>), 301)
         /\ InOldDirectory(p) => DocRoute(p) = Moved(Collapse(Tail(p)), 301)
         /\ OnChannel(p) /\ ~Renamed(p) => DocRoute(p) = Fetch(p)
PROOF
<1> DEFINE renamed == {r \in Renames : StartsWith(p, r.from)}
           r == CHOOSE r \in renamed : TRUE
<1>1. Renamed(p) <=> renamed # {}
  BY DEF Renamed
<1>2. Renamed(p) => r \in Renames /\ StartsWith(p, r.from)
  BY <1>1
<1>3. DocRoute(p) =
        IF p \in {Root, << Index >>} THEN Moved(<< Stable, Empty >>, 302)
        ELSE IF IsVersion(p, 3) THEN Fetch(p)
        ELSE IF IsVersion(p, 2) THEN Moved(WithPatch(p), 302)
        ELSE IF OfCrate(p) THEN MovedTo("docs.rs", p, 301)
        ELSE IF Renamed(p) THEN Moved(Replace(p, r.from, r.to), 301)
        ELSE IF StartsWith(p, << Master >>) THEN Moved(Replace(p, << Master >>, << Nightly >>), 301)
        ELSE IF InOldDirectory(p) THEN Moved(Collapse(Tail(p)), 301)
        ELSE IF OnChannel(p) \/ p \in SpecialFiles THEN Fetch(p)
        ELSE Fetch(<< Stable >> \o p)
  BY <1>1 DEF DocRoute, OfCrate, OnChannel
<1> HIDE DEF r, renamed
<1>4. Renamed(p) => DocRoute(p) = Moved(Replace(p, r.from, r.to), 301)
  BY <1>3, OneBranch
<1> QED BY <1>2, <1>3, <1>4, OneBranch

\* An ordinary path is below the stable channel.
LEMMA OrdinaryIsStable ==
  ASSUME NEW p \in Paths, Ordinary(p)
  PROVE  DocRoute(p) = Fetch(<< Stable >> \o p)
PROOF
<1>1. {r \in Renames : StartsWith(p, r.from)} = {}
  BY DEF Ordinary, Renamed
<1> QED BY <1>1 DEF DocRoute, Ordinary, OfCrate, OnChannel

\* A prefix that is the whole of its segments is replaced by another.
LEMMA ReplaceWhole ==
  ASSUME NEW old \in Paths, NEW new \in Paths, NEW z \in Seq(Segments)
  PROVE  /\ old \o z \in Paths
         /\ StartsWith(old \o z, old)
         /\ Replace(old \o z, old, new) = new \o z
PROOF
<1> DEFINE p    == old \o z
           n    == Len(old)
           m    == Len(new)
           rest == SubSeq(p[n], Len(old[n]) + 1, Len(p[n]))
           x    == SubSeq(new, 1, m - 1)
           y    == SubSeq(p, n + 1, Len(p))
<1>1. /\ old \in Seq(Segments) /\ n \in Nat \ {0} /\ n \in 1..n
      /\ new \in Seq(Segments) /\ m \in Nat \ {0} /\ m \in 1..m /\ Len(z) \in Nat
      /\ \A i \in 1..n : old[i] \in Segments
      /\ \A i \in 1..m : new[i] \in Segments
  BY PathIs
<1>2. /\ p \in Paths /\ Len(p) = n + Len(z)
      /\ \A i \in 1..n : p[i] = old[i]
      /\ \A i \in 1..Len(z) : p[n + i] = z[i]
  <2>1. p \in Paths
    BY WrittenPaths
  <2>2. /\ Len(p) = n + Len(z)
        /\ \A i \in 1..n + Len(z) : p[i] = IF i <= n THEN old[i] ELSE z[i - n]
    BY <1>1, ConcatProperties
  <2> HIDE DEF p, n
  <2>3. \A i \in 1..n : p[i] = old[i]
    BY <1>1, <2>2
  <2>4. ASSUME NEW i \in 1..Len(z)
        PROVE  p[n + i] = z[i]
    <3> DEFINE j == n + i
    <3>1. j \in 1..n + Len(z) /\ ~(j <= n) /\ j - n = i
      BY <1>1
    <3> HIDE DEF j
    <3>2. p[j] = z[j - n]
      BY <2>2, <3>1
    <3> QED BY <3>1, <3>2 DEF j
  <2> QED BY <2>1, <2>2, <2>3, <2>4
<1> HIDE DEF p
<1>3. p[n] = old[n] /\ old[n] \in Segments /\ Len(old[n]) \in Nat
  BY <1>1, <1>2, SegmentIs
<1>4. rest = << >>
  <2>1. Len(old[n]) < Len(old[n]) + 1
    BY <1>3
  <2> QED BY <1>3, <2>1, SubSeqEmpty
<1>5. SubSeq(old[n], 1, Len(old[n])) = old[n]
  <2> DEFINE s == old[n]
             q == SubSeq(s, 1, Len(s))
  <2>1. s \in Segments /\ Len(s) \in Nat /\ \A i \in 1..Len(s) : s[i] \in STRING \union Literals
    BY <1>3, SegmentIs
  <2> HIDE DEF s
  <2>2. q \in Segments /\ Len(q) = Len(s) /\ \A i \in 1..Len(s) : q[i] = s[i]
    BY <2>1, SubSeqProperties DEF Segments
  <2> HIDE DEF q
  <2>3. q = s
    BY <2>1, <2>2, SeqEqual DEF Segments
  <2> QED BY <2>3 DEF q, s
<1>6. StartsWith(p, old)
  <2>1. Len(p) >= n /\ \A s \in 1..n - 1 : p[s] = old[s]
    BY <1>1, <1>2
  <2>2. Len(p[n]) >= Len(old[n]) /\ SubSeq(p[n], 1, Len(old[n])) = old[n]
    BY <1>3, <1>5
  <2> QED BY <2>1, <2>2 DEF StartsWith
<1>7. y = z
  <2>1. \A i \in n + 1..Len(p) : p[i] \in Segments
    BY <1>1, <1>2, PathIs
  <2>2. /\ y \in Seq(Segments) /\ Len(y) = Len(z)
        /\ \A i \in 1..Len(z) : y[i] = p[n + i]
    BY <1>1, <1>2, <2>1, SubSeqProperties
  <2> HIDE DEF y
  <2>3. \A i \in 1..Len(z) : y[i] = z[i]
    BY <1>2, <2>2
  <2> QED BY <2>2, <2>3, SeqEqual
<1>8. x \o << new[m] >> = new
  <2> DEFINE k == m - 1
             w == SubSeq(new, 1, k)
             v == w \o << new[m] >>
  <2>1. k \in Nat /\ k + 1 = m /\ \A i \in 1..k : new[i] \in Segments
    BY <1>1
  <2>2. new[m] \in Segments
    BY <1>1
  <2> HIDE DEF k
  <2>3. w \in Seq(Segments) /\ Len(w) = k /\ \A i \in 1..k : w[i] = new[i]
    BY <2>1, SubSeqProperties
  <2> HIDE DEF w
  <2>4. v \in Seq(Segments) /\ Len(v) = m /\ (\A i \in 1..k : v[i] = w[i]) /\ v[m] = new[m]
    BY <2>1, <2>2, <2>3, AddedSegment
  <2> HIDE DEF v
  <2>5. \A i \in 1..m : v[i] = new[i]
    <3>1. \A i \in 1..m : i \in 1..k \/ i = m
      BY <1>1, <2>1
    <3> QED BY <2>3, <2>4, <3>1
  <2>6. v = new
    BY <1>1, <2>4, <2>5, SeqEqual
  <2> QED BY <2>6 DEF v, w, k
<1>9. Replace(p, old, new) = new \o z
  <2>1. new[m] \o rest = new[m]
    <3>1. new[m] \in Segments
      BY <1>1
    <3>2. new[m] \o << >> = new[m]
      BY <3>1, ConcatEmptySeq DEF Segments
    <3> QED BY <1>4, <3>2
  <2>2. Replace(p, old, new) = x \o << new[m] \o rest >> \o y
    BY DEF Replace
  <2> HIDE DEF x, y, rest
  <2> QED BY <1>7, <1>8, <2>1, <2>2
<1> QED BY <1>2, <1>6, <1>9 DEF p

\* Without slashes in a row nothing is collapsed.
LEMMA CollapseTidy ==
  ASSUME NEW p \in Paths, Tidy(p)
  PROVE  Collapse(p) = p
PROOF
<1> DEFINE kept     == {s \in DOMAIN p : p[s] # Empty \/ s = Len(p)}
           below(s) == {r \in kept : r <= s}
           nth(i)   == CHOOSE s \in kept : Cardinality(below(s)) = i
<1>1. Len(p) \in Nat /\ DOMAIN p = 1..Len(p) /\ p \in Seq(Segments)
  BY PathIs
<1>2. kept = 1..Len(p)
  BY <1>1 DEF Tidy
<1>3. ASSUME NEW s \in 1..Len(p)
      PROVE  Cardinality(below(s)) = s
  <2>1. below(s) = 1..s
    BY <1>1, <1>2
  <2>2. Cardinality(1..s) = s
    BY FS_Interval
  <2> QED BY <2>1, <2>2
<1>4. Cardinality(kept) = Len(p)
  <2>1. Cardinality(1..Len(p)) = Len(p)
    <3> DEFINE n == Len(p)
    <3>1. n \in Nat
      BY <1>1
    <3> HIDE DEF n
    <3>2. Cardinality(1..n) = n
      BY <3>1, FS_Interval
    <3> QED BY <3>2 DEF n
  <2> HIDE DEF kept
  <2> QED BY <1>2, <2>1
<1>5. Collapse(p) = [i \in 1..Cardinality(kept) |-> p[nth(i)]]
  BY DEF Collapse
<1> HIDE DEF kept, below
<1>6. ASSUME NEW i \in 1..Len(p)
      PROVE  nth(i) = i
  BY <1>2, <1>3
<1> HIDE DEF nth
<1>7. Collapse(p) = [i \in 1..Len(p) |-> p[i]]
  BY <1>4, <1>5, <1>6
<1> QED BY <1>1, <1>7

\* The name of a book today.
NewName(old) == IF old = "trpl" THEN "book" ELSE "nomicon"

\* A book is renamed with its channel, or moves below the stable one.
LEMMA RenameIs ==
  ASSUME NEW r \in Renames
  PROVE  /\ r.from \in Paths /\ r.to \in Paths
         /\ \E o \in OldNames :
              \/ r.from = << Text(o) >> /\ r.to = << Stable, Text(NewName(o)) >>
              \/ \E c \in {Stable, Nightly} :
                   r.from = << c, Text(o) >> /\ r.to = << c, Text(NewName(o)) >>
PROOF
<1>1. PICK b \in Books :
        \/ r.from = << b.old >> /\ r.to = << Stable, b.new >>
        \/ \E c \in Prefixes : r.from = << c, b.old >> /\ r.to = << c, b.new >>
  BY SMT DEF Renames
<1>2. PICK o \in OldNames : b.old = Text(o) /\ b.new = Text(NewName(o))
  <2>1. \/ b.old = Text("trpl") /\ b.new = Text("book")
        \/ /\ b.old \in {Text("adv-book"), Text("rustonomicon"), Text("rustinomicon")}
           /\ b.new = Text("nomicon")
    BY DEF Books
  <2> QED BY <2>1 DEF OldNames, NewName
<1>3. Text(o) \in Segments /\ Text(NewName(o)) \in Segments /\ \A c \in {Stable, Nightly} : c \in Segments
  BY WrittenPaths DEF OldNames, NewName, Literals, Stable, Nightly
<1>4. /\ << Text(o) >> \in Paths /\ << Stable, Text(NewName(o)) >> \in Paths
      /\ \A c \in {Stable, Nightly} : << c, Text(o) >> \in Paths /\ << c, Text(NewName(o)) >> \in Paths
  BY <1>3, WrittenPaths
<1> QED BY <1>1, <1>2, <1>4 DEF Prefixes

\* No path has two old names.
LEMMA OneRename ==
  ASSUME NEW p \in Paths, NEW r \in Renames, NEW s \in Renames,
         StartsWith(p, r.from), StartsWith(p, s.from)
  PROVE  r.from = s.from /\ r.to = s.to
PROOF
<1> DEFINE Is1(t, o)    == t.from = << Text(o) >> /\ t.to = << Stable, Text(NewName(o)) >>
           Is2(t, o, c) == t.from = << c, Text(o) >> /\ t.to = << c, Text(NewName(o)) >>
<1>1. ASSUME NEW t \in Renames, StartsWith(p, t.from)
      PROVE  \/ p[1] # Empty /\ p[1][1] \in OldNames /\ Is1(t, p[1][1])
             \/ p[1] \in {Stable, Nightly} /\ p[2][1] \in OldNames /\ Is2(t, p[2][1], p[1])
  <2>1. PICK o \in OldNames :
              \/ t.from = << Text(o) >> /\ t.to = << Stable, Text(NewName(o)) >>
              \/ \E c \in {Stable, Nightly} :
                   t.from = << c, Text(o) >> /\ t.to = << c, Text(NewName(o)) >>
    BY RenameIs
  <2>2. CASE t.from = << Text(o) >> /\ t.to = << Stable, Text(NewName(o)) >>
    <3>1. StartsWith(p, << Text(o) >>)
      BY <1>1, <2>2
    <3>2. p[1] # Empty /\ p[1][1] = o
      BY <3>1, PrefixIs
    <3> QED BY <2>2, <3>2
  <2>3. ASSUME NEW c \in {Stable, Nightly},
               t.from = << c, Text(o) >>, t.to = << c, Text(NewName(o)) >>
        PROVE  p[1] = c /\ p[2][1] = o
    <3>1. PICK a : c = Text(a)
      BY DEF Stable, Nightly
    <3>2. StartsWith(p, << Text(a), Text(o) >>)
      BY <1>1, <2>3, <3>1
    <3> QED BY <3>1, <3>2, PrefixIs
  <2> QED BY <2>1, <2>2, <2>3
<1>2. p[1] \in {Stable, Nightly} => p[1][1] \notin OldNames
  BY FirstAtomIs DEF OldNames
<1>3. \/ Is1(r, p[1][1]) /\ Is1(s, p[1][1])
      \/ Is2(r, p[2][1], p[1]) /\ Is2(s, p[2][1], p[1])
  BY <1>1, <1>2
<1> QED BY <1>3

\* What follows the first segments of a path is a sequence of segments.
LEMMA RestIs ==
  ASSUME NEW p \in Paths, NEW n \in 0..Len(p)
  PROVE  SubSeq(p, n + 1, Len(p)) \in Seq(Segments)
PROOF
<1>1. \A i \in n + 1..Len(p) : p[i] \in Segments
  BY PathIs
<1> QED BY <1>1, PathIs, SubSeqProperties

\* The router moves an older path to what it is older for, whatever that is.
LEMMA OlderIsMoved ==
  ASSUME NEW p \in Paths, NEW u \in Paths, Older(p, u)
  PROVE  \E code : DocRoute(p) = Moved(u, code)
PROOF
<1>1. CASE p = << Doc >> \o u /\ Tidy(u)
  <2>1. u \in Seq(Segments) /\ Len(u) \in Nat \ {0} /\ << Doc >> \in Seq(Segments)
    BY PathIs, WrittenPaths DEF Doc, Literals
  <2>2. Len(p) = 1 + Len(u) /\ \A i \in 1..1 + Len(u) : p[i] = IF i <= 1 THEN << Doc >>[i] ELSE u[i - 1]
    <3> DEFINE d == << Doc >>
    <3>1. d \in Seq(Segments) /\ Len(d) = 1 /\ p = d \o u
      BY <1>1, <2>1
    <3> HIDE DEF d
    <3>2. /\ Len(d \o u) = Len(d) + Len(u)
          /\ \A i \in 1..Len(d) + Len(u) : (d \o u)[i] = IF i <= Len(d) THEN d[i] ELSE u[i - Len(d)]
      BY <2>1, <3>1, ConcatProperties
    <3>3. Len(p) = 1 + Len(u) /\ \A i \in 1..1 + Len(u) : p[i] = IF i <= 1 THEN d[i] ELSE u[i - 1]
      BY <3>1, <3>2
    <3> QED BY <3>3 DEF d
  <2>3. InOldDirectory(p)
    <3>1. p[1] = << Doc >>[1] /\ Len(p) > 1
      BY <2>1, <2>2
    <3> QED BY <3>1 DEF InOldDirectory
  <2>4. Tail(p) = u
    <3> DEFINE t == Tail(p)
    <3>1. p \in Seq(Segments) /\ p # << >>
      BY PathIs DEF Paths
    <3>2. t \in Seq(Segments) /\ Len(t) = Len(p) - 1 /\ \A i \in 1..Len(t) : t[i] = p[i + 1]
      BY <3>1, HeadTailProperties
    <3> HIDE DEF t
    <3>3. Len(t) = Len(u)
      BY <2>1, <2>2, <3>2
    <3>4. ASSUME NEW i \in 1..Len(u)
          PROVE  t[i] = u[i]
      <4> DEFINE j == i + 1
      <4>1. j \in 1..1 + Len(u) /\ ~(j <= 1) /\ j - 1 = i
        BY <2>1
      <4> HIDE DEF j
      <4>2. p[j] = u[j - 1]
        BY <2>2, <4>1
      <4> QED BY <3>2, <3>3, <4>1, <4>2 DEF j
    <3>5. t = u
      BY <2>1, <3>2, <3>3, <3>4, SeqEqual
    <3> QED BY <3>5 DEF t
  <2>5. Collapse(Tail(p)) = u
    BY <1>1, <2>4, CollapseTidy
  <2> QED BY <2>3, <2>5, BranchAnswers
<1>2. CASE Swapped(p, u, << Master >>, << Nightly >>)
  <2>1. << Master >> \in Paths /\ << Nightly >> \in Paths
    BY WrittenPaths DEF Master, Nightly, Literals
  <2>2. PICK z \in Seq(Segments) : p = << Master >> \o z /\ u = << Nightly >> \o z
    <3>1. PICK n \in 0..Len(p) : /\ p = << Master >> \o SubSeq(p, n + 1, Len(p))
                                /\ u = << Nightly >> \o SubSeq(p, n + 1, Len(p))
      BY <1>2 DEF Swapped
    <3> DEFINE y == SubSeq(p, n + 1, Len(p))
    <3>2. y \in Seq(Segments)
      BY RestIs
    <3>3. p = << Master >> \o y /\ u = << Nightly >> \o y
      BY <3>1
    <3> HIDE DEF y
    <3> QED BY <3>2, <3>3
  <2>3. StartsWith(p, << Master >>) /\ Replace(p, << Master >>, << Nightly >>) = u
    BY <2>1, <2>2, ReplaceWhole
  <2> QED BY <2>3, BranchAnswers
<1>3. CASE IsVersion(p, 2) /\ u = WithPatch(p)
  BY <1>3, BranchAnswers
<1>4. CASE \E r \in Renames : Swapped(p, u, r.from, r.to)
  <2> PICK r \in Renames : Swapped(p, u, r.from, r.to)
    BY <1>4
  <2>1. r.from \in Paths /\ r.to \in Paths
    BY RenameIs
  <2>2. PICK z \in Seq(Segments) : p = r.from \o z /\ u = r.to \o z
    <3>1. PICK n \in 0..Len(p) : /\ p = r.from \o SubSeq(p, n + 1, Len(p))
                                /\ u = r.to \o SubSeq(p, n + 1, Len(p))
      BY DEF Swapped
    <3> DEFINE y == SubSeq(p, n + 1, Len(p))
    <3>2. y \in Seq(Segments)
      BY RestIs
    <3>3. p = r.from \o y /\ u = r.to \o y
      BY <3>1
    <3> HIDE DEF y
    <3> QED BY <3>2, <3>3
  <2>3. StartsWith(p, r.from) /\ Replace(p, r.from, r.to) = u
    BY <2>1, <2>2, ReplaceWhole
  <2>4. PICK s \in Renames : StartsWith(p, s.from) /\ DocRoute(p) = Moved(Replace(p, s.from, s.to), 301)
    BY <2>3, BranchAnswers DEF Renamed
  <2>5. s.from = r.from /\ s.to = r.to
    BY <2>3, <2>4, OneRename
  <2> QED BY <2>3, <2>4, <2>5
<1>5. CASE p \in {Root, << Index >>} /\ u = << Stable, Empty >>
  BY <1>5, BranchAnswers
<1> QED BY <1>1, <1>2, <1>3, <1>4, <1>5 DEF Older

\* The keys of the bucket of the releases.
ReleaseFiles == Files["static-rust-lang-org"]

\* The pages of the documentation: a file, below /doc, whose name is not empty.
Pages == {f \in Paths : DocKey(f) \in ReleaseFiles /\ f[Len(f)] # Empty}

\* The website fetches a page for its own path, and for that of its directory when it
\* is the index there; for the directory without its slash it redirects.
LEMMA WebsiteFetches ==
  ASSUME NEW x \in Seq(Segments)
  PROVE  /\ \A f \in Pages : Website(DocKey(f)) = Fetch(DocKey(f))
         /\ Website(DocKey(x \o Root)) = Fetch(DocKey(x \o << Index >>))
         /\ /\ x # << >> /\ x[Len(x)] # Empty
            /\ DocKey(x) \notin ReleaseFiles /\ DocKey(x \o << Index >>) \in ReleaseFiles
            => Website(DocKey(x)) = Moved(DocKey(x) \o Root, 302)
PROOF
<1> DEFINE y == << Doc >> \o x
<1>1. /\ << Doc >> \in Seq(Segments) /\ Root \in Seq(Segments) /\ << Index >> \in Seq(Segments)
      /\ Index \in Segments /\ Doc \in Segments /\ Empty \in Segments
  BY WrittenPaths DEF Root, Doc, Index, Literals
<1>2. \A f \in Paths : DocKey(f)[Len(DocKey(f))] = f[Len(f)]
  <2> SUFFICES ASSUME NEW f \in Paths
               PROVE  DocKey(f)[Len(DocKey(f))] = f[Len(f)]
    OBVIOUS
  <2>1. f \in Seq(Segments) /\ Len(f) \in Nat \ {0}
    BY PathIs
  <2>2. /\ Len(DocKey(f)) = 1 + Len(f)
        /\ \A i \in 1..1 + Len(f) : DocKey(f)[i] = IF i <= 1 THEN << Doc >>[i] ELSE f[i - 1]
    BY <1>1, <2>1, ConcatProperties DEF DocKey
  <2>3. DocKey(f)[1 + Len(f)] = f[1 + Len(f) - 1]
    BY <2>1, <2>2
  <2> QED BY <2>1, <2>2, <2>3
<1>3. ASSUME NEW f \in Pages
      PROVE  Website(DocKey(f)) = Fetch(DocKey(f))
  BY <1>2, <1>3 DEF Pages, Website, ReleaseFiles
<1>4. y \in Seq(Segments) /\ y = DocKey(x)
  BY <1>1 DEF DocKey
<1>5. DocKey(x \o Root) = y \o Root /\ DocKey(x \o << Index >>) = y \o << Index >>
  BY <1>1, ConcatAssociative DEF DocKey
<1> HIDE DEF y
<1>6. Website(DocKey(x \o Root)) = Fetch(DocKey(x \o << Index >>))
  <2> DEFINE k == y \o Root
             n == Len(y)
             q == SubSeq(k, 1, n)
  <2>1. /\ k \in Seq(Segments) /\ n \in Nat /\ Len(k) = n + 1
        /\ \A i \in 1..n : k[i] = y[i]
        /\ k[n + 1] = Empty
    BY <1>1, <1>4, AddedSegment DEF Root
  <2> HIDE DEF k
  <2>2. q = y
    <3>1. \A i \in 1..n : k[i] \in Segments
      BY <1>4, <2>1
    <3>2. q \in Seq(Segments) /\ Len(q) = n /\ \A i \in 1..n : q[i] = k[i]
      BY <2>1, <3>1, SubSeqProperties
    <3> HIDE DEF q
    <3>3. \A i \in 1..n : q[i] = y[i]
      BY <2>1, <3>2
    <3> QED BY <1>4, <3>2, <3>3, SeqEqual
  <2>3. Len(k) - 1 = n
    BY <2>1
  <2>4. Website(k) = Fetch(SubSeq(k, 1, Len(k) - 1) \o << Index >>)
    BY <2>1 DEF Website
  <2>5. Website(k) = Fetch(y \o << Index >>)
    BY <2>2, <2>3, <2>4
  <2> QED BY <1>5, <2>5 DEF k
<1>7. ASSUME x # << >>, x[Len(x)] # Empty,
             DocKey(x) \notin ReleaseFiles, DocKey(x \o << Index >>) \in ReleaseFiles
      PROVE  Website(DocKey(x)) = Moved(DocKey(x) \o Root, 302)
  <2>1. DocKey(x)[Len(DocKey(x))] # Empty
    BY <1>2, <1>7 DEF Paths
  <2>2. Append(y, Index) = y \o << Index >>
    BY <1>1, <1>4, AppendIsConcat
  <2> QED BY <1>4, <1>5, <1>7, <2>1, <2>2 DEF Website, ReleaseFiles
<1> QED BY <1>3, <1>6, <1>7

\* The router fetches what a path of today stands for.
LEMMA ServedAtOnce ==
  ASSUME NEW p \in Paths, NEW t, Serves(p, t)
  PROVE  t \in Paths /\ DocRoute(p) = Fetch(t)
PROOF
<1>1. << Stable >> \o p \in Paths
  <2>1. << Stable >> \in Paths /\ p \in Seq(Segments)
    BY WrittenPaths, PathIs DEF Stable, Literals
  <2> QED BY <2>1, WrittenPaths
<1>2. CASE t = p /\ (IsVersion(p, 3) \/ p \in SpecialFiles \/ (OnChannel(p) /\ ~Renamed(p)))
  BY <1>2, BranchAnswers
<1>3. CASE t = << Stable >> \o p /\ Ordinary(p)
  <2>1. DocRoute(p) = Fetch(<< Stable >> \o p)
    BY <1>3, OrdinaryIsStable
  <2> QED BY <1>1, <1>3, <2>1
<1> QED BY <1>2, <1>3 DEF Serves

\* An index is the directory's.
LEMMA DirOfIs ==
  ASSUME NEW f \in Paths
  PROVE  /\ DirOf(f) \in Seq(Segments) /\ f = DirOf(f) \o << f[Len(f)] >>
         /\ Len(f) > 1 => DirOf(f) # << >>
PROOF
<1> DEFINE m == Len(f)
           k == m - 1
           w == SubSeq(f, 1, k)
           v == w \o << f[m] >>
<1>1. /\ f \in Seq(Segments) /\ m \in Nat \ {0} /\ f[m] \in Segments
      /\ k \in Nat /\ k + 1 = m /\ \A i \in 1..k : f[i] \in Segments
  BY PathIs
<1> HIDE DEF k, m
<1>2. w \in Seq(Segments) /\ Len(w) = k /\ \A i \in 1..k : w[i] = f[i]
  BY <1>1, SubSeqProperties
<1> HIDE DEF w
<1>3. v \in Seq(Segments) /\ Len(v) = m /\ (\A i \in 1..k : v[i] = w[i]) /\ v[m] = f[m]
  BY <1>1, <1>2, AddedSegment
<1> HIDE DEF v
<1>4. \A i \in 1..m : v[i] = f[i]
  <2>1. \A i \in 1..m : i \in 1..k \/ i = m
    BY <1>1
  <2> QED BY <1>2, <1>3, <2>1
<1>5. v = f
  BY <1>1, <1>3, <1>4, SeqEqual DEF m
<1>6. m > 1 => w # << >>
  BY <1>1, <1>2
<1> QED BY <1>2, <1>5, <1>6 DEF DirOf, v, w, k, m

\* A spelling of a page is answered with the page, or with another of its spellings.
LEMMA PageIsNear ==
  ASSUME NEW f \in Pages, NEW S \in SUBSET Paths, AreSpellings(S, f), NEW p \in S
  PROVE  DocAnswer(p) = Fetch(DocKey(f)) \/ \E u \in S : \E code : DocAnswer(p) = Moved(u, code)
PROOF
<1>1. p \in Paths /\ f \in Paths /\ f \in Seq(Segments)
  BY PathIs DEF Pages
<1>2. \A t : Serves(p, t) => DocAnswer(p) = Website(DocKey(t))
  BY <1>1, ServedAtOnce DEF DocAnswer, Fetch
<1>3. CASE Serves(p, f)
  BY <1>1, <1>2, <1>3, WebsiteFetches
<1>4. CASE f[Len(f)] = Index /\ Serves(p, DirOf(f) \o Root)
  <2>1. DirOf(f) \in Seq(Segments) /\ f = DirOf(f) \o << Index >>
    BY <1>1, <1>4, DirOfIs
  <2> QED BY <1>2, <1>4, <2>1, WebsiteFetches
<1>5. ASSUME NEW u \in S, Older(p, u)
      PROVE  \E code : DocAnswer(p) = Moved(u, code)
  <2>1. PICK code : DocRoute(p) = Moved(u, code)
    BY <1>1, <1>5, OlderIsMoved
  <2>2. DocRoute(p).do = "redirect"
    BY <2>1 DEF Moved
  <2>3. DocAnswer(p) = DocRoute(p)
    BY <2>2 DEF DocAnswer
  <2> QED BY <2>1, <2>3
<1>6. ASSUME NEW u \in S, IsIndex(f), DirOf(f)[Len(DirOf(f))] # Empty, Serves(p, DirOf(f)),
             DocKey(DirOf(f)) \notin ReleaseFiles, u = DocKey(DirOf(f)) \o Root
      PROVE  DocAnswer(p) = Moved(u, 302)
  <2>1. DirOf(f) \in Seq(Segments) /\ DirOf(f) # << >> /\ f = DirOf(f) \o << Index >>
    BY <1>1, <1>6, DirOfIs DEF IsIndex
  <2>2. DocKey(DirOf(f) \o << Index >>) \in ReleaseFiles
    BY <2>1 DEF Pages
  <2> QED BY <1>2, <1>6, <2>1, <2>2, WebsiteFetches
<1>7. Arrives(p, f) \/ \E u \in S : LeadsTo(p, u, f)
  BY DEF AreSpellings
<1>8. CASE Arrives(p, f)
  BY <1>3, <1>4, <1>8 DEF Arrives
<1>9. ASSUME NEW u \in S, LeadsTo(p, u, f)
      PROVE  \E code : DocAnswer(p) = Moved(u, code)
  BY <1>5, <1>6, <1>9 DEF LeadsTo, ReleaseFiles
<1> QED BY <1>7, <1>8, <1>9

\* Where a client of the documentation is that asked for a page.
OnItsWay(f, S) ==
  start.host = "doc.rust-lang.org" /\ start.path \in S =>
    \A c \in Clients :
      \/ client[c].at = "doc.rust-lang.org" /\ client[c].path \in S
      \/ client[c].at = "static-rust-lang-org" /\ client[c].path = DocKey(f)

\* Every page of the documentation is found at each of its URLs, those of today and
\* the older ones, whatever other pages there are: redirects lead from an older
\* spelling to a newer one, and none to another page.
THEOREM PagesAreFound ==
  Spec => [](\A f \in Pages, S \in SUBSET Paths : AreSpellings(S, f) =>
               \A p \in S : Found(PageUrl(f, p)))
PROOF
<1> DEFINE Inv == \A f \in Pages, S \in SUBSET Paths : AreSpellings(S, f) => OnItsWay(f, S)
<1>1. Init => Inv
  BY DEF Init, OnItsWay
<1>2. EndsInv /\ Inv /\ [Next]_vars => Inv'
  <2> SUFFICES ASSUME EndsInv, Inv, [Next]_vars,
                      NEW f \in Pages, NEW S \in SUBSET Paths, AreSpellings(S, f)
               PROVE  OnItsWay(f, S)'
    BY DEF Pages, AreSpellings, Arrives, LeadsTo, ReleaseFiles
  <2>1. OnItsWay(f, S)
    OBVIOUS
  <2> HIDE DEF Inv
  <2>2. CASE UNCHANGED vars
    BY <2>1, <2>2 DEF vars, OnItsWay, Clients
  <2>3. ASSUME NEW c \in Clients, Ask(c),
               start.host = "doc.rust-lang.org", start.path \in S
        PROVE  OnItsWay(f, S)'
    <3> DEFINE p      == client[c].path
               answer == Answer(c)
    <3>1. start' = start /\ Clients' = Clients
      BY <2>3 DEF Ask, Clients
    <3>2. client[c].at = "doc.rust-lang.org" /\ p \in S
      BY <2>1, <2>3 DEF OnItsWay, Ask, Arrived, OurHosts, OnBothCdns
    <3>3. answer = DocAnswer(p)
      BY <3>2 DEF Answer
    <3>4. \/ answer = Fetch(DocKey(f))
          \/ \E u \in S : \E code : answer = Moved(u, code)
      BY <3>2, <3>3, PageIsNear
    <3>5. \/ After(c, answer) = "static-rust-lang-org" /\ answer.path = DocKey(f)
          \/ After(c, answer) = "doc.rust-lang.org" /\ answer.path \in S
      BY <3>2, <3>4 DEF After, Fetch, Moved, BucketOf
    <3>6. client' = [client EXCEPT ![c] = [at |-> After(c, answer), path |-> answer.path,
                                           query |-> FALSE, hops |-> @.hops + 1]]
      BY <2>3 DEF Ask
    <3> HIDE DEF answer
    <3>7. DOMAIN client = Clients
      BY DEF EndsInv
    <3>8. /\ client'[c].at = After(c, answer) /\ client'[c].path = answer.path
          /\ \A d \in Clients : d # c => client'[d] = client[d]
      BY <3>6, <3>7
    <3> QED BY <2>1, <2>3, <3>1, <3>5, <3>8 DEF OnItsWay
  <2>4. ASSUME ~(start.host = "doc.rust-lang.org" /\ start.path \in S), start' = start
        PROVE  OnItsWay(f, S)'
    BY <2>4 DEF OnItsWay
  <2> QED BY <2>2, <2>3, <2>4 DEF Next, Ask
<1>3. EndsInv /\ Inv =>
        \A f \in Pages, S \in SUBSET Paths : AreSpellings(S, f) =>
          \A p \in S : Found(PageUrl(f, p))
  BY DEF OnItsWay, Found, Arrived, OurHosts, PageUrl
<1> HIDE DEF Inv
<1> QED BY <1>1, <1>2, <1>3, EndsAlways, PTL DEF Spec

\* The function of win.rustup.rs knows each short name.
LEMMA ShortNameIs ==
  ASSUME NEW d \in InstallerUrls
  PROVE  d.host = "win.rustup.rs" /\ WinRoute(d.path) = Fetch(d.key)
         /\ d.bucket = "static-rust-lang-org"
PROOF
<1>1. PICK n \in InstallerNames :
        d = [host |-> "win.rustup.rs", path |-> n[1], bucket |-> "static-rust-lang-org",
             key |-> << Text("rustup"), Text("dist") >> \o Installer(n[2])]
  BY DEF InstallerUrls
<1>2. ShortName(n[1]) = Installer(n[2])
  <2>1. /\ Root # << Text("x86_64") >> /\ Root # << Text("aarch64") >>
        /\ << Text("x86_64") >> # << Text("i686") >> /\ << Text("aarch64") >> # << Text("i686") >>
        /\ << Text("aarch64") >> # << Text("x86_64") >>
    BY DEF Root, Empty, Text
  <2> QED BY <2>1 DEF InstallerNames, ShortName
<1> QED BY <1>1, <1>2 DEF WinRoute

\* The short names of the installers lead to them.
LEMMA InstallersAreFound == Spec => [](\A d \in InstallerUrls : Found(d))
PROOF
<1> DEFINE Inv == start.host = "win.rustup.rs" =>
                    \A c \in Clients :
                      \/ client[c].at = "win.rustup.rs" /\ client[c].path = start.path
                      \/ /\ client[c].at = "static-rust-lang-org"
                         /\ client[c].path = WinRoute(start.path).path
<1>1. Init => Inv
  BY DEF Init
<1>2. EndsInv /\ Inv /\ [Next]_vars => Inv'
  <2> SUFFICES ASSUME EndsInv, Inv, [Next]_vars, start.host = "win.rustup.rs", start' = start
               PROVE  Inv'
    BY DEF Next, Ask, vars
  <2>1. CASE UNCHANGED vars
    BY <2>1 DEF vars, Clients
  <2>2. ASSUME NEW c \in Clients, Ask(c)
        PROVE  Inv'
    <3> DEFINE answer == WinRoute(start.path)
    <3>1. Clients' = Clients
      BY DEF Clients
    <3>2. client[c].at = "win.rustup.rs" /\ client[c].path = start.path
      BY <2>2 DEF Ask, Arrived, OurHosts, OnBothCdns
    <3>3. Answer(c) = answer
      BY <3>2 DEF Answer
    <3>4. After(c, answer) = "static-rust-lang-org"
      BY <3>2 DEF After, WinRoute, Fetch, BucketOf
    <3>5. client' = [client EXCEPT ![c] = [at |-> After(c, answer), path |-> answer.path,
                                           query |-> FALSE, hops |-> @.hops + 1]]
      BY <2>2, <3>3 DEF Ask
    <3> HIDE DEF answer
    <3>6. DOMAIN client = Clients
      BY DEF EndsInv
    <3>7. /\ client'[c].at = "static-rust-lang-org" /\ client'[c].path = answer.path
          /\ \A e \in Clients : e # c => client'[e] = client[e]
      BY <3>4, <3>5, <3>6
    <3> QED BY <3>1, <3>7 DEF answer
  <2> QED BY <2>1, <2>2 DEF Next
<1>3. EndsInv /\ Inv => \A d \in InstallerUrls : Found(d)
  <2> SUFFICES ASSUME Inv, NEW d \in InstallerUrls,
                      start.host = d.host, start.path = d.path, NEW c \in Clients, Arrived(c)
               PROVE  client[c].at = d.bucket /\ client[c].path = d.key
    BY DEF Found
  <2>1. start.host = "win.rustup.rs" /\ WinRoute(start.path).path = d.key /\ d.bucket = "static-rust-lang-org"
    <3>1. d.host = "win.rustup.rs" /\ WinRoute(d.path) = Fetch(d.key) /\ d.bucket = "static-rust-lang-org"
      BY ShortNameIs
    <3>2. Fetch(d.key).path = d.key
      BY DEF Fetch
    <3>3. start.host = d.host /\ start.path = d.path
      OBVIOUS
    <3> HIDE DEF Inv
    <3> QED BY <3>1, <3>2, <3>3
  <2>2. client[c].at # "win.rustup.rs"
    BY DEF Arrived, OurHosts
  <2> QED BY <2>1, <2>2
<1> HIDE DEF Inv
<1> QED BY <1>1, <1>2, <1>3, EndsAlways, PTL DEF Spec

\* Everything published is found at each of its URLs, whatever the crates, versions
\* and pages are.
THEOREM PublishedAreFound == Spec => []PublishedIsFound
PROOF
<1> DEFINE CratesFound == \A k \in Names, v \in Versions : \A d \in CrateUrls(k, v) \union DataUrls : Found(d)
           InstallersFound == \A d \in InstallerUrls : Found(d)
           PagesFound == \A f \in Pages, S \in SUBSET Paths : AreSpellings(S, f) =>
                           \A p \in S : Found(PageUrl(f, p))
<1>1. CratesFound /\ InstallersFound /\ PagesFound => PublishedIsFound
  <2> SUFFICES ASSUME CratesFound, InstallersFound, PagesFound, NEW d \in Documented
               PROVE  Found(d)
    BY DEF PublishedIsFound
  <2>1. ASSUME NEW c \in CrateVersions
        PROVE  c.name \in Names /\ c.version \in Versions
    <3>1. /\ c.name \in Seq(STRING) /\ PlainName(c.name)
          /\ c.version \in Seq(STRING) /\ PlainVersion(c.version)
      BY PublishedAssumption
    <3>2. Seq(STRING) \subseteq Segments
      BY SeqMonotonic DEF Segments
    <3> QED BY <3>1, <3>2 DEF Names, Versions
  <2>2. CASE d \in UNION {CrateUrls(c.name, c.version) : c \in CrateVersions}
    BY <2>1, <2>2
  <2>3. CASE d \in DataUrls
    <3>1. Text("crates") \in Names /\ Text("crates") \in Versions
      BY WrittenPaths DEF Names, Versions, PlainName, PlainVersion, Literals, Text, Empty
    <3> QED BY <2>3, <3>1
  <2>4. CASE d \in InstallerUrls
    BY <2>4
  <2>5. ASSUME NEW f \in DOMAIN Spellings, NEW p \in Spellings[f], d = PageUrl(f, p)
        PROVE  Found(d)
    <3>1. f \in Pages /\ Spellings[f] \in SUBSET Paths /\ AreSpellings(Spellings[f], f)
      BY PublishedAssumption, PathsAreTyped DEF Pages, ReleaseFiles
    <3> QED BY <2>5, <3>1
  <2>6. CASE \E f \in DOMAIN Spellings : \E p \in Spellings[f] : d = PageUrl(f, p)
    BY <2>5, <2>6
  <2>7. \/ d \in UNION {CrateUrls(c.name, c.version) : c \in CrateVersions}
        \/ d \in DataUrls
        \/ d \in InstallerUrls
        \/ \E f \in DOMAIN Spellings : \E p \in Spellings[f] : d = PageUrl(f, p)
    <3> DEFINE A == {CrateUrls(c.name, c.version) : c \in CrateVersions}
               B == {{PageUrl(f, p) : p \in Spellings[f]} : f \in DOMAIN Spellings}
    <3>1. d \in DataUrls \union InstallerUrls \union (UNION A) \union (UNION B)
      BY DEF Documented
    <3>2. ASSUME d \in UNION B
          PROVE  \E f \in DOMAIN Spellings : \E p \in Spellings[f] : d = PageUrl(f, p)
      <4>1. PICK S \in B : d \in S
        BY <3>2
      <4>2. PICK f \in DOMAIN Spellings : S = {PageUrl(f, p) : p \in Spellings[f]}
        BY <4>1
      <4> QED BY <4>1, <4>2
    <3> HIDE DEF B
    <3> QED BY <3>1, <3>2
  <2> QED BY <2>2, <2>3, <2>4, <2>6, <2>7
<1>2. Spec => []CratesFound
  BY CratesAreFound
<1>3. Spec => []InstallersFound
  BY InstallersAreFound
<1>4. Spec => []PagesFound
  BY PagesAreFound
<1> HIDE DEF CratesFound, InstallersFound, PagesFound
<1> QED BY <1>1, <1>2, <1>3, <1>4, PTL

=============================================================================
