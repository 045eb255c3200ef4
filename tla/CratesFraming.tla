---------------------------- MODULE CratesFraming ----------------------------
(***************************************************************************)
(* What the Compute program of static.crates.io does to the answer of S3   *)
(* or of the Fastly cache before the client gets it: the check of partial  *)
(* answers, dynamic compression, and the framing of answers to HEAD.       *)
(*                                                                         *)
(* A GET and a HEAD with the same headers are sent for one object.  They   *)
(* are answered on their own, so the object may enter the cache, or leave  *)
(* it, between them.                                                       *)
(***************************************************************************)
EXTENDS Naturals

CONSTANTS
  MaxLength,  \* of the object, in bytes
  MaxU64      \* the largest number that parses as u64

ASSUME LengthAssumption == MaxLength \in Nat /\ MaxU64 \in Nat /\ MaxU64 > MaxLength

NoMime   == [type |-> "", subtype |-> "", suffix |-> ""]
Mime(t, s, x) == [type |-> t, subtype |-> s, suffix |-> x]
Mimes == {NoMime, Mime("text", "html", ""), Mime("application", "json", ""),
          Mime("application", "rss", "xml"), Mime("application", "gzip", "")}

Methods == {"GET", "HEAD"}
\* The first byte asked for; MaxU64 + 1 is every number that does not parse as u64.
NoRange  == [given |-> FALSE, start |-> 0]
TooLarge == MaxU64 + 1
Ranges   == {NoRange} \union [given : {TRUE}, start : 0..TooLarge]
Objects == [length : 0..MaxLength, mime : Mimes, encoded : BOOLEAN]

VARIABLES
  object,   \* what S3 stores
  range,    \* the Range header of both requests
  accepts,  \* whether the client's Accept-Encoding allows compression
  got       \* method -> the answer the client got

vars == <<object, range, accepts, got>>

\* An answer: its status, the bytes of its body before compression, its
\* Content-Range, whether it
\* is compressed, and whether the Content-Length of the origin is kept.
Answer(status, body, first, total) ==
  [status |-> status, body |-> body, first |-> first, total |-> total,
   compressed |-> FALSE, manual |-> FALSE]

None == Answer(0, 0, 0, 0)

-----------------------------------------------------------------------------
(* S3 and the Fastly cache, which cuts ranges out of a cached object and,  *)
(* beyond its end, answers with a reversed range and the complete body.    *)

Satisfiable == range.start < object.length

S3Answers ==
  IF ~range.given THEN Answer(200, object.length, 0, object.length)
  ELSE IF Satisfiable
  THEN Answer(206, object.length - range.start, range.start, object.length)
  ELSE Answer(416, 0, 0, object.length)

CacheAnswers ==
  IF range.given /\ ~Satisfiable
  THEN Answer(206, object.length, range.start, object.length)
  ELSE S3Answers

-----------------------------------------------------------------------------
(* main.rs and compression.rs.                                             *)

\* Mutant: the first byte after the end still counts as part of the object.
BugEndIsInside(a) == a.status = 206 /\ a.first > a.total

Parses(n) == n <= MaxU64

\* unsatisfiable_range_response: a number that does not parse ends the check.
Unsatisfiable(a) == a.status = 206 /\ Parses(a.first) /\ a.first >= a.total

CompressibleType(m) ==
  m.type = "text" \/ m.subtype \in {"json", "xml"} \/ m.suffix \in {"json", "xml"}

\* is_eligible_for_dynamic_compression
Eligible(a) ==
  /\ ~range.given
  /\ a.status = 200
  /\ ~object.encoded
  /\ object.mime # NoMime
  /\ CompressibleType(object.mime)

\* enable_dynamic_compression sets the hint, Fastly compresses if it may.
Compress(method, a) == method = "GET" /\ Eligible(a) /\ accepts

\* Mutant: every answer to HEAD keeps its framing.
BugHeadAlwaysKeepsLength(method, a) == method = "HEAD"

\* should_preserve_framing_headers
KeepsFraming(method, a) == method = "HEAD" /\ ~Eligible(a)

Edit(method, a) ==
  IF Unsatisfiable(a) THEN Answer(416, 0, 0, a.total)
  ELSE [a EXCEPT !.compressed = Compress(method, a), !.manual = KeepsFraming(method, a)]

Respond(method) ==
  /\ got[method] = None
  /\ \E a \in {S3Answers, CacheAnswers} : got' = [got EXCEPT ![method] = Edit(method, a)]
  /\ UNCHANGED <<object, range, accepts>>

Init ==
  /\ object \in Objects
  /\ range \in Ranges
  /\ accepts \in BOOLEAN
  /\ got = [m \in Methods |-> None]

Next == \E m \in Methods : Respond(m)

Spec == Init /\ [][Next]_vars

-----------------------------------------------------------------------------

\* A HEAD that carries a Content-Length announces what the equivalent GET sends:
\* Fastly does not compress that GET, and its body has that many bytes
\* (should_preserve_framing_headers against enable_dynamic_compression).  Left
\* out is a range whose first byte is too large to parse: the program passes on
\* what either request is answered, and the cache may disagree with S3.
HeadAnnouncesGet ==
  (\A m \in Methods : got[m] # None) /\ got["HEAD"].manual /\ Parses(range.start) =>
    /\ ~got["GET"].compressed
    /\ got["GET"].body = got["HEAD"].body

\* A range at or beyond the end is answered with 416 and without a body, from
\* the cache as from S3, as long as its first byte parses: a client that resumes
\* a complete download never appends the file to itself.  When it does not parse,
\* the program leaves the cache's answer alone and the body stays, which its
\* test_unsatisfiable_range_response_preserves_other_responses asks for.
NothingBeyondTheEnd ==
  \A m \in Methods : got[m] # None /\ range.given /\ ~Satisfiable =>
    IF Parses(range.start) THEN got[m].status = 416 /\ got[m].body = 0
    ELSE got[m].status = 206 => got[m].body = object.length

=============================================================================
