------------------------ MODULE CratesFraming_proofs ------------------------
(***************************************************************************)
(* For objects and ranges of any size: an announced length is the length   *)
(* of what the equivalent GET sends, and no body follows a range beyond    *)
(* the end, unless its first byte is a number that does not parse.         *)
(*                                                                         *)
(* What a client got is one of the two answers it can be sent, edited for  *)
(* its method; both properties follow from the edits of those answers.     *)
(***************************************************************************)
EXTENDS CratesFraming, TLAPS

Answers == [status : Nat, body : Nat, first : Nat, total : Nat,
            compressed : BOOLEAN, manual : BOOLEAN]

\* What the request with that method can be answered.
Edited(m) == {Edit(m, S3Answers), Edit(m, CacheAnswers)}

\* The world of the requests stays as it is, and what a client got is such an answer.
IInv ==
  /\ object \in Objects
  /\ range \in Ranges
  /\ accepts \in BOOLEAN
  /\ got \in [Methods -> Answers]
  /\ \A m \in Methods : got[m] # None => got[m] \in Edited(m)

\* An answer before it is edited.
LEMMA AnswerFields ==
  ASSUME NEW s \in Nat, NEW b \in Nat, NEW f \in Nat, NEW t \in Nat
  PROVE  LET a == Answer(s, b, f, t)
         IN  /\ a \in Answers /\ ~a.compressed
             /\ a.status = s /\ a.body = b /\ a.first = f /\ a.total = t
PROOF
  BY DEF Answer, Answers

\* main.rs leaves the status and the body of an answer that it does not refuse.
LEMMA KeptAnswer ==
  ASSUME NEW m \in Methods, NEW a \in Answers, NEW e, e = Edit(m, a), ~Unsatisfiable(a)
  PROVE  /\ e \in Answers /\ e.status = a.status /\ e.body = a.body
         /\ e.compressed = Compress(m, a) /\ e.manual = KeepsFraming(m, a)
PROOF
<1>1. PICK c \in BOOLEAN, k \in BOOLEAN : c = Compress(m, a) /\ k = KeepsFraming(m, a)
  BY DEF Compress, KeepsFraming
<1>2. e = [a EXCEPT !.compressed = c, !.manual = k]
  BY <1>1, Zenon DEF Edit
<1>3. /\ e \in Answers /\ e.status = a.status /\ e.body = a.body
      /\ e.compressed = c /\ e.manual = k
  BY <1>2 DEF Answers
<1> QED BY <1>1, <1>3

\* The numbers a world is made of.
LEMMA Numbers ==
  ASSUME object \in Objects, range \in Ranges
  PROVE  /\ object.length \in Nat /\ object.length <= MaxLength
         /\ range.given \in BOOLEAN /\ range.start \in Nat
         /\ 200 \in Nat /\ 206 \in Nat /\ 416 \in Nat /\ 0 \in Nat
PROOF
<1>1. object.length \in 0..MaxLength
  BY DEF Objects
<1>2. range.given \in BOOLEAN /\ range.start \in 0..TooLarge
  <2>1. CASE range = NoRange
    BY <2>1, LengthAssumption DEF NoRange, TooLarge
  <2>2. CASE range \in [given : {TRUE}, start : 0..TooLarge]
    BY <2>2
  <2> QED BY <2>1, <2>2 DEF Ranges
<1> QED BY <1>1, <1>2, LengthAssumption DEF TooLarge

\* Which answers there are, by whether a range is given and where it begins.
LEMMA AnswersShape ==
  ASSUME object \in Objects, range \in Ranges, accepts \in BOOLEAN,
         NEW a \in {S3Answers, CacheAnswers}
  PROVE  /\ a \in Answers /\ ~a.compressed
         /\ ~range.given => a = Answer(200, object.length, 0, object.length)
         /\ range.given /\ Satisfiable =>
              a = Answer(206, object.length - range.start, range.start, object.length)
         /\ range.given /\ ~Satisfiable =>
              a \in {Answer(206, object.length, range.start, object.length),
                     Answer(416, 0, 0, object.length)}
PROOF
<1>1. /\ object.length \in Nat /\ range.given \in BOOLEAN /\ range.start \in Nat
      /\ 200 \in Nat /\ 206 \in Nat /\ 416 \in Nat /\ 0 \in Nat
  BY Numbers
<1>2. a = S3Answers \/ a = CacheAnswers
  OBVIOUS
<1>4. CASE ~range.given
  <2>1. a = Answer(200, object.length, 0, object.length)
    BY <1>2, <1>4 DEF S3Answers, CacheAnswers
  <2>2. a \in Answers /\ ~a.compressed
    BY <1>1, <2>1, AnswerFields
  <2> QED BY <1>4, <2>1, <2>2
<1>5. CASE range.given /\ Satisfiable
  <2>1. a = Answer(206, object.length - range.start, range.start, object.length)
    BY <1>2, <1>5 DEF S3Answers, CacheAnswers
  <2>2. PICK rest \in Nat : rest = object.length - range.start
    BY <1>1, <1>5 DEF Satisfiable
  <2>3. a \in Answers /\ ~a.compressed
    <3>1. a = Answer(206, rest, range.start, object.length)
      BY <2>1, <2>2, Zenon
    <3> QED BY <1>1, <3>1 DEF Answer, Answers
  <2> QED BY <1>5, <2>1, <2>3
<1>6. CASE range.given /\ ~Satisfiable
  <2>1. a \in {Answer(206, object.length, range.start, object.length),
               Answer(416, 0, 0, object.length)}
    BY <1>2, <1>6 DEF S3Answers, CacheAnswers
  <2>2. a \in Answers /\ ~a.compressed
    BY <1>1, <2>1, AnswerFields
  <2> QED BY <1>6, <2>1, <2>2
<1> QED BY <1>4, <1>5, <1>6

\* An edit keeps the shape of an answer, and beyond the end it leaves no body, or
\* that of the cache's answer when the first byte does not parse.
LEMMA EditShape ==
  ASSUME object \in Objects, range \in Ranges, accepts \in BOOLEAN,
         NEW m \in Methods, NEW e \in Edited(m)
  PROVE  /\ e \in Answers
         /\ ~range.given =>
              /\ e.body = object.length
              /\ e.manual => m = "HEAD" /\ ~Eligible(Answer(200, object.length, 0, object.length))
              /\ e.compressed => Eligible(Answer(200, object.length, 0, object.length))
         /\ range.given => ~e.compressed
         /\ range.given /\ Satisfiable => e.body = object.length - range.start
         /\ range.given /\ ~Satisfiable /\ Parses(range.start) => e.status = 416 /\ e.body = 0
         /\ range.given /\ ~Satisfiable /\ e.status = 206 => e.body = object.length
PROOF
<1>1. PICK a \in {S3Answers, CacheAnswers} : e = Edit(m, a)
  BY DEF Edited
<1>2. /\ a \in Answers /\ ~a.compressed
      /\ ~range.given => a = Answer(200, object.length, 0, object.length)
      /\ range.given /\ Satisfiable =>
           a = Answer(206, object.length - range.start, range.start, object.length)
      /\ range.given /\ ~Satisfiable =>
           a \in {Answer(206, object.length, range.start, object.length),
                  Answer(416, 0, 0, object.length)}
  BY AnswersShape
<1>3. /\ object.length \in Nat /\ object.length <= MaxLength
      /\ range.given \in BOOLEAN /\ range.start \in Nat
      /\ 200 \in Nat /\ 206 \in Nat /\ 416 \in Nat /\ 0 \in Nat
  BY Numbers
<1>5. CASE ~range.given
  <2>1. a.status = 200 /\ a.body = object.length
    BY <1>2, <1>5 DEF Answer
  <2>2. ~Unsatisfiable(a)
    BY <2>1 DEF Unsatisfiable
  <2>3. a = Answer(200, object.length, 0, object.length)
    BY <1>2, <1>5
  <2>4. Compress(m, a) => Eligible(a)
    BY DEF Compress
  <2>5. KeepsFraming(m, a) => m = "HEAD" /\ ~Eligible(a)
    BY DEF KeepsFraming
  <2>6. /\ e \in Answers /\ e.body = a.body
        /\ e.compressed = Compress(m, a) /\ e.manual = KeepsFraming(m, a)
    BY <1>1, <1>2, <2>2, KeptAnswer
  <2> QED BY <1>5, <2>1, <2>3, <2>4, <2>5, <2>6
<1>6. CASE range.given /\ Satisfiable
  <2>1. a.first < a.total /\ a.body = object.length - range.start
    BY <1>2, <1>3, <1>6 DEF Answer, Satisfiable
  <2>2. ~Unsatisfiable(a)
    <3>1. a.first \in Nat /\ a.total \in Nat
      BY <1>2 DEF Answers
    <3> QED BY <2>1, <3>1 DEF Unsatisfiable
  <2>3. ~Compress(m, a)
    BY <1>6 DEF Compress, Eligible
  <2>4. e \in Answers /\ e.body = a.body /\ e.compressed = Compress(m, a)
    BY <1>1, <1>2, <2>2, KeptAnswer
  <2> QED BY <1>6, <2>1, <2>3, <2>4
<1>7. CASE range.given /\ ~Satisfiable
  <2>1. CASE a = Answer(416, 0, 0, object.length)
    <3>1. ~Unsatisfiable(a)
      BY <2>1 DEF Unsatisfiable, Answer
    <3>2. ~Compress(m, a)
      BY <1>7 DEF Compress, Eligible
    <3>3. a.status = 416 /\ a.body = 0
      BY <2>1 DEF Answer
    <3>4. /\ e \in Answers /\ e.status = a.status /\ e.body = a.body
          /\ e.compressed = Compress(m, a)
      BY <1>1, <1>2, <3>1, KeptAnswer
    <3> QED BY <1>7, <3>2, <3>3, <3>4
  <2>2. CASE a = Answer(206, object.length, range.start, object.length)
    <3>1. a.status = 206 /\ a.body = object.length /\ a.first = range.start /\ a.total = object.length
      BY <2>2 DEF Answer
    <3>2. CASE Parses(range.start)
      <4>1. Unsatisfiable(a)
        BY <1>3, <1>7, <3>1, <3>2 DEF Unsatisfiable, Satisfiable
      <4>2. e = Answer(416, 0, 0, object.length)
        BY <1>1, <3>1, <4>1 DEF Edit
      <4> QED BY <1>3, <1>7, <4>2 DEF Answer, Answers
    <3>3. CASE ~Parses(range.start)
      <4>1. ~Unsatisfiable(a)
        BY <3>1, <3>3 DEF Unsatisfiable
      <4>2. ~Compress(m, a)
        BY <1>7 DEF Compress, Eligible
      <4>3. /\ e \in Answers /\ e.status = a.status /\ e.body = a.body
            /\ e.compressed = Compress(m, a)
        BY <1>1, <1>2, <4>1, KeptAnswer
      <4> QED BY <1>7, <3>1, <3>3, <4>2, <4>3
    <3> QED BY <3>2, <3>3
  <2> QED BY <1>2, <1>7, <2>1, <2>2
<1> QED BY <1>3, <1>5, <1>6, <1>7

\* No answer has been got yet, and nothing is edited twice.
LEMMA InductiveInvariant == Spec => []IInv
PROOF
<1>1. Init => IInv
  BY DEF Init, IInv, None, Answer, Answers
<1>2. IInv /\ [Next]_vars => IInv'
  <2> SUFFICES ASSUME IInv, [Next]_vars
               PROVE  IInv'
    OBVIOUS
  <2>1. ASSUME NEW m \in Methods, Respond(m)
        PROVE  IInv'
    <3>1. PICK a \in {S3Answers, CacheAnswers} : got' = [got EXCEPT ![m] = Edit(m, a)]
      BY <2>1 DEF Respond
    <3>2. UNCHANGED <<object, range, accepts>>
      BY <2>1 DEF Respond
    <3>3. Edit(m, a) \in Edited(m)
      BY DEF Edited
    <3>4. Edit(m, a) \in Answers
      BY <3>3, EditShape DEF IInv
    <3>5. \A n \in Methods : Edited(n)' = Edited(n)
      BY <3>2 DEF Edited, Edit, Unsatisfiable, Parses, Compress, KeepsFraming, Eligible,
                  S3Answers, CacheAnswers, Satisfiable
    <3>6. got'[m] = Edit(m, a) /\ \A n \in Methods \ {m} : got'[n] = got[n]
      BY <3>1 DEF IInv
    <3>7. got' \in [Methods -> Answers]
      BY <3>1, <3>4 DEF IInv
    <3> QED BY <3>2, <3>3, <3>5, <3>6, <3>7 DEF IInv, None
  <2>2. CASE UNCHANGED vars
    <3>1. UNCHANGED <<object, range, accepts, got>>
      BY <2>2 DEF vars
    <3>2. \A n \in Methods : Edited(n)' = Edited(n)
      BY <3>1 DEF Edited, Edit, Unsatisfiable, Parses, Compress, KeepsFraming, Eligible,
                  S3Answers, CacheAnswers, Satisfiable
    <3> QED BY <3>1, <3>2 DEF IInv, None
  <2> QED BY <2>1, <2>2 DEF Next
<1> QED BY <1>1, <1>2, PTL DEF Spec

-----------------------------------------------------------------------------

\* A HEAD that carries a Content-Length announces the body of the equivalent
\* GET, though the two may be answered by different places, unless their range's
\* first byte does not parse.
THEOREM AnnouncedLengthIsSent == Spec => []HeadAnnouncesGet
PROOF
<1>1. IInv => HeadAnnouncesGet
  <2> SUFFICES ASSUME IInv, got["GET"] # None, got["HEAD"] # None, got["HEAD"].manual,
                      Parses(range.start)
               PROVE  ~got["GET"].compressed /\ got["GET"].body = got["HEAD"].body
    BY DEF HeadAnnouncesGet, Methods
  <2>1. got["GET"] \in Edited("GET") /\ got["HEAD"] \in Edited("HEAD")
    BY DEF IInv, Methods
  <2>2. "GET" \in Methods /\ "HEAD" \in Methods
    BY DEF Methods
  <2>3. object \in Objects /\ range \in Ranges /\ accepts \in BOOLEAN
    BY DEF IInv
  <2> DEFINE g == got["GET"]
             h == got["HEAD"]
  <2>4. /\ ~range.given =>
              /\ g.body = object.length
              /\ g.compressed => Eligible(Answer(200, object.length, 0, object.length))
        /\ range.given => ~g.compressed
        /\ range.given /\ Satisfiable => g.body = object.length - range.start
        /\ range.given /\ ~Satisfiable /\ Parses(range.start) => g.body = 0
    BY <2>1, <2>2, <2>3, EditShape
  <2>5. /\ ~range.given =>
              /\ h.body = object.length
              /\ h.manual => ~Eligible(Answer(200, object.length, 0, object.length))
        /\ range.given /\ Satisfiable => h.body = object.length - range.start
        /\ range.given /\ ~Satisfiable /\ Parses(range.start) => h.body = 0
    BY <2>1, <2>2, <2>3, EditShape
  <2> QED BY <2>3, <2>4, <2>5
<1> QED BY <1>1, InductiveInvariant, PTL

\* Whoever answers a range at or beyond the end, the client gets 416 and no body; if
\* its first byte does not parse, a 206 of the cache arrives with its whole body.
THEOREM BeyondTheEndIsEmpty == Spec => []NothingBeyondTheEnd
PROOF
<1>1. IInv => NothingBeyondTheEnd
  <2> SUFFICES ASSUME IInv, NEW m \in Methods, got[m] # None, range.given, ~Satisfiable
               PROVE  IF Parses(range.start) THEN got[m].status = 416 /\ got[m].body = 0
                      ELSE got[m].status = 206 => got[m].body = object.length
    BY DEF NothingBeyondTheEnd
  <2>1. got[m] \in Edited(m) /\ object \in Objects /\ range \in Ranges /\ accepts \in BOOLEAN
    BY DEF IInv
  <2> QED BY <2>1, EditShape
<1> QED BY <1>1, InductiveInvariant, PTL

=============================================================================
