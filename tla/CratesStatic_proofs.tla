------------------------- MODULE CratesStatic_proofs -------------------------
(***************************************************************************)
(* What clients of static.crates.io may rely on, for any objects, URLs and *)
(* number of requests: a server error that a client sees is that of its    *)
(* own request, which both buckets failed or which could not be sent, and  *)
(* a purge leaves nothing behind.                                          *)
(*                                                                         *)
(* The invariant follows an answer from the bucket to the client (ReqOK)   *)
(* and says what an entry of the cache is worth (EntryOK): it is never a   *)
(* server error, so an error in a request's hands came from its own host.  *)
(***************************************************************************)
EXTENDS CratesStatic, TLAPS

\* A request that holds a server error got it from the host it asked, and is at the
\* fallback only because the primary bucket failed it.
ReqOK(q) ==
  /\ q.pc \in {"candidate", "check"} =>
       /\ q.answer \in Answers
       /\ q.answer.status = 500 => q.host \in q.failed
  /\ q.host = "fallback" => "primary" \in q.failed
  /\ q.pc = "answered" /\ q.answer.status = 500 => q.failed = Hosts \/ q.host \in q.lost

\* A cached object has all tags of its key, and none was purged since (p: the purges so far).
EntryOK(k, e, p) ==
  /\ e.status \in {200, 403}
  /\ e.status = 403 => e.version = Missing
  /\ e.status = 200 =>
       /\ e.version \in 1..MaxVersion
       /\ \A t \in TagsOf[k] : t \in e.keys /\ e.epoch[t] = p[t]

RequestsOK == \A r \in Requests : ReqOK(req[r])
CacheOK    == \A s \in Slots : cache[s] # NoEntry => EntryOK(s[2], cache[s], purged)

IInv == TypeOK /\ RequestsOK /\ CacheOK

-----------------------------------------------------------------------------
(* Helpers.                                                                *)

LEMMA RouteCodes ==
  ASSUME NEW path, FastlyRoute(path).do # "fetch"
  PROVE  FastlyRoute(path).code \in {307, 308}
BY DEF FastlyRoute, Moved, MovedTo, ToCloudFront, Fetch

LEMMA IdleOK == Idle \in Request /\ ReqOK(Idle) /\ Idle.pc = "idle" /\ Idle.host = "primary"
BY KeysAssumption, BoundsAssumption DEF Idle, Request, ReqOK, Denied, Missing, Hosts, Statuses, Replies

LEMMA SlotOK ==
  ASSUME TypeOK, NEW h \in Hosts, NEW k \in Keys
  PROVE  Slot(h, k) \in Slots /\ Slot(h, k)[2] = k
BY DEF Slot, Slots, Hosts

\* The answer of a bucket is one of the three.
LEMMA BucketAnswerOK ==
  ASSUME TypeOK, NEW h \in Hosts, NEW k \in Keys
  PROVE  BucketAnswer(h, k) \in Answers /\ BucketAnswer(h, k).status # 500
BY DEF TypeOK, BucketAnswer, Answers, Ok, Denied, Missing

LEMMA AnswerType ==
  ASSUME NEW a \in Answers
  PROVE  /\ a \in Replies
         /\ a.status \in {200, 403, 500}
         /\ a.status = 200 => a.version \in 1..MaxVersion
         /\ a.status = 403 => a.version = Missing
         /\ a.status >= 500 <=> a.status = 500
BY BoundsAssumption DEF Answers, Ok, Denied, Broken, Missing, Statuses, Replies

\* A step that replaces one request and leaves the cache alone.
LEMMA RequestStep ==
  ASSUME IInv, NEW r \in Requests, NEW q \in Request, ReqOK(q),
         req' = [req EXCEPT ![r] = q], UNCHANGED <<bucket, oneCache, cache, purged>>,
         errors' \in 0..MaxErrors
  PROVE  IInv'
PROOF
<1>1. TypeOK'
  BY DEF IInv, TypeOK, Slots
<1>2. RequestsOK'
  BY DEF IInv, TypeOK, RequestsOK
<1>3. CacheOK'
  BY DEF IInv, CacheOK, EntryOK
<1> QED BY <1>1, <1>2, <1>3 DEF IInv

LEMMA WithAnswerType ==
  ASSUME NEW q \in Request, NEW a \in Replies, NEW pc \in {"candidate", "check", "answered"}
  PROVE  [q EXCEPT !.pc = pc, !.answer = a] \in Request
BY DEF Request

\* A request that is given an answer and goes on, or back to the client.
LEMMA WithAnswerOK ==
  ASSUME NEW q \in Request, ReqOK(q), NEW a \in Replies,
         a.status # 500,
         NEW pc \in {"candidate", "check", "answered"}, pc # "answered" => a \in Answers
  PROVE  /\ [q EXCEPT !.pc = pc, !.answer = a] \in Request
         /\ ReqOK([q EXCEPT !.pc = pc, !.answer = a])
PROOF
<1> DEFINE n == [q EXCEPT !.pc = pc, !.answer = a]
<1>1. n.pc = pc /\ n.answer = a /\ n.host = q.host /\ n.failed = q.failed /\ n.lost = q.lost
  BY DEF Request
<1>2. n \in Request
  BY WithAnswerType
<1> HIDE DEF n
<1>3. ReqOK(n)
  BY <1>1 DEF ReqOK
<1> QED BY <1>2, <1>3 DEF n

-----------------------------------------------------------------------------
(* Handling a request.                                                     *)

LEMMA ReceiveOK ==
  ASSUME IInv, NEW r \in Requests, NEW method \in Methods, NEW url, Receive(r, method, url)
  PROVE  IInv'
PROOF
<1> DEFINE route == FastlyRoute(url)
           start(pc, key) == [Idle EXCEPT !.pc = pc, !.method = method, !.key = key]
           reply(status) ==
             [Idle EXCEPT !.pc = "answered", !.method = method, !.answer.status = status]
           q == IF method = "PURGE"
                THEN IF url \in Keys THEN start("purge", url) ELSE reply(200)
                ELSE IF ~Allowed(method) THEN reply(401)
                ELSE IF route.do # "fetch" THEN reply(route.code)
                ELSE IF route.path \in Keys THEN start("send", route.path)
                ELSE reply(403)
<1>1. ASSUME NEW pc \in {"purge", "send"}, NEW key \in Keys
      PROVE  start(pc, key) \in Request /\ ReqOK(start(pc, key))
  BY IdleOK DEF Request, ReqOK
<1>2. ASSUME NEW status \in Statuses \ {500}
      PROVE  reply(status) \in Request /\ ReqOK(reply(status))
  BY IdleOK DEF Request, Replies, ReqOK
<1>3. q \in Request /\ ReqOK(q)
  <2>1. route.do # "fetch" => route.code \in Statuses \ {500}
    BY RouteCodes DEF Statuses
  <2>2. {200, 401, 403} \subseteq Statuses \ {500}
    BY DEF Statuses
  <2> HIDE DEF route, start, reply
  <2> QED BY <1>1, <1>2, <2>1, <2>2
<1>4. req' = [req EXCEPT ![r] = q]
  BY DEF Receive
<1>5. UNCHANGED <<bucket, oneCache, cache, purged>> /\ errors' \in 0..MaxErrors
  BY DEF Receive, IInv, TypeOK
<1> HIDE DEF q
<1> QED BY <1>3, <1>4, <1>5, RequestStep

\* Steps that look at the world and change the request only.
LEMMA SendSteps ==
  ASSUME IInv, NEW r \in Requests,
         SendHits(r) \/ SendMisses(r) \/ SendFindsServerError(r) \/ SendFails(r)
  PROVE  IInv'
PROOF
<1> DEFINE q == req[r]
           h == q.host
           k == q.key
<1>1. q \in Request /\ ReqOK(q) /\ q.pc \in {"send", "purge"} /\ h \in Hosts /\ k \in Keys
  BY DEF SendHits, SendMisses, SendFindsServerError, SendFails, IInv, TypeOK, RequestsOK, Request
<1>2. UNCHANGED <<bucket, oneCache, cache, purged>> /\ errors' \in 0..MaxErrors
  BY BoundsAssumption DEF SendHits, SendMisses, SendFindsServerError, SendFails, IInv, TypeOK
<1>3. CASE SendHits(r)
  <2> DEFINE e == Cached(h, k)
             a == [status |-> e.status, version |-> e.version]
             n == [q EXCEPT !.pc = "check", !.answer = a]
  <2>1. e \in Entries /\ EntryOK(k, e, purged)
    BY <1>1, <1>3, SlotOK DEF SendHits, Hit, Cached, IInv, TypeOK, CacheOK
  <2>2. a \in Answers /\ a.status # 500
    BY <2>1 DEF EntryOK, Answers, Ok, Denied
  <2>3. a \in Replies
    BY <2>2, AnswerType
  <2>4. req' = [req EXCEPT ![r] = n]
    BY <1>3 DEF SendHits, IInv, TypeOK, Request
  <2> HIDE DEF a
  <2>5. n \in Request /\ ReqOK(n)
    BY <1>1, <2>2, <2>3, WithAnswerOK
  <2> QED BY <1>2, <2>4, <2>5, RequestStep
<1>4. CASE SendMisses(r)
  <2> DEFINE a == BucketAnswer(h, k)
             n == [q EXCEPT !.pc = "candidate", !.answer = a]
  <2>1. a \in Answers /\ a.status # 500
    BY <1>1, BucketAnswerOK DEF IInv
  <2>2. a \in Replies
    BY <2>1, AnswerType
  <2>3. req' = [req EXCEPT ![r] = n]
    BY <1>4 DEF SendMisses, IInv, TypeOK, Request
  <2> HIDE DEF a
  <2>4. n \in Request /\ ReqOK(n)
    BY <1>1, <2>1, <2>2, WithAnswerOK
  <2> QED BY <1>2, <2>3, <2>4, RequestStep
<1>5. CASE SendFindsServerError(r)
  <2> DEFINE n == [q EXCEPT !.pc = "candidate", !.answer = Broken, !.failed = @ \union {h}]
  <2>1. Broken \in Answers /\ Broken \in Replies
    BY AnswerType DEF Answers
  <2>2. req' = [req EXCEPT ![r] = n]
    BY <1>5 DEF SendFindsServerError, IInv, TypeOK, Request
  <2>3. n \in Request /\ ReqOK(n)
    BY <1>1, <2>1 DEF Request, ReqOK
  <2> QED BY <1>2, <2>2, <2>3, RequestStep
<1>6. CASE SendFails(r)
  <2> DEFINE a == [q.answer EXCEPT !.status = 500]
             n == [q EXCEPT !.pc = "answered", !.answer = a, !.lost = @ \union {h}]
  <2>1. a \in Replies
    BY <1>1 DEF Request, Replies, Statuses
  <2>2. req' = [req EXCEPT ![r] = n]
    BY <1>6 DEF SendFails, IInv, TypeOK
  <2> HIDE DEF a
  <2>3. n \in Request
    BY <1>1, <2>1 DEF Request
  <2>4. n.pc = "answered" /\ n.host = h /\ h \in n.lost /\ n.failed = q.failed
    BY <1>1 DEF Request
  <2>5. ReqOK(n)
    BY <1>1, <2>4 DEF ReqOK
  <2> QED BY <1>2, <2>2, <2>3, <2>5, RequestStep
<1> QED BY <1>3, <1>4, <1>5, <1>6

\* send_request_to_s3 after the answer.
LEMMA AnswerSteps ==
  ASSUME IInv, NEW r \in Requests, FallBack(r) \/ Respond(r) \/ Finish(r)
  PROVE  IInv'
PROOF
<1> DEFINE q == req[r]
<1>1. q \in Request /\ ReqOK(q)
  BY DEF IInv, TypeOK, RequestsOK
<1>2. UNCHANGED <<bucket, oneCache, cache, purged>> /\ errors' \in 0..MaxErrors
  BY DEF FallBack, Respond, Finish, IInv, TypeOK
<1>3. CASE FallBack(r)
  <2> DEFINE n == [q EXCEPT !.pc = "send", !.host = "fallback"]
  <2>1. "primary" \in q.failed
    BY <1>1, <1>3, AnswerType DEF FallBack, ServerError, ReqOK
  <2>2. req' = [req EXCEPT ![r] = n]
    BY <1>3 DEF FallBack, IInv, TypeOK, Request
  <2>3. n \in Request
    BY <1>1 DEF Request, Hosts
  <2>4. n.pc = "send" /\ n.host = "fallback" /\ n.failed = q.failed
    BY <1>1 DEF Request
  <2>5. ReqOK(n)
    BY <2>1, <2>4 DEF ReqOK
  <2> QED BY <1>2, <2>2, <2>3, <2>5, RequestStep
<1>4. CASE Respond(r)
  <2> DEFINE n == [q EXCEPT !.pc = "answered"]
  <2>1. q.answer.status = 500 => q.failed = Hosts
    <3> SUFFICES ASSUME q.answer.status = 500 PROVE q.failed = Hosts
      OBVIOUS
    <3>1. q.host \in q.failed
      BY <1>1, <1>4 DEF Respond, ReqOK
    <3>2. q.host = "fallback"
      BY <1>1, <1>4 DEF Respond, ServerError, Request, Hosts
    <3> QED BY <1>1, <3>1, <3>2 DEF ReqOK, Request, Hosts
  <2>2. req' = [req EXCEPT ![r] = n]
    BY <1>4 DEF Respond, Goto, IInv, TypeOK, Request
  <2>3. n \in Request /\ ReqOK(n)
    BY <1>1, <2>1 DEF Request, ReqOK
  <2> QED BY <1>2, <2>2, <2>3, RequestStep
<1>5. CASE Finish(r)
  BY <1>2, <1>5, IdleOK, RequestStep DEF Finish
<1> QED BY <1>3, <1>4, <1>5

-----------------------------------------------------------------------------
(* Steps that change the cache or the buckets.                             *)

\* Nothing is said about requests but what their own record holds.
LEMMA StoreOK ==
  ASSUME IInv, NEW r \in Requests, Store(r)
  PROVE  IInv'
PROOF
<1> DEFINE q == req[r]
           a == q.answer
           s == Slot(q.host, q.key)
           e == [status |-> a.status, version |-> a.version, ttl |-> Ttl(a),
                 keys |-> SurrogateKeys(q.key, a), epoch |-> purged]
           n == [q EXCEPT !.pc = "check"]
<1>1. q \in Request /\ ReqOK(q) /\ q.pc = "candidate"
  BY DEF Store, IInv, TypeOK, RequestsOK
<1>2. a \in Answers /\ q.host \in Hosts /\ q.key \in Keys
  BY <1>1 DEF ReqOK, Request
<1>3. s \in Slots /\ s[2] = q.key
  BY <1>2, SlotOK DEF IInv
<1>4. Cacheable(a) => e \in Entries /\ EntryOK(q.key, e, purged)
  <2>1. TagsOf[q.key] \subseteq Tags
    BY <1>2 DEF Tags
  <2>2. SurrogateKeys(q.key, a) \subseteq Tags
    BY <2>1 DEF SurrogateKeys
  <2>3. Ttl(a) \in {"static", "error"} /\ purged \in [Tags -> 0..MaxPurges]
    BY DEF Ttl, IInv, TypeOK
  <2>4. /\ a.status \in {200, 403, 500} /\ a.version \in 0..MaxVersion
        /\ a.status = 200 => a.version \in 1..MaxVersion
        /\ a.status = 403 => a.version = Missing
    BY <1>2, AnswerType DEF Replies
  <2>5. e \in Entries
    BY <2>2, <2>3, <2>4 DEF Entries
  <2>6. Cacheable(a) => a.status \in {200, 403}
    BY <2>4 DEF Cacheable
  <2>7. a.status = 200 => SurrogateKeys(q.key, a) = TagsOf[q.key]
    BY DEF SurrogateKeys
  <2> QED BY <2>4, <2>5, <2>6, <2>7 DEF EntryOK
<1>5. cache' = IF ~Cacheable(a) THEN cache ELSE [cache EXCEPT ![s] = e]
  BY DEF Store
<1>6. req' = [req EXCEPT ![r] = n]
  BY DEF Store, Goto
<1>7. n \in Request /\ ReqOK(n)
  BY <1>1 DEF Request, ReqOK
<1>8. UNCHANGED <<bucket, oneCache, purged, errors>>
  BY DEF Store
<1> HIDE DEF n, e, s, a, q
<1>9. TypeOK'
  BY <1>3, <1>4, <1>5, <1>6, <1>7, <1>8 DEF IInv, TypeOK, Slots
<1>10. RequestsOK'
  BY <1>6, <1>7 DEF IInv, TypeOK, RequestsOK
<1>11. CacheOK'
  <2> SUFFICES ASSUME NEW x \in Slots, cache'[x] # NoEntry PROVE EntryOK(x[2], cache'[x], purged')
    BY DEF CacheOK
  <2>1. CASE Cacheable(a) /\ x = s
    <3>1. cache'[x] = e
      BY <1>5, <2>1 DEF IInv, TypeOK
    <3> QED BY <1>3, <1>4, <1>8, <2>1, <3>1 DEF EntryOK
  <2>2. CASE ~(Cacheable(a) /\ x = s)
    <3>1. cache'[x] = cache[x]
      BY <1>5, <2>2 DEF IInv, TypeOK
    <3> QED BY <1>8, <3>1 DEF IInv, CacheOK, EntryOK
  <2> QED BY <2>1, <2>2
<1> QED BY <1>9, <1>10, <1>11 DEF IInv

\* Entries only go, and what remains keeps its tags: those of a purged tag are gone.
LEMMA DropSteps ==
  ASSUME IInv,
         (\E r \in Requests : ForwardPurge(r)) \/ (\E t \in Tags : PurgeTag(t))
           \/ \E s \in Slots : Expire(s)
  PROVE  IInv'
PROOF
<1>1. ASSUME NEW r \in Requests, ForwardPurge(r) PROVE IInv'
  <2> DEFINE s == Slot(req[r].host, req[r].key)
             a == [req[r].answer EXCEPT !.status = 200]
             n == [req[r] EXCEPT !.pc = "answered", !.answer = a]
  <2>1. req[r] \in Request /\ ReqOK(req[r])
    BY DEF IInv, TypeOK, RequestsOK
  <2>2. s \in Slots
    BY <2>1, SlotOK DEF IInv, Request
  <2>3. a \in Replies /\ a.status # 500
    BY <2>1 DEF Request, Replies, Statuses
  <2>4. req' = [req EXCEPT ![r] = n]
    BY <1>1, <2>1 DEF ForwardPurge, Reply, Request
  <2> HIDE DEF a
  <2>5. n \in Request /\ ReqOK(n)
    BY <2>1, <2>3, WithAnswerOK
  <2>6. cache' = [cache EXCEPT ![s] = NoEntry] /\ UNCHANGED <<bucket, oneCache, purged, errors>>
    BY <1>1 DEF ForwardPurge
  <2> HIDE DEF n, s
  <2>7. TypeOK'
    BY <2>2, <2>4, <2>5, <2>6 DEF IInv, TypeOK, Slots
  <2>8. RequestsOK'
    BY <2>4, <2>5 DEF IInv, TypeOK, RequestsOK
  <2>9. CacheOK'
    BY <2>2, <2>6 DEF IInv, TypeOK, CacheOK, EntryOK
  <2> QED BY <2>7, <2>8, <2>9 DEF IInv
<1>2. ASSUME NEW t \in Tags, PurgeTag(t) PROVE IInv'
  <2>1. /\ UNCHANGED <<bucket, oneCache, req, errors>>
        /\ purged' = [purged EXCEPT ![t] = @ + 1] /\ purged[t] < MaxPurges
        /\ cache' = [s \in DOMAIN cache |->
             IF cache[s] # NoEntry /\ t \in cache[s].keys THEN NoEntry ELSE cache[s]]
    BY <1>2 DEF PurgeTag
  <2>2. purged' \in [Tags -> 0..MaxPurges]
    BY <2>1, BoundsAssumption DEF IInv, TypeOK
  <2>3. TypeOK'
    BY <2>1, <2>2 DEF IInv, TypeOK, Slots
  <2>4. RequestsOK'
    BY <2>1 DEF IInv, RequestsOK
  <2>5. CacheOK'
    <3> SUFFICES ASSUME NEW s \in Slots, cache'[s] # NoEntry PROVE EntryOK(s[2], cache'[s], purged')
      BY DEF CacheOK
    <3>1. cache[s] # NoEntry /\ cache'[s] = cache[s] /\ t \notin cache[s].keys
      BY <2>1 DEF IInv, TypeOK
    <3>2. EntryOK(s[2], cache[s], purged)
      BY <3>1 DEF IInv, CacheOK
    <3>3. \A u \in Tags : u # t => purged'[u] = purged[u]
      BY <2>1 DEF IInv, TypeOK
    <3>4. cache[s].status = 200 => \A u \in TagsOf[s[2]] : u \in Tags
      BY DEF Tags, Slots
    <3> QED BY <3>1, <3>2, <3>3, <3>4 DEF EntryOK
  <2> QED BY <2>3, <2>4, <2>5 DEF IInv
<1>3. ASSUME NEW s \in Slots, Expire(s) PROVE IInv'
  <2>1. cache' = [cache EXCEPT ![s] = NoEntry] /\ UNCHANGED <<bucket, oneCache, req, purged, errors>>
    BY <1>3 DEF Expire
  <2>2. TypeOK'
    BY <2>1 DEF IInv, TypeOK, Slots
  <2>3. RequestsOK' /\ CacheOK'
    BY <2>1 DEF IInv, TypeOK, RequestsOK, CacheOK, EntryOK
  <2> QED BY <2>2, <2>3 DEF IInv
<1> QED BY <1>1, <1>2, <1>3

LEMMA BucketSteps ==
  ASSUME IInv, NEW k \in Keys, Upload(k) \/ Replicate(k)
  PROVE  IInv'
PROOF
<1>1. UNCHANGED <<oneCache, cache, req, purged, errors>>
  BY DEF Upload, Replicate
<1>2. bucket' \in [Hosts -> [Keys -> 0..MaxVersion]]
  BY BoundsAssumption DEF Upload, Replicate, IInv, TypeOK, Hosts
<1>3. TypeOK'
  BY <1>1, <1>2 DEF IInv, TypeOK, Slots
<1>4. RequestsOK' /\ CacheOK'
  BY <1>1 DEF IInv, RequestsOK, CacheOK, EntryOK
<1> QED BY <1>3, <1>4 DEF IInv

-----------------------------------------------------------------------------
(* The invariant.                                                          *)

LEMMA InitOK == Init => IInv
PROOF
<1> SUFFICES ASSUME Init PROVE IInv
  OBVIOUS
<1>1. TypeOK
  BY IdleOK, BoundsAssumption DEF Init, TypeOK, Missing
<1>2. RequestsOK /\ CacheOK
  BY IdleOK DEF Init, RequestsOK, CacheOK
<1> QED BY <1>1, <1>2 DEF IInv

LEMMA StepOK == IInv /\ [Next]_vars => IInv'
PROOF
<1> SUFFICES ASSUME IInv, [Next]_vars PROVE IInv'
  OBVIOUS
<1>1. ASSUME NEW r \in Requests,
             \/ Handle(r) \/ SendFindsServerError(r) \/ SendFails(r)
             \/ \E method \in Methods, url \in Urls : Receive(r, method, url)
      PROVE  IInv'
  BY <1>1, ReceiveOK, SendSteps, AnswerSteps, StoreOK, DropSteps DEF Handle
<1>2. ASSUME NEW k \in Keys, Upload(k) \/ Replicate(k) PROVE IInv'
  BY <1>2, BucketSteps
<1>3. CASE (\E t \in Tags : PurgeTag(t)) \/ \E s \in Slots : Expire(s)
  BY <1>3, DropSteps
<1>4. CASE UNCHANGED vars
  BY <1>4 DEF vars, IInv, TypeOK, Slots, RequestsOK, CacheOK, EntryOK
<1> QED BY <1>1, <1>2, <1>3, <1>4 DEF Next

\* Every reachable state is well typed: in particular no client gets an answer that is
\* neither a bucket's, a redirect, a refusal of the method nor the failure of `send`.
THEOREM TypeCorrect == Spec => []TypeOK
PROOF
<1>1. IInv => TypeOK
  BY DEF IInv
<1> QED BY InitOK, StepOK, <1>1, PTL DEF Spec

\* For any number of requests that share the cache in any order, whether or not the
\* cache tells the buckets apart: a server error that a client gets is its own
\* request's.  Both buckets answered it with one, or it could not be sent to the
\* bucket asked last (send_request_to_s3); the cache never adds one.
THEOREM ErrorsAreOwn == Spec => []FallbackIsReached
PROOF
<1>1. IInv => FallbackIsReached
  BY DEF IInv, RequestsOK, ReqOK, FallbackIsReached
<1> QED BY InitOK, StepOK, <1>1, PTL DEF Spec

\* For any objects and tags, an object in the cache was stored after the last purge of
\* each of its tags (set_cache_policy).
THEOREM PurgesAreComplete == Spec => []PurgeLeavesNothing
PROOF
<1>1. IInv => PurgeLeavesNothing
  BY DEF IInv, CacheOK, EntryOK, PurgeLeavesNothing
<1> QED BY InitOK, StepOK, <1>1, PTL DEF Spec

=============================================================================
