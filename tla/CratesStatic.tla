---------------------------- MODULE CratesStatic ----------------------------
(***************************************************************************)
(* The Compute program of static.crates.io (compute-static/src/main.rs):   *)
(* concurrent requests, the Fastly cache, and a primary and a fallback S3  *)
(* bucket.  crates.io uploads objects to the primary bucket, which S3      *)
(* copies to the fallback one for some keys only, and purges cache tags.   *)
(***************************************************************************)
EXTENDS CratesRouting, FiniteSets

CONSTANTS
  Urls,         \* paths that clients ask for
  Keys,         \* S3 objects
  Replicated,   \* the keys S3 replicates to the fallback bucket
  Methods,      \* HTTP methods that clients use
  Requests,     \* requests that are handled at the same time
  TagsOf,       \* the `cache-tags` metadata of each object
  MaxVersion,   \* how often an object is uploaded
  MaxErrors,    \* how many answers of a bucket are server errors
  MaxPurges     \* how many purges are sent

ASSUME KeysAssumption == Keys # {} /\ Replicated \subseteq Keys
ASSUME TagsAssumption == \E Tags \in {UNION {TagsOf[k] : k \in Keys}} : TagsOf \in [Keys -> SUBSET Tags]
ASSUME BoundsAssumption == MaxVersion \in Nat /\ MaxErrors \in Nat /\ MaxPurges \in Nat

Hosts   == {"primary", "fallback"}
Tags    == UNION {TagsOf[k] : k \in Keys}
Missing == 0

\* Answers of a bucket: 200 with a version of the object, 403 or 500.
Ok(v)  == [status |-> 200, version |-> v]
Denied == [status |-> 403, version |-> Missing]
Broken == [status |-> 500, version |-> Missing]
Answers == {Ok(v) : v \in 1..MaxVersion} \union {Denied, Broken}

VARIABLES
  bucket,    \* host -> key -> newest version
  oneCache,  \* whether the cache ignores which backend an object came from
  cache,     \* what is cached, per host and key
  req,       \* the requests; `failed`: the hosts that answered with a server error,
             \* `lost`: those the program could not send them to
  purged,    \* tag -> how often it was purged
  errors     \* server errors so far

vars == <<bucket, oneCache, cache, req, purged, errors>>

NoEntry == [status |-> 0]
Slot(h, k) == <<IF oneCache THEN "primary" ELSE h, k>>
Cached(h, k) == cache[Slot(h, k)]
Hit(h, k) == Cached(h, k) # NoEntry

Idle == [pc |-> "idle", method |-> "GET", key |-> CHOOSE k \in Keys : TRUE,
         host |-> "primary", answer |-> Denied, failed |-> {}, lost |-> {}]

Goto(r, pc) == req' = [req EXCEPT ![r].pc = pc]
Reply(r, status) == req' = [req EXCEPT ![r].pc = "answered", ![r].answer.status = status]

-----------------------------------------------------------------------------
(* Handling a request.                                                     *)

\* limit_http_methods.
Allowed(method) == method \in {"GET", "HEAD"}

\* The method check, the redirects, and the rewritten key.  PURGE is sent on
\* before any of them, for the path as the client wrote it.
Receive(r, method, url) ==
  /\ req[r].pc = "idle"
  /\ LET route == FastlyRoute(url)
         start(pc, key) == [Idle EXCEPT !.pc = pc, !.method = method, !.key = key]
         reply(status) == [Idle EXCEPT !.pc = "answered", !.method = method, !.answer.status = status]
     IN req' = [req EXCEPT ![r] =
          IF method = "PURGE"
          THEN IF url \in Keys THEN start("purge", url) ELSE reply(200)
          ELSE IF ~Allowed(method) THEN reply(401)
          ELSE IF route.do # "fetch" THEN reply(route.code)
          ELSE IF route.path \in Keys THEN start("send", route.path)
          ELSE reply(403)]
  /\ UNCHANGED <<bucket, oneCache, cache, purged, errors>>

\* A PURGE that reaches the cache drops the entry of that URL.
ForwardPurge(r) ==
  /\ req[r].pc = "purge"
  /\ cache' = [cache EXCEPT ![Slot(req[r].host, req[r].key)] = NoEntry]
  /\ Reply(r, 200)
  /\ UNCHANGED <<bucket, oneCache, purged, errors>>

\* `send` to a host finds the object in the cache.
SendHits(r) ==
  /\ req[r].pc = "send"
  /\ Hit(req[r].host, req[r].key)
  /\ req' = [req EXCEPT ![r].pc = "check",
       ![r].answer = [status |-> Cached(req[r].host, req[r].key).status,
                      version |-> Cached(req[r].host, req[r].key).version]]
  /\ UNCHANGED <<bucket, oneCache, cache, purged, errors>>

\* Mutant: a missing object is answered with 404.
BugAnswersNotFound(h, k) ==
  IF bucket[h][k] = Missing THEN [status |-> 404, version |-> Missing] ELSE Ok(bucket[h][k])

\* What the bucket says at this moment.
BucketAnswer(h, k) == IF bucket[h][k] = Missing THEN Denied ELSE Ok(bucket[h][k])

SendMisses(r) ==
  /\ req[r].pc = "send"
  /\ ~Hit(req[r].host, req[r].key)
  /\ req' = [req EXCEPT ![r].pc = "candidate",
                        ![r].answer = BucketAnswer(req[r].host, req[r].key)]
  /\ UNCHANGED <<bucket, oneCache, cache, purged, errors>>

SendFindsServerError(r) ==
  /\ req[r].pc = "send"
  /\ ~Hit(req[r].host, req[r].key)
  /\ errors < MaxErrors
  /\ errors' = errors + 1
  /\ req' = [req EXCEPT ![r].pc = "candidate", ![r].answer = Broken,
                        ![r].failed = @ \union {req[r].host}]
  /\ UNCHANGED <<bucket, oneCache, cache, purged>>

\* `send` returns Err: `?` leaves the handler, without asking the fallback, and the
\* client gets the platform's 500.
SendFails(r) ==
  /\ req[r].pc \in {"send", "purge"}
  /\ errors < MaxErrors
  /\ errors' = errors + 1
  /\ LET q == req[r]
         failure == [q.answer EXCEPT !.status = 500]
     IN req' = [req EXCEPT ![r] =
          [q EXCEPT !.pc = "answered", !.answer = failure, !.lost = @ \union {q.host}]]
  /\ UNCHANGED <<bucket, oneCache, cache, purged>>

\* Mutant: a server error is made cacheable like a denial.
BugCachesErrors(a) == TRUE

\* A server error keeps its TTL of the callback but stays uncacheable.
Cacheable(a) == a.status < 500

\* Mutant: the tags are read but not set.
BugNoSurrogateKeys(k, a) == {}

SurrogateKeys(k, a) == IF a.status = 200 THEN TagsOf[k] ELSE {}

\* Mutant: every answer gets the TTL of the request.
BugOneTtl(a) == "static"

\* STATIC_TTL is a year and never runs out here; ERROR_TTL does.
Ttl(a) == IF a.status = 200 THEN "static" ELSE "error"

\* The callback of set_cache_policy, and what Fastly does with its outcome.
\* `epoch` notes how often each tag had been purged when the entry was stored.
Store(r) ==
  LET a == req[r].answer IN
  /\ req[r].pc = "candidate"
  /\ cache' = IF ~Cacheable(a) THEN cache
       ELSE [cache EXCEPT ![Slot(req[r].host, req[r].key)] =
               [status |-> a.status, version |-> a.version, ttl |-> Ttl(a),
                keys |-> SurrogateKeys(req[r].key, a), epoch |-> purged]]
  /\ Goto(r, "check")
  /\ UNCHANGED <<bucket, oneCache, purged, errors>>

\* Mutant: only 503 counts as a failure of the primary bucket.
BugFallsBackRarely(a) == a.status = 503

ServerError(a) == a.status >= 500

\* send_request_to_s3 after an answer of either host.
FallBack(r) ==
  /\ req[r].pc = "check"
  /\ req[r].host = "primary"
  /\ ServerError(req[r].answer)
  /\ req' = [req EXCEPT ![r].pc = "send", ![r].host = "fallback"]
  /\ UNCHANGED <<bucket, oneCache, cache, purged, errors>>

Respond(r) ==
  /\ req[r].pc = "check"
  /\ req[r].host = "primary" => ~ServerError(req[r].answer)
  /\ Goto(r, "answered")
  /\ UNCHANGED <<bucket, oneCache, cache, purged, errors>>

Finish(r) ==
  /\ req[r].pc = "answered"
  /\ req' = [req EXCEPT ![r] = Idle]
  /\ UNCHANGED <<bucket, oneCache, cache, purged, errors>>

-----------------------------------------------------------------------------
(* The crates.io backend, S3 and Fastly.                                   *)

Upload(k) ==
  /\ bucket["primary"][k] < MaxVersion
  /\ bucket' = [bucket EXCEPT !["primary"][k] = @ + 1]
  /\ UNCHANGED <<oneCache, cache, req, purged, errors>>

\* The bucket's replication rule covers `crates/` only.
Replicate(k) ==
  /\ k \in Replicated
  /\ bucket["fallback"][k] # bucket["primary"][k]
  /\ bucket' = [bucket EXCEPT !["fallback"][k] = bucket["primary"][k]]
  /\ UNCHANGED <<oneCache, cache, req, purged, errors>>

PurgeTag(t) ==
  /\ purged[t] < MaxPurges
  /\ purged' = [purged EXCEPT ![t] = @ + 1]
  /\ cache' = [s \in DOMAIN cache |->
       IF cache[s] # NoEntry /\ t \in cache[s].keys THEN NoEntry ELSE cache[s]]
  /\ UNCHANGED <<bucket, oneCache, req, errors>>

Expire(s) ==
  /\ cache[s] # NoEntry
  /\ cache[s].ttl = "error"
  /\ cache' = [cache EXCEPT ![s] = NoEntry]
  /\ UNCHANGED <<bucket, oneCache, req, purged, errors>>

-----------------------------------------------------------------------------

Slots == Hosts \X Keys

Init ==
  /\ bucket = [h \in Hosts |-> [k \in Keys |-> Missing]]
  /\ oneCache \in BOOLEAN
  /\ cache = [s \in Slots |-> NoEntry]
  /\ req = [r \in Requests |-> Idle]
  /\ purged = [t \in Tags |-> 0]
  /\ errors = 0

Handle(r) ==
  \/ ForwardPurge(r) \/ SendHits(r) \/ SendMisses(r) \/ Store(r)
  \/ FallBack(r) \/ Respond(r) \/ Finish(r)

Next ==
  \/ \E r \in Requests :
       \/ Handle(r) \/ SendFindsServerError(r) \/ SendFails(r)
       \/ \E method \in Methods, url \in Urls : Receive(r, method, url)
  \/ \E k \in Keys : Upload(k) \/ Replicate(k)
  \/ \E t \in Tags : PurgeTag(t)
  \/ \E s \in Slots : Expire(s)

\* A request that was received is handled, and an entry whose TTL is over is not
\* served again.  Clients, uploads, replication, purges and errors owe nothing.
Fairness ==
  /\ \A r \in Requests : WF_vars(Handle(r))
  /\ \A s \in Slots : WF_vars(Expire(s))

Spec     == Init /\ [][Next]_vars
FairSpec == Spec /\ Fairness

-----------------------------------------------------------------------------
(* Properties.                                                             *)

Entries ==
  [status : {200, 403, 500}, version : 0..MaxVersion, ttl : {"static", "error"},
   keys : SUBSET Tags, epoch : [Tags -> 0..MaxPurges]]

\* What clients are answered with: by a bucket, a redirect, the method check or `send`.
Statuses == {200, 307, 308, 401, 403, 500}
Replies  == [status : Statuses, version : 0..MaxVersion]

Request ==
  [pc : {"idle", "purge", "send", "candidate", "check", "answered"},
   method : Methods \union {"GET"}, key : Keys, host : Hosts,
   answer : Replies, failed : SUBSET Hosts, lost : SUBSET Hosts]

TypeOK ==
  /\ bucket \in [Hosts -> [Keys -> 0..MaxVersion]]
  /\ oneCache \in BOOLEAN
  /\ cache \in [Slots -> Entries \union {NoEntry}]
  /\ req \in [Requests -> Request]
  /\ purged \in [Tags -> 0..MaxPurges]
  /\ errors \in 0..MaxErrors

\* A server error that a client sees is its own request's (send_request_to_s3):
\* both buckets answered that request with one, so the fallback was asked, or the
\* program could not send it to the bucket it asked last.  The latter leaves by
\* `?`, from the primary without a try of the fallback, which is promised for
\* responses with a server error only (compute-static/README.md).  Neither a
\* primary's error alone nor another request's, found in the cache, is seen.
FallbackIsReached ==
  \A r \in Requests :
    req[r].pc = "answered" /\ req[r].answer.status = 500 =>
      req[r].failed = Hosts \/ req[r].host \in req[r].lost

\* An object of a purged tag is not in the cache unless it was stored after the
\* purge: one request drops all cached files of a crate (set_cache_policy),
\* whichever bucket they came from.
PurgeLeavesNothing ==
  \A s \in Slots : cache[s] # NoEntry /\ cache[s].status = 200 =>
    \A t \in TagsOf[s[2]] : cache[s].epoch[t] = purged[t]

\* An uploaded file does not stay hidden: once it is in the primary bucket, the
\* answer that it is missing leaves the cache for good, although nothing purges
\* it, the fallback may lack the file, and a request that read the bucket before
\* the upload may store its answer after it (set_cache_policy).
MissingIsForgotten ==
  \A k \in Keys, h \in Hosts :
    <>[](bucket[h][k] # Missing => Cached(h, k) = NoEntry \/ Cached(h, k).status = 200)

=============================================================================
