----------------------------- MODULE DocsRsEdge -----------------------------
(***************************************************************************)
(* The Fastly Compute program in front of docs.rs                          *)
(* (terraform/docs-rs/fastly-compute-docs-rs).                             *)
(*                                                                         *)
(* The same program runs on every POP.  A client's request reaches some    *)
(* POP; a POP that is not the configured shield forwards it to the shield  *)
(* POP, and the shield POP (or any POP, when shielding is off) forwards it *)
(* to the origin.  A request is therefore a stack of calls to `handle`,    *)
(* one per POP it passes, and the answer unwinds that stack.               *)
(*                                                                         *)
(* Each POP reads its own copy of the config store and of the secret       *)
(* store.  An operator publishes new values, and every copy catches up on  *)
(* its own, so two POPs of one request may disagree about who the shield   *)
(* is and what the origin-auth secret is.                                  *)
(***************************************************************************)
EXTENDS Naturals, Sequences, FiniteSets

CONSTANTS
  Pops,         \* Fastly points of presence
  Requests,     \* the requests clients send
  Clients,      \* client addresses
  Secrets,      \* values the origin-auth secret may take
  Configs,      \* contents of the config store an operator may publish
  Forgeries,    \* which internal headers a client may set itself
  None,         \* an absent header, an absent secret, no answer yet
  Forged,       \* any value a client puts in an internal header
  TrueHost,     \* the host of the request URL
  Unset,        \* no shield_pop key in the config store
  Typo,         \* a shield_pop value that names no POP
  Origin,       \* the backend docs_rs_origin
  MaxHops,      \* Fastly's limit on how often a request is forwarded
  MaxChanges    \* how often an operator edits the stores

HeaderNames == {"auth", "host", "ip", "rid"}
Config      == [shield : Pops \cup {Unset, Typo}, waf : BOOLEAN]
Methods     == {"read", "write", "other"}

ASSUME ConfigsAssumption   == Configs \subseteq Config
ASSUME ForgeriesAssumption == Forgeries \subseteq SUBSET HeaderNames
ASSUME BoundsAssumption    == MaxHops \in Nat \ {0} /\ MaxChanges \in Nat
ASSUME DistinctAssumption  ==
  /\ {None, Forged} \cap (Secrets \cup Clients \cup Pops \cup {TrueHost}) = {}
  /\ {Unset, Typo, Origin} \cap Pops = {}

Headers   == [auth : Secrets \cup {None, Forged},
              host : {None, Forged, TrueHost},
              ip   : Clients \cup Pops \cup {None, Forged},
              rid  : (Requests \X (1..MaxHops)) \cup {None, Forged}]

Response  == [status  : {"ok", "blocked", "notAllowed", "error", "trap"},
              caching : {"absent", "store", "noStore"},
              hsts    : BOOLEAN]

Call      == [pop : Pops, peer : Clients \cup Pops, method : Methods,
              pc : {"load", "inspect", "send", "wait", "origin", "answer"},
              hdr : Headers, waf : BOOLEAN, inspected : BOOLEAN,
              shield : {"Disabled", "OnEdge", "OnShield"}, fromEdge : BOOLEAN,
              target : Pops \cup {Origin}, resp : Response \cup {None}]

\* What the origin observes of a request it is sent.
Arrival   == [req : Requests, hdr : Headers, hops : Nat, inspections : Nat]

VARIABLES
  published,    \* the stores' contents as the operator last set them
  config,       \* each POP's copy of the config store
  secret,       \* each POP's copy of the origin-auth secret
  changes,      \* how many edits were published
  calls,        \* per request, the calls to `handle` in progress, newest last
  cache,        \* per POP, the responses it holds
  arrivals,     \* history: what the origin was sent
  client,       \* history: who sent the request
  answer        \* what the client got

vars == <<published, config, secret, changes, calls, cache, arrivals, client, answer>>
stores == <<published, config, secret, changes>>

Plain(status) == [status |-> status, caching |-> "absent", hsts |-> FALSE]

-----------------------------------------------------------------------------
(* Reading one call.                                                       *)

Depth(r) == Len(calls[r])
Top(r)   == calls[r][Depth(r)]

\* The newest call of r becomes c.
Become(r, c) == calls' = [calls EXCEPT ![r] = [@ EXCEPT ![Len(@)] = c]]

\* Mutant: every POP takes its caller for a client.
BugEveryCallerIsClient(c) == TRUE

\* `response_is_for_client`: only a shield POP that was handed the secret
\* takes its caller for an edge POP.
ResponseIsForClient(c) == c.shield = "OnShield" => ~c.fromEdge

\* `target_is_origin`
TargetIsOrigin(c) == c.shield \in {"OnShield", "Disabled"}

\* `Context::load`.  The inbound auth header is compared with the secret and
\* dropped, except when there is no shield_pop key at all.
ShieldContext(p, c) ==
  LET pop == config[p].shield
  IN  IF pop \notin Pops
      THEN [c EXCEPT !.shield = "Disabled",
                     !.target = Origin,
                     !.hdr.auth = IF pop = Unset THEN @ ELSE None]
      ELSE [c EXCEPT !.shield = IF pop = p THEN "OnShield" ELSE "OnEdge",
                     !.target = IF pop = p THEN Origin ELSE pop,
                     !.fromEdge = (c.hdr.auth = secret[p]),
                     !.hdr.auth = IF pop = p THEN None ELSE secret[p]]

\* The POP that answers the client names the request; the others keep the name.
WithRequestId(r, c) ==
  IF ResponseIsForClient(c) THEN [c EXCEPT !.hdr.rid = <<r, Depth(r)>>] ELSE c

\* The origin is always sent the secret.
WithOriginAuth(p, c) ==
  IF TargetIsOrigin(c) THEN [c EXCEPT !.hdr.auth = secret[p]] ELSE c

\* Mutant: an inbound client address is kept.
BugKeepInboundIp(c) ==
  IF ResponseIsForClient(c)
  THEN [c EXCEPT !.hdr.host = TrueHost, !.hdr.ip = IF @ = None THEN c.peer ELSE @]
  ELSE c

\* The proxy identity headers are the client-facing POP's own.
WithIdentity(c) ==
  IF ResponseIsForClient(c)
  THEN [c EXCEPT !.hdr.host = TrueHost, !.hdr.ip = c.peer]
  ELSE c

\* `set_after_send` and `set_pass`: a response is stored only for a read, and
\* only if it carried caching headers that permit it.  "absent" alone would be
\* stored with the platform's default TTL.
AfterSendKeeps(resp) == resp.caching # "absent"
Stored(c, resp) ==
  /\ c.method = "read"
  /\ AfterSendKeeps(resp)
  /\ resp.caching # "noStore"

\* The tail of `handle`: what the caller of this POP is given.
Finish(c, resp) ==
  [c EXCEPT !.pc = "answer",
            !.resp = [resp EXCEPT !.hsts = @ \/ ResponseIsForClient(c)]]

\* An early return of `handle`, its Err, or a panic.
Abort(c, status) == [c EXCEPT !.pc = "answer", !.resp = Plain(status)]

-----------------------------------------------------------------------------
(* The operator and the propagation of the stores.                         *)

Publish ==
  /\ changes < MaxChanges
  /\ \E c \in Configs, s \in Secrets :
       /\ published' = [config |-> c, secret |-> s]
       /\ published' # published
  /\ changes' = changes + 1
  /\ UNCHANGED <<config, secret, calls, cache, arrivals, client, answer>>

PropagateConfig(p) ==
  /\ config[p] # published.config
  /\ config' = [config EXCEPT ![p] = published.config]
  /\ UNCHANGED <<published, secret, changes, calls, cache, arrivals, client, answer>>

PropagateSecret(p) ==
  /\ secret[p] # published.secret
  /\ secret' = [secret EXCEPT ![p] = published.secret]
  /\ UNCHANGED <<published, config, changes, calls, cache, arrivals, client, answer>>

-----------------------------------------------------------------------------
(* One request.                                                            *)

NewCall(p, peer, method, hdr) ==
  [pop |-> p, peer |-> peer, method |-> method, pc |-> "load", hdr |-> hdr,
   waf |-> FALSE, inspected |-> FALSE, shield |-> "Disabled",
   fromEdge |-> FALSE, target |-> Origin, resp |-> None]

ClientHeaders(forged) ==
  [auth |-> IF "auth" \in forged THEN Forged ELSE None,
   host |-> IF "host" \in forged THEN Forged ELSE None,
   ip   |-> IF "ip"   \in forged THEN Forged ELSE None,
   rid  |-> IF "rid"  \in forged THEN Forged ELSE None]

ClientSends(r) ==
  /\ client[r] = None
  /\ \E p \in Pops, a \in Clients, m \in Methods, f \in Forgeries :
       /\ calls' = [calls EXCEPT ![r] = <<NewCall(p, a, m, ClientHeaders(f))>>]
       /\ client' = [client EXCEPT ![r] = a]
  /\ UNCHANGED <<stores, cache, arrivals, answer>>

At(r, pc) == calls[r] # <<>> /\ Top(r).pc = pc

\* The secret is read by `Context::load` when a shield is configured and again
\* before the origin is called; `expect` traps when the store has no such item.
SecretMissing(r) ==
  /\ At(r, "load")
  /\ LET c == Top(r)
     IN  /\ secret[c.pop] = None
         /\ config[c.pop].shield # Unset \/ c.method # "other"
         /\ Become(r, Abort(c, "trap"))
  /\ UNCHANGED <<stores, cache, arrivals, client, answer>>

\* `encrypted_backend` fails on an edge POP.
ShieldBackendFails(r) ==
  /\ At(r, "load")
  /\ LET c == ShieldContext(Top(r).pop, Top(r))
     IN  /\ secret[c.pop] # None
         /\ c.shield = "OnEdge"
         /\ Become(r, Abort(c, "error"))
  /\ UNCHANGED <<stores, cache, arrivals, client, answer>>

MethodNotAllowed(r) ==
  /\ At(r, "load")
  /\ LET c == ShieldContext(Top(r).pop, Top(r))
     IN  /\ secret[c.pop] # None \/ config[c.pop].shield = Unset
         /\ c.method = "other"
         /\ Become(r, Abort(c, "notAllowed"))
  /\ UNCHANGED <<stores, cache, arrivals, client, answer>>

Load(r) ==
  /\ At(r, "load")
  /\ LET c == ShieldContext(Top(r).pop, Top(r))
         d == WithOriginAuth(c.pop, WithRequestId(r, c))
     IN  /\ secret[c.pop] # None
         /\ c.method # "other"
         /\ Become(r, [d EXCEPT !.pc = "inspect", !.waf = config[c.pop].waf])
  /\ UNCHANGED <<stores, cache, arrivals, client, answer>>

\* The firewall redirects or blocks a request at the client-facing POP.
Block(r) ==
  /\ At(r, "inspect")
  /\ LET c == Top(r)
     IN  /\ c.waf /\ ResponseIsForClient(c)
         /\ Become(r, Abort([c EXCEPT !.inspected = TRUE], "blocked"))
  /\ UNCHANGED <<stores, cache, arrivals, client, answer>>

\* It allows the request, or cannot inspect it, or is not asked.
Allow(r) ==
  /\ At(r, "inspect")
  /\ LET c == Top(r)
     IN  Become(r, [WithIdentity(c) EXCEPT !.pc = "send",
                      !.inspected = c.waf /\ ResponseIsForClient(c)])
  /\ UNCHANGED <<stores, cache, arrivals, client, answer>>

\* Mutant: a response out of the cache is passed on as it was stored.
BugCachedAsIs(r) ==
  /\ At(r, "send")
  /\ Top(r).method = "read"
  /\ \E resp \in cache[Top(r).pop] :
       Become(r, [Top(r) EXCEPT !.pc = "answer", !.resp = resp])
  /\ UNCHANGED <<stores, cache, arrivals, client, answer>>

CacheHit(r) ==
  /\ At(r, "send")
  /\ Top(r).method = "read"
  /\ \E resp \in cache[Top(r).pop] : Become(r, Finish(Top(r), resp))
  /\ UNCHANGED <<stores, cache, arrivals, client, answer>>

\* Mutant: nothing stops a forwarding loop.
BugForwardForever(r) ==
  /\ At(r, "send")
  /\ LET c == Top(r)
     IN  /\ c.target # Origin
         /\ calls' = [calls EXCEPT ![r] =
                        Append([@ EXCEPT ![Len(@)] = [c EXCEPT !.pc = "wait"]],
                               NewCall(c.target, c.pop, c.method, c.hdr))]
  /\ UNCHANGED <<stores, cache, arrivals, client, answer>>

SendToShield(r) ==
  /\ At(r, "send")
  /\ Depth(r) < MaxHops
  /\ LET c == Top(r)
     IN  /\ c.target # Origin
         /\ calls' = [calls EXCEPT ![r] =
                        Append([@ EXCEPT ![Len(@)] = [c EXCEPT !.pc = "wait"]],
                               NewCall(c.target, c.pop, c.method, c.hdr))]
  /\ UNCHANGED <<stores, cache, arrivals, client, answer>>

Inspections(r) == Cardinality({i \in 1..Depth(r) : calls[r][i].inspected})

SendToOrigin(r) ==
  /\ At(r, "send")
  /\ LET c == Top(r)
     IN  /\ c.target = Origin
         /\ Become(r, [c EXCEPT !.pc = "origin"])
         /\ arrivals' = arrivals \cup {[req |-> r, hdr |-> c.hdr,
                                        hops |-> Depth(r),
                                        inspections |-> Inspections(r)]}
  /\ UNCHANGED <<stores, cache, client, answer>>

\* `req.send` fails: the backend is down, or the request was forwarded too often.
SendFails(r) ==
  /\ At(r, "send") \/ At(r, "origin")
  /\ Become(r, Abort(Top(r), "error"))
  /\ UNCHANGED <<stores, cache, arrivals, client, answer>>

OriginAnswers(r) ==
  /\ At(r, "origin")
  /\ LET c == Top(r)
     IN  \E caching \in {"absent", "store", "noStore"} :
           LET resp == [status |-> "ok", caching |-> caching, hsts |-> FALSE]
           IN  /\ Become(r, Finish(c, resp))
               /\ cache' = IF Stored(c, resp)
                           THEN [cache EXCEPT ![c.pop] = @ \cup {resp}]
                           ELSE cache
  /\ UNCHANGED <<stores, arrivals, client, answer>>

\* The shield POP's answer reaches the POP that called it.
ShieldAnswers(r) ==
  /\ At(r, "answer")
  /\ Depth(r) > 1
  /\ LET resp   == Top(r).resp
         i      == Depth(r) - 1
         caller == calls[r][i]
     IN  /\ calls' = [calls EXCEPT ![r] =
                        [SubSeq(@, 1, i) EXCEPT ![i] = Finish(caller, resp)]]
         /\ cache' = IF Stored(caller, resp)
                     THEN [cache EXCEPT ![caller.pop] = @ \cup {resp}]
                     ELSE cache
  /\ UNCHANGED <<stores, arrivals, client, answer>>

ClientIsAnswered(r) ==
  /\ At(r, "answer")
  /\ Depth(r) = 1
  /\ answer' = [answer EXCEPT ![r] = Top(r).resp]
  /\ calls' = [calls EXCEPT ![r] = <<>>]
  /\ UNCHANGED <<stores, cache, arrivals, client>>

-----------------------------------------------------------------------------

Init ==
  /\ \E c \in Configs, s \in Secrets \cup {None} :
       /\ published = [config |-> c, secret |-> s]
       /\ config = [p \in Pops |-> c]
       /\ secret = [p \in Pops |-> s]
  /\ changes = 0
  /\ calls = [r \in Requests |-> <<>>]
  /\ cache = [p \in Pops |-> {}]
  /\ arrivals = {}
  /\ client = [r \in Requests |-> None]
  /\ answer = [r \in Requests |-> None]

Progress(r) ==
  \/ SecretMissing(r) \/ ShieldBackendFails(r) \/ MethodNotAllowed(r) \/ Load(r)
  \/ Block(r) \/ Allow(r)
  \/ CacheHit(r) \/ SendToShield(r) \/ SendToOrigin(r) \/ SendFails(r)
  \/ OriginAnswers(r) \/ ShieldAnswers(r) \/ ClientIsAnswered(r)

Next ==
  \/ Publish
  \/ \E p \in Pops : PropagateConfig(p) \/ PropagateSecret(p)
  \/ \E r \in Requests : ClientSends(r) \/ Progress(r)

Spec == Init /\ [][Next]_vars

-----------------------------------------------------------------------------
(* Properties.                                                             *)

TypeOK ==
  /\ published \in [config : Config, secret : Secrets \cup {None}]
  /\ config \in [Pops -> Config]
  /\ secret \in [Pops -> Secrets \cup {None}]
  /\ changes \in Nat
  /\ calls \in [Requests -> Seq(Call)]
  /\ cache \in [Pops -> SUBSET Response]
  /\ arrivals \subseteq Arrival
  /\ client \in [Requests -> Clients \cup {None}]
  /\ answer \in [Requests -> Response \cup {None}]

\* Whatever headers a client invents, and however far the POPs' copies of the
\* stores have drifted apart, what the origin is sent was written by a POP: the
\* secret is a real one, and the host, client address and request ID are not the
\* client's own values (Context::load and the two halves of `handle` around it).
NoForgedIdentity ==
  \A a \in arrivals :
    /\ a.hdr.auth \in Secrets
    /\ a.hdr.host = TrueHost
    /\ a.hdr.ip \in Clients \cup Pops
    /\ a.hdr.rid \in {a.req} \X (1..MaxHops)

\* As long as the stores are at rest, the origin is told the address of the
\* client that sent the request and the ID the first POP gave it, the request
\* passed two POPs at most, and the firewall saw it exactly when configured, once.
IdentityIsPreserved ==
  changes = 0 =>
    \A a \in arrivals :
      /\ a.hdr.ip = client[a.req]
      /\ a.hdr.rid = <<a.req, 1>>
      /\ a.hops <= 2
      /\ a.inspections = IF published.config.waf THEN 1 ELSE 0

\* Every origin response a client gets carries HSTS, also when it came out of a
\* cache that was filled by a call made on behalf of an edge POP.
ClientsGetHsts ==
  \A r \in Requests : answer[r] # None /\ answer[r].status = "ok" => answer[r].hsts

\* "On shield POPs, preserve the ID set by the edge POP" (src/main.rs).
ShieldKeepsRequestId ==
  \A r \in Requests : \A i \in 2..Len(calls[r]) :
    LET c == calls[r][i]
    IN  c.shield = "OnShield" /\ c.pc # "load" => c.hdr.rid = calls[r][i-1].hdr.rid

=============================================================================
