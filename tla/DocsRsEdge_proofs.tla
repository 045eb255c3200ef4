-------------------------- MODULE DocsRsEdge_proofs --------------------------
(***************************************************************************)
(* The origin is never sent a header value that a client invented, however *)
(* many POPs, requests and store edits there are.                          *)
(*                                                                         *)
(* The invariant that carries it (CallOK) says what the headers of a call  *)
(* are worth at each stage of `handle`: an auth header that equals any     *)
(* secret always travels with identity headers written by a POP.           *)
(***************************************************************************)
EXTENDS DocsRsEdge, FiniteSetTheorems, TLAPS

\* Identity headers written by a POP that served request r.
Clean(r, hdr) ==
  /\ hdr.host = TrueHost
  /\ hdr.ip \in Clients \cup Pops
  /\ hdr.rid \in {r} \X (1..MaxHops)

CallOK(r, c) ==
  /\ c.pc = "load" /\ c.hdr.auth \in Secrets => Clean(r, c.hdr)
  /\ c.pc = "inspect" =>
       /\ c.hdr.auth \in Secrets
       /\ c.hdr.rid \in {r} \X (1..MaxHops)
       /\ ~ResponseIsForClient(c) => Clean(r, c.hdr)
  /\ c.pc = "send" => c.hdr.auth \in Secrets /\ Clean(r, c.hdr)
  /\ c.pc = "answer" => c.resp \in Response

CallsOK ==
  \A r \in Requests :
    /\ Len(calls[r]) <= MaxHops
    /\ \A i \in 1..Len(calls[r]) : CallOK(r, calls[r][i])

IInv == TypeOK /\ CallsOK /\ NoForgedIdentity

-----------------------------------------------------------------------------
(* Replacing, pushing and popping the newest call.                         *)

LEMMA TopType ==
  ASSUME TypeOK, NEW r \in Requests, calls[r] # <<>>
  PROVE  /\ Len(calls[r]) \in Nat \ {0}
         /\ Top(r) \in Call
         /\ CallsOK => CallOK(r, Top(r))
BY DEF TypeOK, Top, Depth, CallsOK

LEMMA BecomeOK ==
  ASSUME TypeOK, CallsOK, NEW r \in Requests, calls[r] # <<>>,
         NEW c \in Call, CallOK(r, c), Become(r, c)
  PROVE  calls' \in [Requests -> Seq(Call)] /\ CallsOK'
PROOF
<1>1. calls[r] \in Seq(Call) /\ Len(calls[r]) \in Nat \ {0}
  BY DEF TypeOK
<1> DEFINE s == [calls[r] EXCEPT ![Len(calls[r])] = c]
<1>2. s \in Seq(Call) /\ Len(s) = Len(calls[r])
  BY <1>1
<1>3. calls' = [calls EXCEPT ![r] = s]
  BY DEF Become, TypeOK
<1>4. calls' \in [Requests -> Seq(Call)]
  BY <1>2, <1>3 DEF TypeOK
<1>5. ASSUME NEW q \in Requests
      PROVE  /\ Len(calls'[q]) <= MaxHops
             /\ \A i \in 1..Len(calls'[q]) : CallOK(q, calls'[q][i])
  <2>1. CASE q = r
    <3>1. calls'[r] = s
      BY <1>3 DEF TypeOK
    <3>2. ASSUME NEW i \in 1..Len(s) PROVE CallOK(r, s[i])
      <4>1. CASE i = Len(calls[r])
        <5>1. s[i] = c
          BY <1>1, <4>1
        <5> QED BY <5>1
      <4>2. CASE i # Len(calls[r])
        <5>1. s[i] = calls[r][i] /\ i \in 1..Len(calls[r])
          BY <1>1, <1>2, <4>2
        <5> QED BY <5>1 DEF CallsOK
      <4> QED BY <4>1, <4>2
    <3> QED BY <2>1, <3>1, <3>2, <1>2 DEF CallsOK
  <2>2. CASE q # r
    <3>1. calls'[q] = calls[q]
      BY <1>3, <2>2 DEF TypeOK
    <3> QED BY <3>1 DEF CallsOK
  <2> QED BY <2>1, <2>2
<1> QED BY <1>4, <1>5 DEF CallsOK
-----------------------------------------------------------------------------
(* What `Context::load` and the header steps make of a call.               *)

LEMMA HeaderUpdate ==
  ASSUME NEW h \in Headers, NEW a \in Secrets \cup {None, Forged}
  PROVE  /\ [h EXCEPT !.auth = a] \in Headers
         /\ [h EXCEPT !.auth = a].auth = a
         /\ [h EXCEPT !.auth = a].host = h.host
         /\ [h EXCEPT !.auth = a].ip = h.ip
         /\ [h EXCEPT !.auth = a].rid = h.rid
BY DEF Headers

LEMMA ShieldContextOK ==
  ASSUME TypeOK, NEW r \in Requests, NEW c \in Call, CallOK(r, c), c.pc = "load",
         secret[c.pop] # None \/ config[c.pop].shield = Unset
  PROVE  LET d == ShieldContext(c.pop, c)
         IN  /\ d \in Call
             /\ d.pop = c.pop
             /\ TargetIsOrigin(d) \/ d.hdr.auth = secret[c.pop]
             /\ ~ResponseIsForClient(d) => Clean(r, d.hdr)
PROOF
<1> DEFINE p   == c.pop
           pop == config[p].shield
           d   == ShieldContext(p, c)
<1>1. p \in Pops /\ secret[p] \in Secrets \cup {None}
  BY DEF TypeOK, Call
<1>2. CASE pop \notin Pops
  <2> DEFINE h == [c.hdr EXCEPT !.auth = IF pop = Unset THEN c.hdr.auth ELSE None]
  <2>1. c.hdr \in Headers /\ c.hdr.auth \in Secrets \cup {None, Forged}
    BY DEF Call, Headers
  <2>2. h \in Headers
    BY <2>1, HeaderUpdate
  <2>3. d = [c EXCEPT !.shield = "Disabled", !.target = Origin,
                      !.fromEdge = c.fromEdge, !.hdr = h]
    BY <1>2, <2>1 DEF ShieldContext, Call
  <2>4. d \in Call /\ d.pop = p /\ d.shield = "Disabled"
    <3>1. c.fromEdge \in BOOLEAN
      BY DEF Call
    <3> HIDE DEF d, h
    <3> QED BY <2>2, <2>3, <3>1 DEF Call
  <2> QED BY <2>4 DEF TargetIsOrigin, ResponseIsForClient
<1>3. CASE pop \in Pops
  <2> DEFINE a == IF pop = p THEN None ELSE secret[p]
             h == [c.hdr EXCEPT !.auth = a]
             s == IF pop = p THEN "OnShield" ELSE "OnEdge"
             t == IF pop = p THEN Origin ELSE pop
             e == c.hdr.auth = secret[p]
  <2>1. secret[p] \in Secrets
    BY <1>1, <1>3, DistinctAssumption
  <2>2. d = [c EXCEPT !.shield = s, !.target = t, !.fromEdge = e, !.hdr = h]
    BY <1>3 DEF ShieldContext, Call
  <2>3. c.hdr \in Headers /\ a \in Secrets \cup {None, Forged}
    BY <2>1 DEF Call
  <2>4. /\ h \in Headers /\ h.auth = a
        /\ h.host = c.hdr.host /\ h.ip = c.hdr.ip /\ h.rid = c.hdr.rid
    BY <2>3, HeaderUpdate
  <2>5. /\ d \in Call /\ d.pop = p /\ d.shield = s /\ d.hdr = h
        /\ d.fromEdge = e
    <3>1. s \in {"Disabled", "OnEdge", "OnShield"} /\ t \in Pops \cup {Origin} /\ e \in BOOLEAN
      BY <1>3
    <3> HIDE DEF s, t, e, h, d
    <3> QED BY <2>2, <2>4, <3>1 DEF Call
  <2>6. TargetIsOrigin(d) \/ d.hdr.auth = secret[p]
    <3> HIDE DEF d, h
    <3> QED BY <2>4, <2>5 DEF TargetIsOrigin
  <2>7. ASSUME ~ResponseIsForClient(d) PROVE Clean(r, d.hdr)
    <3> HIDE DEF d, h
    <3>1. c.hdr.auth = secret[p]
      BY <2>5, <2>7 DEF ResponseIsForClient
    <3>2. Clean(r, c.hdr)
      BY <2>1, <3>1 DEF CallOK
    <3> QED BY <2>4, <2>5, <3>2 DEF Clean
  <2> QED BY <2>5, <2>6, <2>7
<1> QED BY <1>2, <1>3

LEMMA AbortOK ==
  ASSUME NEW r \in Requests, NEW c \in Call,
         NEW status \in {"ok", "blocked", "notAllowed", "error", "trap"}
  PROVE  Abort(c, status) \in Call /\ CallOK(r, Abort(c, status))
BY DEF Abort, Plain, Call, Response, CallOK

LEMMA FinishOK ==
  ASSUME NEW r \in Requests, NEW c \in Call, NEW resp \in Response
  PROVE  Finish(c, resp) \in Call /\ CallOK(r, Finish(c, resp))
BY DEF Finish, Call, Response, CallOK, ResponseIsForClient

LEMMA RequestIdOK ==
  ASSUME NEW r \in Requests, NEW c \in Call, Depth(r) \in 1..MaxHops,
         ~ResponseIsForClient(c) => Clean(r, c.hdr)
  PROVE  LET d == WithRequestId(r, c)
         IN  /\ d \in Call /\ d.pop = c.pop
             /\ d.shield = c.shield /\ d.fromEdge = c.fromEdge
             /\ d.hdr.auth = c.hdr.auth
             /\ d.hdr.rid \in {r} \X (1..MaxHops)
             /\ ~ResponseIsForClient(d) => Clean(r, d.hdr)
PROOF
<1> DEFINE d == WithRequestId(r, c)
           h == [c.hdr EXCEPT !.rid = <<r, Depth(r)>>]
<1>1. CASE ResponseIsForClient(c)
  <2>1. d = [c EXCEPT !.hdr = h]
    BY <1>1 DEF WithRequestId
  <2>2. h \in Headers /\ h.rid = <<r, Depth(r)>> /\ h.auth = c.hdr.auth
    BY DEF Call, Headers
  <2>3. /\ d \in Call /\ d.pop = c.pop /\ d.hdr = h
        /\ d.shield = c.shield /\ d.fromEdge = c.fromEdge
    <3> HIDE DEF d, h
    <3> QED BY <2>1, <2>2 DEF Call
  <2>4. ResponseIsForClient(d)
    BY <1>1, <2>3 DEF ResponseIsForClient
  <2> HIDE DEF d, h
  <2>5. QED BY <2>2, <2>3, <2>4 DEF d
<1>2. CASE ~ResponseIsForClient(c)
  <2>1. d = c
    BY <1>2 DEF WithRequestId
  <2> QED BY <1>2, <2>1 DEF Clean
<1> QED BY <1>1, <1>2

LEMMA OriginAuthOK ==
  ASSUME NEW r \in Requests, NEW c \in Call, NEW p, secret[p] \in Secrets,
         TargetIsOrigin(c) \/ c.hdr.auth = secret[p],
         c.hdr.rid \in {r} \X (1..MaxHops),
         ~ResponseIsForClient(c) => Clean(r, c.hdr)
  PROVE  LET d == WithOriginAuth(p, c)
         IN  /\ d \in Call /\ d.pop = c.pop
             /\ d.hdr.auth \in Secrets
             /\ d.hdr.rid \in {r} \X (1..MaxHops)
             /\ ~ResponseIsForClient(d) => Clean(r, d.hdr)
PROOF
<1> DEFINE d == WithOriginAuth(p, c)
           h == [c.hdr EXCEPT !.auth = secret[p]]
<1>1. CASE TargetIsOrigin(c)
  <2>1. d = [c EXCEPT !.hdr = h]
    BY <1>1 DEF WithOriginAuth
  <2>2. h \in Headers /\ h.auth = secret[p] /\ h.rid = c.hdr.rid
        /\ h.host = c.hdr.host /\ h.ip = c.hdr.ip
    BY DEF Call, Headers
  <2>3. /\ d \in Call /\ d.pop = c.pop /\ d.hdr = h
        /\ d.shield = c.shield /\ d.fromEdge = c.fromEdge
    <3> HIDE DEF d, h
    <3> QED BY <2>1, <2>2 DEF Call
  <2>4. ASSUME ~ResponseIsForClient(d) PROVE Clean(r, d.hdr)
    <3> HIDE DEF d, h
    <3>1. ~ResponseIsForClient(c)
      BY <2>3, <2>4 DEF ResponseIsForClient
    <3> QED BY <2>2, <2>3, <3>1 DEF Clean
  <2> HIDE DEF d, h
  <2> QED BY <2>2, <2>3, <2>4 DEF d
<1>2. CASE ~TargetIsOrigin(c)
  <2>1. d = c
    BY <1>2 DEF WithOriginAuth
  <2> QED BY <1>2, <2>1
<1> QED BY <1>1, <1>2

LEMMA IdentityOK ==
  ASSUME NEW r \in Requests, NEW c \in Call, CallOK(r, c), c.pc = "inspect",
         NEW b \in BOOLEAN
  PROVE  LET d == [WithIdentity(c) EXCEPT !.pc = "send", !.inspected = b]
         IN  d \in Call /\ CallOK(r, d)
PROOF
<1> DEFINE e == WithIdentity(c)
           d == [e EXCEPT !.pc = "send", !.inspected = b]
           h == [c.hdr EXCEPT !.host = TrueHost, !.ip = c.peer]
<1>1. e \in Call /\ e.hdr.auth \in Secrets /\ Clean(r, e.hdr)
  <2>1. CASE ResponseIsForClient(c)
    <3>1. e = [c EXCEPT !.hdr = h]
      BY <2>1 DEF WithIdentity, Call, Headers
    <3>2. h \in Headers /\ h.auth = c.hdr.auth /\ h.rid = c.hdr.rid
          /\ h.host = TrueHost /\ h.ip = c.peer
      BY DEF Call, Headers
    <3>3. e \in Call /\ e.hdr = h
      <4> HIDE DEF e, h
      <4> QED BY <3>1, <3>2 DEF Call
    <3>4. c.peer \in Clients \cup Pops
      BY DEF Call
    <3> HIDE DEF e, h
    <3> QED BY <3>2, <3>3, <3>4 DEF Clean, CallOK
  <2>2. CASE ~ResponseIsForClient(c)
    BY <2>2 DEF WithIdentity, CallOK
  <2> QED BY <2>1, <2>2
<1>2. d \in Call /\ d.pc = "send" /\ d.hdr = e.hdr
  <2> HIDE DEF e
  <2> QED BY <1>1 DEF Call
<1> HIDE DEF d, e
<1>3. d \in Call /\ CallOK(r, d)
  BY <1>1, <1>2 DEF CallOK
<1> QED BY <1>3 DEF d, e

LEMMA LoadOK ==
  ASSUME TypeOK, NEW r \in Requests, NEW c \in Call, CallOK(r, c), c.pc = "load",
         secret[c.pop] # None, Depth(r) \in 1..MaxHops
  PROVE  LET s == ShieldContext(c.pop, c)
             o == WithOriginAuth(s.pop, WithRequestId(r, s))
             d == [o EXCEPT !.pc = "inspect", !.waf = config[s.pop].waf]
         IN  d \in Call /\ CallOK(r, d)
PROOF
<1> DEFINE s == ShieldContext(c.pop, c)
           q == WithRequestId(r, s)
           o == WithOriginAuth(s.pop, q)
           d == [o EXCEPT !.pc = "inspect", !.waf = config[s.pop].waf]
<1>1. /\ s \in Call /\ s.pop = c.pop
      /\ TargetIsOrigin(s) \/ s.hdr.auth = secret[c.pop]
      /\ ~ResponseIsForClient(s) => Clean(r, s.hdr)
  BY ShieldContextOK
<1>2. secret[s.pop] \in Secrets /\ config[s.pop].waf \in BOOLEAN
  BY <1>1 DEF TypeOK, Config, Call
<1> HIDE DEF s
<1>3. /\ q \in Call
      /\ TargetIsOrigin(q) \/ q.hdr.auth = secret[s.pop]
      /\ q.hdr.rid \in {r} \X (1..MaxHops)
      /\ ~ResponseIsForClient(q) => Clean(r, q.hdr)
  BY <1>1, RequestIdOK DEF TargetIsOrigin
<1> HIDE DEF q
<1>4. /\ o \in Call
      /\ o.hdr.auth \in Secrets
      /\ o.hdr.rid \in {r} \X (1..MaxHops)
      /\ ~ResponseIsForClient(o) => Clean(r, o.hdr)
  BY <1>2, <1>3, OriginAuthOK
<1> HIDE DEF o
<1>5. /\ d \in Call /\ d.pc = "inspect" /\ d.hdr = o.hdr
      /\ d.shield = o.shield /\ d.fromEdge = o.fromEdge
  BY <1>2, <1>4 DEF Call
<1> HIDE DEF d
<1>6. d \in Call /\ CallOK(r, d)
  BY <1>4, <1>5 DEF CallOK, ResponseIsForClient
<1> QED BY <1>6 DEF d, o, q, s

-----------------------------------------------------------------------------
(* The invariant.                                                          *)

LEMMA InitOK == Init => IInv
PROOF
<1> SUFFICES ASSUME Init PROVE IInv
  OBVIOUS
<1>1. TypeOK
  BY ConfigsAssumption DEF Init, TypeOK
<1>2. CallsOK
  BY BoundsAssumption DEF Init, CallsOK
<1>3. NoForgedIdentity
  BY DEF Init, NoForgedIdentity
<1> QED BY <1>1, <1>2, <1>3 DEF IInv

\* A step that replaces the newest call and sends the origin nothing.
LEMMA QuietStep ==
  ASSUME IInv, NEW r \in Requests, calls[r] # <<>>, NEW c \in Call, CallOK(r, c),
         Become(r, c), UNCHANGED <<stores, arrivals, client, answer>>,
         cache' \in [Pops -> SUBSET Response]
  PROVE  IInv'
PROOF
<1>1. calls' \in [Requests -> Seq(Call)] /\ CallsOK'
  BY BecomeOK DEF IInv
<1>2. TypeOK'
  BY <1>1 DEF IInv, TypeOK, stores
<1>3. NoForgedIdentity'
  BY DEF IInv, NoForgedIdentity
<1> QED BY <1>1, <1>2, <1>3 DEF IInv

LEMMA AtTop ==
  ASSUME IInv, NEW r \in Requests, NEW pc, At(r, pc)
  PROVE  /\ calls[r] # <<>> /\ Top(r) \in Call /\ Top(r).pc = pc
         /\ CallOK(r, Top(r)) /\ Depth(r) \in 1..MaxHops
         /\ Top(r).pop \in Pops
PROOF
<1>1. calls[r] # <<>> /\ Top(r).pc = pc
  BY DEF At
<1>2. Len(calls[r]) \in Nat \ {0} /\ Top(r) \in Call /\ CallOK(r, Top(r))
  BY <1>1, TopType DEF IInv
<1>3. Len(calls[r]) <= MaxHops
  BY DEF IInv, CallsOK
<1> QED BY <1>1, <1>2, <1>3, BoundsAssumption DEF Depth, Call

LEMMA StoresOK ==
  ASSUME IInv, Publish \/ \E p \in Pops : PropagateConfig(p) \/ PropagateSecret(p)
  PROVE  IInv'
PROOF
<1>1. UNCHANGED <<calls, cache, arrivals, client, answer>>
  BY DEF Publish, PropagateConfig, PropagateSecret
<1>2. TypeOK'
  <2>1. CASE Publish
    BY <2>1, ConfigsAssumption DEF Publish, IInv, TypeOK
  <2>2. ASSUME NEW p \in Pops, PropagateConfig(p) PROVE TypeOK'
    BY <2>2 DEF PropagateConfig, IInv, TypeOK
  <2>3. ASSUME NEW p \in Pops, PropagateSecret(p) PROVE TypeOK'
    BY <2>3 DEF PropagateSecret, IInv, TypeOK
  <2> QED BY <2>1, <2>2, <2>3
<1>3. CallsOK' /\ NoForgedIdentity'
  BY <1>1 DEF IInv, CallsOK, NoForgedIdentity
<1> QED BY <1>2, <1>3 DEF IInv

LEMMA ClientSendsOK ==
  ASSUME IInv, NEW r \in Requests, ClientSends(r)
  PROVE  IInv'
PROOF
<1>1. PICK p \in Pops, a \in Clients, m \in Methods, f \in Forgeries :
        /\ calls' = [calls EXCEPT ![r] = <<NewCall(p, a, m, ClientHeaders(f))>>]
        /\ client' = [client EXCEPT ![r] = a]
  BY DEF ClientSends
<1> DEFINE c == NewCall(p, a, m, ClientHeaders(f))
<1>2. ClientHeaders(f) \in Headers /\ ClientHeaders(f).auth \in {None, Forged}
  BY DEF ClientHeaders, Headers
<1>3. c \in Call /\ c.hdr = ClientHeaders(f) /\ c.pc = "load"
  BY <1>2 DEF NewCall, Call
<1>4. CallOK(r, c)
  BY <1>2, <1>3, DistinctAssumption DEF CallOK
<1> HIDE DEF c
<1>5. <<c>> \in Seq(Call) /\ Len(<<c>>) = 1 /\ <<c>>[1] = c
  BY <1>3
<1>6. calls' = [calls EXCEPT ![r] = <<c>>]
  BY <1>1 DEF c
<1>7. calls' \in [Requests -> Seq(Call)]
  BY <1>5, <1>6 DEF IInv, TypeOK
<1>8. CallsOK'
  BY <1>4, <1>5, <1>6, BoundsAssumption DEF IInv, TypeOK, CallsOK
<1>9. TypeOK'
  BY <1>1, <1>7 DEF ClientSends, IInv, TypeOK, stores
<1>10. NoForgedIdentity'
  BY DEF ClientSends, IInv, NoForgedIdentity
<1> QED BY <1>8, <1>9, <1>10 DEF IInv

\* Every early return, error and panic of `handle` is an Abort, which is never "ok".
LEMMA AbortShape ==
  ASSUME IInv, NEW r \in Requests,
         SecretMissing(r) \/ ShieldBackendFails(r) \/ MethodNotAllowed(r)
           \/ Block(r) \/ SendFails(r)
  PROVE  /\ calls[r] # <<>>
         /\ \E c \in Call, status \in {"blocked", "notAllowed", "error", "trap"} :
              Become(r, Abort(c, status))
PROOF
<1> DEFINE t == Top(r)
           s == ShieldContext(t.pop, t)
<1>1. PICK pc : At(r, pc)
  BY DEF SecretMissing, ShieldBackendFails, MethodNotAllowed, Block, SendFails
<1>2. calls[r] # <<>> /\ t \in Call /\ CallOK(r, t)
  BY <1>1, AtTop
<1>3. CASE SecretMissing(r) \/ SendFails(r)
  BY <1>2, <1>3 DEF SecretMissing, SendFails
<1>4. CASE ShieldBackendFails(r) \/ MethodNotAllowed(r)
  <2>1. At(r, "load")
    BY <1>4 DEF ShieldBackendFails, MethodNotAllowed
  <2>2. t.pc = "load" /\ TypeOK
    BY <2>1, AtTop DEF IInv
  <2>3. secret[t.pop] # None \/ config[t.pop].shield = Unset => s \in Call /\ s.pop = t.pop
    BY <1>2, <2>2, ShieldContextOK
  <2>4. s.pop = t.pop
    BY <1>2 DEF ShieldContext, Call
  <2>5. CASE ShieldBackendFails(r)
    <3>1. secret[s.pop] # None /\ Become(r, Abort(s, "error"))
      BY <2>5 DEF ShieldBackendFails
    <3> QED BY <1>2, <2>3, <2>4, <3>1
  <2>6. CASE MethodNotAllowed(r)
    <3>1. /\ secret[s.pop] # None \/ config[s.pop].shield = Unset
          /\ Become(r, Abort(s, "notAllowed"))
      BY <2>6 DEF MethodNotAllowed
    <3> QED BY <1>2, <2>3, <2>4, <3>1
  <2> QED BY <1>4, <2>5, <2>6
<1>5. CASE Block(r)
  <2>1. [t EXCEPT !.inspected = TRUE] \in Call
    BY <1>2 DEF Call
  <2> QED BY <1>2, <1>5, <2>1 DEF Block
<1> QED BY <1>3, <1>4, <1>5

LEMMA AbortSteps ==
  ASSUME IInv, NEW r \in Requests,
         SecretMissing(r) \/ ShieldBackendFails(r) \/ MethodNotAllowed(r)
           \/ Block(r) \/ SendFails(r)
  PROVE  IInv'
PROOF
<1>1. UNCHANGED <<stores, arrivals, client, answer>> /\ cache' \in [Pops -> SUBSET Response]
  BY DEF SecretMissing, ShieldBackendFails, MethodNotAllowed, Block, SendFails, IInv, TypeOK
<1>2. PICK c \in Call, status \in {"blocked", "notAllowed", "error", "trap"} :
        Become(r, Abort(c, status))
  BY AbortShape
<1>3. Abort(c, status) \in Call /\ CallOK(r, Abort(c, status))
  BY AbortOK
<1> QED BY <1>1, <1>2, <1>3, AbortShape, QuietStep

LEMMA AdvanceSteps ==
  ASSUME IInv, NEW r \in Requests, Load(r) \/ Allow(r)
  PROVE  IInv'
PROOF
<1> DEFINE t == Top(r)
<1>1. UNCHANGED <<stores, arrivals, client, answer>> /\ cache' \in [Pops -> SUBSET Response]
  BY DEF Load, Allow, IInv, TypeOK
<1>2. CASE Load(r)
  <2> DEFINE s == ShieldContext(t.pop, t)
             o == WithOriginAuth(s.pop, WithRequestId(r, s))
             d == [o EXCEPT !.pc = "inspect", !.waf = config[s.pop].waf]
  <2>1. /\ calls[r] # <<>> /\ t \in Call /\ t.pc = "load" /\ CallOK(r, t)
        /\ Depth(r) \in 1..MaxHops
    BY <1>2, AtTop DEF Load
  <2>2. secret[s.pop] # None /\ Become(r, d)
    BY <1>2 DEF Load
  <2>3. s.pop = t.pop
    BY <2>1 DEF ShieldContext, Call
  <2>4. d \in Call /\ CallOK(r, d)
    BY <2>1, <2>2, <2>3, LoadOK DEF IInv
  <2> HIDE DEF d
  <2> QED BY <1>1, <2>1, <2>2, <2>4, QuietStep
<1>3. CASE Allow(r)
  <2> DEFINE b == t.waf /\ ResponseIsForClient(t)
             d == [WithIdentity(t) EXCEPT !.pc = "send", !.inspected = b]
  <2>1. calls[r] # <<>> /\ t \in Call /\ t.pc = "inspect" /\ CallOK(r, t)
    BY <1>3, AtTop DEF Allow
  <2>2. Become(r, d)
    BY <1>3 DEF Allow
  <2>3. b \in BOOLEAN
    BY DEF Call
  <2> HIDE DEF b
  <2>4. d \in Call /\ CallOK(r, d)
    BY <2>1, <2>3, IdentityOK
  <2> HIDE DEF d
  <2> QED BY <1>1, <2>1, <2>2, <2>4, QuietStep
<1> QED BY <1>2, <1>3

LEMMA FinishSteps ==
  ASSUME IInv, NEW r \in Requests, CacheHit(r) \/ OriginAnswers(r)
  PROVE  IInv'
PROOF
<1> DEFINE t == Top(r)
<1>1. PICK pc : At(r, pc)
  BY DEF CacheHit, OriginAnswers
<1>2. calls[r] # <<>> /\ t \in Call /\ t.pop \in Pops
  BY <1>1, AtTop
<1>3. UNCHANGED <<stores, arrivals, client, answer>>
  BY DEF CacheHit, OriginAnswers
<1>4. PICK resp \in Response : Become(r, Finish(t, resp)) /\ cache' \in [Pops -> SUBSET Response]
  <2>1. CASE CacheHit(r)
    BY <1>2, <2>1 DEF CacheHit, IInv, TypeOK
  <2>2. CASE OriginAnswers(r)
    <3>1. PICK caching \in {"absent", "store", "noStore"} :
            LET resp == [status |-> "ok", caching |-> caching, hsts |-> FALSE]
            IN  /\ Become(r, Finish(t, resp))
                /\ cache' = IF Stored(t, resp)
                            THEN [cache EXCEPT ![t.pop] = @ \cup {resp}]
                            ELSE cache
      BY <2>2 DEF OriginAnswers
    <3> DEFINE x == [status |-> "ok", caching |-> caching, hsts |-> FALSE]
    <3>2. x \in Response
      BY DEF Response
    <3>3. cache \in [Pops -> SUBSET Response]
      BY DEF IInv, TypeOK
    <3> QED BY <1>2, <3>1, <3>2, <3>3
  <2> QED BY <2>1, <2>2
<1>5. Finish(t, resp) \in Call /\ CallOK(r, Finish(t, resp))
  BY <1>2, FinishOK
<1> QED BY <1>2, <1>3, <1>4, <1>5, QuietStep

LEMMA SendToOriginOK ==
  ASSUME IInv, NEW r \in Requests, SendToOrigin(r)
  PROVE  IInv'
PROOF
<1> DEFINE t == Top(r)
           c == [t EXCEPT !.pc = "origin"]
           a == [req |-> r, hdr |-> t.hdr, hops |-> Depth(r), inspections |-> Inspections(r)]
<1>1. calls[r] # <<>> /\ t \in Call /\ t.pc = "send" /\ CallOK(r, t) /\ Depth(r) \in 1..MaxHops
  BY AtTop DEF SendToOrigin
<1>2. c \in Call /\ CallOK(r, c)
  BY <1>1 DEF Call, CallOK
<1>3. Become(r, c) /\ arrivals' = arrivals \cup {a}
  BY DEF SendToOrigin
<1>4. calls' \in [Requests -> Seq(Call)] /\ CallsOK'
  <2> HIDE DEF c
  <2> QED BY <1>1, <1>2, <1>3, BecomeOK DEF IInv
<1>5. t.hdr \in Headers /\ t.hdr.auth \in Secrets /\ Clean(r, t.hdr)
  BY <1>1 DEF CallOK, Call
<1>6. a \in Arrival
  <2>1. Depth(r) \in Nat
    BY <1>1, BoundsAssumption
  <2>2. Inspections(r) \in Nat
    <3> DEFINE S == {i \in 1..Depth(r) : calls[r][i].inspected}
    <3>1. IsFiniteSet(1..Depth(r))
      BY <2>1, FS_Interval
    <3>2. S \subseteq 1..Depth(r)
      OBVIOUS
    <3>3. Cardinality(S) \in Nat
      <4> HIDE DEF S
      <4> QED BY <3>1, <3>2, FS_Subset, FS_CardinalityType
    <3> QED BY <3>3 DEF Inspections
  <2> QED BY <1>5, <2>1, <2>2 DEF Arrival
<1>7. TypeOK'
  BY <1>3, <1>4, <1>6 DEF SendToOrigin, IInv, TypeOK, stores
<1>8. NoForgedIdentity'
  BY <1>3, <1>5 DEF IInv, NoForgedIdentity, Clean
<1> QED BY <1>4, <1>7, <1>8 DEF IInv

LEMMA SendToShieldOK ==
  ASSUME IInv, NEW r \in Requests, SendToShield(r)
  PROVE  IInv'
PROOF
<1> DEFINE t  == Top(r)
           w  == [t EXCEPT !.pc = "wait"]
           n  == NewCall(t.target, t.pop, t.method, t.hdr)
           s  == calls[r]
           s1 == [s EXCEPT ![Len(s)] = w]
           s2 == Append(s1, n)
<1>1. s # <<>> /\ t \in Call /\ t.pc = "send" /\ CallOK(r, t) /\ Len(s) < MaxHops
  BY AtTop DEF SendToShield, Depth
<1>2. t.target \in Pops
  BY <1>1 DEF SendToShield, Call
<1>3. s \in Seq(Call) /\ Len(s) \in Nat \ {0} /\ \A i \in 1..Len(s) : CallOK(r, s[i])
  BY <1>1 DEF IInv, TypeOK, CallsOK
<1>4. w \in Call /\ CallOK(r, w)
  BY <1>1 DEF Call, CallOK
<1>5. n \in Call /\ CallOK(r, n)
  <2>1. n \in Call /\ n.pc = "load" /\ n.hdr = t.hdr
    BY <1>1, <1>2 DEF NewCall, Call
  <2> HIDE DEF n
  <2> QED BY <1>1, <2>1 DEF CallOK
<1>6. s1 \in Seq(Call) /\ Len(s1) = Len(s) /\ \A i \in 1..Len(s1) : CallOK(r, s1[i])
  <2> HIDE DEF w, s
  <2> QED BY <1>3, <1>4
<1>7. /\ s2 \in Seq(Call) /\ Len(s2) = Len(s) + 1
      /\ \A i \in 1..Len(s2) : CallOK(r, s2[i])
  <2> HIDE DEF n, s1, s
  <2> QED BY <1>3, <1>5, <1>6
<1>8. calls' = [calls EXCEPT ![r] = s2]
  BY DEF SendToShield, IInv, TypeOK
<1>9. calls' \in [Requests -> Seq(Call)] /\ CallsOK'
  <2> HIDE DEF s2, s
  <2>1. calls' \in [Requests -> Seq(Call)]
    BY <1>7, <1>8 DEF IInv, TypeOK
  <2>2. Len(s2) <= MaxHops
    BY <1>1, <1>3, <1>7, BoundsAssumption
  <2> QED BY <1>7, <1>8, <2>1, <2>2 DEF IInv, TypeOK, CallsOK
<1>10. TypeOK'
  BY <1>9 DEF SendToShield, IInv, TypeOK, stores
<1>11. NoForgedIdentity'
  BY DEF SendToShield, IInv, NoForgedIdentity
<1> QED BY <1>9, <1>10, <1>11 DEF IInv

LEMMA ShieldAnswersOK ==
  ASSUME IInv, NEW r \in Requests, ShieldAnswers(r)
  PROVE  IInv'
PROOF
<1> DEFINE s    == calls[r]
           i    == Len(s) - 1
           x    == Top(r).resp
           y    == s[i]
           s1   == SubSeq(s, 1, i)
           s2   == [s1 EXCEPT ![i] = Finish(y, x)]
<1>1. s \in Seq(Call) /\ Len(s) \in Nat /\ Len(s) > 1 /\ Len(s) <= MaxHops
      /\ \A j \in 1..Len(s) : CallOK(r, s[j])
  BY DEF ShieldAnswers, Depth, IInv, TypeOK, CallsOK
<1>2. y \in Call
  <2> HIDE DEF s
  <2> QED BY <1>1
<1>3. x \in Response
  BY AtTop DEF ShieldAnswers, CallOK
<1>4. Finish(y, x) \in Call /\ CallOK(r, Finish(y, x))
  <2> HIDE DEF x, y
  <2> QED BY <1>2, <1>3, FinishOK
<1>5. s1 \in Seq(Call) /\ Len(s1) = i /\ \A j \in 1..i : s1[j] = s[j]
  <2> HIDE DEF s
  <2> QED BY <1>1
<1>6. /\ s2 \in Seq(Call) /\ Len(s2) = i
      /\ \A j \in 1..i : CallOK(r, s2[j])
  <2> HIDE DEF s, s1, x, y
  <2> QED BY <1>1, <1>4, <1>5
<1>7. calls' = [calls EXCEPT ![r] = s2]
  BY DEF ShieldAnswers, Depth, IInv, TypeOK
<1>8. calls' \in [Requests -> Seq(Call)] /\ CallsOK'
  <2> HIDE DEF s2
  <2>1. calls' \in [Requests -> Seq(Call)]
    BY <1>6, <1>7 DEF IInv, TypeOK
  <2>2. Len(s2) <= MaxHops
    BY <1>1, <1>6, BoundsAssumption
  <2> QED BY <1>6, <1>7, <2>1, <2>2 DEF IInv, TypeOK, CallsOK
<1>9. cache' \in [Pops -> SUBSET Response]
  <2>1. cache' = cache \/ cache' = [cache EXCEPT ![y.pop] = @ \cup {x}]
    BY DEF ShieldAnswers, Depth
  <2>2. cache \in [Pops -> SUBSET Response]
    BY DEF IInv, TypeOK
  <2>3. y.pop \in Pops
    BY <1>2 DEF Call
  <2> HIDE DEF x, y
  <2> QED BY <1>3, <2>1, <2>2, <2>3
<1>10. TypeOK'
  BY <1>8, <1>9 DEF ShieldAnswers, IInv, TypeOK, stores
<1>11. NoForgedIdentity'
  BY DEF ShieldAnswers, IInv, NoForgedIdentity
<1> QED BY <1>8, <1>10, <1>11 DEF IInv

LEMMA ClientIsAnsweredOK ==
  ASSUME IInv, NEW r \in Requests, ClientIsAnswered(r)
  PROVE  IInv'
PROOF
<1>1. Top(r).resp \in Response
  BY AtTop DEF ClientIsAnswered, CallOK
<1>2. calls' = [calls EXCEPT ![r] = <<>>]
  BY DEF ClientIsAnswered
<1>3. TypeOK'
  BY <1>1, <1>2 DEF ClientIsAnswered, IInv, TypeOK, stores
<1>4. CallsOK'
  BY <1>2, BoundsAssumption DEF IInv, TypeOK, CallsOK
<1>5. NoForgedIdentity'
  BY DEF ClientIsAnswered, IInv, NoForgedIdentity
<1> QED BY <1>3, <1>4, <1>5 DEF IInv

LEMMA StepOK == IInv /\ [Next]_vars => IInv'
PROOF
<1> SUFFICES ASSUME IInv, [Next]_vars PROVE IInv'
  OBVIOUS
<1>1. CASE Publish \/ \E p \in Pops : PropagateConfig(p) \/ PropagateSecret(p)
  BY <1>1, StoresOK
<1>2. ASSUME NEW r \in Requests, ClientSends(r) PROVE IInv'
  BY <1>2, ClientSendsOK
<1>3. ASSUME NEW r \in Requests, Progress(r) PROVE IInv'
  BY <1>3, AbortSteps, AdvanceSteps, FinishSteps, SendToShieldOK, SendToOriginOK,
     ShieldAnswersOK, ClientIsAnsweredOK DEF Progress
<1>4. CASE UNCHANGED vars
  BY <1>4 DEF vars, IInv, TypeOK, CallsOK, NoForgedIdentity
<1> QED BY <1>1, <1>2, <1>3, <1>4 DEF Next

\* Every reachable state is well typed: the calls of a request never outgrow
\* Fastly's forwarding limit, and every header is one of the values `handle`
\* or a client can put there.
THEOREM TypeCorrect == Spec => []TypeOK
PROOF
<1>1. IInv => TypeOK
  BY DEF IInv
<1> QED BY InitOK, StepOK, <1>1, PTL DEF Spec

\* For any POPs, clients, requests, forged headers and any sequence of edits of
\* the stores, in whatever order the POPs learn of them, the origin is only
\* ever sent a real secret and identity headers that a POP wrote (`handle`).
THEOREM OriginSeesNoForgery == Spec => []NoForgedIdentity
PROOF
<1>1. IInv => NoForgedIdentity
  BY DEF IInv
<1> QED BY InitOK, StepOK, <1>1, PTL DEF Spec

-----------------------------------------------------------------------------
(* What a request keeps on its way to the origin and back: the answer a    *)
(* client gets carries HSTS, and while the stores are at rest the origin   *)
(* is told the client's address, the first POP's request ID, and is sent   *)
(* what the firewall saw exactly when it is on.                            *)
(*                                                                         *)
(* The invariant describes the first call of a request, whose caller is    *)
(* the client and has no secret, and at rest the second one, whose caller  *)
(* has it: so a shield POP knows its callers, and there is no third call.  *)

\* The call that a client made is never taken for an edge POP's, so its answer gets HSTS.
ClientCall(b) ==
  /\ b.pc = "load" => b.hdr.auth \in {None, Forged}
  /\ b.pc # "answer" => ~b.fromEdge
  /\ b.pc = "answer" /\ b.resp.status = "ok" => b.resp.hsts

\* At rest: the first POP names the request and its client, and inspects it if the
\* firewall is on; what it does not send to the origin goes to the shield, with the secret.
RestFirst(r, b) ==
  /\ b.pc # "answer" => b.peer = client[r] /\ client[r] \in Clients
  /\ b.pc \in {"inspect", "send", "wait", "origin"} =>
       /\ b.hdr.rid = <<r, 1>>
       /\ b.waf = published.config.waf
       /\ b.target # Origin => b.target = published.config.shield /\ b.hdr.auth = published.secret
  /\ b.pc \in {"send", "wait", "origin"} =>
       /\ b.hdr.ip = client[r]
       /\ b.inspected = b.waf

\* At rest: the shield POP recognises an edge POP, and keeps the identity it was sent.
RestSecond(r, c) ==
  c.pc # "answer" =>
    /\ c.pop = published.config.shield
    /\ c.hdr.ip = client[r]
    /\ c.hdr.rid = <<r, 1>>
    /\ ~c.inspected
    /\ IF c.pc = "load" THEN c.hdr.auth = published.secret /\ published.secret \in Secrets
                        ELSE ~ResponseIsForClient(c) /\ c.target = Origin

RequestOK(r) ==
  calls[r] # <<>> =>
    /\ ClientCall(calls[r][1])
    /\ Len(calls[r]) > 1 => calls[r][1].pc = "wait"
    /\ changes = 0 =>
         /\ RestFirst(r, calls[r][1])
         /\ Len(calls[r]) <= 2
         /\ Len(calls[r]) = 2 => RestSecond(r, calls[r][2])

StoresAtRest ==
  changes = 0 => \A p \in Pops : config[p] = published.config /\ secret[p] = published.secret

RInv ==
  /\ \A r \in Requests : RequestOK(r)
  /\ StoresAtRest
  /\ IdentityIsPreserved
  /\ ClientsGetHsts

-----------------------------------------------------------------------------
(* What `Context::load` and the header steps leave alone.                  *)

\* A call whose headers are replaced.
LEMMA HeadersReplaced ==
  ASSUME NEW c \in Call, NEW h \in Headers
  PROVE  LET d == [c EXCEPT !.hdr = h]
         IN  /\ d \in Call /\ d.hdr = h
             /\ d.pop = c.pop /\ d.peer = c.peer /\ d.inspected = c.inspected
             /\ d.shield = c.shield /\ d.fromEdge = c.fromEdge /\ d.target = c.target
BY DEF Call

LEMMA ContextFields ==
  ASSUME TypeOK, NEW r \in Requests, NEW c \in Call, CallOK(r, c), c.pc = "load",
         secret[c.pop] # None
  PROVE  LET s   == ShieldContext(c.pop, c)
             pop == config[c.pop].shield
         IN  /\ s \in Call /\ s.pop = c.pop /\ s.peer = c.peer /\ s.inspected = c.inspected
             /\ s.hdr.ip = c.hdr.ip /\ s.hdr.rid = c.hdr.rid
             /\ s.fromEdge = IF pop \in Pops THEN c.hdr.auth = secret[c.pop] ELSE c.fromEdge
             /\ pop \in Pops /\ pop = c.pop => s.shield = "OnShield" /\ s.target = Origin
             /\ s.target # Origin =>
                  s.target = pop /\ s.hdr.auth = secret[c.pop] /\ ~TargetIsOrigin(s)
PROOF
<1> DEFINE s   == ShieldContext(c.pop, c)
           pop == config[c.pop].shield
<1>1. s \in Call
  BY ShieldContextOK
<1>2. c.hdr \in Headers /\ c.pop \in Pops
  BY DEF Call
<1>3. CASE pop \notin Pops
  <2>1. s = [c EXCEPT !.shield = "Disabled", !.target = Origin,
                      !.hdr.auth = IF pop = Unset THEN @ ELSE None]
    BY <1>3 DEF ShieldContext
  <2>2. /\ s.pop = c.pop /\ s.peer = c.peer /\ s.inspected = c.inspected
        /\ s.fromEdge = c.fromEdge /\ s.target = Origin
    BY <2>1 DEF Call
  <2>3. s.hdr.ip = c.hdr.ip /\ s.hdr.rid = c.hdr.rid
    BY <1>2, <2>1 DEF Call, Headers
  <2> QED BY <1>1, <1>2, <1>3, <2>2, <2>3
<1>4. CASE pop \in Pops
  <2> DEFINE a == IF pop = c.pop THEN None ELSE secret[c.pop]
             sh == IF pop = c.pop THEN "OnShield" ELSE "OnEdge"
             t == IF pop = c.pop THEN Origin ELSE pop
             e == c.hdr.auth = secret[c.pop]
             h == [c.hdr EXCEPT !.auth = a]
  <2>1. s = [c EXCEPT !.shield = sh, !.target = t, !.fromEdge = e, !.hdr = h]
    BY <1>4 DEF ShieldContext, Call
  <2>2. h.auth = a /\ h.ip = c.hdr.ip /\ h.rid = c.hdr.rid
    BY <1>2 DEF Headers
  <2>3. /\ s.pop = c.pop /\ s.peer = c.peer /\ s.inspected = c.inspected
        /\ s.fromEdge = e /\ s.target = t /\ s.shield = sh /\ s.hdr = h
    <3> HIDE DEF h, sh, t, e
    <3> QED BY <2>1 DEF Call
  <2>4. s.target # Origin => s.hdr.auth = secret[c.pop] /\ s.shield = "OnEdge" /\ s.target = pop
    <3> HIDE DEF h, s
    <3> QED BY <2>2, <2>3
  <2>5. s.target # Origin => ~TargetIsOrigin(s)
    BY <2>4 DEF TargetIsOrigin
  <2>6. s.fromEdge = IF pop \in Pops THEN c.hdr.auth = secret[c.pop] ELSE c.fromEdge
    BY <1>4, <2>3
  <2>7. s.hdr.ip = c.hdr.ip /\ s.hdr.rid = c.hdr.rid
    BY <2>2, <2>3
  <2>8. pop = c.pop => s.shield = "OnShield" /\ s.target = Origin
    BY <2>3
  <2> HIDE DEF h, s, pop
  <2> QED BY <1>1, <2>3, <2>4, <2>5, <2>6, <2>7, <2>8 DEF s, pop
<1> QED BY <1>3, <1>4

LEMMA RequestIdFields ==
  ASSUME NEW r \in Requests, NEW c \in Call, Depth(r) \in 1..MaxHops
  PROVE  LET d == WithRequestId(r, c)
         IN  /\ d \in Call /\ d.pop = c.pop /\ d.peer = c.peer /\ d.inspected = c.inspected
             /\ d.shield = c.shield /\ d.fromEdge = c.fromEdge /\ d.target = c.target
             /\ d.hdr.ip = c.hdr.ip /\ d.hdr.auth = c.hdr.auth
             /\ d.hdr.rid = IF ResponseIsForClient(c) THEN <<r, Depth(r)>> ELSE c.hdr.rid
PROOF
<1> DEFINE h == [c.hdr EXCEPT !.rid = <<r, Depth(r)>>]
<1>1. h \in Headers /\ h.ip = c.hdr.ip /\ h.auth = c.hdr.auth /\ h.rid = <<r, Depth(r)>>
  BY DEF Call, Headers
<1>2. WithRequestId(r, c) = IF ResponseIsForClient(c) THEN [c EXCEPT !.hdr = h] ELSE c
  BY DEF WithRequestId
<1> HIDE DEF h
<1> QED BY <1>1, <1>2, HeadersReplaced

LEMMA OriginAuthFields ==
  ASSUME NEW c \in Call, NEW p, secret[p] \in Secrets
  PROVE  LET d == WithOriginAuth(p, c)
         IN  /\ d \in Call /\ d.pop = c.pop /\ d.peer = c.peer /\ d.inspected = c.inspected
             /\ d.shield = c.shield /\ d.fromEdge = c.fromEdge /\ d.target = c.target
             /\ d.hdr.ip = c.hdr.ip /\ d.hdr.rid = c.hdr.rid
             /\ ~TargetIsOrigin(c) => d.hdr.auth = c.hdr.auth
PROOF
<1> DEFINE h == [c.hdr EXCEPT !.auth = secret[p]]
<1>1. h \in Headers /\ h.ip = c.hdr.ip /\ h.rid = c.hdr.rid
  BY DEF Call, Headers
<1>2. WithOriginAuth(p, c) = IF TargetIsOrigin(c) THEN [c EXCEPT !.hdr = h] ELSE c
  BY DEF WithOriginAuth
<1> HIDE DEF h
<1> QED BY <1>1, <1>2, HeadersReplaced

\* The whole of Load.
LEMMA LoadedFields ==
  ASSUME TypeOK, NEW r \in Requests, NEW c \in Call, CallOK(r, c), c.pc = "load",
         secret[c.pop] # None, Depth(r) \in 1..MaxHops
  PROVE  LET s   == ShieldContext(c.pop, c)
             o   == WithOriginAuth(s.pop, WithRequestId(r, s))
             d   == [o EXCEPT !.pc = "inspect", !.waf = config[s.pop].waf]
             pop == config[c.pop].shield
         IN  /\ d \in Call /\ d.pc = "inspect" /\ d.waf = config[c.pop].waf
             /\ d.pop = c.pop /\ d.peer = c.peer /\ d.inspected = c.inspected
             /\ d.hdr.ip = c.hdr.ip
             /\ d.fromEdge = IF pop \in Pops THEN c.hdr.auth = secret[c.pop] ELSE c.fromEdge
             /\ pop \in Pops /\ pop = c.pop => d.shield = "OnShield" /\ d.target = Origin
             /\ d.target # Origin => d.target = pop /\ d.hdr.auth = secret[c.pop]
             /\ d.hdr.rid = IF ResponseIsForClient(d) THEN <<r, Depth(r)>> ELSE c.hdr.rid
PROOF
<1> DEFINE s   == ShieldContext(c.pop, c)
           q   == WithRequestId(r, s)
           o   == WithOriginAuth(s.pop, q)
           d   == [o EXCEPT !.pc = "inspect", !.waf = config[s.pop].waf]
           pop == config[c.pop].shield
<1>1. /\ s \in Call /\ s.pop = c.pop /\ s.peer = c.peer /\ s.inspected = c.inspected
      /\ s.hdr.ip = c.hdr.ip /\ s.hdr.rid = c.hdr.rid
      /\ s.fromEdge = IF pop \in Pops THEN c.hdr.auth = secret[c.pop] ELSE c.fromEdge
      /\ pop \in Pops /\ pop = c.pop => s.shield = "OnShield" /\ s.target = Origin
      /\ s.target # Origin =>
           s.target = pop /\ s.hdr.auth = secret[c.pop] /\ ~TargetIsOrigin(s)
  BY ContextFields
<1>2. secret[s.pop] \in Secrets /\ config[s.pop].waf \in BOOLEAN
  BY <1>1 DEF TypeOK, Config, Call
<1> HIDE DEF s, pop
<1>3. /\ q \in Call /\ q.pop = s.pop /\ q.peer = s.peer /\ q.inspected = s.inspected
      /\ q.shield = s.shield /\ q.fromEdge = s.fromEdge /\ q.target = s.target
      /\ q.hdr.ip = s.hdr.ip /\ q.hdr.auth = s.hdr.auth
      /\ q.hdr.rid = IF ResponseIsForClient(s) THEN <<r, Depth(r)>> ELSE s.hdr.rid
  BY <1>1, RequestIdFields
<1> HIDE DEF q
<1>4. /\ o \in Call /\ o.pop = q.pop /\ o.peer = q.peer /\ o.inspected = q.inspected
      /\ o.shield = q.shield /\ o.fromEdge = q.fromEdge /\ o.target = q.target
      /\ o.hdr.ip = q.hdr.ip /\ o.hdr.rid = q.hdr.rid
      /\ ~TargetIsOrigin(q) => o.hdr.auth = q.hdr.auth
  BY <1>2, <1>3, OriginAuthFields
<1> HIDE DEF o
<1>5. /\ d \in Call /\ d.pc = "inspect" /\ d.waf = config[s.pop].waf
      /\ d.pop = o.pop /\ d.peer = o.peer /\ d.inspected = o.inspected /\ d.hdr = o.hdr
      /\ d.shield = o.shield /\ d.fromEdge = o.fromEdge /\ d.target = o.target
  BY <1>2, <1>4 DEF Call
<1> HIDE DEF d
<1>6. (~TargetIsOrigin(s) => ~TargetIsOrigin(q)) /\ (ResponseIsForClient(s) <=> ResponseIsForClient(d))
  BY <1>3, <1>4, <1>5 DEF TargetIsOrigin, ResponseIsForClient
<1> QED BY <1>1, <1>3, <1>4, <1>5, <1>6 DEF d, o, q, s, pop
-----------------------------------------------------------------------------
(* Replacing the newest call.                                              *)

LEMMA BecomeFields ==
  ASSUME TypeOK, NEW r \in Requests, calls[r] # <<>>, NEW c \in Call, Become(r, c)
  PROVE  /\ Len(calls[r]) \in Nat \ {0} /\ Len(calls'[r]) = Len(calls[r])
         /\ calls'[r][Len(calls[r])] = c
         /\ \A i \in 1..(Len(calls[r]) - 1) : calls'[r][i] = calls[r][i]
         /\ \A q \in Requests \ {r} : calls'[q] = calls[q]
PROOF
<1> DEFINE s == calls[r]
           n == [s EXCEPT ![Len(s)] = c]
<1>1. s \in Seq(Call) /\ Len(s) \in Nat \ {0}
  BY DEF TypeOK
<1>2. calls'[r] = n /\ \A q \in Requests \ {r} : calls'[q] = calls[q]
  BY DEF Become, TypeOK
<1>3. Len(n) = Len(s) /\ n[Len(s)] = c /\ \A i \in 1..(Len(s) - 1) : n[i] = s[i]
  <2> HIDE DEF s
  <2> QED BY <1>1
<1> HIDE DEF n
<1> QED BY <1>1, <1>2, <1>3

\* It stays right if what it becomes is right as a first or as a second call.
LEMMA BecomeRight ==
  ASSUME TypeOK, RInv, NEW r \in Requests, calls[r] # <<>>, NEW c \in Call, Become(r, c),
         UNCHANGED <<stores, client>>,
         Depth(r) = 1 => ClientCall(c) /\ (changes = 0 => RestFirst(r, c)),
         Depth(r) = 2 /\ changes = 0 => RestSecond(r, c)
  PROVE  \A q \in Requests : RequestOK(q)'
PROOF
<1>1. /\ Len(calls[r]) \in Nat \ {0} /\ Len(calls'[r]) = Len(calls[r])
      /\ calls'[r][Len(calls[r])] = c
      /\ \A i \in 1..(Len(calls[r]) - 1) : calls'[r][i] = calls[r][i]
      /\ \A q \in Requests \ {r} : calls'[q] = calls[q]
  BY BecomeFields
<1>2. ASSUME NEW q \in Requests \ {r} PROVE RequestOK(q)'
  <2>1. RequestOK(q) /\ calls'[q] = calls[q]
    BY <1>1 DEF RInv
  <2> QED BY <2>1 DEF RequestOK, RestFirst, RestSecond, stores
<1>3. RequestOK(r)'
  <2>1. RequestOK(r)
    BY DEF RInv
  <2>2. CASE Len(calls[r]) = 1
    <3>1. calls'[r][1] = c /\ Len(calls'[r]) = 1
      BY <1>1, <2>2
    <3> QED BY <2>2, <3>1 DEF RequestOK, RestFirst, Depth, stores
  <2>3. CASE Len(calls[r]) # 1
    <3>1. 1 \in 1..(Len(calls[r]) - 1)
      <4>1. \A n \in Nat \ {0} : n # 1 => 1 \in 1..(n - 1)
        OBVIOUS
      <4> QED BY <1>1, <2>3, <4>1
    <3>2. calls'[r][1] = calls[r][1]
      BY <1>1, <3>1
    <3>3. Len(calls[r]) = 2 => calls'[r][2] = c
      BY <1>1
    <3> QED BY <1>1, <2>1, <3>2, <3>3 DEF RequestOK, RestFirst, RestSecond, Depth, stores
  <2> QED BY <2>2, <2>3
<1> QED BY <1>2, <1>3

\* A call that ended without an answer of the origin, or with HSTS on it.
LEMMA EndedRight ==
  ASSUME TypeOK, RInv, NEW r \in Requests, calls[r] # <<>>, NEW c \in Call, Become(r, c),
         UNCHANGED <<stores, client>>,
         c.pc = "answer", Depth(r) = 1 /\ c.resp.status = "ok" => c.resp.hsts
  PROVE  \A q \in Requests : RequestOK(q)'
PROOF
<1>1. Depth(r) = 1 => ClientCall(c)
  BY DEF ClientCall
<1>2. RestFirst(r, c) /\ RestSecond(r, c)
  BY DEF RestFirst, RestSecond
<1> QED BY <1>1, <1>2, BecomeRight

\* The rest of the invariant speaks of the stores, the origin and the clients.
LEMMA WorldSame ==
  ASSUME RInv, UNCHANGED <<stores, arrivals, client, answer>>
  PROVE  StoresAtRest' /\ IdentityIsPreserved' /\ ClientsGetHsts'
BY DEF RInv, StoresAtRest, IdentityIsPreserved, ClientsGetHsts, stores

\* What the invariant says of the newest call.
LEMMA TopRight ==
  ASSUME TypeOK, RInv, NEW r \in Requests, calls[r] # <<>>
  PROVE  /\ Depth(r) \in Nat \ {0}
         /\ Depth(r) = 1 => ClientCall(Top(r))
         /\ changes = 0 =>
              /\ Depth(r) \in {1, 2}
              /\ RestFirst(r, calls[r][1])
              /\ Depth(r) = 1 => RestFirst(r, Top(r))
              /\ Depth(r) = 2 => calls[r][1].pc = "wait" /\ RestSecond(r, Top(r))
PROOF
<1>1. Len(calls[r]) \in Nat \ {0}
  BY DEF TypeOK
<1>2. RequestOK(r)
  BY DEF RInv
<1>3. Len(calls[r]) <= 2 => Len(calls[r]) \in {1, 2}
  <2>1. \A n \in Nat \ {0} : n <= 2 => n \in {1, 2}
    OBVIOUS
  <2> QED BY <1>1, <2>1
<1> QED BY <1>1, <1>2, <1>3 DEF RequestOK, Depth, Top

-----------------------------------------------------------------------------
(* The steps.                                                              *)

LEMMA AbortRight ==
  ASSUME IInv, RInv, NEW r \in Requests,
         SecretMissing(r) \/ ShieldBackendFails(r) \/ MethodNotAllowed(r)
           \/ Block(r) \/ SendFails(r)
  PROVE  RInv'
PROOF
<1>1. UNCHANGED <<stores, arrivals, client, answer>>
  BY DEF SecretMissing, ShieldBackendFails, MethodNotAllowed, Block, SendFails
<1>2. PICK c \in Call, status \in {"blocked", "notAllowed", "error", "trap"} :
        Become(r, Abort(c, status))
  BY AbortShape
<1> DEFINE d == Abort(c, status)
<1>3. d \in Call /\ d.pc = "answer" /\ d.resp.status # "ok"
  BY DEF Abort, Plain, Call, Response
<1> HIDE DEF d
<1>4. \A q \in Requests : RequestOK(q)'
  BY <1>1, <1>2, <1>3, AbortShape, EndedRight DEF IInv, d
<1> QED BY <1>1, <1>4, WorldSame DEF RInv

\* Nobody takes the client for an edge POP: Finish adds HSTS to its answer.
LEMMA FinishRight ==
  ASSUME IInv, RInv, NEW r \in Requests, CacheHit(r) \/ OriginAnswers(r)
  PROVE  RInv'
PROOF
<1> DEFINE t == Top(r)
<1>1. /\ calls[r] # <<>> /\ t \in Call /\ t.pc # "answer"
  <2>1. PICK pc \in {"send", "origin"} : At(r, pc)
    BY DEF CacheHit, OriginAnswers
  <2> QED BY <2>1, AtTop
<1>2. PICK resp \in Response : Become(r, Finish(t, resp))
  <2>1. CASE CacheHit(r)
    <3>1. cache[t.pop] \subseteq Response
      BY <1>1 DEF IInv, TypeOK, Call
    <3> QED BY <2>1, <3>1 DEF CacheHit
  <2>2. CASE OriginAnswers(r)
    <3>1. PICK caching \in {"absent", "store", "noStore"} :
            Become(r, Finish(t, [status |-> "ok", caching |-> caching, hsts |-> FALSE]))
      BY <2>2 DEF OriginAnswers
    <3>2. [status |-> "ok", caching |-> caching, hsts |-> FALSE] \in Response
      BY DEF Response
    <3> QED BY <3>1, <3>2
  <2> QED BY <2>1, <2>2
<1>3. UNCHANGED <<stores, arrivals, client, answer>>
  BY DEF CacheHit, OriginAnswers
<1>4. Finish(t, resp) \in Call /\ Finish(t, resp).pc = "answer"
  BY <1>1 DEF Finish, Call, Response, ResponseIsForClient
<1>5. Depth(r) = 1 => Finish(t, resp).resp.hsts
  <2> SUFFICES ASSUME Depth(r) = 1 PROVE Finish(t, resp).resp.hsts
    OBVIOUS
  <2>1. ~t.fromEdge
    BY <1>1, TopRight DEF ClientCall, IInv
  <2>2. ResponseIsForClient(t)
    BY <2>1 DEF ResponseIsForClient
  <2> QED BY <1>1, <2>2 DEF Finish, Call, Response
<1>6. \A q \in Requests : RequestOK(q)'
  <2> DEFINE d == Finish(t, resp)
  <2> HIDE DEF d, t
  <2> QED BY <1>1, <1>2, <1>3, <1>4, <1>5, EndedRight DEF IInv, d
<1> QED BY <1>3, <1>6, WorldSame DEF RInv

\* The client has no secret; at rest the shield's is the one the edge POP sent.
LEMMA LoadRight ==
  ASSUME IInv, RInv, NEW r \in Requests, Load(r)
  PROVE  RInv'
PROOF
<1> DEFINE t == Top(r)
           s == ShieldContext(t.pop, t)
           o == WithOriginAuth(s.pop, WithRequestId(r, s))
           d == [o EXCEPT !.pc = "inspect", !.waf = config[s.pop].waf]
           pop == config[t.pop].shield
<1>1. /\ calls[r] # <<>> /\ t \in Call /\ t.pc = "load" /\ CallOK(r, t) /\ Depth(r) \in 1..MaxHops
      /\ t.pop \in Pops
  BY AtTop DEF Load
<1>2. s.pop = t.pop
  BY <1>1 DEF ShieldContext, Call
<1>3. secret[t.pop] # None /\ Become(r, d) /\ UNCHANGED <<stores, cache, arrivals, client, answer>>
  BY <1>2 DEF Load
<1>4. /\ d \in Call /\ d.pc = "inspect" /\ d.waf = config[t.pop].waf
      /\ d.pop = t.pop /\ d.peer = t.peer /\ d.inspected = t.inspected
      /\ d.hdr.ip = t.hdr.ip
      /\ d.fromEdge = IF pop \in Pops THEN t.hdr.auth = secret[t.pop] ELSE t.fromEdge
      /\ pop \in Pops /\ pop = t.pop => d.shield = "OnShield" /\ d.target = Origin
      /\ d.target # Origin => d.target = pop /\ d.hdr.auth = secret[t.pop]
      /\ d.hdr.rid = IF ResponseIsForClient(d) THEN <<r, Depth(r)>> ELSE t.hdr.rid
  BY <1>1, <1>3, LoadedFields DEF IInv
<1>5. secret[t.pop] \in Secrets /\ TypeOK
  BY <1>1, <1>3 DEF IInv, TypeOK
<1> HIDE DEF d, o, s, t
<1>6. ASSUME Depth(r) = 1 PROVE ClientCall(d) /\ (changes = 0 => RestFirst(r, d))
  <2>1. ClientCall(t)
    BY <1>1, <1>5, <1>6, TopRight DEF t
  <2>2. ~d.fromEdge
    BY <1>1, <1>4, <1>5, <2>1, DistinctAssumption DEF ClientCall
  <2>3. ResponseIsForClient(d)
    BY <2>2 DEF ResponseIsForClient
  <2>4. ASSUME changes = 0 PROVE RestFirst(r, d)
    <3>1. RestFirst(r, t) /\ config[t.pop] = published.config /\ secret[t.pop] = published.secret
      BY <1>1, <1>5, <1>6, <2>4, TopRight DEF t, RInv, StoresAtRest
    <3> QED BY <1>1, <1>4, <1>6, <2>3, <3>1 DEF RestFirst
  <2> QED BY <1>4, <2>2, <2>4 DEF ClientCall
<1>7. ASSUME Depth(r) = 2, changes = 0 PROVE RestSecond(r, d)
  <2>1. RestSecond(r, t) /\ config[t.pop] = published.config /\ secret[t.pop] = published.secret
    BY <1>1, <1>5, <1>7, TopRight DEF t, RInv, StoresAtRest
  <2>2. pop = t.pop /\ t.hdr.auth = secret[t.pop]
    BY <1>1, <2>1 DEF RestSecond
  <2>3. d.fromEdge /\ d.shield = "OnShield" /\ d.target = Origin
    BY <1>1, <1>4, <2>2
  <2>4. ~ResponseIsForClient(d)
    BY <2>3 DEF ResponseIsForClient
  <2> QED BY <1>1, <1>4, <2>1, <2>3, <2>4 DEF RestSecond
<1>8. \A q \in Requests : RequestOK(q)'
  BY <1>1, <1>3, <1>4, <1>5, <1>6, <1>7, BecomeRight
<1> QED BY <1>3, <1>8, WorldSame DEF RInv
LEMMA AllowRight ==
  ASSUME IInv, RInv, NEW r \in Requests, Allow(r)
  PROVE  RInv'
PROOF
<1> DEFINE t == Top(r)
           e == WithIdentity(t)
           b == t.waf /\ ResponseIsForClient(t)
           d == [e EXCEPT !.pc = "send", !.inspected = b]
           h == [t.hdr EXCEPT !.host = TrueHost, !.ip = t.peer]
<1>1. /\ calls[r] # <<>> /\ t \in Call /\ t.pc = "inspect"
  BY AtTop DEF Allow
<1>2. Become(r, d) /\ UNCHANGED <<stores, cache, arrivals, client, answer>>
  BY DEF Allow
<1>3. /\ e \in Call /\ e.hdr.rid = t.hdr.rid /\ e.hdr.auth = t.hdr.auth
      /\ e.hdr.ip = IF ResponseIsForClient(t) THEN t.peer ELSE t.hdr.ip
      /\ e.pop = t.pop /\ e.peer = t.peer /\ e.waf = t.waf
      /\ e.shield = t.shield /\ e.fromEdge = t.fromEdge /\ e.target = t.target
  <2>1. h \in Headers /\ h.auth = t.hdr.auth /\ h.rid = t.hdr.rid /\ h.ip = t.peer
    BY <1>1 DEF Call, Headers
  <2>2. e = IF ResponseIsForClient(t) THEN [t EXCEPT !.hdr = h] ELSE t
    BY <1>1 DEF WithIdentity, Call, Headers
  <2>3. [t EXCEPT !.hdr = h].waf = t.waf
    BY <1>1 DEF Call
  <2> HIDE DEF h, e, t
  <2> QED BY <1>1, <2>1, <2>2, <2>3, HeadersReplaced
<1>4. t.waf \in BOOLEAN
  BY <1>1 DEF Call
<1>5. /\ d \in Call /\ d.pc = "send" /\ d.inspected = b /\ d.hdr = e.hdr
      /\ d.pop = e.pop /\ d.peer = e.peer /\ d.waf = e.waf
      /\ d.shield = e.shield /\ d.fromEdge = e.fromEdge /\ d.target = e.target
  <2>1. b \in BOOLEAN
    OBVIOUS
  <2> HIDE DEF e, b, t
  <2> QED BY <1>3, <2>1 DEF Call
<1> HIDE DEF d, e, h, t
<1>6. ASSUME Depth(r) = 1 PROVE ClientCall(d) /\ (changes = 0 => RestFirst(r, d))
  <2>1. ClientCall(t) /\ (changes = 0 => RestFirst(r, t))
    BY <1>1, <1>6, TopRight DEF t, IInv
  <2>2. ResponseIsForClient(t) /\ ~d.fromEdge
    BY <1>1, <1>3, <1>5, <2>1 DEF ClientCall, ResponseIsForClient
  <2> QED BY <1>1, <1>3, <1>4, <1>5, <2>1, <2>2 DEF ClientCall, RestFirst
<1>7. ASSUME Depth(r) = 2, changes = 0 PROVE RestSecond(r, d)
  <2>1. RestSecond(r, t)
    BY <1>1, <1>7, TopRight DEF t, IInv
  <2>2. ~ResponseIsForClient(t) /\ (ResponseIsForClient(d) <=> ResponseIsForClient(t))
    BY <1>1, <1>3, <1>5, <2>1 DEF ResponseIsForClient, RestSecond
  <2> QED BY <1>1, <1>3, <1>5, <2>1, <2>2 DEF RestSecond
<1>8. \A q \in Requests : RequestOK(q)'
  BY <1>1, <1>2, <1>5, <1>6, <1>7, BecomeRight DEF IInv
<1> QED BY <1>2, <1>8, WorldSame DEF RInv

\* Only the first of the calls so far has inspected the request, if it has.
LEMMA OneInspection ==
  ASSUME NEW s, NEW n \in {1, 2}, NEW w \in BOOLEAN,
         s[1].inspected = w, n = 2 => ~s[2].inspected
  PROVE  Cardinality({i \in 1..n : s[i].inspected}) = IF w THEN 1 ELSE 0
PROOF
<1> DEFINE S == {i \in 1..n : s[i].inspected}
<1>1. \A i : i \in 1..n <=> i = 1 \/ (i = 2 /\ n = 2)
  OBVIOUS
<1>2. CASE w
  <2>1. S = {1}
    <3>1. s[1].inspected /\ 1 # 2
      BY <1>2
    <3>2. \A i : i \in 1..n /\ s[i].inspected <=> i = 1
      BY <1>1, <3>1, Zenon
    <3> QED BY <3>2
  <2> HIDE DEF S
  <2> QED BY <1>2, <2>1, FS_Singleton DEF S
<1>3. CASE ~w
  <2>1. ~s[1].inspected
    BY <1>3
  <2>2. S = {}
    BY <1>1, <2>1, Zenon
  <2> HIDE DEF S
  <2> QED BY <1>3, <2>2, FS_EmptySet DEF S
<1> QED BY <1>2, <1>3

\* At rest a request is sent to the origin by its first call, or by its second one
\* after the first: one of them has inspected it, if any does.
LEMMA SendToOriginRight ==
  ASSUME IInv, RInv, NEW r \in Requests, SendToOrigin(r)
  PROVE  RInv'
PROOF
<1> DEFINE t == Top(r)
           d == [t EXCEPT !.pc = "origin"]
           a == [req |-> r, hdr |-> t.hdr, hops |-> Depth(r), inspections |-> Inspections(r)]
<1>1. calls[r] # <<>> /\ t \in Call /\ t.pc = "send" /\ Depth(r) \in 1..MaxHops
  BY AtTop DEF SendToOrigin
<1>2. /\ Become(r, d) /\ arrivals' = arrivals \union {a}
      /\ UNCHANGED <<stores, cache, client, answer>>
  BY DEF SendToOrigin
<1>3. /\ d \in Call /\ d.pc = "origin" /\ d.hdr = t.hdr /\ d.pop = t.pop /\ d.peer = t.peer
      /\ d.waf = t.waf /\ d.inspected = t.inspected /\ d.shield = t.shield
      /\ d.fromEdge = t.fromEdge /\ d.target = t.target
  BY <1>1 DEF Call
<1>4. Depth(r) = 1 => ClientCall(d) /\ (changes = 0 => RestFirst(r, d))
  <2> HIDE DEF d
  <2> QED BY <1>1, <1>3, TopRight DEF IInv, ClientCall, RestFirst
<1>5. Depth(r) = 2 /\ changes = 0 => RestSecond(r, d)
  <2> HIDE DEF d, t
  <2>1. ResponseIsForClient(d) <=> ResponseIsForClient(t)
    BY <1>3 DEF ResponseIsForClient
  <2> QED BY <1>1, <1>3, <2>1, TopRight DEF IInv, RestSecond, t
<1>6. \A q \in Requests : RequestOK(q)'
  <2> HIDE DEF d, t
  <2> QED BY <1>1, <1>2, <1>3, <1>4, <1>5, BecomeRight DEF IInv
<1>7. changes = 0 =>
        /\ t.hdr.ip = client[r] /\ t.hdr.rid = <<r, 1>> /\ Depth(r) <= 2
        /\ Inspections(r) = IF published.config.waf THEN 1 ELSE 0
  <2> SUFFICES ASSUME changes = 0
               PROVE  /\ t.hdr.ip = client[r] /\ t.hdr.rid = <<r, 1>> /\ Depth(r) <= 2
                      /\ Inspections(r) = IF published.config.waf THEN 1 ELSE 0
    OBVIOUS
  <2> DEFINE b == calls[r][1]
  <2>1. /\ Depth(r) \in {1, 2} /\ RestFirst(r, b)
        /\ Depth(r) = 1 => RestFirst(r, t)
        /\ Depth(r) = 2 => b.pc = "wait" /\ RestSecond(r, t)
    BY <1>1, TopRight DEF IInv
  <2>2. t.hdr.ip = client[r] /\ t.hdr.rid = <<r, 1>> /\ Depth(r) <= 2
    BY <1>1, <2>1 DEF RestFirst, RestSecond
  <2>3. b.inspected = published.config.waf
    <3>1. CASE Depth(r) = 1
      <4>1. b = t
        BY <3>1 DEF Top
      <4> HIDE DEF b, t
      <4> QED BY <1>1, <2>1, <4>1 DEF RestFirst
    <3>2. CASE Depth(r) = 2
      <4> HIDE DEF b, t
      <4> QED BY <2>1, <3>2 DEF RestFirst
    <3> QED BY <2>1, <3>1, <3>2
  <2>4. Depth(r) = 2 => ~calls[r][2].inspected
    BY <1>1, <2>1 DEF Top, RestSecond
  <2>5. published.config.waf \in BOOLEAN
    BY DEF IInv, TypeOK, Config
  <2>6. Inspections(r) = IF published.config.waf THEN 1 ELSE 0
    <3>1. Cardinality({i \in 1..Depth(r) : calls[r][i].inspected})
            = IF published.config.waf THEN 1 ELSE 0
      BY <2>1, <2>3, <2>4, <2>5, OneInspection
    <3> QED BY <3>1 DEF Inspections
  <2> QED BY <2>2, <2>6
<1>8. IdentityIsPreserved'
  <2> HIDE DEF t
  <2> QED BY <1>2, <1>7 DEF RInv, IdentityIsPreserved, stores
<1>9. StoresAtRest' /\ ClientsGetHsts'
  BY <1>2 DEF RInv, StoresAtRest, ClientsGetHsts, stores
<1> QED BY <1>6, <1>8, <1>9 DEF RInv
\* At rest only the first call is forwarded: the second has the origin as its target.
LEMMA SendToShieldRight ==
  ASSUME IInv, RInv, NEW r \in Requests, SendToShield(r)
  PROVE  RInv'
PROOF
<1> DEFINE t  == Top(r)
           w  == [t EXCEPT !.pc = "wait"]
           n  == NewCall(t.target, t.pop, t.method, t.hdr)
           s  == calls[r]
           s1 == [s EXCEPT ![Len(s)] = w]
           s2 == Append(s1, n)
<1>1. /\ s # <<>> /\ t \in Call /\ t.pc = "send" /\ t.target # Origin /\ CallOK(r, t)
      /\ s \in Seq(Call) /\ Len(s) \in Nat \ {0} /\ Depth(r) = Len(s)
  BY AtTop DEF SendToShield, Depth, IInv, TypeOK
<1>2. UNCHANGED <<stores, cache, arrivals, client, answer>>
  BY DEF SendToShield
<1>3. calls' = [calls EXCEPT ![r] = s2]
  BY DEF SendToShield, IInv, TypeOK
<1>4. /\ w \in Call /\ w.pc = "wait" /\ w.hdr = t.hdr /\ w.peer = t.peer /\ w.waf = t.waf
      /\ w.inspected = t.inspected /\ w.fromEdge = t.fromEdge /\ w.target = t.target
  BY <1>1 DEF Call
<1>5. /\ n.pc = "load" /\ n.hdr = t.hdr /\ n.pop = t.target /\ ~n.inspected /\ ~n.fromEdge
      /\ n \in Call
  <2>1. t.target \in Pops
    BY <1>1 DEF Call
  <2> QED BY <1>1, <2>1 DEF NewCall, Call
<1>6. /\ Len(s2) = Len(s) + 1 /\ s2[Len(s)] = w /\ s2[Len(s) + 1] = n
      /\ Len(s) > 1 => s2[1] = s[1]
  <2>1. s1 \in Seq(Call) /\ Len(s1) = Len(s) /\ s1[Len(s)] = w /\ (Len(s) > 1 => s1[1] = s[1])
    <3> HIDE DEF s, w
    <3> QED BY <1>1, <1>4
  <2> HIDE DEF s, s1, n, w
  <2> QED BY <1>1, <1>5, <2>1
<1>7. calls'[r] = s2 /\ \A q \in Requests \ {r} : calls'[q] = calls[q]
  BY <1>3 DEF IInv, TypeOK
<1> HIDE DEF n, w, s1, s2, t
<1>8. Depth(r) = 1 => ClientCall(w) /\ (changes = 0 => RestFirst(r, w) /\ RestSecond(r, n))
  <2> SUFFICES ASSUME Depth(r) = 1
               PROVE  ClientCall(w) /\ (changes = 0 => RestFirst(r, w) /\ RestSecond(r, n))
    OBVIOUS
  <2>1. ClientCall(t) /\ (changes = 0 => RestFirst(r, t))
    BY <1>1, TopRight DEF IInv, t
  <2>2. t.hdr.auth \in Secrets
    BY <1>1 DEF CallOK
  <2> QED BY <1>1, <1>4, <1>5, <2>1, <2>2 DEF ClientCall, RestFirst, RestSecond
<1>9. changes = 0 => Depth(r) = 1
  <2>1. changes = 0 => Depth(r) \in {1, 2} /\ (Depth(r) = 2 => RestSecond(r, t))
    BY <1>1, TopRight DEF IInv, t
  <2> QED BY <1>1, <2>1 DEF RestSecond
<1>10. RequestOK(r)'
  <2>1. CASE Len(s) = 1
    <3>1. Len(calls'[r]) = 2 /\ calls'[r][1] = w /\ calls'[r][2] = n
      BY <1>6, <1>7, <2>1
    <3> QED BY <1>1, <1>2, <1>4, <1>8, <2>1, <3>1 DEF RequestOK, RestFirst, RestSecond, stores
  <2>2. CASE Len(s) > 1
    <3>1. RequestOK(r) /\ s # <<>> /\ Len(s) # 1
      <4>1. RequestOK(r)
        BY DEF RInv
      <4>2. \A m \in Nat \ {0} : m > 1 => m # 1
        OBVIOUS
      <4> QED BY <1>1, <2>2, <4>1, <4>2
    <3>2. calls'[r][1] = calls[r][1]
      BY <1>6, <1>7, <2>2
    <3>3. changes' # 0
      BY <1>1, <1>2, <1>9, <3>1 DEF stores
    <3> QED BY <2>2, <3>1, <3>2, <3>3 DEF RequestOK
  <2>3. Len(s) = 1 \/ Len(s) > 1
    <3>1. \A m \in Nat \ {0} : m = 1 \/ m > 1
      OBVIOUS
    <3> QED BY <1>1, <3>1
  <2> QED BY <2>1, <2>2, <2>3
<1>11. ASSUME NEW q \in Requests \ {r} PROVE RequestOK(q)'
  <2>1. RequestOK(q) /\ calls'[q] = calls[q]
    BY <1>7 DEF RInv
  <2> QED BY <1>2, <2>1 DEF RequestOK, RestFirst, RestSecond, stores
<1> QED BY <1>2, <1>10, <1>11, WorldSame DEF RInv

LEMMA ShieldAnswersRight ==
  ASSUME IInv, RInv, NEW r \in Requests, ShieldAnswers(r)
  PROVE  RInv'
PROOF
<1> DEFINE s  == calls[r]
           i  == Len(s) - 1
           x  == Top(r).resp
           y  == s[i]
           f  == Finish(y, x)
           s1 == SubSeq(s, 1, i)
           s2 == [s1 EXCEPT ![i] = f]
<1>1. s \in Seq(Call) /\ Len(s) \in Nat /\ Len(s) > 1 /\ s # <<>>
  BY DEF ShieldAnswers, Depth, IInv, TypeOK
<1>2. x \in Response /\ y \in Call
  <2>1. x \in Response
    BY AtTop DEF ShieldAnswers, CallOK
  <2>2. y \in Call
    <3> HIDE DEF s
    <3> QED BY <1>1
  <2> QED BY <2>1, <2>2
<1>3. UNCHANGED <<stores, arrivals, client, answer>>
  BY DEF ShieldAnswers
<1>4. calls' = [calls EXCEPT ![r] = s2]
  BY DEF ShieldAnswers, Depth, IInv, TypeOK
<1>5. calls'[r] = s2 /\ \A q \in Requests \ {r} : calls'[q] = calls[q]
  BY <1>4 DEF IInv, TypeOK
<1>6. f \in Call /\ f.pc = "answer" /\ (~y.fromEdge => f.resp.hsts)
  <2> HIDE DEF x, y
  <2> QED BY <1>2 DEF Finish, Call, Response, ResponseIsForClient
<1>7. Len(s2) = i /\ s2[i] = f /\ (i > 1 => s2[1] = s[1])
  <2>1. s1 \in Seq(Call) /\ Len(s1) = i /\ \A j \in 1..i : s1[j] = s[j]
    <3> HIDE DEF s
    <3> QED BY <1>1
  <2> HIDE DEF s, s1, f
  <2> QED BY <1>1, <2>1
<1>8. RequestOK(r)
  BY DEF RInv
<1> HIDE DEF f, s1, s2, x
<1>9. RequestOK(r)'
  <2>1. CASE i = 1
    <3>1. Len(calls'[r]) = 1 /\ calls'[r][1] = f
      BY <1>5, <1>7, <2>1
    <3>2. ClientCall(y) /\ y.pc = "wait"
      BY <1>1, <1>8, <2>1 DEF RequestOK
    <3>3. f.resp.hsts
      BY <1>6, <3>2 DEF ClientCall
    <3> QED BY <1>6, <3>1, <3>3 DEF RequestOK, ClientCall, RestFirst
  <2>2. CASE i > 1
    <3>1. calls'[r][1] = calls[r][1] /\ changes # 0 /\ changes' # 0
      BY <1>1, <1>3, <1>5, <1>7, <1>8, <2>2 DEF RequestOK, stores
    <3> QED BY <1>1, <1>8, <3>1 DEF RequestOK
  <2>3. i = 1 \/ i > 1
    <3>1. \A m \in Nat : m > 1 => m - 1 = 1 \/ m - 1 > 1
      OBVIOUS
    <3> QED BY <1>1, <3>1
  <2> QED BY <2>1, <2>2, <2>3
<1>10. ASSUME NEW q \in Requests \ {r} PROVE RequestOK(q)'
  <2>1. RequestOK(q) /\ calls'[q] = calls[q]
    BY <1>5 DEF RInv
  <2> QED BY <1>3, <2>1 DEF RequestOK, RestFirst, RestSecond, stores
<1> QED BY <1>3, <1>9, <1>10, WorldSame DEF RInv
LEMMA ClientIsAnsweredRight ==
  ASSUME IInv, RInv, NEW r \in Requests, ClientIsAnswered(r)
  PROVE  RInv'
PROOF
<1> DEFINE t == Top(r)
<1>1. calls[r] # <<>> /\ t.pc = "answer" /\ Depth(r) = 1 /\ t.resp \in Response
  BY AtTop DEF ClientIsAnswered, CallOK
<1>2. /\ answer' = [answer EXCEPT ![r] = t.resp] /\ calls' = [calls EXCEPT ![r] = <<>>]
      /\ UNCHANGED <<stores, cache, arrivals, client>>
  BY DEF ClientIsAnswered
<1>3. t.resp.status = "ok" => t.resp.hsts
  <2>1. ClientCall(t)
    BY <1>1, TopRight DEF IInv
  <2> QED BY <1>1, <2>1 DEF ClientCall
<1> HIDE DEF t
<1>4. ClientsGetHsts'
  BY <1>2, <1>3 DEF RInv, ClientsGetHsts, IInv, TypeOK
<1>5. ASSUME NEW q \in Requests PROVE RequestOK(q)'
  <2>1. CASE q = r
    BY <1>2, <2>1 DEF RequestOK, IInv, TypeOK
  <2>2. CASE q # r
    <3>1. RequestOK(q) /\ calls'[q] = calls[q]
      BY <1>2, <2>2 DEF RInv, IInv, TypeOK
    <3> QED BY <1>2, <3>1 DEF RequestOK, RestFirst, RestSecond, stores
  <2> QED BY <2>1, <2>2
<1>6. StoresAtRest' /\ IdentityIsPreserved'
  BY <1>2 DEF RInv, StoresAtRest, IdentityIsPreserved, stores
<1> QED BY <1>4, <1>5, <1>6 DEF RInv

\* The origin has been sent nothing for a client that sends its request only now.
LEMMA ClientSendsRight ==
  ASSUME IInv, RInv, NEW r \in Requests, ClientSends(r)
  PROVE  RInv'
PROOF
<1>1. PICK p \in Pops, a \in Clients, m \in Methods, f \in Forgeries :
        /\ calls' = [calls EXCEPT ![r] = <<NewCall(p, a, m, ClientHeaders(f))>>]
        /\ client' = [client EXCEPT ![r] = a]
  BY DEF ClientSends
<1> DEFINE c == NewCall(p, a, m, ClientHeaders(f))
<1>2. client[r] = None /\ UNCHANGED <<stores, cache, arrivals, answer>>
  BY DEF ClientSends
<1>3. c.pc = "load" /\ c.peer = a /\ ~c.fromEdge /\ c.hdr.auth \in {None, Forged}
  BY DEF NewCall, ClientHeaders
<1> HIDE DEF c
<1>4. calls'[r] = <<c>> /\ client'[r] = a /\ Len(<<c>>) = 1 /\ <<c>>[1] = c
  BY <1>1 DEF IInv, TypeOK, c
<1>5. \A q \in Requests \ {r} : calls'[q] = calls[q] /\ client'[q] = client[q]
  BY <1>1 DEF IInv, TypeOK
<1>6. RequestOK(r)'
  BY <1>3, <1>4 DEF RequestOK, ClientCall, RestFirst
<1>7. ASSUME NEW q \in Requests \ {r} PROVE RequestOK(q)'
  <2>1. RequestOK(q)
    BY DEF RInv
  <2> QED BY <1>2, <1>5, <2>1 DEF RequestOK, RestFirst, RestSecond, stores
<1>8. IdentityIsPreserved'
  <2>1. ASSUME NEW x \in arrivals, changes = 0 PROVE x.req \in Requests \ {r}
    <3>1. x.req \in Requests /\ x.hdr.ip \in Clients \union Pops
      BY DEF IInv, TypeOK, Arrival, NoForgedIdentity
    <3>2. x.hdr.ip = client[x.req]
      BY <2>1 DEF RInv, IdentityIsPreserved
    <3> QED BY <1>2, <3>1, <3>2, DistinctAssumption
  <2> QED BY <1>2, <1>5, <2>1 DEF RInv, IdentityIsPreserved, stores
<1>9. StoresAtRest' /\ ClientsGetHsts'
  BY <1>2 DEF RInv, StoresAtRest, ClientsGetHsts, stores
<1> QED BY <1>6, <1>7, <1>8, <1>9 DEF RInv

\* An edit ends the rest, and until then there is nothing to propagate.
LEMMA StoresRight ==
  ASSUME IInv, RInv, Publish \/ \E p \in Pops : PropagateConfig(p) \/ PropagateSecret(p)
  PROVE  RInv'
PROOF
<1>1. changes' # 0 /\ UNCHANGED <<calls, arrivals, client, answer>>
  BY DEF Publish, PropagateConfig, PropagateSecret, IInv, TypeOK, RInv, StoresAtRest
<1> QED BY <1>1 DEF RInv, RequestOK, StoresAtRest, IdentityIsPreserved, ClientsGetHsts

-----------------------------------------------------------------------------
(* The invariant.                                                          *)

LEMMA InitRight == Init => RInv
BY DEF Init, RInv, RequestOK, StoresAtRest, IdentityIsPreserved, ClientsGetHsts

LEMMA StepRight == IInv /\ RInv /\ [Next]_vars => RInv'
PROOF
<1> SUFFICES ASSUME IInv, RInv, [Next]_vars PROVE RInv'
  OBVIOUS
<1>1. CASE Publish \/ \E p \in Pops : PropagateConfig(p) \/ PropagateSecret(p)
  BY <1>1, StoresRight
<1>2. ASSUME NEW r \in Requests, ClientSends(r) PROVE RInv'
  BY <1>2, ClientSendsRight
<1>3. ASSUME NEW r \in Requests, Progress(r) PROVE RInv'
  BY <1>3, AbortRight, LoadRight, AllowRight, FinishRight, SendToShieldRight, SendToOriginRight,
     ShieldAnswersRight, ClientIsAnsweredRight DEF Progress
<1>4. CASE UNCHANGED vars
  BY <1>4 DEF vars, RInv, RequestOK, RestFirst, RestSecond, StoresAtRest, IdentityIsPreserved,
              ClientsGetHsts
<1> QED BY <1>1, <1>2, <1>3, <1>4 DEF Next

\* For any POPs, requests that share their caches, and edits of the stores: an answer of
\* the origin reaches its client with HSTS, also out of a cache that was filled by a call
\* made on behalf of an edge POP (the tail of `handle`).
THEOREM HstsReachesClients == Spec => []ClientsGetHsts
PROOF
<1>1. RInv => ClientsGetHsts
  BY DEF RInv
<1> QED BY InitOK, StepOK, InitRight, StepRight, <1>1, PTL DEF Spec

\* For any POPs, requests, forged headers and contents of the stores, as long as nobody
\* edits these: the origin learns the true client address and the first POP's request ID
\* after at most two POPs, and the firewall has seen the request once if it is on.
THEOREM RestPreservesIdentity == Spec => []IdentityIsPreserved
PROOF
<1>1. RInv => IdentityIsPreserved
  BY DEF RInv
<1> QED BY InitOK, StepOK, InitRight, StepRight, <1>1, PTL DEF Spec

=============================================================================
