------------------------ MODULE ScheduledJobs_proofs ------------------------
(***************************************************************************)
(* The safety properties of the jobs that timers, cron and CI start, for   *)
(* any number of machines, plans, containers, images and failures.         *)
(*                                                                         *)
(* The jobs share nothing: each has an inductive invariant of its own,     *)
(* which the steps of the other jobs leave alone.                          *)
(***************************************************************************)
EXTENDS Firewall_proofs

-----------------------------------------------------------------------------
(* The letsencrypt role.                                                   *)

\* A step of the letsencrypt role, or of another job.
LEMMA SslSteps == [Next]_vars => Ssl!Next \/ UNCHANGED ssl
PROOF
  BY DEF Next, Only, LoginJob, AmiJob, SslJob, PlayJob, FireJob, AgentJob, PlanJob, CleanJob,
         DockerJob, EcsJob, vars, ssl

\* Since the last good run a service has lost a week at a time, and when that run
\* ended more than RenewWithin were left; the hooks before the current one have
\* passed on the certificate on the disk.
SslInv ==
  /\ certificate \in Nat /\ hook \in Nat \ {0} /\ bad \in Nat
  /\ served \in [Ssl!Services -> Nat]
  /\ renewal \in {"due", "lego", "hooks", "failed", "ok"}
  /\ bad <= MaxBadWeeks
  /\ renewal # "hooks" => hook = 1
  /\ renewal = "ok" => bad = 0
  /\ renewal = "hooks" => /\ certificate > RenewWithin
                          /\ \A i \in DOMAIN Hooks : i < hook => served[Hooks[i]] = certificate
  /\ \A s \in Ssl!Services :
       /\ served[s] + bad >= RenewWithin
       /\ renewal = "ok" => served[s] > RenewWithin

LEMMA SslInit == Ssl!Init => SslInv
PROOF
  BY SslAssumption DEF Ssl!Init, SslInv, Ssl!WeeksAssumption

LEMMA SslInductive == SslInv /\ [Next]_vars => SslInv'
PROOF
<1> SUFFICES ASSUME SslInv, [Next]_vars
             PROVE  SslInv'
  OBVIOUS
<1>1. /\ Validity \in Nat /\ RenewWithin \in Nat /\ MaxBadWeeks \in Nat
      /\ MaxBadWeeks < RenewWithin /\ RenewWithin < Validity
  BY SslAssumption DEF Ssl!WeeksAssumption
<1>2. /\ Len(Hooks) \in Nat /\ DOMAIN Hooks = 1..Len(Hooks)
      /\ \A i \in DOMAIN Hooks : Hooks[i] \in Ssl!Services
  BY SslAssumption DEF Ssl!HooksAssumption, Ssl!Services
<1>3. CASE Ssl!Start
  BY <1>3 DEF Ssl!Start, SslInv
<1>4. CASE Ssl!Renew
  BY <1>1, <1>2, <1>4 DEF Ssl!Renew, SslInv
<1>5. CASE Ssl!NothingToRenew
  BY <1>1, <1>2, <1>5 DEF Ssl!NothingToRenew, Ssl!Expiring, SslInv
<1>6. CASE Ssl!RunHook
  <2>1. /\ UNCHANGED <<certificate, renewal, bad>> /\ renewal = "hooks" /\ hook' = hook + 1
        /\ hook \in DOMAIN Hooks /\ Hooks[hook] \in Ssl!Services
    BY <1>2, <1>6 DEF Ssl!RunHook
  <2>2. /\ served' \in [Ssl!Services -> Nat] /\ served'[Hooks[hook]] = certificate
        /\ \A s \in Ssl!Services : s # Hooks[hook] => served'[s] = served[s]
    BY <1>6, <2>1 DEF Ssl!RunHook, SslInv
  <2>3. \A i \in DOMAIN Hooks : i < hook' => served'[Hooks[i]] = certificate
    <3> SUFFICES ASSUME NEW i \in DOMAIN Hooks, i < hook'
                 PROVE  served'[Hooks[i]] = certificate
      OBVIOUS
    <3>1. i = hook \/ i < hook
      BY <1>2, <2>1 DEF SslInv
    <3> QED BY <1>2, <2>1, <2>2, <3>1 DEF SslInv
  <2>4. certificate > RenewWithin /\ certificate \in Nat /\ bad \in Nat
    BY <2>1 DEF SslInv
  <2>5. \A s \in Ssl!Services : served'[s] + bad >= RenewWithin
    BY <1>1, <2>2, <2>4 DEF SslInv
  <2> QED BY <2>1, <2>2, <2>3, <2>4, <2>5 DEF SslInv
<1>7. CASE Ssl!Succeed
  <2>1. hook \in Nat /\ hook > Len(Hooks) /\ renewal = "hooks"
    BY <1>7 DEF Ssl!Succeed, SslInv
  <2>2. \A i \in DOMAIN Hooks : i < hook
    BY <1>2, <2>1
  <2>3. \A s \in Ssl!Services : served[s] = certificate /\ certificate > RenewWithin
    BY <2>1, <2>2 DEF SslInv, Ssl!Services
  <2> QED BY <1>1, <1>7, <2>3 DEF Ssl!Succeed, SslInv
<1>8. CASE Ssl!Fail
  BY <1>8 DEF Ssl!Fail, SslInv
<1>9. CASE Ssl!NextWeek
  <2>1. \A n \in Nat : Ssl!Less(n) \in Nat /\ Ssl!Less(n) + 1 >= n
    BY DEF Ssl!Less
  <2>2. /\ certificate' \in Nat /\ served' \in [Ssl!Services -> Nat]
        /\ \A s \in Ssl!Services : served'[s] + 1 >= served[s]
    BY <1>9, <2>1 DEF Ssl!NextWeek, SslInv
  <2>3. CASE renewal = "ok"
    BY <1>1, <1>9, <2>2, <2>3 DEF Ssl!NextWeek, SslInv
  <2>4. CASE renewal = "failed"
    BY <1>1, <1>9, <2>2, <2>4 DEF Ssl!NextWeek, SslInv
  <2> QED BY <1>9, <2>3, <2>4 DEF Ssl!NextWeek
<1>10. CASE UNCHANGED ssl
  BY <1>10 DEF ssl, SslInv
<1> QED BY <1>3, <1>4, <1>5, <1>6, <1>7, <1>8, <1>9, <1>10, SslSteps DEF Ssl!Next

\* Whatever fails between the renewal and the hooks, no service serves an expired
\* certificate, as long as the bad weeks are fewer than those lego renews ahead.
THEOREM CertificatesStayValid == Spec => []NeverExpired
PROOF
<1>1. Init => SslInv
  BY SslInit DEF Init
<1>2. SslInv => NeverExpired
  <2> SUFFICES ASSUME SslInv, NEW s \in Ssl!Services
               PROVE  served[s] > 0
    BY DEF NeverExpired, Ssl!NeverExpired
  <2>1. served[s] + bad >= RenewWithin /\ bad < RenewWithin /\ served[s] \in Nat /\ bad \in Nat
    BY SslAssumption DEF SslInv, Ssl!WeeksAssumption
  <2> QED BY <2>1, SslAssumption DEF Ssl!WeeksAssumption
<1> QED BY <1>1, <1>2, SslInductive, PTL DEF Spec

-----------------------------------------------------------------------------
(* The backup role.                                                        *)

\* A step of the backup role, or of another job.
LEMMA PlanSteps == [Next]_vars => Plan!Next \/ UNCHANGED backups
PROOF
  BY DEF Next, Only, LoginJob, AmiJob, SslJob, PlayJob, FireJob, AgentJob, PlanJob, CleanJob,
         DockerJob, EcsJob, vars, backups

\* At a plan's commands, which are those of one plan.
AtPlan == backup.pc \in {"clear", "dump", "restic"}

\* This run is done with the plan: it is neither still to do nor the one it is at.
PlanDone(p) ==
  /\ day > 0
  /\ backup.pc # "idle" => p \notin backup.todo
  /\ AtPlan => p \notin backup.plan

\* Only plans with a before-script dump, and restic comes after the dump.
PlanReady(p) == IF backup.pc = "restic" THEN dump[p] = "whole" ELSE p \in Dumped

\* Plans that are done and not broken have a snapshot of today, which is newer than
\* the others; a snapshot is taken of a whole dump only.
PlanInv ==
  /\ day \in Nat
  /\ backup \in [pc : {"idle", "status", "plans", "clear", "dump", "restic"},
                 todo : SUBSET Plans, plan : SUBSET Plans]
  /\ dump \in [Plans -> {"partial", "whole"}]
  /\ snapshots \in [Plans -> SUBSET [day : Nat, whole : BOOLEAN]]
  /\ \A p \in Plans \ Dumped : dump[p] = "whole"
  /\ backup.pc # "idle" => day > 0
  /\ \A p \in Plans : \A s \in snapshots[p] : s.whole /\ s.day \in 1..day
  /\ AtPlan => \E p \in Plans : backup.plan = {p} /\ PlanReady(p)
  /\ \A p \in Plans \ broken : PlanDone(p) => \E s \in snapshots[p] : s.day = day

\* The plan a run is at.
LEMMA CurrentPlan ==
  ASSUME NEW p \in Plans, backup.plan = {p}
  PROVE  Plan!Current = p
PROOF
  BY DEF Plan!Current

\* backup.py goes to the next command of the plan it is at.
LEMMA GotoSame ==
  ASSUME NEW pc \in {"plans", "clear", "dump", "restic"}, PlanInv, Plan!Goto(pc)
  PROVE  /\ backup' \in [pc : {"idle", "status", "plans", "clear", "dump", "restic"},
                          todo : SUBSET Plans, plan : SUBSET Plans]
         /\ backup'.pc = pc /\ backup'.todo = backup.todo /\ backup'.plan = backup.plan
PROOF
  BY DEF PlanInv, Plan!Goto

\* The newest snapshot of today survives restic forget.
LEMMA TodayIsKept ==
  ASSUME NEW d \in Nat, NEW S \in SUBSET [day : Nat, whole : BOOLEAN],
         \A t \in S : t.day <= d, NEW s \in S, s.day = d
  PROVE  s \in Plan!Kept(S)
PROOF
<1>1. {t \in S : t.day > s.day} = {}
  <2> SUFFICES ASSUME NEW t \in S, t.day > s.day
               PROVE  FALSE
    OBVIOUS
  <2>1. t.day \in Nat /\ t.day <= d
    OBVIOUS
  <2> QED BY <2>1
<1>2. Plan!Cardinality({t \in S : t.day > s.day}) < KeepDaily
  <2>1. Plan!Cardinality({}) = Cardinality({})
    BY Zenon DEF Plan!Cardinality, Cardinality
  <2> QED BY <1>1, <2>1, FS_EmptySet, PlanAssumption DEF Plan!KeepDailyAssumption
<1> QED BY <1>2, Zenon DEF Plan!Kept

LEMMA PlanInit == Plan!Init => PlanInv
PROOF
  BY DEF Plan!Init, Plan!Idle, PlanInv, PlanDone, AtPlan

LEMMA PlanInductive == PlanInv /\ [Next]_vars => PlanInv'
PROOF
<1> SUFFICES ASSUME PlanInv, [Next]_vars
             PROVE  PlanInv'
  OBVIOUS
<1> USE DEF PlanInv, PlanReady
<1>1. CASE Plan!TimerFires
  BY <1>1 DEF Plan!TimerFires, Plan!data, Plan!At, PlanDone, AtPlan
<1>2. CASE Plan!Status
  <2>1. /\ backup' \in [pc : {"idle", "status", "plans", "clear", "dump", "restic"},
                         todo : SUBSET Plans, plan : SUBSET Plans]
        /\ backup'.pc = "plans" /\ backup'.todo = backup.todo
    BY <1>2, GotoSame DEF Plan!Status
  <2>2. UNCHANGED <<day, snapshots, dump, broken>> /\ backup.pc = "status"
    BY <1>2 DEF Plan!Status, Plan!At
  <2> QED BY <2>1, <2>2 DEF PlanDone, AtPlan
<1>3. CASE Plan!StatusFails
  BY <1>3 DEF Plan!StatusFails, Plan!data, Plan!At, Plan!Idle, PlanDone, AtPlan
<1>4. CASE Plan!NextPlan
  BY <1>4 DEF Plan!NextPlan, Plan!data, Plan!At, PlanDone, AtPlan
<1>5. CASE Plan!ClearDump
  <2>1. /\ backup' \in [pc : {"idle", "status", "plans", "clear", "dump", "restic"},
                         todo : SUBSET Plans, plan : SUBSET Plans]
        /\ backup'.pc = "dump" /\ backup'.todo = backup.todo /\ backup'.plan = backup.plan
    BY <1>5, GotoSame DEF Plan!ClearDump
  <2>2. PICK p \in Plans : backup.plan = {p} /\ p \in Dumped
    BY <1>5 DEF Plan!ClearDump, Plan!At, AtPlan, PlanReady
  <2>3. dump' = [dump EXCEPT ![p] = "partial"] /\ UNCHANGED <<day, snapshots, broken>>
    BY <1>5, <2>2, CurrentPlan DEF Plan!ClearDump
  <2>4. \A q \in Plans : PlanDone(q)' => PlanDone(q)
    BY <1>5, <2>1, <2>3 DEF Plan!ClearDump, Plan!At, PlanDone, AtPlan
  <2>5. dump' \in [Plans -> {"partial", "whole"}] /\ \A q \in Plans \ {p} : dump'[q] = dump[q]
    BY <2>3
  <2>6. \A q \in Plans \ Dumped : dump'[q] = "whole"
    BY <2>2, <2>5
  <2>7. \A q \in Plans \ broken' : PlanDone(q)' => \E s \in snapshots'[q] : s.day = day'
    BY <2>3, <2>4
  <2>8. day' > 0
    BY <1>5, <2>3 DEF Plan!ClearDump, Plan!At
  <2> QED BY <2>1, <2>2, <2>3, <2>5, <2>6, <2>7, <2>8 DEF AtPlan
<1>6. CASE Plan!PgDump
  BY <1>6, CurrentPlan DEF Plan!PgDump, Plan!At, Plan!Goto, PlanDone, AtPlan
<1>7. CASE Plan!ResticBackup
  <2>1. /\ backup' \in [pc : {"idle", "status", "plans", "clear", "dump", "restic"},
                         todo : SUBSET Plans, plan : SUBSET Plans]
        /\ backup'.pc = "plans" /\ backup'.todo = backup.todo
    BY <1>7, GotoSame DEF Plan!ResticBackup
  <2>2. PICK p \in Plans : backup.plan = {p} /\ dump[p] = "whole"
    BY <1>7 DEF Plan!ResticBackup, Plan!At, AtPlan, PlanReady
  <2>3. PICK new : new = [day |-> day, whole |-> TRUE]
    OBVIOUS
  <2>4. /\ snapshots' = [snapshots EXCEPT ![p] = snapshots[p] \cup {new}]
        /\ UNCHANGED <<day, dump, broken>>
    BY <1>7, <2>2, <2>3, CurrentPlan DEF Plan!ResticBackup
  <2>5. new \in [day : Nat, whole : BOOLEAN] /\ new.whole /\ new.day = day
    BY <2>3
  <2>6. /\ snapshots' \in [Plans -> SUBSET [day : Nat, whole : BOOLEAN]]
        /\ snapshots'[p] = snapshots[p] \cup {new}
        /\ \A q \in Plans \ {p} : snapshots'[q] = snapshots[q]
    BY <2>4, <2>5
  <2>7. \A q \in Plans \ {p} : PlanDone(q)' => PlanDone(q)
    BY <1>7, <2>1, <2>2, <2>4 DEF Plan!ResticBackup, Plan!At, PlanDone, AtPlan
  <2>8. \A q \in Plans \ broken' : PlanDone(q)' => \E s \in snapshots'[q] : s.day = day'
    BY <2>4, <2>5, <2>6, <2>7
  <2>9. day' > 0
    BY <1>7, <2>4 DEF Plan!ResticBackup, Plan!At
  <2>10. \A q \in Plans : \A s \in snapshots'[q] : s.whole /\ s.day \in 1..day'
    BY <2>4, <2>5, <2>6, <2>9
  <2> QED BY <2>1, <2>4, <2>6, <2>8, <2>9, <2>10 DEF AtPlan
<1>8. CASE Plan!PlanFails
  BY <1>8 DEF Plan!PlanFails, Plan!data, Plan!Goto, PlanDone, AtPlan
<1>9. CASE Plan!Forget
  BY <1>9, TodayIsKept DEF Plan!Forget, Plan!At, Plan!Idle, Plan!Kept, PlanDone, AtPlan
<1>10. CASE Plan!Interrupted
  BY <1>10 DEF Plan!Interrupted, Plan!At, Plan!Idle, PlanDone, AtPlan
<1>11. CASE UNCHANGED backups \/ Plan!LastDay
  BY <1>11 DEF Plan!LastDay, Plan!vars, backups, PlanDone, AtPlan
<1> HIDE DEF PlanInv, PlanReady
<1> QED
  BY <1>1, <1>2, <1>3, <1>4, <1>5, <1>6, <1>7, <1>8, <1>9, <1>10, <1>11, PlanSteps DEF Plan!Next

\* However many plans failed before it, a plan that did not fail has a snapshot of
\* today when the run is over, and no snapshot is of half a dump.
THEOREM OtherPlansSucceed == Spec => []OthersAreBackedUp
PROOF
<1>1. Init => PlanInv
  BY PlanInit DEF Init
<1>2. PlanInv => OthersAreBackedUp
  <2> SUFFICES ASSUME PlanInv
               PROVE  Plan!OthersAreBackedUp
    BY DEF OthersAreBackedUp
  <2>1. backup.pc = "idle" /\ day > 0 => \A p \in Plans : PlanDone(p)
    BY DEF PlanDone, AtPlan
  <2> QED BY <2>1 DEF PlanInv, Plan!OthersAreBackedUp, Plan!At
<1> QED BY <1>1, <1>2, PlanInductive, PTL DEF Spec

-----------------------------------------------------------------------------
(* Uploads to ECS.                                                         *)

\* A step of CI, the operator, the policy or ECS, or of another job.
LEMMA EcsSteps == [Next]_vars => Ecs!Next \/ UNCHANGED ecs
PROOF
  BY DEF Next, Only, LoginJob, AmiJob, SslJob, PlayJob, FireJob, AgentJob, PlanJob, CleanJob,
         DockerJob, EcsJob, vars, ecs

\* The tag of a workflow is on the newest image, so the image before it is the one
\* pushed before, or the newest if an operator moved the tag back.
EcsInv ==
  /\ pushes \in Nat
  /\ ecr \subseteq 1..pushes
  /\ tagged \in ecr
  /\ mover # Ecs!Operator => tagged = pushes
  /\ previous.image # Ecs!NoImage /\ previous.mover # Ecs!Operator =>
       /\ previous.image \in ecr
       /\ previous.image = pushes \/ (tagged = pushes /\ previous.image = pushes - 1)

\* No tag was moved, and no image has gone.
EcsSame == UNCHANGED <<ecr, tagged, mover, previous, pushes>>

\* A push tags the newest image, and the one before keeps its place in line.
LEMMA PushKeepsEcs ==
  ASSUME EcsInv, NEW j, Ecs!PushImage(j)
  PROVE  EcsInv'
PROOF
<1>1. /\ pushes' = pushes + 1 /\ pushes' \in Nat /\ tagged' = pushes' /\ ecr' = ecr \union {pushes'}
      /\ previous'.image = tagged /\ previous'.mover = mover /\ tagged \in ecr
      /\ mover # Ecs!Operator => tagged = pushes' - 1
  BY DEF EcsInv, Ecs!PushImage, Ecs!Tag
<1>2. ecr' \subseteq 1..pushes'
  <2>1. pushes \in Nat /\ ecr \subseteq 1..pushes
    BY DEF EcsInv
  <2>2. \A i \in 1..pushes : i \in 1..(pushes + 1)
    BY <2>1
  <2>3. pushes + 1 \in 1..(pushes + 1)
    BY <2>1
  <2> QED BY <1>1, <2>1, <2>2, <2>3
<1> QED BY <1>1, <1>2 DEF EcsInv

\* An operator's tag leaves the image that was the newest one as the previous.
LEMMA RetagKeepsEcs ==
  ASSUME EcsInv, NEW image \in ecr \ {tagged}, Ecs!Tag(image, Ecs!Operator), pushes' = pushes
  PROVE  EcsInv'
PROOF
<1>1. /\ tagged' = image /\ ecr' = ecr /\ mover' = Ecs!Operator
      /\ previous'.image = tagged /\ previous'.mover = mover
  BY DEF Ecs!Tag
<1> QED BY <1>1 DEF EcsInv

\* The policy deletes an image only if another untagged one is newer.
LEMMA ExpireKeepsEcs ==
  ASSUME EcsInv, Ecs!Expire
  PROVE  EcsInv'
PROOF
<1>1. /\ UNCHANGED <<tagged, mover, previous, pushes>> /\ ecr' = {i \in ecr : ~Ecs!Expires(i)}
  BY DEF Ecs!Expire
<1>2. ~Ecs!Expires(tagged)
  BY DEF Ecs!Expires
<1>3. ASSUME previous.image # Ecs!NoImage, previous.mover # Ecs!Operator
      PROVE  ~Ecs!Expires(previous.image)
  <2>1. Ecs!Newer(previous.image, ecr \ {tagged}) = {}
    <3> SUFFICES ASSUME NEW i \in ecr \ {tagged}, i > previous.image
                 PROVE  FALSE
      BY DEF Ecs!Newer
    <3>1. i \in 1..pushes /\ pushes \in Nat
      BY DEF EcsInv
    <3>2. previous.image = pushes \/ (tagged = pushes /\ previous.image = pushes - 1)
      BY <1>3 DEF EcsInv
    <3> QED BY <3>1, <3>2
  <2>2. Ecs!Cardinality({}) = Cardinality({})
    BY Zenon DEF Ecs!Cardinality, Cardinality
  <2> QED BY <2>1, <2>2, FS_EmptySet, EcsAssumption DEF Ecs!Expires, Ecs!KeepUntaggedAssumption
<1>4. ecr' \subseteq ecr /\ tagged \in ecr'
  BY <1>1, <1>2, Zenon DEF EcsInv
<1>5. previous.image # Ecs!NoImage /\ previous.mover # Ecs!Operator => previous.image \in ecr'
  BY <1>1, <1>3, Zenon DEF EcsInv
<1> QED BY <1>1, <1>4, <1>5 DEF EcsInv

LEMMA EcsInductive == EcsInv /\ [Next]_vars => EcsInv'
PROOF
<1> SUFFICES ASSUME EcsInv, [Next]_vars
             PROVE  EcsInv'
  OBVIOUS
<1>1. CASE EcsSame
  BY <1>1 DEF EcsSame, EcsInv
<1>2. ASSUME NEW j \in Jobs, Ecs!Upload(j)
      PROVE  EcsInv'
  <2>1. CASE Ecs!Prepare(j) \/ Ecs!Redeploy(j)
    BY <1>1, <2>1 DEF Ecs!Prepare, Ecs!Redeploy, Ecs!SameTag, EcsSame
  <2>2. CASE Ecs!Push(j)
    BY <2>2, PushKeepsEcs DEF Ecs!Push
  <2> QED BY <1>2, <2>1, <2>2 DEF Ecs!Upload
<1>3. ASSUME NEW j \in Jobs, Ecs!Fails(j)
      PROVE  EcsInv'
  <2>1. Ecs!PushImage(j) \/ EcsSame
    BY <1>3 DEF Ecs!Fails, Ecs!SameTag, EcsSame
  <2> QED BY <1>1, <2>1, PushKeepsEcs
<1>4. CASE Ecs!Rollback
  <2>1. CASE Ecs!Retag
    <3>1. pushes' = pushes
      BY <2>1 DEF Ecs!Retag, Ecs!RollbackStep
    <3>2. EcsSame \/ (rollback.image \in ecr \ {tagged} /\ Ecs!Tag(rollback.image, Ecs!Operator))
      BY <2>1, <3>1 DEF Ecs!Retag, Ecs!SameTag, EcsSame
    <3> QED BY <1>1, <3>1, <3>2, RetagKeepsEcs
  <2>2. Ecs!Retag \/ EcsSame
    BY <1>4 DEF Ecs!Rollback, Ecs!ListImages, Ecs!PickNothing, Ecs!Pick, Ecs!GetManifest,
                Ecs!FindService, Ecs!ForceRedeploy, Ecs!RollbackFails, Ecs!RollbackStep,
                Ecs!SameTag, EcsSame
  <2> QED BY <1>1, <2>1, <2>2
<1>5. CASE Ecs!Expire
  BY <1>5, ExpireKeepsEcs
<1>6. ASSUME NEW t \in Tasks, Ecs!ReplaceTask(t) \/ Ecs!RestartTask(t)
      PROVE  EcsInv'
  BY <1>1, <1>6 DEF Ecs!ReplaceTask, Ecs!RestartTask, Ecs!StartTask, EcsSame
<1>7. CASE UNCHANGED ecs
  BY <1>1, <1>7 DEF ecs, EcsSame
<1> QED BY <1>2, <1>3, <1>4, <1>5, <1>6, <1>7, EcsSteps DEF Ecs!Next

\* The image whose tag was taken last is there to go back to, whatever is pushed,
\* retagged and expired in whichever order.
THEOREM PreviousIsThere == Spec => []PreviousIsKept
PROOF
<1>1. Init => EcsInv
  BY DEF Init, Ecs!Init, Ecs!Initial, Ecs!NoImage, EcsInv
<1>2. EcsInv => PreviousIsKept
  BY DEF EcsInv, PreviousIsKept, Ecs!PreviousIsKept
<1> QED BY <1>1, <1>2, EcsInductive, PTL DEF Spec

-----------------------------------------------------------------------------
(* The builder of machine images.                                          *)

\* A step of the image builder, or of another job.
LEMMA AmiSteps == [Next]_vars => Ami!Next \/ UNCHANGED ami
PROOF
  BY DEF Next, Only, LoginJob, AmiJob, SslJob, PlayJob, FireJob, AgentJob, PlanJob, CleanJob,
         DockerJob, EcsJob, vars, ami

\* An invocation lists images of its architecture only, when today's is built.
AmiJobs ==
  /\ images \subseteq Arches \X Nat
  /\ ssm \in [Arches -> Nat \cup {None}]
  /\ job \in [Arches -> [pc : {"scheduled", "build", "describe", "update", "done"},
                         todo : SUBSET (Arches \X Nat)]]
  /\ \A a \in Arches : \A i \in job[a].todo : i[1] = a
  /\ \A a \in Arches : job[a].pc \in {"describe", "update"} => Ami!Built(a) \in images

\* Today's image is either still in the list, or the one that the parameter names.
AmiInv ==
  /\ AmiJobs
  /\ \A a \in Arches :
       job[a].pc = "update" => Ami!Built(a) \in job[a].todo \/ ssm[a] = 0
  /\ Ami!NamedIsRegistered

LEMMA JobsInductive == AmiJobs /\ [Next]_vars => AmiJobs'
PROOF
<1> SUFFICES ASSUME AmiJobs, [Next]_vars
             PROVE  AmiJobs'
  OBVIOUS
<1>1. CASE Ami!NextDay
  <2>1. \A n \in Nat \cup {None} : Ami!Older(n) \in Nat \cup {None}
    BY DEF Ami!Older
  <2>2. \A n \in Nat : Ami!Older(n) \in Nat
    BY DEF Ami!Older
  <2>3. images' \subseteq Arches \X Nat
    BY <1>1, <2>2 DEF Ami!NextDay, AmiJobs
  <2>4. ssm' \in [Arches -> Nat \cup {None}]
    BY <1>1, <2>1 DEF Ami!NextDay, AmiJobs
  <2>5. \A a \in Arches : job'[a].pc = "scheduled" /\ job'[a].todo = {}
    BY <1>1 DEF Ami!NextDay, Ami!Done
  <2>6. job' \in [Arches -> [pc : {"scheduled", "build", "describe", "update", "done"},
                             todo : SUBSET (Arches \X Nat)]]
    BY <1>1 DEF Ami!NextDay, Ami!Done
  <2> QED BY <2>3, <2>4, <2>5, <2>6 DEF AmiJobs
<1>2. ASSUME NEW a \in Arches, Ami!NothingToReport(a) \/ Ami!PostZulip(a)
      PROVE  AmiJobs'
  BY <1>2 DEF Ami!NothingToReport, Ami!PostZulip, Ami!At, Ami!Goto, AmiJobs
<1>3. ASSUME NEW a \in Arches, Ami!PackerBuild(a)
      PROVE  AmiJobs'
  BY <1>3 DEF Ami!PackerBuild, Ami!At, Ami!Goto, Ami!Built, AmiJobs
<1>4. ASSUME NEW a \in Arches, Ami!DescribeImages(a)
      PROVE  AmiJobs'
  BY <1>4 DEF Ami!DescribeImages, Ami!ImagesOf, Ami!At, AmiJobs
<1>5. ASSUME NEW a \in Arches, Ami!Publish(a)
      PROVE  AmiJobs'
  BY <1>5 DEF Ami!Publish, Ami!At, AmiJobs
<1>6. ASSUME NEW a \in Arches, Ami!Deregister(a)
      PROVE  AmiJobs'
  BY <1>6 DEF Ami!Deregister, Ami!At, Ami!Built, AmiJobs
<1>7. ASSUME NEW a \in Arches, Ami!Return(a) \/ Ami!Fails(a)
      PROVE  AmiJobs'
  BY <1>7 DEF Ami!Return, Ami!Fails, Ami!Done, Ami!At, AmiJobs
<1>8. ASSUME NEW a \in Arches, Ami!SeedByHand(a)
      PROVE  AmiJobs'
  BY <1>8 DEF Ami!SeedByHand, Ami!Built, AmiJobs
<1>9. CASE UNCHANGED ami
  BY <1>9 DEF ami, Ami!Built, AmiJobs
<1> QED
  BY <1>1, <1>2, <1>3, <1>4, <1>5, <1>6, <1>7, <1>8, <1>9, AmiSteps DEF Ami!Next, Ami!Step

LEMMA AmiInductive == AmiInv /\ [Next]_vars => AmiInv'
PROOF
<1> SUFFICES ASSUME AmiInv, [Next]_vars
             PROVE  AmiInv'
  OBVIOUS
<1> DEFINE Ok(a) ==
             /\ job[a].pc = "update" => Ami!Built(a) \in job[a].todo \/ ssm[a] = 0
             /\ ssm[a] # None /\ Ami!Published(a) \notin images =>
                  /\ ssm[a] > MaxAge
                  /\ (job[a].pc = "update" /\ Ami!Built(a) \in job[a].todo) \/ a \in dangling
<1>1. AmiJobs /\ AmiJobs' /\ \A a \in Arches : Ok(a)
  BY JobsInductive DEF AmiInv, Ami!NamedIsRegistered, Ami!At
<1>2. MaxAge \in Nat /\ MaxBuildFailures \in Nat /\ None \notin Nat
  BY AmiAssumption DEF Ami!BoundsAssumption, Ami!NoneAssumption
<1> SUFFICES ASSUME NEW b \in Arches
             PROVE  Ok(b)'
  BY <1>1 DEF AmiInv, Ami!NamedIsRegistered, Ami!At
\* The step of another architecture, or of none, that leaves what b names alone.
<1>3. ASSUME ssm'[b] = ssm[b], Ami!Published(b) \in images => Ami!Published(b) \in images',
             job'[b] = job[b], b \in dangling => b \in dangling'
      PROVE  Ok(b)'
  BY <1>1, <1>3 DEF Ami!Published, Ami!Built
<1>4. CASE Ami!NextDay
  <2>1. job'[b].pc = "scheduled" /\ job[b].pc = "done" /\ ssm'[b] = Ami!Older(ssm[b])
        /\ dangling' = dangling
    BY <1>1, <1>4 DEF Ami!NextDay, Ami!Done, Ami!At, AmiJobs
  <2>2. Ami!LongGone \in Nat /\ Ami!LongGone > MaxAge /\ Ami!Older(None) = None
    BY <1>2 DEF Ami!LongGone, Ami!Older
  <2>3. ssm[b] = None => ssm'[b] = None
    BY <2>1, <2>2
  <2>4. ssm[b] # None /\ ssm[b] > MaxAge => ssm'[b] > MaxAge
    BY <1>1, <1>2, <2>1, <2>2 DEF Ami!Older, AmiJobs
  <2>5. Ami!Published(b) \in images => Ami!Published(b)' \in images'
    <3>1. Ami!Published(b)' = <<b, Ami!Older(ssm[b])>>
      BY <2>1 DEF Ami!Published
    <3>2. images' = {<<i[1], Ami!Older(i[2])>> : i \in images}
      BY <1>4 DEF Ami!NextDay
    <3> QED BY <3>1, <3>2 DEF Ami!Published
  <2> QED BY <1>1, <2>1, <2>3, <2>4, <2>5
<1>5. ASSUME NEW a \in Arches, Ami!NothingToReport(a) \/ Ami!PostZulip(a) \/ Ami!PackerBuild(a)
      PROVE  Ok(b)'
  <2>1. /\ ssm' = ssm /\ dangling' = dangling /\ images \subseteq images'
        /\ (job'[b].pc # "update" /\ job[b].pc # "update") \/ job'[b] = job[b]
    BY <1>1, <1>5 DEF Ami!NothingToReport, Ami!PostZulip, Ami!PackerBuild, Ami!Goto, Ami!At, AmiJobs
  <2> QED BY <1>1, <2>1 DEF Ami!Published
<1>6. ASSUME NEW a \in Arches, Ami!DescribeImages(a)
      PROVE  Ok(b)'
  <2>1. CASE a = b
    <3>1. /\ ssm' = ssm /\ dangling' = dangling /\ images' = images
          /\ job[b].pc = "describe" /\ job'[b].todo = Ami!ImagesOf(b)
      BY <1>1, <1>6, <2>1 DEF Ami!DescribeImages, Ami!At, AmiJobs
    <3>2. Ami!Built(b) \in Ami!ImagesOf(b)
      BY <1>1, <3>1 DEF Ami!ImagesOf, Ami!Built, AmiJobs
    <3> QED BY <1>1, <3>1, <3>2 DEF Ami!Published
  <2>2. CASE a # b
    BY <1>1, <1>3, <1>6, <2>2 DEF Ami!DescribeImages, AmiJobs
  <2> QED BY <2>1, <2>2
<1>7. ASSUME NEW a \in Arches, Ami!Publish(a) \/ Ami!SeedByHand(a)
      PROVE  Ok(b)'
  <2>1. CASE a = b
    <3>1. ssm'[b] = 0 /\ Ami!Built(b) \in images'
      BY <1>1, <1>7, <2>1 DEF Ami!Publish, Ami!SeedByHand, Ami!At, AmiJobs
    <3> QED BY <3>1 DEF Ami!Published, Ami!Built
  <2>2. CASE a # b
    BY <1>1, <1>3, <1>7, <2>2 DEF Ami!Publish, Ami!SeedByHand, AmiJobs
  <2> QED BY <2>1, <2>2
<1>8. ASSUME NEW a \in Arches, Ami!Deregister(a)
      PROVE  Ok(b)'
  <2>1. PICK i \in job[a].todo \ {Ami!Built(a)} :
          /\ Ami!IsOld(i) /\ images' = images \ {i}
          /\ job' = [job EXCEPT ![a].todo = @ \ {i}]
    BY <1>8 DEF Ami!Deregister
  <2>2. job[a].pc = "update" /\ ssm' = ssm /\ dangling' = dangling /\ i[1] = a /\ i[2] > MaxAge
    BY <1>1, <1>8, <2>1 DEF Ami!Deregister, Ami!IsOld, Ami!At, AmiJobs
  <2>3. CASE a # b
    <3>1. Ami!Published(b) # i
      BY <2>2, <2>3 DEF Ami!Published
    <3>2. job'[b] = job[b]
      BY <1>1, <2>1, <2>3 DEF AmiJobs
    <3> QED BY <1>3, <2>1, <2>2, <3>1, <3>2
  <2>4. CASE a = b
    <3>1. job'[b].pc = "update" /\ (Ami!Built(b) \in job[b].todo => Ami!Built(b) \in job'[b].todo)
      BY <1>1, <2>1, <2>2, <2>4 DEF AmiJobs
    <3>2. ssm[b] = 0 => Ami!Published(b) # i
      BY <2>1, <2>4 DEF Ami!Published, Ami!Built
    <3>3. Ami!Published(b) = i => ssm[b] > MaxAge
      BY <2>2 DEF Ami!Published
    <3>4. Ami!Published(b)' = Ami!Published(b)
      BY <2>2 DEF Ami!Published
    <3> QED BY <1>1, <1>2, <2>1, <2>2, <2>4, <3>1, <3>2, <3>3, <3>4
  <2> QED BY <2>3, <2>4
<1>9. ASSUME NEW a \in Arches, Ami!Return(a)
      PROVE  Ok(b)'
  <2>1. CASE a = b
    <3>1. /\ ssm' = ssm /\ images' = images /\ dangling' = dangling
          /\ job'[b].pc = "done" /\ Ami!Built(b) \notin job[b].todo
      BY <1>1, <1>9, <2>1 DEF Ami!Return, Ami!Done, AmiJobs
    <3> QED BY <1>1, <3>1 DEF Ami!Published
  <2>2. CASE a # b
    BY <1>1, <1>3, <1>9, <2>2 DEF Ami!Return, AmiJobs
  <2> QED BY <2>1, <2>2
<1>10. ASSUME NEW a \in Arches, Ami!Fails(a)
       PROVE  Ok(b)'
  <2>1. CASE a = b
    <3>1. ssm' = ssm /\ images' = images /\ job'[b].pc = "done" /\ dangling \subseteq dangling'
          /\ (job[b].pc = "update" /\ Ami!Published(b) \notin images => b \in dangling')
      BY <1>1, <1>10, <2>1 DEF Ami!Fails, Ami!Done, Ami!At, AmiJobs
    <3> QED BY <1>1, <3>1 DEF Ami!Published
  <2>2. CASE a # b
    BY <1>1, <1>3, <1>10, <2>2 DEF Ami!Fails, AmiJobs
  <2> QED BY <2>1, <2>2
<1>11. CASE UNCHANGED ami
  BY <1>3, <1>11 DEF ami
<1> QED
  BY <1>4, <1>5, <1>6, <1>7, <1>8, <1>9, <1>10, <1>11, AmiSteps DEF Ami!Next, Ami!Step

\* The image that the parameter of an architecture names is registered, except in
\* the loop that is about to name another, or when that loop was cut short, and
\* then only after more than MaxAge days without a publication, however the
\* builders of the architectures interleave and fail.
THEOREM NamedImagesAreThere == Spec => []NamedIsRegistered
PROOF
<1>1. Init => AmiInv
  BY AmiAssumption
     DEF Init, Ami!Init, Ami!Done, AmiInv, AmiJobs, Ami!NamedIsRegistered
<1>2. AmiInv => NamedIsRegistered
  BY DEF AmiInv, NamedIsRegistered
<1> QED BY <1>1, <1>2, AmiInductive, PTL DEF Spec

-----------------------------------------------------------------------------
(* The nightly clean-up of the dev desktops.                               *)

\* A step of the clean-up or of an owner, or of another job.
LEMMA CleanSteps == [Next]_vars => Clean!Next \/ UNCHANGED cleanup
PROOF
  BY DEF Next, Only, LoginJob, AmiJob, SslJob, PlayJob, FireJob, AgentJob, PlanJob, CleanJob,
         DockerJob, EcsJob, vars, cleanup

\* What was found can be read, unless its owner came in between; and what is to be
\* deleted was not in use when it was looked at.
CleanInv ==
  /\ sweep \in [pc : {"idle", "homes", "check", "delete"}, homes : SUBSET Homes,
                found : SUBSET Clean!Checkouts, unused : SUBSET Clean!Checkouts]
  /\ \A c \in sweep.found : c[1] \in unreadable => c \in touched
  /\ \A c \in sweep.unused : c \in recent => c \in touched \/ c[1] \in Quoted

LEMMA CleanInductive == CleanInv /\ [Next]_vars => CleanInv'
PROOF
<1> SUFFICES ASSUME CleanInv, [Next]_vars
             PROVE  CleanInv'
  OBVIOUS
<1>1. CASE Clean!CronFires \/ Clean!SweepDone
  <2>1. \/ sweep' = [pc |-> "homes", homes |-> Homes, found |-> {}, unused |-> {}]
        \/ sweep' = [pc |-> "idle", homes |-> {}, found |-> {}, unused |-> {}]
    BY <1>1 DEF Clean!CronFires, Clean!SweepDone, Clean!NoSweep
  <2> QED BY <2>1 DEF CleanInv
<1>2. CASE Clean!FindCaches
  <2>1. PICK h \in sweep.homes \ unreadable :
          /\ sweep' = [pc |-> "check", homes |-> sweep.homes \ {h},
                       found |-> checkouts \cap Clean!InHome(h), unused |-> {}]
          /\ UNCHANGED <<recent, unreadable>>
    BY <1>2 DEF Clean!FindCaches, Clean!home
  <2>2. \A c \in Clean!InHome(h) : c \in Clean!Checkouts /\ c[1] = h
    BY DEF Clean!InHome
  <2>3. sweep' \in [pc : {"idle", "homes", "check", "delete"}, homes : SUBSET Homes,
                    found : SUBSET Clean!Checkouts, unused : SUBSET Clean!Checkouts]
    BY <2>1, <2>2 DEF CleanInv
  <2> QED BY <2>1, <2>2, <2>3 DEF CleanInv
<1>3. CASE Clean!HomeFails
  BY <1>3 DEF Clean!HomeFails, Clean!home, CleanInv
<1>4. CASE Clean!Check
  <2>1. PICK c \in sweep.found : \E modified \in Clean!Seen(c) :
          sweep' = [sweep EXCEPT !.found = sweep.found \ {c},
                                 !.unused = IF modified = {} THEN sweep.unused \cup {c}
                                                             ELSE sweep.unused]
    BY <1>4 DEF Clean!Check
  <2>2. PICK modified \in Clean!Seen(c) :
          sweep' = [sweep EXCEPT !.found = sweep.found \ {c},
                                 !.unused = IF modified = {} THEN sweep.unused \cup {c}
                                                             ELSE sweep.unused]
    BY <2>1
  <2>3. UNCHANGED <<recent, unreadable, touched>>
    BY <1>4 DEF Clean!Check, Clean!home
  <2>4. modified = {} => c \notin recent \/ c[1] \in Quoted \cup unreadable
    BY <2>2 DEF Clean!Seen
  <2>5. c[1] \in unreadable => c \in touched
    BY <2>2 DEF CleanInv
  <2>6. /\ sweep' \in [pc : {"idle", "homes", "check", "delete"}, homes : SUBSET Homes,
                       found : SUBSET Clean!Checkouts, unused : SUBSET Clean!Checkouts]
        /\ sweep'.found \subseteq sweep.found
        /\ sweep'.unused = IF modified = {} THEN sweep.unused \cup {c} ELSE sweep.unused
    BY <2>2 DEF CleanInv
  <2> QED BY <2>3, <2>4, <2>5, <2>6 DEF CleanInv
<1>5. CASE Clean!Checked \/ Clean!HomeDone
  BY <1>5 DEF Clean!Checked, Clean!HomeDone, Clean!home, CleanInv
<1>6. CASE Clean!Delete
  BY <1>6 DEF Clean!Delete, CleanInv
<1>7. ASSUME NEW c \in Clean!Checkouts, Clean!Use(c) \/ Clean!GrowsOld(c)
      PROVE  CleanInv'
  BY <1>7 DEF Clean!Use, Clean!GrowsOld, CleanInv
<1>8. ASSUME NEW h \in Homes, Clean!ChangeModes(h)
      PROVE  CleanInv'
  BY <1>8 DEF Clean!ChangeModes, Clean!InHome, CleanInv
<1>9. CASE UNCHANGED cleanup
  BY <1>9 DEF cleanup, CleanInv
<1> QED
  BY <1>1, <1>2, <1>3, <1>4, <1>5, <1>6, <1>7, <1>8, <1>9, CleanSteps DEF Clean!Next, Clean!Sweep

\* A build directory in use is deleted only behind an owner who came back to it, or
\* hid it, after the listing; or where quotes hide what was modified.
THEOREM UsedDirectoriesStay == Spec => InUseIsKept
PROOF
<1>1. Init => CleanInv
  BY DEF Init, Clean!Init, Clean!NoSweep, CleanInv
<1>2. CleanInv /\ [Next]_vars =>
        [\A c \in checkouts \ checkouts' :
           c \in recent => c \in touched \/ c[1] \in Quoted]_(Clean!vars)
  <2> SUFFICES ASSUME CleanInv, [Next]_vars, NEW c \in checkouts \ checkouts', c \in recent
               PROVE  c \in touched \/ c[1] \in Quoted
    OBVIOUS
  <2>1. Clean!Delete
    BY CleanSteps DEF cleanup, Clean!Next, Clean!Sweep, Clean!CronFires, Clean!FindCaches,
         Clean!HomeFails, Clean!Check, Clean!Checked, Clean!HomeDone, Clean!SweepDone,
         Clean!Use, Clean!GrowsOld, Clean!ChangeModes, Clean!home
  <2>2. c \in sweep.unused
    BY <2>1 DEF Clean!Delete
  <2> QED BY <2>2 DEF CleanInv
<1> QED BY <1>1, <1>2, CleanInductive, PTL DEF Spec, InUseIsKept, Clean!InUseIsKept

-----------------------------------------------------------------------------
(* The docker role.                                                        *)

\* A step of the units, systemd or the registry, or of another job.
LEMMA DockerSteps == [Next]_vars => Docker!Next \/ UNCHANGED docker
PROOF
  BY DEF Next, Only, LoginJob, AmiJob, SslJob, PlayJob, FireJob, AgentJob, PlanJob, CleanJob,
         DockerJob, EcsJob, vars, docker

Runs == [pc : {"idle", "login", "pull", "compare", "restart"},
         k : 1..Len(Order), old : Nat, attempt : Nat]

\* The container is up and behind its image, and no run that ended left it so.
Behind(c) ==
  containers[c] = "running" /\ running[c] # pulled[ImageOf[c]] /\ c \notin left

\* While the pull unit is at work no container runs, so the updater is alone to
\* change the image of a running one; what it noted before is not newer than what
\* the name stands for.
DockerInv ==
  /\ registry \in [ImageNames -> Nat]
  /\ pulled \in [ImageNames -> Nat]
  /\ updater \in [Docker!Units -> Runs]
  /\ containers \in [Containers -> {"starting", "running", "stopped"}]
  /\ running \in [Containers -> Nat]
  /\ \A i \in ImageNames : pulled[i] <= registry[i]
  /\ bootPull = "active" => updater["pull"].pc = "idle"
  /\ \A c \in Containers : containers[c] = "running" => bootPull = "active"
  /\ updater["update"].pc \in {"pull", "compare"} =>
       updater["update"].old <= pulled[Docker!Image("update")]
  /\ \A c \in Containers :
       Behind(c) => /\ updater["update"].pc = "compare"
                    /\ Docker!Container("update") = c
                    /\ Docker!NeedsRestart("update")

\* A run is at one of the containers.
LEMMA AtContainer ==
  ASSUME NEW r \in Runs
  PROVE  Order[r.k] \in Containers /\ ImageOf[Order[r.k]] \in ImageNames
PROOF
<1>1. Order \in Seq(Containers) /\ ImageOf \in [Containers -> ImageNames]
  BY DockerAssumption DEF Docker!OrderAssumption, Docker!ImageOfAssumption
<1>2. r.k \in 1..Len(Order)
  BY DEF Runs
<1> QED BY <1>1, <1>2

\* Where a run goes next.
LEMMA RunSteps ==
  ASSUME NEW r \in Runs, NEW was \in Nat
  PROVE  /\ [r EXCEPT !.pc = "pull", !.attempt = 1, !.old = was] \in Runs
         /\ [r EXCEPT !.pc = "compare"] \in Runs
         /\ [r EXCEPT !.pc = "restart"] \in Runs
         /\ [r EXCEPT !.attempt = r.attempt + 1] \in Runs
         /\ r.k < Len(Order) => [r EXCEPT !.pc = "login", !.k = r.k + 1] \in Runs
         /\ Docker!Idle \in Runs /\ Docker!Idle.pc = "idle"
         /\ Docker!Started \in Runs /\ Docker!Started.pc = "login"
PROOF
<1>1. Len(Order) \in Nat /\ r.k \in 1..Len(Order) /\ r.attempt \in Nat
  BY DockerAssumption DEF Docker!OrderAssumption, Runs
<1>2. 1 \in 1..Len(Order)
  BY <1>1
<1>3. Docker!Idle \in Runs /\ Docker!Idle.pc = "idle" /\ Docker!Started \in Runs
      /\ Docker!Started.pc = "login"
  BY <1>2 DEF Docker!Started, Docker!Idle, Docker!NoImage, Runs
<1>4. r.k < Len(Order) => r.k + 1 \in 1..Len(Order)
  BY <1>1
<1>5. [r EXCEPT !.pc = "pull", !.attempt = 1, !.old = was] \in Runs
  BY DEF Runs
<1>6. [r EXCEPT !.pc = "compare"] \in Runs /\ [r EXCEPT !.pc = "restart"] \in Runs
  BY DEF Runs
<1>7. [r EXCEPT !.attempt = r.attempt + 1] \in Runs
  BY <1>1 DEF Runs
<1>8. r.k < Len(Order) => [r EXCEPT !.pc = "login", !.k = r.k + 1] \in Runs
  BY <1>4 DEF Runs
<1> QED BY <1>3, <1>5, <1>6, <1>7, <1>8

\* What the updater is at changes with its run and the images only.
LEMMA UpdaterSame ==
  ASSUME updater'["update"] = updater["update"]
  PROVE  /\ Docker!Container("update")' = Docker!Container("update")
         /\ Docker!Image("update")' = Docker!Image("update")
         /\ pulled' = pulled => Docker!NeedsRestart("update")' = Docker!NeedsRestart("update")
PROOF
  BY DEF Docker!Container, Docker!Image, Docker!NeedsRestart

\* A step of one run that leaves images and containers alone, and no container
\* behind without noting it.
LEMMA RunMoves ==
  ASSUME DockerInv, NEW u \in Docker!Units, NEW r \in Runs,
         updater[u].pc # "idle", updater' = [updater EXCEPT ![u] = r],
         UNCHANGED <<registry, pulled, containers, running>>, left \subseteq left',
         u = "update" => /\ bootPull' = bootPull
                         /\ r.pc \in {"pull", "compare"} => r.old <= pulled[ImageOf[Order[r.k]]]
                         /\ \A c \in Containers : Behind(c) => c \in left',
         u = "pull" => bootPull' = bootPull \/ r.pc = "idle"
  PROVE  DockerInv'
PROOF
<1>1. /\ updater' \in [Docker!Units -> Runs] /\ updater'[u] = r
      /\ \A v \in Docker!Units \ {u} : updater'[v] = updater[v]
  BY DEF DockerInv
<1>2. CASE u = "update"
  <2>1. updater'["pull"] = updater["pull"] /\ updater'["update"] = r
    BY <1>1, <1>2 DEF Docker!Units
  <2>2. Docker!Image("update")' = ImageOf[Order[r.k]]
    BY <2>1 DEF Docker!Image, Docker!Container
  <2>3. \A c \in Containers : ~Behind(c)'
    BY <1>2 DEF Behind
  <2> QED BY <1>1, <1>2, <2>1, <2>2, <2>3 DEF DockerInv
<1>3. CASE u = "pull"
  <2>1. updater'["update"] = updater["update"] /\ updater'["pull"] = r
    BY <1>1, <1>3 DEF Docker!Units
  <2>2. \A c \in Containers : containers[c] # "running"
    BY <1>3 DEF DockerInv
  <2> QED BY <1>1, <1>3, <2>1, <2>2, UpdaterSame DEF DockerInv, Behind
<1> QED BY <1>2, <1>3 DEF Docker!Units

\* A pull never takes a newer image away, and a container it puts behind is the one
\* that the updater is at.
LEMMA PullKeepsDocker ==
  ASSUME DockerInv, \A c, d \in Containers : ImageOf[c] = ImageOf[d] => c = d,
         NEW u \in Docker!Units, Docker!Pull(u)
  PROVE  DockerInv'
PROOF
<1> DEFINE i == Docker!Image(u)
<1>1. updater[u] \in Runs /\ updater[u].pc = "pull" /\ i \in ImageNames
      /\ Docker!Container(u) \in Containers /\ i = ImageOf[Docker!Container(u)]
  BY AtContainer DEF DockerInv, Docker!Pull, Docker!At, Docker!Image, Docker!Container
<1>2. /\ pulled' = [pulled EXCEPT ![i] = registry[i]]
      /\ updater' = [updater EXCEPT ![u] = [updater[u] EXCEPT !.pc = "compare"]]
      /\ UNCHANGED <<registry, bootPull, containers, running, left>>
  BY DEF Docker!Pull, Docker!Goto
<1>3. /\ updater' \in [Docker!Units -> Runs]
      /\ updater'[u].pc = "compare" /\ updater'[u].k = updater[u].k /\ updater'[u].old = updater[u].old
      /\ \A v \in Docker!Units \ {u} : updater'[v] = updater[v]
  <2>1. [updater[u] EXCEPT !.pc = "compare"] \in Runs
    BY <1>1, RunSteps
  <2> QED BY <1>1, <1>2, <2>1 DEF DockerInv, Runs
<1>4. /\ pulled' \in [ImageNames -> Nat] /\ pulled'[i] = registry[i]
      /\ \A n \in ImageNames \ {i} : pulled'[n] = pulled[n]
      /\ \A n \in ImageNames : pulled[n] <= pulled'[n] /\ pulled'[n] <= registry[n]
  BY <1>1, <1>2 DEF DockerInv
<1>5. ImageOf \in [Containers -> ImageNames]
  BY DockerAssumption DEF Docker!ImageOfAssumption
<1>6. CASE u = "pull"
  <2>1. updater'["update"] = updater["update"] /\ updater'["pull"].pc # "idle"
    BY <1>3, <1>6 DEF Docker!Units
  <2>2. bootPull # "active" /\ \A c \in Containers : containers[c] # "running"
    BY <1>1, <1>6 DEF DockerInv
  <2>3. updater["update"] \in Runs /\ Docker!Image("update") \in ImageNames
    BY AtContainer DEF DockerInv, Docker!Units, Docker!Image, Docker!Container
  <2>4. updater'["update"].pc \in {"pull", "compare"} =>
          updater'["update"].old <= pulled'[Docker!Image("update")]
    <3> SUFFICES ASSUME updater["update"].pc \in {"pull", "compare"}
                 PROVE  updater["update"].old <= pulled'[Docker!Image("update")]
      BY <2>1
    <3>1. /\ updater["update"].old \in Nat
          /\ updater["update"].old <= pulled[Docker!Image("update")]
      BY <2>3 DEF DockerInv, Runs
    <3> QED BY <1>4, <2>3, <3>1 DEF DockerInv
  <2> QED BY <1>2, <1>3, <1>4, <2>1, <2>2, <2>4, UpdaterSame DEF DockerInv, Behind
<1>7. CASE u = "update"
  <2>1. updater'["pull"] = updater["pull"]
    BY <1>3, <1>7 DEF Docker!Units
  <2>2. /\ Docker!Container("update")' = Docker!Container("update")
        /\ Docker!Image("update")' = i
        /\ Docker!NeedsRestart("update")' <=> updater["update"].old # registry[i]
    BY <1>3, <1>4, <1>7 DEF Docker!Container, Docker!Image, Docker!NeedsRestart
  <2>3. updater["update"].old \in Nat /\ updater["update"].old <= pulled[i]
    BY <1>1, <1>7 DEF DockerInv, Runs
  <2>4. ASSUME NEW c \in Containers, Behind(c)'
        PROVE  Docker!Container("update") = c /\ updater["update"].old # registry[i]
    <3>1. /\ containers[c] = "running" /\ running[c] # pulled'[ImageOf[c]]
          /\ c \notin left /\ ~Behind(c)
      BY <1>1, <1>2, <1>7, <2>4 DEF Behind, DockerInv
    <3>2. ImageOf[c] \in ImageNames /\ pulled'[ImageOf[c]] # pulled[ImageOf[c]]
      BY <1>5, <3>1 DEF Behind
    <3>3. ImageOf[c] = i
      BY <1>4, <3>2
    <3>4. Docker!Container("update") = c
      BY <1>1, <1>7, <3>3
    <3> QED BY <1>1, <1>4, <2>3, <3>2, <3>3, <3>4 DEF DockerInv
  <2>5. updater'["update"].old <= pulled'[i]
    BY <1>1, <1>3, <1>4, <1>7, <2>3 DEF DockerInv
  <2> QED BY <1>2, <1>3, <1>4, <1>7, <2>1, <2>2, <2>4, <2>5 DEF DockerInv
<1> QED BY <1>6, <1>7 DEF Docker!Units

\* The loop of a run goes on or ends: the run is then at no pull.
LEMMA RunAdvances ==
  ASSUME DockerInv, NEW u \in Docker!Units,
         Docker!Advance(u) \/ (\E result \in {"active", "failed"} : Docker!Exit(u, result))
  PROVE  \E r \in Runs : /\ updater' = [updater EXCEPT ![u] = r]
                         /\ r.pc \in {"login", "idle"}
                         /\ u = "update" => bootPull' = bootPull
                         /\ u = "pull" => bootPull' = bootPull \/ r.pc = "idle"
PROOF
<1> DEFINE s == updater[u]
           n == [s EXCEPT !.pc = "login", !.k = s.k + 1]
<1>1. s \in Runs /\ Docker!Idle \in Runs /\ Docker!Idle.pc = "idle"
  BY RunSteps DEF DockerInv
<1>2. CASE \E result \in {"active", "failed"} : Docker!Exit(u, result)
  <2>1. /\ updater' = [updater EXCEPT ![u] = Docker!Idle]
        /\ u = "update" => bootPull' = bootPull
    BY <1>2 DEF Docker!Exit
  <2> QED BY <1>1, <2>1
<1>3. CASE Docker!Advance(u) /\ s.k < Len(Order)
  <2>1. n \in Runs /\ n.pc = "login"
    BY <1>1, <1>3, RunSteps DEF Runs
  <2>2. updater' = [updater EXCEPT ![u] = n] /\ bootPull' = bootPull
    BY <1>3 DEF Docker!Advance
  <2> HIDE DEF n
  <2> QED BY <2>1, <2>2
<1>4. CASE Docker!Advance(u) /\ ~(s.k < Len(Order))
  <2>1. Docker!Exit(u, "active")
    BY <1>4 DEF Docker!Advance
  <2> QED BY <1>2, <2>1
<1> QED BY <1>2, <1>3, <1>4

\* Only a run that compares can find a container behind, and it is the updater.
LEMMA NobodyBehind ==
  ASSUME DockerInv, updater["update"].pc # "compare" \/ ~Docker!NeedsRestart("update")
  PROVE  \A c \in Containers : ~Behind(c)
PROOF
  BY DEF DockerInv

\* The commands of the script, the pull aside.
LEMMA ScriptKeepsDocker ==
  ASSUME DockerInv, NEW u \in Docker!Units,
         \/ Docker!LoginAndReadOld(u) \/ Docker!PullFails(u) \/ Docker!ScriptFails(u)
         \/ Docker!SameImage(u) \/ Docker!RestartReturns(u)
  PROVE  DockerInv'
PROOF
<1> DEFINE s == updater[u]
<1>1. /\ s \in Runs /\ UNCHANGED <<registry, pulled, containers, running>> /\ s.pc # "idle"
      /\ left \subseteq left'
  BY DEF DockerInv, Docker!LoginAndReadOld, Docker!PullFails, Docker!ScriptFails,
         Docker!SameImage, Docker!RestartReturns, Docker!At
<1>2. /\ Docker!Image(u) = ImageOf[Order[s.k]] /\ Docker!Image(u) \in ImageNames
      /\ pulled[Docker!Image(u)] \in Nat
  BY <1>1, AtContainer DEF DockerInv, Docker!Image, Docker!Container
<1>3. CASE Docker!LoginAndReadOld(u)
  <2> DEFINE was == pulled[Docker!Image(u)]
             r   == [s EXCEPT !.pc = "pull", !.attempt = 1, !.old = was]
  <2>1. r \in Runs /\ r.old = was /\ r.k = s.k
    BY <1>1, <1>2, RunSteps DEF Runs
  <2>2. updater' = [updater EXCEPT ![u] = r] /\ bootPull' = bootPull
    BY <1>3 DEF Docker!LoginAndReadOld
  <2>3. u = "update" => \A c \in Containers : ~Behind(c)
    BY <1>3, NobodyBehind DEF Docker!LoginAndReadOld, Docker!At
  <2>4. r.old <= pulled[ImageOf[Order[r.k]]]
    BY <1>2, <2>1
  <2> HIDE DEF r
  <2> QED BY <1>1, <2>1, <2>2, <2>3, <2>4, RunMoves
<1>4. CASE Docker!PullFails(u) /\ Docker!MayRetry(u)
  <2> DEFINE r == [s EXCEPT !.attempt = s.attempt + 1]
  <2>1. r \in Runs /\ r.old = s.old /\ r.k = s.k
    BY <1>1, <1>2, RunSteps DEF Runs
  <2>2. updater' = [updater EXCEPT ![u] = r] /\ bootPull' = bootPull /\ s.pc = "pull"
    BY <1>4 DEF Docker!PullFails, Docker!At
  <2>3. u = "update" => \A c \in Containers : ~Behind(c)
    BY <2>2, NobodyBehind
  <2>4. u = "update" => r.old <= pulled[ImageOf[Order[r.k]]]
    BY <1>2, <2>1, <2>2 DEF DockerInv
  <2> HIDE DEF r
  <2> QED BY <1>1, <2>1, <2>2, <2>3, <2>4, RunMoves
<1>5. CASE \/ Docker!PullFails(u) /\ ~Docker!MayRetry(u)
           \/ Docker!ScriptFails(u) \/ Docker!SameImage(u) \/ Docker!RestartReturns(u)
  <2>1. Docker!Advance(u) \/ (\E result \in {"active", "failed"} : Docker!Exit(u, result))
    BY <1>5 DEF Docker!PullFails, Docker!ScriptFails, Docker!SameImage, Docker!RestartReturns
  <2>2. u = "update" => \A c \in Containers : Behind(c) => c \in left'
    <3>1. CASE Docker!ScriptFails(u)
      BY <3>1 DEF Docker!ScriptFails, DockerInv, Docker!At
    <3>2. CASE ~Docker!ScriptFails(u)
      BY <1>5, <3>2, NobodyBehind
         DEF Docker!PullFails, Docker!SameImage, Docker!RestartReturns, Docker!At
    <3> QED BY <3>1, <3>2
  <2>3. PICK r \in Runs : /\ updater' = [updater EXCEPT ![u] = r]
                          /\ r.pc \in {"login", "idle"}
                          /\ u = "update" => bootPull' = bootPull
                          /\ u = "pull" => bootPull' = bootPull \/ r.pc = "idle"
    BY <2>1, RunAdvances
  <2>4. r.pc \notin {"pull", "compare"}
    BY <2>3
  <2>5. /\ updater[u].pc # "idle" /\ UNCHANGED <<registry, pulled, containers, running>>
        /\ left \subseteq left'
    BY <1>1
  <2>6. /\ u = "update" => /\ bootPull' = bootPull
                           /\ r.pc \in {"pull", "compare"} => r.old <= pulled[ImageOf[Order[r.k]]]
                           /\ \A c \in Containers : Behind(c) => c \in left'
        /\ u = "pull" => bootPull' = bootPull \/ r.pc = "idle"
    BY <2>2, <2>3, <2>4
  <2>7. updater' = [updater EXCEPT ![u] = r]
    BY <2>3
  <2> HIDE DEF s
  <2> QED BY <2>5, <2>6, <2>7, RunMoves
<1> QED BY <1>3, <1>4, <1>5

\* The container the updater restarts is the only one that can be behind.
LEMMA RestartKeepsDocker ==
  ASSUME DockerInv, NEW u \in Docker!Units, Docker!RequestRestart(u)
  PROVE  DockerInv'
PROOF
<1>1. u = "update"
  BY DEF Docker!RequestRestart, Docker!NeedsRestart
<1> DEFINE s == updater["update"]
           r == [s EXCEPT !.pc = "restart"]
           d == Docker!Container("update")
<1>2. s \in Runs /\ d \in Containers /\ r \in Runs /\ r.pc = "restart"
      /\ Docker!Started \in Runs /\ Docker!Started.pc = "login"
  <2>1. s \in Runs /\ s.old \in Nat
    BY DEF DockerInv, Docker!Units, Runs
  <2>2. d \in Containers
    BY <2>1, AtContainer DEF Docker!Container
  <2>3. r \in Runs /\ Docker!Started \in Runs /\ Docker!Started.pc = "login"
    BY <2>1, RunSteps
  <2>4. r.pc = "restart"
    BY <2>1 DEF Runs
  <2> QED BY <2>1, <2>2, <2>3, <2>4
<1>3. /\ UNCHANGED <<registry, pulled>>
      /\ containers' = [containers EXCEPT ![d] = "starting"]
      /\ running' = [running EXCEPT ![d] = 0]
      /\ left' = left \ {d}
  BY <1>1 DEF Docker!RequestRestart, Docker!NoImage
<1>4. \/ bootPull' = bootPull /\ updater' = [updater EXCEPT !["update"] = r]
      \/ /\ bootPull = "failed" /\ bootPull' = "activating"
         /\ updater' = [updater EXCEPT !["update"] = r, !["pull"] = Docker!Started]
  BY <1>1 DEF Docker!RequestRestart, Docker!Goto
<1>5. /\ updater' \in [Docker!Units -> Runs] /\ updater'["update"].pc = "restart"
      /\ bootPull' = "active" => bootPull = "active" /\ updater'["pull"] = updater["pull"]
  <2> HIDE DEF r
  <2> QED BY <1>2, <1>4 DEF DockerInv, Docker!Units
<1>6. /\ containers' \in [Containers -> {"starting", "running", "stopped"}]
      /\ running' \in [Containers -> Nat]
      /\ \A c \in Containers : containers'[c] = "running" =>
           c # d /\ containers[c] = "running" /\ running'[c] = running[c]
  BY <1>2, <1>3 DEF DockerInv
<1>7. \A c \in Containers : containers[c] = "running" => bootPull = "active"
  BY DEF DockerInv
<1>8. \A c \in Containers : ~Behind(c)'
  BY <1>3, <1>6 DEF DockerInv, Behind
<1>9. \A c \in Containers : containers'[c] = "running" => bootPull' = "active"
  BY <1>4, <1>6, <1>7
<1> QED BY <1>3, <1>5, <1>6, <1>8, <1>9 DEF DockerInv

\* systemd and the registry.
LEMMA MachineKeepsDocker ==
  ASSUME DockerInv,
         \/ Docker!TimerFires \/ Docker!Reboot
         \/ \E c \in Containers : \/ Docker!ContainerStarts(c) \/ Docker!ContainerStartFails(c)
                                 \/ Docker!ContainerCrashes(c)
         \/ \E i \in ImageNames : Docker!Push(i)
  PROVE  DockerInv'
PROOF
<1>1. /\ Docker!Idle \in Runs /\ Docker!Idle.pc = "idle"
      /\ Docker!Started \in Runs /\ Docker!Started.pc = "login"
  <2>1. updater["update"] \in Runs
    BY DEF DockerInv, Docker!Units
  <2> QED BY <2>1, RunSteps
<1>2. CASE Docker!TimerFires
  <2>1. /\ updater' = [updater EXCEPT !["update"] = Docker!Started]
        /\ UNCHANGED <<registry, pulled, bootPull, containers, running, left>>
        /\ updater["update"].pc = "idle"
    BY <1>2 DEF Docker!TimerFires, Docker!At
  <2>2. /\ updater' \in [Docker!Units -> Runs] /\ updater'["update"].pc = "login"
        /\ updater'["pull"] = updater["pull"]
    BY <1>1, <2>1 DEF DockerInv, Docker!Units
  <2>3. \A c \in Containers : ~Behind(c)'
    BY <2>1, NobodyBehind DEF Behind
  <2> QED BY <2>1, <2>2, <2>3 DEF DockerInv
<1>3. CASE Docker!Reboot
  <2>1. /\ updater' = [u \in Docker!Units |-> IF u = "pull" THEN Docker!Started ELSE Docker!Idle]
        /\ UNCHANGED <<registry, pulled>> /\ bootPull' = "activating"
        /\ containers' = [c \in Containers |-> "starting"]
        /\ running' = [c \in Containers |-> 0]
    BY <1>3 DEF Docker!Reboot, Docker!BootScripts, Docker!NoImage
  <2>2. updater' \in [Docker!Units -> Runs] /\ updater'["update"].pc = "idle"
    BY <1>1, <2>1 DEF Docker!Units
  <2> QED BY <2>1, <2>2 DEF DockerInv, Behind
<1>4. CASE \E c \in Containers : Docker!ContainerStarts(c) \/ Docker!ContainerCrashes(c)
  <2>1. PICK c \in Containers : /\ containers'[c] = "running" /\ bootPull = "active"
                               /\ running' = [running EXCEPT ![c] = pulled[ImageOf[c]]]
                               /\ containers' \in [Containers -> {"starting", "running", "stopped"}]
                               /\ \A d \in Containers \ {c} : containers'[d] = containers[d]
                               /\ left' = left \ {c}
    BY <1>4 DEF Docker!ContainerStarts, Docker!ContainerCrashes, DockerInv
  <2>2. UNCHANGED <<registry, pulled, updater, bootPull>>
    BY <1>4 DEF Docker!ContainerStarts, Docker!ContainerCrashes
  <2>3. pulled[ImageOf[c]] \in Nat
    BY DockerAssumption DEF Docker!ImageOfAssumption, DockerInv
  <2>4. /\ running' \in [Containers -> Nat] /\ running'[c] = pulled[ImageOf[c]]
        /\ \A d \in Containers \ {c} : running'[d] = running[d]
    BY <2>1, <2>3 DEF DockerInv
  <2>5. \A d \in Containers : Behind(d)' => Behind(d)
    BY <2>1, <2>2, <2>4 DEF Behind
  <2> QED BY <2>1, <2>2, <2>4, <2>5, UpdaterSame DEF DockerInv
<1>5. CASE \E c \in Containers : Docker!ContainerStartFails(c)
  <2>1. /\ UNCHANGED <<registry, pulled, updater, bootPull, running, left>>
        /\ containers' \in [Containers -> {"starting", "running", "stopped"}]
        /\ \A d \in Containers : containers'[d] = "running" => containers[d] = "running"
    BY <1>5 DEF Docker!ContainerStartFails, DockerInv
  <2>2. \A d \in Containers : Behind(d)' => Behind(d)
    BY <2>1 DEF Behind
  <2> QED BY <2>1, <2>2, UpdaterSame DEF DockerInv
<1>6. CASE \E i \in ImageNames : Docker!Push(i)
  <2>1. UNCHANGED <<pulled, updater, bootPull, containers, running, left>>
    BY <1>6 DEF Docker!Push
  <2>2. /\ registry' \in [ImageNames -> Nat]
        /\ \A i \in ImageNames : pulled[i] <= registry'[i]
    BY <1>6 DEF Docker!Push, DockerInv
  <2> QED BY <2>1, <2>2, UpdaterSame DEF DockerInv, Behind
<1> QED BY <1>2, <1>3, <1>4, <1>5, <1>6

LEMMA DockerInductive ==
  ASSUME \A c, d \in Containers : ImageOf[c] = ImageOf[d] => c = d,
         DockerInv, [Next]_vars
  PROVE  DockerInv'
PROOF
<1>1. CASE UNCHANGED docker
  BY <1>1, UpdaterSame DEF docker, DockerInv, Behind
<1>2. CASE Docker!Next
  BY <1>2, PullKeepsDocker, ScriptKeepsDocker, RestartKeepsDocker, MachineKeepsDocker
     DEF Docker!Next, Docker!Step
<1> QED BY <1>1, <1>2, DockerSteps

LEMMA DockerInit == Docker!Init => DockerInv
PROOF
<1> SUFFICES ASSUME Docker!Init
             PROVE  DockerInv
  OBVIOUS
<1>1. 1 \in 1..Len(Order)
  BY DockerAssumption DEF Docker!OrderAssumption
<1>2. Docker!Idle \in Runs /\ Docker!Started \in Runs /\ Docker!Idle.pc = "idle"
      /\ Docker!Started.pc = "login"
  BY <1>1 DEF Docker!Started, Docker!Idle, Docker!NoImage, Runs
<1>3. updater \in [Docker!Units -> Runs] /\ updater["update"].pc = "idle"
  BY <1>2 DEF Docker!Init, Docker!BootScripts, Docker!Units
<1> QED BY <1>3 DEF Docker!Init, Docker!NoImage, DockerInv, Behind

\* When each container has an image of its own, one that is behind its image is
\* the one the updater is about to restart, or was left so by a run that ended
\* between its pull and the restart, however the boot's run of the script, failing
\* commands, kills, crashes and reboots come in between.
THEOREM BehindAreRestarted ==
  ASSUME \A c, d \in Containers : ImageOf[c] = ImageOf[d] => c = d
  PROVE  Spec => []OutdatedIsRestarted
PROOF
<1>1. Init => DockerInv
  BY DockerInit DEF Init
<1>2. DockerInv /\ [Next]_vars => DockerInv'
  BY DockerInductive
<1>3. DockerInv => OutdatedIsRestarted
  BY DEF DockerInv, Behind, OutdatedIsRestarted, Docker!OutdatedIsRestarted, Docker!At
<1> QED BY <1>1, <1>2, <1>3, PTL DEF Spec

-----------------------------------------------------------------------------
(* The types of all ten jobs.                                              *)

\* A step of team_login, or of another job.
LEMMA LoginSteps == [Next]_vars => Login!Next \/ UNCHANGED login
PROOF
  BY DEF Next, Only, LoginJob, AmiJob, SslJob, PlayJob, FireJob, AgentJob, PlanJob, CleanJob,
         DockerJob, EcsJob, vars, login

\* The state of a run of team_login.
LoginRuns ==
  [pc : {"idle", "list", "users", "id", "useradd", "group", "shell", "sweep", "remove"},
   todo : SUBSET Users, users : SUBSET Users, user : SUBSET Users, entries : SUBSET Users]

LEMMA LoginTypes ==
  /\ Login!Init => Login!TypeOK
  /\ Login!TypeOK /\ [Next]_vars => Login!TypeOK'
PROOF
<1>1. MaxChanges \in Nat /\ MaxDeaths \in Nat
  BY LoginAssumption DEF Login!BoundsAssumption
<1>2. Login!Init => Login!TypeOK
  BY <1>1 DEF Login!Init, Login!TypeOK, Login!Idle
<1> SUFFICES ASSUME Login!TypeOK, [Next]_vars
             PROVE  Login!TypeOK'
  BY <1>2
<1> USE DEF Login!TypeOK
<1>3. ASSUME NEW r \in Crons,
             \/ Login!CronFires(r) \/ Login!GetList(r) \/ Login!CheckAccount(r)
             \/ Login!UserAddFails(r) \/ Login!ReadKeyDir(r) \/ Login!Finish(r)
             \/ Login!RemoveKeysFails(r)
      PROVE  Login!TypeOK'
  BY <1>3 DEF Login!CronFires, Login!GetList, Login!CheckAccount, Login!UserAddFails, Login!ReadKeyDir,
              Login!Finish, Login!RemoveKeysFails, Login!Goto, Login!End, Login!NextUser, Login!Idle, Login!counters
<1>4. ASSUME NEW r \in Crons, Login!WriteKeys(r) \/ Login!LookAtFile(r) \/ Login!RemoveKeys(r)
      PROVE  Login!TypeOK'
  <2>1. /\ UNCHANGED <<team, account, stranded, changes, deaths>>
        /\ keyfiles' \subseteq Users
    BY <1>4 DEF Login!WriteKeys, Login!LookAtFile, Login!RemoveKeys, Login!counters
  <2>2. CASE Login!WriteKeys(r)
    <3>1. PICK u \in run[r].todo :
                 run' = [run EXCEPT ![r].pc = "id", ![r].user = {u},
                                    ![r].todo = @ \ {u}, ![r].users = @ \cup {u}]
      BY <2>2 DEF Login!WriteKeys
    <3>2. u \in Users
      OBVIOUS
    <3> QED BY <2>1, <3>1, <3>2
  <2>3. CASE Login!RemoveKeys(r)
    <3> DEFINE q == [run[r] EXCEPT !.pc = "sweep", !.user = {}]
    <3>1. run' = [run EXCEPT ![r] = q]
      BY <2>3 DEF Login!RemoveKeys
    <3>2. q \in LoginRuns
      BY DEF LoginRuns
    <3> HIDE DEF q
    <3>3. run' \in [Crons -> LoginRuns]
      BY <3>1, <3>2 DEF LoginRuns
    <3> QED BY <2>1, <3>3 DEF LoginRuns
  <2>4. CASE Login!LookAtFile(r)
    <3>1. PICK u \in Users :
            run' = [run EXCEPT ![r].entries = @ \ {u}, ![r].user = {u} \cap keyfiles,
                               ![r].pc = IF u \in keyfiles THEN "remove" ELSE "sweep"]
      BY <2>4 DEF Login!LookAtFile, Login!Revoked
    <3> DEFINE q == [run[r] EXCEPT !.entries = @ \ {u}, !.user = {u} \cap keyfiles,
                                   !.pc = IF u \in keyfiles THEN "remove" ELSE "sweep"]
    <3>2. run' = [run EXCEPT ![r] = q]
      BY <3>1
    <3>3. q \in LoginRuns
      BY DEF LoginRuns
    <3> HIDE DEF q
    <3>4. run' \in [Crons -> LoginRuns]
      BY <3>2, <3>3 DEF LoginRuns
    <3> QED BY <2>1, <3>4 DEF LoginRuns
  <2> QED BY <1>4, <2>2, <2>3, <2>4
<1>5. ASSUME NEW r \in Crons, Login!UserAdd(r) \/ Login!AllowSsh(r) \/ Login!SetShell(r)
      PROVE  Login!TypeOK'
  BY <1>5 DEF Login!UserAdd, Login!AllowSsh, Login!SetShell, Login!Goto, Login!NextUser, Login!counters
<1>6. ASSUME NEW r \in Crons, Login!Dies(r)
      PROVE  Login!TypeOK'
  BY <1>1, <1>6 DEF Login!Dies, Login!End, Login!Idle
<1>7. ASSUME NEW u \in Users, Login!TeamChanges(u)
      PROVE  Login!TypeOK'
  BY <1>1, <1>7 DEF Login!TeamChanges
<1>8. CASE UNCHANGED login
  BY <1>8 DEF login
<1> QED BY <1>3, <1>4, <1>5, <1>6, <1>7, <1>8, LoginSteps DEF Login!Next, Login!Step

LEMMA AmiTypes ==
  /\ Ami!Init => Ami!TypeOK
  /\ Ami!TypeOK /\ [Next]_vars => Ami!TypeOK'
PROOF
<1>1. MaxAge \in Nat /\ MaxBuildFailures \in Nat /\ Ami!LongGone \in Nat /\ Ami!Ages = 0..Ami!LongGone
      /\ 0 \in Ami!Ages
  BY AmiAssumption DEF Ami!BoundsAssumption, Ami!LongGone, Ami!Ages
<1>2. Ami!Init => Ami!TypeOK
  BY <1>1 DEF Ami!Init, Ami!TypeOK, Ami!Done
<1> SUFFICES ASSUME Ami!TypeOK, [Next]_vars
             PROVE  Ami!TypeOK'
  BY <1>2
<1> USE DEF Ami!TypeOK
<1>3. ASSUME NEW a \in Arches,
             \/ Ami!NothingToReport(a) \/ Ami!PostZulip(a) \/ Ami!DescribeImages(a)
             \/ Ami!Return(a) \/ Ami!Fails(a)
      PROVE  Ami!TypeOK'
  BY <1>1, <1>3 DEF Ami!NothingToReport, Ami!PostZulip, Ami!DescribeImages, Ami!Return, Ami!Fails, Ami!Goto,
                    Ami!Done, Ami!ImagesOf
<1>4. ASSUME NEW a \in Arches,
             Ami!PackerBuild(a) \/ Ami!Publish(a) \/ Ami!Deregister(a) \/ Ami!SeedByHand(a)
      PROVE  Ami!TypeOK'
  <2>1. /\ images' \subseteq Arches \X Ami!Ages /\ buildFailures' = buildFailures
        /\ dangling' \subseteq Arches
    BY <1>1, <1>4 DEF Ami!PackerBuild, Ami!Publish, Ami!Deregister, Ami!SeedByHand, Ami!Built
  <2>2. ssm' \in [Arches -> Ami!Ages \cup {None}]
    BY <1>1, <1>4 DEF Ami!PackerBuild, Ami!Publish, Ami!Deregister, Ami!SeedByHand
  <2>3. job' \in [Arches -> [pc : {"scheduled", "build", "describe", "update", "done"},
                             todo : SUBSET (Arches \X Ami!Ages)]]
    <3>1. \/ job' = job
          \/ job' = [job EXCEPT ![a].pc = "describe"]
          \/ \E i : job' = [job EXCEPT ![a].todo = @ \ {i}]
      BY <1>4 DEF Ami!PackerBuild, Ami!Publish, Ami!Deregister, Ami!SeedByHand, Ami!Goto
    <3> QED BY <3>1
  <2> QED BY <2>1, <2>2, <2>3
<1>5. CASE Ami!NextDay
  <2>1. ASSUME NEW age \in Ami!Ages \cup {None}
        PROVE  Ami!Older(age) \in Ami!Ages \cup {None} /\ (age \in Ami!Ages => Ami!Older(age) \in Ami!Ages)
    BY <1>1 DEF Ami!Older
  <2>2. images' \subseteq Arches \X Ami!Ages
    BY <1>5, <2>1 DEF Ami!NextDay
  <2>3. ssm' \in [Arches -> Ami!Ages \cup {None}]
    BY <1>5, <2>1 DEF Ami!NextDay
  <2> QED BY <1>5, <2>2, <2>3 DEF Ami!NextDay, Ami!Done
<1>6. CASE UNCHANGED ami
  BY <1>6 DEF ami
<1> QED BY <1>3, <1>4, <1>5, <1>6, AmiSteps DEF Ami!Next, Ami!Step

LEMMA SslTypes ==
  /\ Ssl!Init => Ssl!TypeOK
  /\ Ssl!TypeOK /\ [Next]_vars => Ssl!TypeOK'
PROOF
<1>1. Validity \in Nat /\ MaxBadWeeks \in Nat /\ Hooks \in Seq(Ssl!Services)
  BY SslAssumption DEF Ssl!WeeksAssumption, Ssl!HooksAssumption, Ssl!Services
<1>2. Ssl!Init => Ssl!TypeOK
  BY <1>1 DEF Ssl!Init, Ssl!TypeOK
<1> SUFFICES ASSUME Ssl!TypeOK, [Next]_vars
             PROVE  Ssl!TypeOK'
  BY <1>2
<1> USE DEF Ssl!TypeOK
<1>3. CASE Ssl!Start \/ Ssl!Renew \/ Ssl!NothingToRenew \/ Ssl!Succeed \/ Ssl!Fail
  BY <1>1, <1>3 DEF Ssl!Start, Ssl!Renew, Ssl!NothingToRenew, Ssl!Succeed, Ssl!Fail
<1>4. CASE Ssl!RunHook
  BY <1>1, <1>4 DEF Ssl!RunHook
<1>5. CASE Ssl!NextWeek
  <2>1. \A w \in 0..Validity : Ssl!Less(w) \in 0..Validity
    BY <1>1 DEF Ssl!Less
  <2> QED BY <1>1, <1>5, <2>1 DEF Ssl!NextWeek
<1>6. CASE UNCHANGED ssl
  BY <1>6 DEF ssl
<1> QED BY <1>3, <1>4, <1>5, <1>6, SslSteps DEF Ssl!Next

\* A step of the playground, or of another job.
LEMMA PlaySteps == [Next]_vars => Play!Next \/ UNCHANGED playground
PROOF
  BY DEF Next, Only, LoginJob, AmiJob, SslJob, PlayJob, FireJob, AgentJob, PlanJob, CleanJob,
         DockerJob, EcsJob, vars, playground

LEMMA PlayTypes ==
  /\ Play!Init => Play!TypeOK
  /\ Play!TypeOK /\ [Next]_vars => Play!TypeOK'
PROOF
<1>1. MaxVersion \in Nat \ {0} /\ MaxCuts \in Nat /\ Play!Versions = 0..MaxVersion /\ Play!Absent = 0
  BY PlayAssumption DEF Play!BoundsAssumption, Play!Versions, Play!Absent
<1>2. Play!Init => Play!TypeOK
  <2> SUFFICES ASSUME Play!Init
               PROVE  Play!TypeOK
    OBVIOUS
  <2>1. runnable \in BOOLEAN /\ gaveUp \in BOOLEAN /\ behind \in BOOLEAN
    BY Zenon DEF Play!Init
  <2>2. /\ bucket \in Play!Versions /\ binary \in Play!Versions /\ server \in Play!Versions
        /\ script \in [pc : {"idle", "hash"} \cup Play!Copying, previous : Play!Versions]
        /\ cuts \in 0..MaxCuts
    BY <1>1 DEF Play!Init, Play!Idle
  <2> QED BY <2>1, <2>2 DEF Play!TypeOK
<1> SUFFICES ASSUME Play!TypeOK, [Next]_vars
             PROVE  Play!TypeOK'
  BY <1>2
<1> USE DEF Play!TypeOK, Play!Copying
<1>3. CASE Play!Step
  <2>1. /\ bucket' = bucket /\ cuts' = cuts
        /\ binary' \in {binary, bucket} /\ runnable' \in BOOLEAN
        /\ server' \in {server, 0, binary} /\ gaveUp' \in BOOLEAN /\ behind' \in BOOLEAN
    BY <1>1, <1>3 DEF Play!Step, Play!TimerFires, Play!HashBinary, Play!Sync, Play!SyncExactly,
         Play!Chmod, Play!NoRestart, Play!Stop, Play!StartServer, Play!Download
  <2>2. \/ script' = [pc |-> "sync", previous |-> binary]
        \/ script' = [pc |-> "idle", previous |-> 0]
        \/ \E pc \in {"hash", "exact", "chmod", "compare", "start"} : script' = [script EXCEPT !.pc = pc]
    BY <1>1, <1>3 DEF Play!Step, Play!TimerFires, Play!HashBinary, Play!Sync, Play!SyncExactly,
         Play!Chmod, Play!NoRestart, Play!Stop, Play!StartServer, Play!Goto, Play!Idle
  <2>3. script' \in [pc : {"idle", "hash"} \cup Play!Copying, previous : Play!Versions]
    BY <1>1, <2>2
  <2> QED BY <1>1, <2>1, <2>3
<1>4. CASE Play!Cut
  <2>1. /\ bucket' = bucket /\ server' = server /\ gaveUp' = gaveUp /\ cuts' \in 0..MaxCuts
        /\ script' = [pc |-> "idle", previous |-> 0]
    BY <1>1, <1>4 DEF Play!Cut, Play!Idle
  <2>2. binary' \in {binary, bucket}
    BY <1>4 DEF Play!Cut, Play!Download
  <2>3. runnable' \in BOOLEAN
    BY <1>4 DEF Play!Cut, Play!Download
  <2>4. behind' \in BOOLEAN
    BY <1>4 DEF Play!Cut
  <2> QED BY <1>1, <2>1, <2>2, <2>3, <2>4
<1>5. CASE Play!ServerCrashes \/ Play!PublishBinary
  <2>1. server' \in {server, 0, binary} /\ bucket' \in Play!Versions
    BY <1>1, <1>5 DEF Play!ServerCrashes, Play!PublishBinary
  <2>2. gaveUp' \in BOOLEAN
    BY <1>5 DEF Play!ServerCrashes, Play!PublishBinary
  <2> QED BY <1>1, <1>5, <2>1, <2>2 DEF Play!ServerCrashes, Play!PublishBinary
<1>6. CASE UNCHANGED playground
  BY <1>6 DEF playground
<1>7. CASE Play!StopFails
  BY <1>1, <1>7 DEF Play!StopFails, Play!Goto
<1> QED BY <1>3, <1>4, <1>5, <1>6, <1>7, PlaySteps DEF Play!Next

LEMMA FireTypesOK == FireInv /\ Fire!TypeOK /\ [Next]_vars => Fire!TypeOK'
PROOF
<1> SUFFICES ASSUME FireInv, Fire!TypeOK, [Next]_vars
             PROVE  Fire!TypeOK'
  OBVIOUS
<1>1. MaxFaults \in Nat
  BY FireAssumption DEF Fire!BoundsAssumption
<1>2. FireInv'
  BY FireInductive
<1>3. /\ FireTypes' /\ (todo \in Seq(Commands))'
  BY <1>2 DEF FireInv, Follows
<1>4. /\ faults' \in 0..MaxFaults
      /\ service' \in {"inactive", "stopping", "starting", "active", "skipped", "failed"}
  <2>1. CASE Fire!Next
    BY <1>1, <2>1 DEF Fire!TypeOK, Fire!Next, Fire!Command, Fire!IgnoreFailure, Fire!EndAtFailure,
         Fire!SkipTable, Fire!Restart, Fire!Configure, Fire!Reboot, Fire!Fails, Fire!ByChance, Fire!Goto
  <2> QED BY <2>1, FireSteps DEF firewall, Fire!TypeOK
<1> QED BY <1>3, <1>4, ChainsAre DEF Fire!TypeOK, FireTypes, Commands

\* A step of a Crater agent, or of another job.
LEMMA AgentSteps == [Next]_vars => Agent!Next \/ UNCHANGED crater
PROOF
  BY DEF Next, Only, LoginJob, AmiJob, SslJob, PlayJob, FireJob, AgentJob, PlanJob, CleanJob,
         DockerJob, EcsJob, vars, crater

\* The images and counters of a Crater agent.
AgentNumbers ==
  /\ built \in Agent!Images /\ latest \in 1..built
  /\ local \subseteq Agent!Images /\ old \subseteq local
  /\ tag \in local \cup {Agent!Absent} /\ agent \in local \cup {Agent!Absent}
  /\ rollbacks \in 0..MaxRollbacks /\ accidents \in 0..MaxAccidents

LEMMA AgentTypes ==
  /\ Agent!Init => Agent!TypeOK
  /\ Agent!TypeOK /\ [Next]_vars => Agent!TypeOK'
PROOF
<1>1. MaxImages \in Nat \ {0} /\ MaxRollbacks \in Nat /\ MaxAccidents \in Nat
      /\ Agent!Images = 1..MaxImages /\ Agent!Absent = 0
  BY AgentAssumption DEF Agent!BoundsAssumption, Agent!Images, Agent!Absent
<1>2. Agent!Init => Agent!TypeOK
  <2> SUFFICES ASSUME Agent!Init
               PROVE  Agent!TypeOK
    OBVIOUS
  <2>1. unit \in BOOLEAN /\ missed \in BOOLEAN
    BY Zenon DEF Agent!Init
  <2>2. AgentNumbers /\ boot = "pull" /\ update = "none"
    BY <1>1 DEF Agent!Init, AgentNumbers
  <2> QED BY <2>1, <2>2 DEF Agent!TypeOK, AgentNumbers
<1> SUFFICES ASSUME Agent!TypeOK, [Next]_vars
             PROVE  Agent!TypeOK'
  BY <1>2
<1> USE DEF Agent!machine, Agent!registry
<1>3. unit' \in BOOLEAN /\ missed' \in BOOLEAN
  <2>1. unit \in BOOLEAN /\ missed \in BOOLEAN
    BY DEF Agent!TypeOK
  <2>2. unit' \in {unit, TRUE, FALSE} \cup BOOLEAN
    <3>1. CASE Agent!Next
      BY <3>1, Zenon
         DEF Agent!Next, Agent!StartUp, Agent!StartupPull, Agent!StartTimer, Agent!StartAgent, Agent!Heal,
             Agent!NewMachine, Agent!Update, Agent!ListImages, Agent!UpdatePull, Agent!Compare,
             Agent!StartupFails, Agent!UpdateFails, Agent!AgentExits, Agent!Preempt, Agent!Push,
             Agent!Rollback
    <3> QED BY <3>1, AgentSteps, Zenon DEF crater
  <2>3. missed' \in BOOLEAN
    <3>1. CASE Agent!Next
      BY <2>1, <3>1, Zenon
         DEF Agent!Next, Agent!StartUp, Agent!StartupPull, Agent!StartTimer, Agent!StartAgent, Agent!Heal,
             Agent!NewMachine, Agent!Update, Agent!ListImages, Agent!UpdatePull, Agent!Compare,
             Agent!StartupFails, Agent!UpdateFails, Agent!AgentExits, Agent!Preempt, Agent!Push,
             Agent!Rollback
    <3> QED BY <2>1, <3>1, AgentSteps, Zenon DEF crater
  <2> QED BY <2>1, <2>2, <2>3, Zenon
<1> USE DEF AgentNumbers
<1>4. AgentNumbers /\ boot \in {"pull", "timer", "agent", "failed", "done"}
      /\ update \in {"none", "idle", "pull", "compare"}
  BY DEF Agent!TypeOK
<1>5. /\ AgentNumbers'
      /\ boot' \in {"pull", "timer", "agent", "failed", "done"}
      /\ update' \in {"none", "idle", "pull", "compare"}
  <2>1. CASE Agent!StartupPull /\ Agent!StartUp
    BY <1>1, <1>4, <2>1 DEF Agent!StartupPull, Agent!StartUp, Agent!Pull
  <2>2. CASE Agent!StartTimer /\ Agent!StartUp
    BY <1>1, <1>4, <2>2 DEF Agent!StartTimer, Agent!StartUp
  <2>3. CASE Agent!StartAgent /\ Agent!StartUp
    BY <1>1, <1>4, <2>3 DEF Agent!StartAgent, Agent!StartUp
  <2>4. CASE Agent!Heal /\ Agent!StartUp
    BY <1>1, <1>4, <2>4 DEF Agent!Heal, Agent!StartUp, Agent!NewMachine
  <2>5. CASE Agent!ListImages /\ Agent!Update
    BY <1>1, <1>4, <2>5 DEF Agent!ListImages, Agent!Update
  <2>6. CASE Agent!UpdatePull /\ Agent!Update
    BY <1>1, <1>4, <2>6 DEF Agent!UpdatePull, Agent!Update, Agent!Pull
  <2>7. CASE Agent!Compare /\ Agent!Update
    BY <1>1, <1>4, <2>7 DEF Agent!Compare, Agent!Update
  <2>8. CASE Agent!StartupFails
    BY <1>1, <1>4, <2>8 DEF Agent!StartupFails, Agent!Accident
  <2>9. CASE Agent!UpdateFails
    BY <1>1, <1>4, <2>9 DEF Agent!UpdateFails, Agent!Accident
  <2>10. CASE Agent!AgentExits
    BY <1>1, <1>4, <2>10 DEF Agent!AgentExits, Agent!Accident
  <2>11. CASE Agent!Preempt
    BY <1>1, <1>4, <2>11 DEF Agent!Preempt, Agent!Accident, Agent!NewMachine
  <2>12. CASE Agent!Push
    BY <1>1, <1>4, <2>12 DEF Agent!Push
  <2>13. CASE Agent!Rollback
    BY <1>1, <1>4, <2>13 DEF Agent!Rollback
  <2>14. CASE UNCHANGED crater
    BY <1>4, <2>14 DEF crater
  <2> QED
    BY <2>1, <2>2, <2>3, <2>4, <2>5, <2>6, <2>7, <2>8, <2>9, <2>10, <2>11, <2>12, <2>13, <2>14, AgentSteps
       DEF Agent!Next, Agent!StartUp, Agent!Update
<1> QED BY <1>3, <1>5 DEF Agent!TypeOK

LEMMA CleanTypes ==
  /\ Clean!Init => Clean!TypeOK
  /\ Clean!TypeOK /\ [Next]_vars => Clean!TypeOK'
PROOF
<1>1. MaxUses \in Nat /\ \A h \in Homes : Clean!InHome(h) \subseteq Clean!Checkouts
  BY CleanAssumption DEF Clean!BoundsAssumption, Clean!InHome
<1>2. Clean!Init => Clean!TypeOK
  BY <1>1 DEF Clean!Init, Clean!TypeOK, Clean!NoSweep
<1> SUFFICES ASSUME Clean!TypeOK, [Next]_vars
             PROVE  Clean!TypeOK'
  BY <1>2
<1> USE DEF Clean!TypeOK
<1>3. CASE Clean!Sweep
  <2>1. /\ uses' = uses /\ recent' = recent /\ unreadable' = unreadable /\ locked' = locked
        /\ checkouts' \subseteq checkouts /\ touched' \subseteq touched
    BY <1>3 DEF Clean!Sweep, Clean!CronFires, Clean!FindCaches, Clean!HomeFails, Clean!Check,
         Clean!Checked, Clean!Delete, Clean!HomeDone, Clean!SweepDone, Clean!home
  <2>2. CASE Clean!CronFires \/ Clean!SweepDone \/ Clean!FindCaches
    <3>1. \/ sweep' = Clean!NoSweep
          \/ sweep' = [Clean!NoSweep EXCEPT !.pc = "homes", !.homes = Homes]
          \/ \E h \in Homes : sweep' = [pc |-> "check", homes |-> sweep.homes \ {h},
                                        found |-> checkouts \cap Clean!InHome(h), unused |-> {}]
      BY <2>2 DEF Clean!CronFires, Clean!SweepDone, Clean!FindCaches
    <3>2. CASE \E h \in Homes : sweep' = [pc |-> "check", homes |-> sweep.homes \ {h},
                                        found |-> checkouts \cap Clean!InHome(h), unused |-> {}]
      BY <2>1, <3>2
    <3>3. CASE sweep' = Clean!NoSweep
      BY <2>1, <3>3 DEF Clean!NoSweep
    <3>4. CASE sweep' = [Clean!NoSweep EXCEPT !.pc = "homes", !.homes = Homes]
      BY <2>1, <3>4 DEF Clean!NoSweep
    <3> QED BY <3>1, <3>2, <3>3, <3>4
  <2>3. CASE Clean!HomeFails \/ Clean!Checked \/ Clean!HomeDone
    BY <2>1, <2>3 DEF Clean!HomeFails, Clean!Checked, Clean!HomeDone
  <2>4. CASE Clean!Check
    <3>1. PICK c \in sweep.found :
            \/ sweep' = [sweep EXCEPT !.found = @ \ {c}]
            \/ sweep' = [sweep EXCEPT !.found = @ \ {c}, !.unused = @ \cup {c}]
      BY <2>4 DEF Clean!Check
    <3> QED BY <2>1, <3>1
  <2>5. CASE Clean!Delete
    <3>1. PICK c : sweep' = [sweep EXCEPT !.unused = @ \ {c}]
      BY <2>5 DEF Clean!Delete
    <3> QED BY <2>1, <3>1
  <2> QED BY <1>3, <2>2, <2>3, <2>4, <2>5 DEF Clean!Sweep
<1>4. ASSUME NEW c \in Clean!Checkouts, Clean!Use(c) \/ Clean!GrowsOld(c)
      PROVE  Clean!TypeOK'
  BY <1>1, <1>4 DEF Clean!Use, Clean!GrowsOld
<1>5. ASSUME NEW h \in Homes, Clean!ChangeModes(h)
      PROVE  Clean!TypeOK'
  BY <1>1, <1>5 DEF Clean!ChangeModes
<1>6. CASE UNCHANGED cleanup
  BY <1>6 DEF cleanup
<1> QED BY <1>3, <1>4, <1>5, <1>6, CleanSteps DEF Clean!Next

LEMMA PlanTypes ==
  /\ Plan!Init => Plan!TypeOK
  /\ PlanInv /\ Plan!TypeOK /\ [Next]_vars => Plan!TypeOK'
PROOF
<1>1. MaxDays \in Nat /\ MaxErrors \in Nat
  BY PlanAssumption DEF Plan!BoundsAssumption
<1>2. Plan!Init => Plan!TypeOK
  <2> SUFFICES ASSUME Plan!Init
               PROVE  Plan!TypeOK
    OBVIOUS
  <2>1. repository \in BOOLEAN
    BY Zenon DEF Plan!Init
  <2> QED BY <1>1, <2>1 DEF Plan!Init, Plan!Idle, Plan!TypeOK
<1> SUFFICES ASSUME PlanInv, Plan!TypeOK, [Next]_vars
             PROVE  Plan!TypeOK'
  BY <1>2
<1> USE DEF Plan!data
<1>3. CASE UNCHANGED backups
  BY <1>3 DEF backups, Plan!TypeOK
<1>4. CASE Plan!Next
  <2>1. PlanInv'
    BY PlanInductive
  <2>2. /\ dump' \in [Plans -> {"partial", "whole"}]
        /\ backup' \in [pc : {"idle", "status", "plans", "clear", "dump", "restic"},
                        todo : SUBSET Plans, plan : SUBSET Plans]
        /\ snapshots' \in [Plans -> SUBSET [day : Nat, whole : BOOLEAN]]
    BY <2>1 DEF PlanInv
  <2>3. repository' \in BOOLEAN
    BY <1>4, Zenon
       DEF Plan!TypeOK, Plan!Next, Plan!TimerFires, Plan!Status, Plan!StatusFails, Plan!NextPlan,
           Plan!ClearDump, Plan!PgDump, Plan!ResticBackup, Plan!PlanFails, Plan!Forget,
           Plan!Interrupted, Plan!LastDay, Plan!vars
  <2>4. /\ day' \in 0..MaxDays
        /\ errors' \in 0..MaxErrors
    BY <1>1, <1>4
       DEF Plan!TypeOK, Plan!Next, Plan!TimerFires, Plan!Status, Plan!StatusFails, Plan!NextPlan,
           Plan!ClearDump, Plan!PgDump, Plan!ResticBackup, Plan!PlanFails, Plan!Forget,
           Plan!Interrupted, Plan!LastDay, Plan!vars, Plan!Error
  <2>5. broken' \subseteq Plans
    BY <1>4
       DEF Plan!TypeOK, Plan!Next, Plan!TimerFires, Plan!Status, Plan!StatusFails, Plan!NextPlan,
           Plan!ClearDump, Plan!PgDump, Plan!ResticBackup, Plan!PlanFails, Plan!Forget,
           Plan!Interrupted, Plan!LastDay, Plan!vars
  <2>6. ASSUME NEW p \in Plans, NEW s \in snapshots'[p]
        PROVE  s.day \in 1..day' /\ s.whole \in BOOLEAN
    BY <2>1, <2>2 DEF PlanInv
  <2> QED BY <2>2, <2>3, <2>4, <2>5, <2>6 DEF Plan!TypeOK
<1> QED BY <1>3, <1>4, PlanSteps

\* The state of a run of the script.
ScriptRuns == [pc : {"idle", "login", "pull", "compare", "restart"},
               k : 1..Len(Order), old : 0..MaxTags, attempt : 1..MaxAttempts]

LEMMA OldIsRead ==
  ASSUME NEW r \in ScriptRuns, NEW o \in 0..MaxTags
  PROVE  [r EXCEPT !.pc = "pull", !.attempt = 1, !.old = o] \in ScriptRuns
PROOF
<1>1. 1 \in 1..MaxAttempts
  BY DockerAssumption DEF Docker!BoundsAssumption
<1>2. [r EXCEPT !.pc = "pull"] \in ScriptRuns
  BY DEF ScriptRuns
<1>3. \A q \in ScriptRuns : [q EXCEPT !.attempt = 1] \in ScriptRuns
  BY <1>1 DEF ScriptRuns
<1>4. \A q \in ScriptRuns : [q EXCEPT !.old = o] \in ScriptRuns
  BY DEF ScriptRuns
<1>5. [r EXCEPT !.pc = "pull", !.attempt = 1, !.old = o]
        = [[[r EXCEPT !.pc = "pull"] EXCEPT !.attempt = 1] EXCEPT !.old = o]
  OBVIOUS
<1> QED BY <1>2, <1>3, <1>4, <1>5

LEMMA DockerTypes ==
  /\ Docker!Init => Docker!TypeOK
  /\ Docker!TypeOK /\ [Next]_vars => Docker!TypeOK'
PROOF
<1>1. /\ MaxTags \in Nat \ {0} /\ MaxAttempts \in Nat \ {0} /\ MaxPullFailures \in Nat
      /\ MaxEnded \in Nat /\ MaxReboots \in Nat /\ Docker!Versions = 0..MaxTags /\ Docker!NoImage = 0
  BY DockerAssumption DEF Docker!BoundsAssumption, Docker!Versions, Docker!NoImage
<1>2. /\ Len(Order) \in Nat /\ Len(Order) >= 1
      /\ \A k \in 1..Len(Order) : Order[k] \in Containers
      /\ \A c \in Containers : ImageOf[c] \in ImageNames
  BY DockerAssumption DEF Docker!OrderAssumption, Docker!ImageOfAssumption
<1>3. Docker!Idle \in ScriptRuns /\ Docker!Started \in ScriptRuns
  BY <1>1, <1>2 DEF Docker!Idle, Docker!Started, ScriptRuns
<1>4. Docker!BootScripts \in [Docker!Units -> ScriptRuns]
  BY <1>3 DEF Docker!BootScripts
<1> DEFINE Types ==
             /\ registry \in [ImageNames -> 1..MaxTags]
             /\ pulled \in [ImageNames -> 0..MaxTags]
             /\ updater \in [Docker!Units -> ScriptRuns]
             /\ bootPull \in {"activating", "active", "failed"}
             /\ containers \in [Containers -> {"starting", "running", "stopped"}]
             /\ running \in [Containers -> 0..MaxTags]
             /\ left \subseteq Containers
             /\ pullFailures \in 0..MaxPullFailures
             /\ ended \in 0..MaxEnded
             /\ reboots \in 0..MaxReboots
<1>5. Docker!TypeOK <=> Types
  BY <1>1 DEF Docker!TypeOK, ScriptRuns
<1>6. Docker!TypeOK' <=> Types'
  BY <1>1 DEF Docker!TypeOK, ScriptRuns
<1>7. Docker!Init => Types
  BY <1>1, <1>4 DEF Docker!Init
<1> SUFFICES ASSUME Types, [Next]_vars
             PROVE  Types'
  BY <1>5, <1>6, <1>7
<1>8. ASSUME NEW u \in Docker!Units
      PROVE  /\ updater[u] \in ScriptRuns
             /\ Docker!Container(u) \in Containers /\ Docker!Image(u) \in ImageNames
  BY <1>2 DEF Docker!Container, Docker!Image, ScriptRuns
<1>9. ASSUME NEW u \in Docker!Units, NEW result \in {"active", "failed"}, Docker!Exit(u, result)
      PROVE  /\ updater' \in [Docker!Units -> ScriptRuns]
             /\ bootPull' \in {"activating", "active", "failed"}
  BY <1>3, <1>9 DEF Docker!Exit
<1>10. ASSUME NEW u \in Docker!Units, NEW pc \in {"compare", "restart"}, Docker!Goto(u, pc)
       PROVE  updater' \in [Docker!Units -> ScriptRuns]
  BY <1>10 DEF Docker!Goto, ScriptRuns
<1>11. ASSUME NEW u \in Docker!Units, Docker!Advance(u)
       PROVE  /\ updater' \in [Docker!Units -> ScriptRuns]
              /\ bootPull' \in {"activating", "active", "failed"}
  <2>1. CASE updater[u].k < Len(Order)
    <3>1. updater' = [updater EXCEPT ![u].pc = "login", ![u].k = @ + 1] /\ bootPull' = bootPull
      BY <1>11, <2>1 DEF Docker!Advance
    <3>2. updater[u].k + 1 \in 1..Len(Order)
      BY <1>2, <1>8, <2>1 DEF ScriptRuns
    <3> QED BY <3>1, <3>2 DEF ScriptRuns
  <2>2. CASE ~(updater[u].k < Len(Order))
    BY <1>9, <1>11, <2>2 DEF Docker!Advance
  <2> QED BY <2>1, <2>2
<1>12. ASSUME NEW u \in Docker!Units, Docker!LoginAndReadOld(u)
       PROVE  Types'
  <2>1. /\ updater' = [updater EXCEPT ![u].pc = "pull", ![u].attempt = 1, ![u].old = pulled[Docker!Image(u)]]
        /\ UNCHANGED <<registry, pulled, bootPull, containers, running, pullFailures, ended, reboots, left>>
    BY <1>12 DEF Docker!LoginAndReadOld
  <2>2. pulled[Docker!Image(u)] \in 0..MaxTags
    BY <1>8
  <2> DEFINE read == [updater[u] EXCEPT !.pc = "pull", !.attempt = 1, !.old = pulled[Docker!Image(u)]]
  <2>3. read \in ScriptRuns
    BY <1>8, <2>2, OldIsRead
  <2>4. updater' = [updater EXCEPT ![u] = read]
    BY <2>1
  <2> HIDE DEF read
  <2>5. updater' \in [Docker!Units -> ScriptRuns]
    BY <2>3, <2>4
  <2> QED BY <2>1, <2>5
<1>13. ASSUME NEW u \in Docker!Units, Docker!Pull(u)
       PROVE  Types'
  <2>1. pulled' \in [ImageNames -> 0..MaxTags]
    BY <1>8, <1>13 DEF Docker!Pull
  <2> QED BY <1>10, <1>13, <2>1 DEF Docker!Pull
<1>14. ASSUME NEW u \in Docker!Units, Docker!PullFails(u)
       PROVE  Types'
  <2>1. CASE Docker!MayRetry(u)
    <3>1. updater' = [updater EXCEPT ![u].attempt = @ + 1] /\ bootPull' = bootPull
      BY <1>14, <2>1 DEF Docker!PullFails
    <3>2. updater[u].attempt + 1 \in 1..MaxAttempts
      BY <1>1, <1>8, <2>1 DEF Docker!MayRetry, ScriptRuns
    <3>3. updater' \in [Docker!Units -> ScriptRuns]
      BY <3>1, <3>2 DEF ScriptRuns
    <3> QED BY <1>1, <1>14, <3>1, <3>3 DEF Docker!PullFails
  <2>2. CASE ~Docker!MayRetry(u)
    BY <1>1, <1>9, <1>14, <2>2 DEF Docker!PullFails
  <2> QED BY <2>1, <2>2
<1>15. ASSUME NEW u \in Docker!Units, Docker!SameImage(u)
       PROVE  Types'
  BY <1>11, <1>15 DEF Docker!SameImage
<1>16. ASSUME NEW u \in Docker!Units, Docker!RequestRestart(u)
       PROVE  Types'
  <2>1. containers' \in [Containers -> {"starting", "running", "stopped"}]
        /\ running' \in [Containers -> 0..MaxTags]
        /\ left' \subseteq Containers /\ UNCHANGED <<registry, pulled, pullFailures, ended, reboots>>
    BY <1>1, <1>8, <1>16 DEF Docker!RequestRestart
  <2>2. updater' \in [Docker!Units -> ScriptRuns] /\ bootPull' \in {"activating", "active", "failed"}
    <3>1. CASE bootPull = "failed"
      <4>1. /\ updater' = [updater EXCEPT ![u].pc = "restart", !["pull"] = Docker!Started]
            /\ bootPull' = "activating"
        BY <1>16, <3>1 DEF Docker!RequestRestart
      <4> HIDE DEF Types
      <4>2. [updater EXCEPT ![u].pc = "restart"] \in [Docker!Units -> ScriptRuns]
        BY DEF Types, ScriptRuns
      <4> QED BY <1>3, <4>1, <4>2
    <3>2. CASE bootPull # "failed"
      BY <1>10, <1>16, <3>2 DEF Docker!RequestRestart
    <3> QED BY <3>1, <3>2
  <2> QED BY <2>1, <2>2
<1>17. ASSUME NEW u \in Docker!Units, Docker!RestartReturns(u)
       PROVE  Types'
  BY <1>9, <1>11, <1>17 DEF Docker!RestartReturns
<1>18. CASE Docker!TimerFires \/ Docker!Reboot
  BY <1>1, <1>3, <1>4, <1>18 DEF Docker!TimerFires, Docker!Reboot
<1>19. ASSUME NEW c \in Containers,
              Docker!ContainerStarts(c) \/ Docker!ContainerStartFails(c) \/ Docker!ContainerCrashes(c)
       PROVE  Types'
  BY <1>2, <1>19 DEF Docker!ContainerStarts, Docker!ContainerStartFails, Docker!ContainerCrashes
<1>20. ASSUME NEW i \in ImageNames, Docker!Push(i)
       PROVE  Types'
  BY <1>1, <1>20 DEF Docker!Push
<1>21. CASE UNCHANGED docker
  BY <1>21 DEF docker
<1>22. ASSUME NEW u \in Docker!Units, Docker!ScriptFails(u)
       PROVE  Types'
  <2>1. ended' \in 0..MaxEnded /\ left' \subseteq Containers
    BY <1>1, <1>8, <1>22 DEF Docker!ScriptFails
  <2> QED BY <1>9, <1>22, <2>1 DEF Docker!ScriptFails
<1> HIDE DEF Types
<1> QED
  BY <1>12, <1>13, <1>14, <1>15, <1>16, <1>17, <1>18, <1>19, <1>20, <1>21, <1>22, DockerSteps
     DEF Docker!Next, Docker!Step

\* The workflows that have pushed, and those that are over.
Pushed == {j \in Jobs : ci[j].image # Ecs!NoImage}
Over   == {j \in Jobs : ci[j].pc \in {"done", "failed"}}

\* Every push and every deployment is one of a workflow's, which makes one of each.
EcsCounts ==
  /\ pushes = 1 + Cardinality(Pushed)
  /\ deployment.n <= Cardinality(Over)
  /\ \A j \in Jobs : ci[j].pc \in {"start", "push"} => ci[j].image = Ecs!NoImage

LEMMA JobsCounted ==
  /\ IsFiniteSet(Jobs)
  /\ \A S \in SUBSET Jobs : /\ IsFiniteSet(S) /\ Cardinality(S) \in Nat
                            /\ Cardinality(S) <= Cardinality(Jobs)
  /\ Ecs!Numbers = 0..(Cardinality(Jobs) + 1)
PROOF
<1>1. Ecs!IsFiniteSet(Jobs)
  BY EcsAssumption DEF Ecs!JobsAssumption
<1>2. IsFiniteSet(Jobs)
  BY <1>1, Zenon DEF Ecs!IsFiniteSet, IsFiniteSet
<1>3. Ecs!Cardinality(Jobs) = Cardinality(Jobs)
  BY Zenon DEF Ecs!Cardinality, Cardinality
<1> QED BY <1>2, <1>3, FS_Subset, FS_CardinalityType DEF Ecs!Numbers, Ecs!NoImage

\* One more workflow.
LEMMA OneMore ==
  ASSUME NEW S \in SUBSET Jobs, NEW T \in SUBSET Jobs, NEW j \in Jobs, T = S \cup {j}
  PROVE  Cardinality(T) = IF j \in S THEN Cardinality(S) ELSE Cardinality(S) + 1
PROOF
  BY JobsCounted, FS_AddElement

\* The types that the two counts do not bound.
EcsShapes ==
  /\ mover \in Ecs!Movers
  /\ previous \in [image : Ecs!Numbers, mover : Ecs!Movers]
  /\ ci \in [Jobs -> [pc : {"start", "push", "redeploy", "done", "failed"}, image : Ecs!Numbers]]
  /\ deployment \in [n : Nat, image : Ecs!Numbers]
  /\ tasks \in [Tasks -> [n : Nat, image : Ecs!Numbers]]
  /\ \A t \in Tasks : tasks[t].n <= deployment.n
  /\ rollback \in [pc : {"idle", "pick", "manifest", "retag", "services", "redeploy", "raised", "ended"},
                   listed : SUBSET Ecs!Numbers, tagged : Ecs!Numbers, image : Ecs!Numbers]
  /\ callErrors \in 0..MaxCallErrors

EcsTypeInv == EcsInv /\ EcsCounts /\ EcsShapes

LEMMA EcsTyped == EcsTypeInv => Ecs!TypeOK
PROOF
<1> SUFFICES ASSUME EcsTypeInv
             PROVE  Ecs!TypeOK
  OBVIOUS
<1> DEFINE N == Cardinality(Jobs)
<1>1. /\ Pushed \in SUBSET Jobs /\ Over \in SUBSET Jobs
      /\ Ecs!Numbers = 0..(N + 1) /\ N \in Nat
      /\ Cardinality(Pushed) \in 0..N /\ Cardinality(Over) \in 0..N
  BY JobsCounted DEF Pushed, Over
<1>2. Ecs!Cardinality(Jobs) = N
  BY Zenon DEF Ecs!Cardinality, Cardinality
<1> HIDE DEF N
<1>3. pushes \in 1..(N + 1) /\ deployment.n \in 0..N
  BY <1>1 DEF EcsTypeInv, EcsCounts, EcsShapes
<1>4. ecr \subseteq Ecs!Numbers /\ tagged \in ecr /\ pushes \in Ecs!Numbers
  BY <1>1, <1>3 DEF EcsTypeInv, EcsInv
<1>5. deployment \in [n : 0..N, image : Ecs!Numbers]
  BY <1>3 DEF EcsTypeInv, EcsShapes
<1>6. tasks \in [Tasks -> [n : 0..deployment.n, image : Ecs!Numbers]]
  BY <1>3 DEF EcsTypeInv, EcsShapes
<1> QED BY <1>2, <1>4, <1>5, <1>6 DEF Ecs!TypeOK, EcsTypeInv, EcsShapes

LEMMA EcsTypesInit == Ecs!Init => EcsTypeInv
PROOF
<1> SUFFICES ASSUME Ecs!Init
             PROVE  EcsTypeInv
  OBVIOUS
<1>1. EcsInv
  BY DEF Ecs!Init, Ecs!Initial, Ecs!NoImage, EcsInv
<1>2. Pushed = {} /\ Over = {} /\ Cardinality({}) = 0
  BY FS_EmptySet DEF Ecs!Init, Pushed, Over
<1>3. EcsCounts
  BY <1>2 DEF Ecs!Init, Ecs!Initial, EcsCounts
<1>4. 0 \in Ecs!Numbers /\ 1 \in Ecs!Numbers
  BY JobsCounted
<1>5. MaxCallErrors \in Nat
  BY EcsAssumption DEF Ecs!BoundsAssumption
<1>6. EcsShapes
  BY <1>4, <1>5 DEF Ecs!Init, Ecs!Initial, Ecs!NoImage, Ecs!Movers, EcsShapes
<1> QED BY <1>1, <1>3, <1>6 DEF EcsTypeInv

\* A step of a workflow: what it pushes is new, and it deploys when it ends.
LEMMA WorkflowMoves ==
  ASSUME EcsTypeInv, NEW j \in Jobs, Ecs!Upload(j) \/ Ecs!Fails(j)
  PROVE  /\ \E pc \in {"push", "redeploy", "done", "failed"} :
              \/ /\ ci' = [ci EXCEPT ![j].pc = pc]
                 /\ UNCHANGED <<mover, previous, pushes>>
                 /\ pc = "push" => ci[j].image = Ecs!NoImage
                 /\ \/ deployment' = deployment
                    \/ /\ deployment' = [n |-> deployment.n + 1, image |-> tagged]
                       /\ ci[j].pc = "redeploy" /\ pc \in {"done", "failed"}
              \/ /\ ci' = [ci EXCEPT ![j].pc = pc, ![j].image = pushes + 1]
                 /\ pushes' = pushes + 1 /\ mover' = j
                 /\ previous' = [image |-> tagged, mover |-> mover]
                 /\ deployment' = deployment
                 /\ ci[j].pc = "push" /\ pc \in {"redeploy", "failed"}
         /\ ci[j].pc \in {"start", "push", "redeploy"}
         /\ UNCHANGED <<tasks, rollback>>
         /\ callErrors' \in 0..MaxCallErrors
PROOF
<1>1. MaxCallErrors \in Nat /\ callErrors \in 0..MaxCallErrors
  BY EcsAssumption DEF Ecs!BoundsAssumption, EcsTypeInv, EcsShapes
<1>2. ci[j].pc = "start" => ci[j].image = Ecs!NoImage
  BY DEF EcsTypeInv, EcsCounts
<1>3. CASE Ecs!Prepare(j)
  BY <1>1, <1>2, <1>3 DEF Ecs!Prepare, Ecs!At, Ecs!SameTag, Ecs!SameDeployment
<1>4. CASE Ecs!Push(j)
  BY <1>1, <1>4 DEF Ecs!Push, Ecs!PushImage, Ecs!Tag, Ecs!At, Ecs!SameDeployment
<1>5. CASE Ecs!Redeploy(j)
  BY <1>1, <1>5 DEF Ecs!Redeploy, Ecs!At, Ecs!SameTag, Ecs!SameDeployment, Ecs!ForceDeployment
<1>6. CASE Ecs!Fails(j)
  BY <1>1, <1>6 DEF Ecs!Fails, Ecs!PushImage, Ecs!Tag, Ecs!At, Ecs!SameTag, Ecs!SameDeployment,
                    Ecs!ForceDeployment
<1> QED BY <1>3, <1>4, <1>5, <1>6 DEF Ecs!Upload

LEMMA WorkflowKeepsTypes ==
  ASSUME EcsTypeInv, EcsInv', NEW j \in Jobs, Ecs!Upload(j) \/ Ecs!Fails(j)
  PROVE  EcsTypeInv'
PROOF
<1>1. PICK pc \in {"push", "redeploy", "done", "failed"} :
              \/ /\ ci' = [ci EXCEPT ![j].pc = pc]
                 /\ UNCHANGED <<mover, previous, pushes>>
                 /\ pc = "push" => ci[j].image = Ecs!NoImage
                 /\ \/ deployment' = deployment
                    \/ /\ deployment' = [n |-> deployment.n + 1, image |-> tagged]
                       /\ ci[j].pc = "redeploy" /\ pc \in {"done", "failed"}
              \/ /\ ci' = [ci EXCEPT ![j].pc = pc, ![j].image = pushes + 1]
                 /\ pushes' = pushes + 1 /\ mover' = j
                 /\ previous' = [image |-> tagged, mover |-> mover]
                 /\ deployment' = deployment
                 /\ ci[j].pc = "push" /\ pc \in {"redeploy", "failed"}
  BY WorkflowMoves
<1>2. /\ UNCHANGED <<tasks, rollback>> /\ callErrors' \in 0..MaxCallErrors
      /\ ci[j].pc \in {"start", "push", "redeploy"}
  BY WorkflowMoves
<1> DEFINE N == Cardinality(Jobs)
<1>3. /\ Pushed \in SUBSET Jobs /\ Over \in SUBSET Jobs /\ Pushed' \in SUBSET Jobs /\ Over' \in SUBSET Jobs
      /\ Ecs!Numbers = 0..(N + 1) /\ N \in Nat
      /\ Cardinality(Pushed) \in 0..N /\ Cardinality(Over) \in 0..N
      /\ Cardinality(Pushed') \in 0..N /\ Cardinality(Over') \in 0..N
  BY JobsCounted DEF Pushed, Over
<1> HIDE DEF N
<1>4. \A i \in Jobs \ {j} : ci'[i] = ci[i]
  BY <1>1 DEF EcsTypeInv, EcsShapes
<1>5. ci'[j].pc = pc
  BY <1>1 DEF EcsTypeInv, EcsShapes
<1>6. Cardinality(Over') = IF pc \in {"done", "failed"} THEN Cardinality(Over) + 1 ELSE Cardinality(Over)
  <2>1. j \notin Over
    BY <1>2 DEF Over
  <2>2. Over' = IF pc \in {"done", "failed"} THEN Over \cup {j} ELSE Over
    BY <1>4, <1>5, <2>1 DEF Over
  <2> QED BY <1>3, <2>1, <2>2, OneMore
<1>7. tagged \in Ecs!Numbers /\ pushes = 1 + Cardinality(Pushed) /\ deployment.n \in Nat
  BY <1>3 DEF EcsTypeInv, EcsInv, EcsCounts, EcsShapes
<1>8. ASSUME ci' = [ci EXCEPT ![j].pc = pc], UNCHANGED <<mover, previous, pushes>>,
             pc = "push" => ci[j].image = Ecs!NoImage,
             \/ deployment' = deployment
             \/ /\ deployment' = [n |-> deployment.n + 1, image |-> tagged]
                /\ pc \in {"done", "failed"}
      PROVE  EcsTypeInv'
  <2>1. \A i \in Jobs : ci'[i].image = ci[i].image
    BY <1>8 DEF EcsTypeInv, EcsShapes
  <2>2. Pushed' = Pushed
    BY <2>1 DEF Pushed
  <2>3. deployment'.n <= Cardinality(Over')
    BY <1>3, <1>6, <1>7, <1>8 DEF EcsTypeInv, EcsCounts
  <2>4. EcsCounts'
    BY <1>4, <1>5, <1>7, <1>8, <2>1, <2>2, <2>3 DEF EcsTypeInv, EcsCounts
  <2>5. deployment' \in [n : Nat, image : Ecs!Numbers] /\ deployment'.n >= deployment.n
    BY <1>7, <1>8 DEF EcsTypeInv, EcsShapes
  <2>6. EcsShapes'
    BY <1>2, <1>7, <1>8, <2>5 DEF EcsTypeInv, EcsShapes
  <2> QED BY <2>4, <2>6 DEF EcsTypeInv
<1>9. ASSUME ci' = [ci EXCEPT ![j].pc = pc, ![j].image = pushes + 1],
             pushes' = pushes + 1, mover' = j, previous' = [image |-> tagged, mover |-> mover],
             deployment' = deployment, ci[j].pc = "push", pc \in {"redeploy", "failed"}
      PROVE  EcsTypeInv'
  <2>1. ci'[j].image = pushes + 1 /\ ci[j].image = Ecs!NoImage
    BY <1>9 DEF EcsTypeInv, EcsShapes, EcsCounts
  <2>2. j \notin Pushed /\ Pushed' = Pushed \cup {j}
    BY <1>3, <1>4, <1>7, <2>1 DEF Pushed, Ecs!NoImage
  <2>3. Cardinality(Pushed') = Cardinality(Pushed) + 1
    BY <1>3, <2>2, OneMore
  <2>4. pushes + 1 \in Ecs!Numbers
    BY <1>3, <1>7, <2>3
  <2>5. EcsCounts'
    BY <1>3, <1>4, <1>5, <1>6, <1>7, <1>9, <2>3 DEF EcsTypeInv, EcsCounts, EcsShapes
  <2>6. mover' \in Ecs!Movers /\ previous' \in [image : Ecs!Numbers, mover : Ecs!Movers]
    BY <1>7, <1>9 DEF EcsTypeInv, EcsShapes, Ecs!Movers
  <2>7. ci' \in [Jobs -> [pc : {"start", "push", "redeploy", "done", "failed"}, image : Ecs!Numbers]]
    BY <1>9, <2>4 DEF EcsTypeInv, EcsShapes
  <2>8. EcsShapes'
    BY <1>2, <1>9, <2>6, <2>7 DEF EcsTypeInv, EcsShapes
  <2> QED BY <2>5, <2>8 DEF EcsTypeInv
<1> QED BY <1>1, <1>8, <1>9

LEMMA EcsTypesKept == EcsTypeInv /\ [Next]_vars => EcsTypeInv'
PROOF
<1> SUFFICES ASSUME EcsTypeInv, [Next]_vars
             PROVE  EcsTypeInv'
  OBVIOUS
<1>1. EcsInv'
  BY EcsInductive DEF EcsTypeInv
<1>2. tagged \in Ecs!Numbers /\ ecr \subseteq Ecs!Numbers
  BY EcsTyped DEF Ecs!TypeOK
<1>3. ASSUME UNCHANGED <<pushes, ci, deployment>> PROVE EcsCounts'
  BY <1>3 DEF EcsTypeInv, EcsCounts, Pushed, Over
<1>4. CASE Ecs!Rollback
  <2>1. UNCHANGED <<pushes, ci, deployment, tasks>>
    BY <1>4 DEF Ecs!Rollback, Ecs!ListImages, Ecs!PickNothing, Ecs!Pick, Ecs!GetManifest, Ecs!Retag,
         Ecs!FindService, Ecs!ForceRedeploy, Ecs!RollbackFails, Ecs!RollbackStep, Ecs!SameDeployment
  <2>2. \/ UNCHANGED <<mover, previous>>
        \/ mover' = Ecs!Operator /\ previous' = [image |-> tagged, mover |-> mover]
    BY <1>4, Zenon
       DEF Ecs!Rollback, Ecs!ListImages, Ecs!PickNothing, Ecs!Pick, Ecs!GetManifest, Ecs!Retag,
         Ecs!FindService, Ecs!ForceRedeploy, Ecs!RollbackFails, Ecs!SameTag, Ecs!Tag
  <2>3. callErrors' \in 0..MaxCallErrors
    <3>1. callErrors' = callErrors \/ (callErrors < MaxCallErrors /\ callErrors' = callErrors + 1)
      BY <1>4, Zenon
         DEF Ecs!Rollback, Ecs!ListImages, Ecs!PickNothing, Ecs!Pick, Ecs!GetManifest, Ecs!Retag,
           Ecs!FindService, Ecs!ForceRedeploy, Ecs!RollbackFails
    <3>2. callErrors \in 0..MaxCallErrors /\ MaxCallErrors \in Nat
      BY EcsAssumption DEF EcsTypeInv, EcsShapes, Ecs!BoundsAssumption
    <3> QED BY <3>1, <3>2
  <2>4. \/ rollback' = [rollback EXCEPT !.pc = "pick", !.listed = ecr, !.tagged = tagged]
        \/ \E i \in rollback.listed : rollback' = [rollback EXCEPT !.pc = "manifest", !.image = i]
        \/ \E pc \in {"ended", "retag", "services", "redeploy", "raised"} :
             rollback' = [rollback EXCEPT !.pc = pc]
    <3>1. CASE Ecs!ListImages \/ Ecs!Pick
      BY <3>1 DEF Ecs!ListImages, Ecs!Pick
    <3>2. CASE Ecs!PickNothing \/ Ecs!FindService \/ Ecs!ForceRedeploy \/ Ecs!RollbackFails
      BY <3>2 DEF Ecs!PickNothing, Ecs!FindService, Ecs!ForceRedeploy, Ecs!RollbackFails, Ecs!RollbackStep
    <3>3. CASE Ecs!GetManifest \/ Ecs!Retag
      BY <3>3 DEF Ecs!GetManifest, Ecs!Retag, Ecs!RollbackStep
    <3> QED BY <1>4, <3>1, <3>2, <3>3 DEF Ecs!Rollback
  <2>5. rollback' \in [pc : {"idle", "pick", "manifest", "retag", "services", "redeploy", "raised", "ended"},
                       listed : SUBSET Ecs!Numbers, tagged : Ecs!Numbers, image : Ecs!Numbers]
    BY <1>2, <2>4 DEF EcsTypeInv, EcsShapes
  <2>6. EcsShapes'
    BY <1>2, <2>1, <2>2, <2>3, <2>5 DEF EcsTypeInv, EcsShapes, Ecs!Movers
  <2> QED BY <1>1, <1>3, <2>1, <2>6 DEF EcsTypeInv
<1>5. CASE Ecs!Expire
  <2>1. UNCHANGED <<mover, previous, pushes, ci, deployment, tasks, rollback, callErrors>>
    BY <1>5 DEF Ecs!Expire
  <2> QED BY <1>1, <1>3, <2>1 DEF EcsTypeInv, EcsShapes
<1>6. ASSUME NEW t \in Tasks, Ecs!ReplaceTask(t) \/ Ecs!RestartTask(t)
      PROVE  EcsTypeInv'
  <2>1. PICK i \in Ecs!Numbers : tasks' = [tasks EXCEPT ![t] = [n |-> deployment.n, image |-> i]]
    BY <1>2, <1>6 DEF Ecs!ReplaceTask, Ecs!RestartTask, Ecs!StartTask, Ecs!Pullable
  <2>2. UNCHANGED <<mover, previous, pushes, ci, deployment, rollback, callErrors>>
    BY <1>6 DEF Ecs!ReplaceTask, Ecs!RestartTask, Ecs!StartTask
  <2>3. EcsShapes'
    BY <2>1, <2>2 DEF EcsTypeInv, EcsShapes
  <2> QED BY <1>1, <1>3, <2>2, <2>3 DEF EcsTypeInv
<1>7. CASE UNCHANGED ecs
  BY <1>1, <1>3, <1>7 DEF ecs, EcsTypeInv, EcsShapes
<1> QED BY <1>1, <1>4, <1>5, <1>6, <1>7, EcsSteps, WorkflowKeepsTypes DEF Ecs!Next

\* The types of every job's variables, with the invariants that three of them need:
\* the firewall's lists of commands, the days of the snapshots, and the counts of
\* pushes and deployments.
TypeInv ==
  /\ which \in {"login", "ami", "ssl", "playground", "firewall", "crater", "backups", "cleanup",
               "docker", "ecs"}
  /\ Login!TypeOK /\ Ami!TypeOK /\ Ssl!TypeOK /\ Play!TypeOK
  /\ FireInv /\ Fire!TypeOK
  /\ Agent!TypeOK
  /\ PlanInv /\ Plan!TypeOK
  /\ Clean!TypeOK /\ Docker!TypeOK
  /\ EcsTypeInv

LEMMA FireTypesInit == Fire!Init => Fire!TypeOK
PROOF
<1> SUFFICES ASSUME Fire!Init
             PROVE  Fire!TypeOK
  OBVIOUS
<1>1. FireInv
  BY FireInit
<1>2. MaxFaults \in Nat
  BY FireAssumption DEF Fire!BoundsAssumption
<1>3. service = "inactive" /\ faults = 0
  BY DEF Fire!Init
<1> QED BY <1>1, <1>2, <1>3, ChainsAre DEF Fire!TypeOK, FireInv, Follows, FireTypes, Commands

\* The variables of all ten jobs keep their types, whatever the number of users,
\* machines, images, plans, homes, containers and workflows, and however often
\* something fails: among others no push is numbered beyond one per workflow.
THEOREM TypeCorrect == Spec => []TypeOK
PROOF
<1>1. Init => TypeInv
  BY LoginTypes, AmiTypes, SslTypes, PlayTypes, FireInit, FireTypesInit, AgentTypes, PlanTypes, PlanInit,
     CleanTypes, DockerTypes, EcsTypesInit
     DEF Init, TypeInv
<1>2. TypeInv /\ [Next]_vars => TypeInv'
  <2>1. [Next]_vars => which' = which
    BY DEF Next, Only, LoginJob, AmiJob, SslJob, PlayJob, FireJob, AgentJob, PlanJob, CleanJob,
           DockerJob, EcsJob, vars
  <2> QED BY <2>1, LoginTypes, AmiTypes, SslTypes, PlayTypes, FireInductive, FireTypesOK, AgentTypes,
             PlanInductive, PlanTypes, CleanTypes, DockerTypes, EcsTypesKept
          DEF TypeInv
<1>3. TypeInv => TypeOK
  BY EcsTyped, Zenon DEF TypeInv, TypeOK
<1> QED BY <1>1, <1>2, <1>3, PTL DEF Spec

=============================================================================
