----------------------------- MODULE BackupPlans -----------------------------
(***************************************************************************)
(* The `backup` role: every day backup.py takes a restic snapshot for each *)
(* plan in /etc/backup.d and then prunes old snapshots.  Some plans dump a *)
(* database into a directory first (the `postgresql` role).                *)
(***************************************************************************)
EXTENDS Naturals, FiniteSetsExt

CONSTANTS
  Plans,      \* the plans
  Dumped,     \* those with a before-script
  KeepDaily,  \* restic forget --keep-daily
  MaxDays, MaxFaults

\* What the constants have to be.
KeepDailyAssumption == KeepDaily \in Nat \ {0}
BoundsAssumption    == MaxDays \in Nat /\ MaxFaults \in Nat

VARIABLES
  day,
  repository,  \* whether the restic repository was initialized
  snapshots,   \* per plan, the snapshots in it: their day, and if the data was whole
  dump,        \* what is in the plan's directory
  backup,      \* the run of backup.py in progress
  broken,      \* history: plans of which a command failed in this run
  errors

vars == <<day, repository, snapshots, dump, backup, broken, errors>>
data == <<repository, snapshots, dump>>

At(pc) == backup.pc = pc
Idle   == [pc |-> "idle", todo |-> {}, plan |-> {}]
Goto(pc) == backup' = [backup EXCEPT !.pc = pc]

Current == CHOOSE p \in Plans : backup.plan = {p}

Error == errors < MaxFaults /\ errors' = errors + 1

\* restic keeps one snapshot a day for the last KeepDaily days that have one.
Kept(S) == {s \in S : Cardinality({t \in S : t.day > s.day}) < KeepDaily}

-----------------------------------------------------------------------------

TimerFires ==
  /\ At("idle")
  /\ day < MaxDays /\ day' = day + 1
  /\ broken' = {}
  /\ backup' = [pc |-> "status", todo |-> Plans, plan |-> {}]
  /\ UNCHANGED <<data, errors>>

\* restic snapshots, and restic init if that failed.
Status ==
  /\ At("status")
  /\ repository' = TRUE
  /\ Goto("plans")
  /\ UNCHANGED <<day, snapshots, dump, broken, errors>>

\* Whatever the reason, a repository that is there cannot be initialized again;
\* and no plan is executed without one.
StatusFails ==
  /\ At("status") /\ Error
  /\ backup' = Idle
  /\ broken' = Plans
  /\ UNCHANGED <<day, data>>

NextPlan ==
  /\ At("plans")
  /\ \E p \in backup.todo :
       backup' = [pc |-> IF p \in Dumped THEN "clear" ELSE "restic",
                  todo |-> backup.todo \ {p}, plan |-> {p}]
  /\ UNCHANGED <<day, data, broken, errors>>

\* rm -rf and mkdir
ClearDump ==
  /\ At("clear")
  /\ dump' = [dump EXCEPT ![Current] = "partial"]
  /\ Goto("dump")
  /\ UNCHANGED <<day, repository, snapshots, broken, errors>>

PgDump ==
  /\ At("dump")
  /\ dump' = [dump EXCEPT ![Current] = "whole"]
  /\ Goto("restic")
  /\ UNCHANGED <<day, repository, snapshots, broken, errors>>

ResticBackup ==
  /\ At("restic")
  /\ snapshots' = [snapshots EXCEPT ![Current] =
                     @ \cup {[day |-> day, whole |-> dump[Current] = "whole"]}]
  /\ Goto("plans")
  /\ UNCHANGED <<day, repository, dump, broken, errors>>

\* Mutant: without pipefail, gzip's success hides the failure of pg_dump.
BugHiddenFailure ==
  /\ backup.pc \in {"clear", "dump", "restic"} /\ Error
  /\ broken' = broken \cup backup.plan
  /\ Goto(IF At("dump") THEN "restic" ELSE "plans")
  /\ UNCHANGED <<day, data>>

\* Mutant: the first failing plan ends the loop.
BugGivesUp ==
  /\ backup.pc \in {"clear", "dump", "restic"} /\ Error
  /\ broken' = broken \cup backup.plan
  /\ backup' = [backup EXCEPT !.pc = "plans", !.todo = {}]
  /\ UNCHANGED <<day, data>>

\* Show the traceback and continue with the next plan.
PlanFails ==
  /\ backup.pc \in {"clear", "dump", "restic"} /\ Error
  /\ broken' = broken \cup backup.plan
  /\ Goto("plans")
  /\ UNCHANGED <<day, data>>

Forget ==
  /\ At("plans") /\ backup.todo = {}
  /\ snapshots' = [p \in Plans |-> Kept(snapshots[p])]
  /\ backup' = Idle
  /\ UNCHANGED <<day, repository, dump, broken, errors>>

\* restic forget fails, or the machine goes down; /tmp is then empty.
Interrupted ==
  /\ ~At("idle") /\ Error
  /\ backup' = Idle
  /\ dump' \in {dump, [p \in Plans |-> IF p \in Dumped THEN "partial" ELSE "whole"]}
  /\ broken' = Plans
  /\ UNCHANGED <<day, repository, snapshots>>

\* After the last day that is looked at.
LastDay == At("idle") /\ day = MaxDays /\ UNCHANGED vars

Init ==
  /\ day = 0
  /\ repository = FALSE
  /\ snapshots = [p \in Plans |-> {}]
  /\ dump = [p \in Plans |-> IF p \in Dumped THEN "partial" ELSE "whole"]
  /\ backup = Idle
  /\ broken = {}
  /\ errors = 0

Next ==
  \/ TimerFires \/ Status \/ StatusFails \/ NextPlan \/ ClearDump \/ PgDump
  \/ ResticBackup \/ PlanFails \/ Forget \/ Interrupted \/ LastDay

Spec == Init /\ [][Next]_vars

-----------------------------------------------------------------------------
(* Properties.                                                             *)

TypeOK ==
  /\ day \in 0..MaxDays
  /\ repository \in BOOLEAN
  /\ \A p \in Plans : \A s \in snapshots[p] : s.day \in 1..day /\ s.whole \in BOOLEAN
  /\ dump \in [Plans -> {"partial", "whole"}]
  /\ backup \in [pc : {"idle", "status", "plans", "clear", "dump", "restic"},
                 todo : SUBSET Plans, plan : SUBSET Plans]
  /\ broken \subseteq Plans
  /\ errors \in 0..MaxFaults

\* "Show the traceback and continue doing backups" (backup.py): a run leaves
\* today's snapshot of every plan that did not itself fail, however many failed
\* before it; and no snapshot is of a dump that failed halfway.
OthersAreBackedUp ==
  /\ At("idle") /\ day > 0 =>
       \A p \in Plans \ broken : \E s \in snapshots[p] : s.day = day
  /\ \A p \in Plans : \A s \in snapshots[p] : s.whole

=============================================================================
