----------------------------- MODULE SslRenewal -----------------------------
(***************************************************************************)
(* The `letsencrypt` role: renew-ssl-certs, which a timer starts each week *)
(* and systemd starts again a minute after a failure.  lego renews a       *)
(* certificate that is about to expire; after-renew then runs one hook     *)
(* after the other, each of which makes a service read the certificate.    *)
(* Both scripts end at the first command that fails.                       *)
(***************************************************************************)
EXTENDS Naturals, Sequences

CONSTANTS
  Hooks,       \* the files of after-renew.d, in the order of ls
  Validity,    \* weeks a new certificate is valid, begun ones included
  RenewWithin, \* lego renews a certificate with at most so many weeks left
  MaxBadWeeks  \* how many weeks in a row may end without a good run

\* What the constants have to be: lego renews early enough for the bad weeks.
HooksAssumption == Hooks \in Seq({Hooks[i] : i \in DOMAIN Hooks})
WeeksAssumption ==
  /\ Validity \in Nat /\ RenewWithin \in Nat /\ MaxBadWeeks \in Nat
  /\ MaxBadWeeks < RenewWithin /\ RenewWithin < Validity

VARIABLES
  disk,    \* weeks left of the certificate in /etc/ssl/letsencrypt
  served,  \* per hook, weeks left of the one its service has read
  pc,      \* renew-ssl-certs.service
  hook,    \* the hook after-renew is at
  bad      \* weeks in a row that ended without a good run

vars == <<disk, served, pc, hook, bad>>

Services == {Hooks[i] : i \in DOMAIN Hooks}

-----------------------------------------------------------------------------

\* The unit is started, by the timer or, after a failure, by systemd.
Start ==
  /\ pc \in {"due", "failed"}
  /\ pc' = "lego"
  /\ UNCHANGED <<disk, served, hook, bad>>

\* Mutant: a run later.
BugRenewsLate == disk < RenewWithin

Expiring == disk <= RenewWithin

Renew ==
  /\ pc = "lego"
  /\ Expiring
  /\ disk' = Validity
  /\ pc' = "hooks"
  /\ UNCHANGED <<served, hook, bad>>

\* lego has nothing to do and succeeds: the hooks are run all the same.
NothingToRenew ==
  /\ pc = "lego"
  /\ ~Expiring
  /\ pc' = "hooks"
  /\ UNCHANGED <<disk, served, hook, bad>>

\* A hook: `systemctl reload nginx.service`.
RunHook ==
  /\ pc = "hooks"
  /\ hook \in DOMAIN Hooks
  /\ served' = [served EXCEPT ![Hooks[hook]] = disk]
  /\ hook' = hook + 1
  /\ UNCHANGED <<disk, pc, bad>>

Succeed ==
  /\ pc = "hooks"
  /\ hook > Len(Hooks)
  /\ pc' = "ok"
  /\ hook' = 1
  /\ bad' = 0
  /\ UNCHANGED <<disk, served>>

\* Mutant: the next attempt goes on after the hook that failed.
BugSkipsFailedHook ==
  /\ pc \in {"lego", "hooks"}
  /\ pc' = "failed"
  /\ hook' = IF pc = "hooks" THEN hook + 1 ELSE hook
  /\ UNCHANGED <<disk, served, bad>>

\* lego or a hook fails: the hooks after it are not run.
Fail ==
  /\ pc \in {"lego", "hooks"}
  /\ pc' = "failed"
  /\ hook' = 1
  /\ UNCHANGED <<disk, served, bad>>

Less(weeks) == IF weeks = 0 THEN 0 ELSE weeks - 1

\* The timer does not start a unit that is being restarted.
NextWeek ==
  /\ pc \in {"ok", "failed"}
  /\ pc = "failed" => bad < MaxBadWeeks
  /\ bad' = IF pc = "failed" THEN bad + 1 ELSE bad
  /\ pc' = IF pc = "ok" THEN "due" ELSE pc
  /\ disk' = Less(disk)
  /\ served' = [s \in Services |-> Less(served[s])]
  /\ UNCHANGED hook

-----------------------------------------------------------------------------

\* After the role has requested the first certificate.
Init ==
  /\ disk = Validity
  /\ served = [s \in Services |-> Validity]
  /\ pc = "ok"
  /\ hook = 1
  /\ bad = 0

Next == Start \/ Renew \/ NothingToRenew \/ RunHook \/ Succeed \/ Fail \/ NextWeek

-----------------------------------------------------------------------------
(* Properties.                                                             *)

TypeOK ==
  /\ disk \in 0..Validity
  /\ served \in [Services -> 0..Validity]
  /\ pc \in {"due", "lego", "hooks", "failed", "ok"}
  /\ hook \in 1..(Len(Hooks) + 1)
  /\ bad \in 0..MaxBadWeeks

\* No service ever serves an expired certificate, whatever fails between the
\* renewal and the hooks, unless all attempts fail for a month.
NeverExpired == \A s \in Services : served[s] > 0

=============================================================================
