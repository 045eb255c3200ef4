-------------------------- MODULE MCScheduledJobs --------------------------
(* Small instances of ScheduledJobs for TLC. *)
EXTENDS ScheduledJobs, TLC

CONSTANTS web, worker, i1, i2

\* Two services read the certificate.
TwoHooks == <<"nginx", "monitor">>

\* Each container has an image of its own; the script goes through them in turn.
OwnImage == web :> i1 @@ worker :> i2
BothInTurn == <<web, worker>>

=============================================================================
