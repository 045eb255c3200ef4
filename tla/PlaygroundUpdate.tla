-------------------------- MODULE PlaygroundUpdate --------------------------
(***************************************************************************)
(* The `playground` role: update.sh, run by a timer, copies new artifacts  *)
(* from S3 and restarts playground.service when the server binary changed. *)
(* The script ends at the first command that fails, except that it ignores *)
(* a stop that fails; the server may crash at any point of it, and systemd *)
(* starts it again, up to the default limit of 5 starts in 10 seconds.     *)
(***************************************************************************)
EXTENDS Naturals

CONSTANTS
  MaxVersion,  \* how many server binaries are published
  MaxCuts      \* how many runs are cut short, or cannot stop the server

\* What the constants have to be.
BoundsAssumption == MaxVersion \in Nat \ {0} /\ MaxCuts \in Nat

Absent     == 0
Versions == 0..MaxVersion

VARIABLES
  bucket,   \* version of `ui` in S3
  disk,     \* version of `ui` on the machine
  runnable, \* `ui` may be executed
  server,   \* version the running server was started from
  gaveUp,   \* history: the unit ended `failed`, at the limit of starts
  script,   \* the run of update.sh in progress
  cuts,
  behind    \* history: the last run that changed the binary did not restart the server

vars == <<bucket, disk, runnable, server, gaveUp, script, cuts, behind>>

Idle == [pc |-> "idle", previous |-> Absent]

At(pc)   == script.pc = pc
Goto(pc) == script' = [script EXCEPT !.pc = pc]

\* From the first copy to the start of the server.
Copying == {"sync", "exact", "chmod", "compare", "start"}

\* A downloaded file replaces the old one, and cannot be executed.
Download ==
  /\ disk' = bucket
  /\ runnable' = (runnable /\ disk = bucket)

-----------------------------------------------------------------------------
(* update.sh                                                               *)

\* fetch.sh and docker system prune come first, and leave the server alone.
TimerFires ==
  /\ At("idle")
  /\ Goto("hash")
  /\ UNCHANGED <<disk, runnable, server, gaveUp, behind>>

HashBinary ==
  /\ At("hash")
  /\ script' = [pc |-> "sync", previous |-> disk]
  /\ UNCHANGED <<disk, runnable, server, gaveUp, behind>>

\* The first sync may take a binary of the same size for unchanged.
Sync ==
  /\ At("sync")
  /\ Download \/ UNCHANGED <<disk, runnable>>
  /\ Goto("exact")
  /\ UNCHANGED <<server, gaveUp, behind>>

\* Mutant: one sync without --exact-timestamps.
BugSyncBySize ==
  /\ At("exact")
  /\ Goto("chmod")
  /\ UNCHANGED <<disk, runnable, server, gaveUp, behind>>

\* The sync with --exact-timestamps.
SyncExactly ==
  /\ At("exact")
  /\ Download
  /\ Goto("chmod")
  /\ UNCHANGED <<server, gaveUp, behind>>

Chmod ==
  /\ At("chmod")
  /\ runnable' = TRUE
  /\ Goto("compare")
  /\ UNCHANGED <<disk, server, gaveUp, behind>>

BinaryChanged == script.previous = Absent \/ script.previous # disk

NoRestart ==
  /\ At("compare")
  /\ ~BinaryChanged
  /\ script' = Idle
  /\ UNCHANGED <<disk, runnable, server, gaveUp, behind>>

Stop ==
  /\ At("compare")
  /\ BinaryChanged
  /\ server' = Absent
  /\ Goto("start")
  /\ UNCHANGED <<disk, runnable, gaveUp, behind>>

\* `|| true`: the server goes on, and so does the script.
StopFails ==
  /\ At("compare")
  /\ BinaryChanged
  /\ cuts < MaxCuts
  /\ cuts' = cuts + 1
  /\ Goto("start")
  /\ UNCHANGED <<bucket, disk, runnable, server, gaveUp, behind>>

\* `systemctl start` does nothing to a server that is up.
StartServer ==
  /\ At("start")
  /\ server' = IF server = Absent THEN disk ELSE server
  /\ script' = Idle
  /\ behind' = (server' # disk)
  /\ gaveUp' = FALSE
  /\ UNCHANGED <<disk, runnable>>

\* A command fails or the script is killed; a sync may have done part of its work.
\* The start fails also when systemd refuses it, at the limit of starts.
Cut ==
  /\ ~At("idle")
  /\ cuts < MaxCuts
  /\ cuts' = cuts + 1
  /\ IF script.pc \in {"sync", "exact"}
     THEN Download \/ UNCHANGED <<disk, runnable>>
     ELSE UNCHANGED <<disk, runnable>>
  /\ behind' = (behind \/ script.pc \in Copying)
  /\ script' = Idle
  /\ UNCHANGED <<bucket, server, gaveUp>>

-----------------------------------------------------------------------------
(* playground.service                                                      *)

\* Restart=on-failure: systemd tries again until the limit of starts, which a binary
\* that cannot be executed reaches at once, and one that keeps crashing sooner or later.
ServerCrashes ==
  /\ server # Absent
  /\ server' \in IF runnable THEN {disk, Absent} ELSE {Absent}
  /\ gaveUp' = (runnable /\ server' = Absent)
  /\ UNCHANGED <<bucket, disk, runnable, script, cuts, behind>>

\* A new build of the playground.
PublishBinary ==
  /\ bucket < MaxVersion
  /\ bucket' = bucket + 1
  /\ UNCHANGED <<disk, runnable, server, gaveUp, script, cuts, behind>>

\* A new machine: nothing was copied yet.
Init ==
  /\ bucket = 1
  /\ disk = Absent
  /\ runnable = FALSE
  /\ server = Absent
  /\ script = Idle
  /\ cuts = 0
  /\ gaveUp = FALSE /\ behind = FALSE

Step ==
  /\ \/ TimerFires \/ HashBinary \/ Sync \/ SyncExactly
     \/ Chmod \/ NoRestart \/ Stop \/ StartServer
  /\ UNCHANGED <<bucket, cuts>>

Next == Step \/ StopFails \/ Cut \/ ServerCrashes \/ PublishBinary

-----------------------------------------------------------------------------
(* Properties.                                                             *)

TypeOK ==
  /\ bucket \in Versions /\ disk \in Versions /\ server \in Versions
  /\ runnable \in BOOLEAN /\ gaveUp \in BOOLEAN /\ behind \in BOOLEAN
  /\ script \in [pc : {"idle", "hash"} \cup Copying, previous : Versions]
  /\ cuts \in 0..MaxCuts

\* "Restart to get new server binary" (update.sh): the newest binary ends up being
\* served, even if the server crashes on a file that is half replaced.  There are
\* two exceptions, and both last until the next build: the run that changed the
\* binary was cut short before the start, or could not stop the old server; and a
\* server that kept crashing is down, for no run starts it unless the binary changed.
Settled        == behind \/ (gaveUp /\ server = Absent) \/ server = bucket
NewestIsServed == <>[]Settled

=============================================================================
