----------------------------- MODULE CraterAgent -----------------------------
(***************************************************************************)
(* A machine of the Crater agents: the startup script pulls the image and  *)
(* starts a timer and the agent; update.sh, run by the timer, pulls again  *)
(* and restarts the agent when the list of local images has changed.  Both *)
(* end at the first command that fails.  A machine without an agent fails  *)
(* its health check and is replaced, and any machine may be preempted.     *)
(***************************************************************************)
EXTENDS Naturals

CONSTANTS
  MaxImages,     \* how many images are built
  MaxRollbacks,  \* how often the repository goes back to an older one
  MaxAccidents   \* machines lost, scripts cut short, agents that exit

\* What the constants have to be.
BoundsAssumption ==
  MaxImages \in Nat \ {0} /\ MaxRollbacks \in Nat /\ MaxAccidents \in Nat

VARIABLES
  latest, built,  \* the image tagged in the repository, and the newest one
  local,          \* images on the machine
  tag,            \* the one its tag names
  agent,          \* the image the agent runs
  unit,           \* whether systemd knows crater-agent
  boot, update,   \* the two scripts
  old,            \* old_id: the images update.sh saw before it pulled
  missed,         \* history: update.sh pulled the tag's image and did not restart
  rollbacks, accidents

Absent == 0
Images == 1..MaxImages

machine  == <<local, tag, agent, unit, boot, update, old, missed>>
registry == <<latest, built, rollbacks>>
vars     == <<registry, machine, accidents>>

\* docker pull; images that lost the tag stay, and are listed too.
Pull == local' = local \cup {latest} /\ tag' = latest

\* A machine before its startup script.
NewMachine ==
  /\ local' = {} /\ tag' = Absent /\ agent' = Absent /\ unit' = FALSE
  /\ boot' = "pull" /\ update' = "none" /\ old' = {} /\ missed' = FALSE

-----------------------------------------------------------------------------
(* startup-script.sh                                                       *)

StartupPull ==
  /\ boot = "pull"
  /\ Pull
  /\ boot' = "timer"
  /\ UNCHANGED <<agent, unit, update, old, missed>>

StartTimer ==
  /\ boot = "timer"
  /\ boot' = "agent"
  /\ update' = "idle"
  /\ UNCHANGED <<local, tag, agent, unit, old, missed>>

StartAgent ==
  /\ boot = "agent"
  /\ boot' = "done"
  /\ agent' = tag /\ unit' = TRUE /\ missed' = FALSE
  /\ UNCHANGED <<local, tag, update, old>>

-----------------------------------------------------------------------------
(* update.sh                                                               *)

\* The timer does not start a second run next to one in progress.
ListImages ==
  /\ update = "idle"
  /\ old' = local
  /\ update' = "pull"
  /\ UNCHANGED <<local, tag, agent, unit, boot, missed>>

\* Mutant: the images are listed after the pull only.
BugListsAfterPull ==
  /\ update = "pull"
  /\ Pull
  /\ update' = "compare"
  /\ old' = local \cup {latest}
  /\ UNCHANGED <<agent, unit, boot, missed>>

\* An image that was there before, and only gets the tag back, changes no list.
UpdatePull ==
  /\ update = "pull"
  /\ Pull
  /\ update' = "compare"
  /\ missed' = (missed \/ (tag # latest /\ latest \in local))
  /\ UNCHANGED <<agent, unit, boot, old>>

\* Without the unit, systemctl fails and the agent keeps its image.
Compare ==
  /\ update = "compare"
  /\ update' = "idle" /\ old' = {}
  /\ IF old # local /\ unit
     THEN agent' = tag /\ missed' = FALSE
     ELSE UNCHANGED <<agent, missed>>
  /\ UNCHANGED <<local, tag, unit, boot>>

-----------------------------------------------------------------------------

Accident == accidents < MaxAccidents /\ accidents' = accidents + 1

\* The startup script ends early; without an agent the machine will be replaced.
StartupFails ==
  /\ Accident /\ boot \notin {"failed", "done"}
  /\ boot' = "failed"
  /\ UNCHANGED <<registry, local, tag, agent, unit, update, old, missed>>

UpdateFails ==
  /\ Accident /\ update \in {"pull", "compare"}
  /\ missed' = (missed \/ (update = "compare" /\ agent # tag))
  /\ update' = "idle" /\ old' = {}
  /\ UNCHANGED <<registry, local, tag, agent, unit, boot>>

\* systemd drops a transient unit whose process ended well, and keeps a failed one.
AgentExits ==
  /\ Accident /\ agent # Absent
  /\ agent' = Absent
  /\ unit' \in BOOLEAN
  /\ UNCHANGED <<registry, local, tag, boot, update, old, missed>>

Preempt == Accident /\ NewMachine /\ UNCHANGED registry

\* The health check fails.
Heal ==
  /\ boot \in {"failed", "done"} /\ agent = Absent
  /\ NewMachine

Push ==
  /\ built < MaxImages
  /\ built' = built + 1 /\ latest' = built + 1
  /\ UNCHANGED <<rollbacks, machine, accidents>>

\* The repository's tag goes back to an image of before.
Rollback ==
  /\ rollbacks < MaxRollbacks
  /\ rollbacks' = rollbacks + 1
  /\ latest' \in 1..(latest - 1)
  /\ UNCHANGED <<built, machine, accidents>>

Init ==
  /\ latest = 1 /\ built = 1
  /\ local = {} /\ tag = Absent /\ agent = Absent /\ unit = FALSE
  /\ boot = "pull" /\ update = "none" /\ old = {} /\ missed = FALSE
  /\ rollbacks = 0 /\ accidents = 0

\* The startup script with the machines' manager, and the timer with update.sh.
StartUp == (StartupPull \/ StartTimer \/ StartAgent \/ Heal) /\ UNCHANGED <<registry, accidents>>
Update  == (ListImages \/ UpdatePull \/ Compare) /\ UNCHANGED <<registry, accidents>>

Next ==
  \/ StartUp \/ Update
  \/ StartupFails \/ UpdateFails \/ AgentExits \/ Preempt \/ Push \/ Rollback

-----------------------------------------------------------------------------
(* Properties.                                                             *)

TypeOK ==
  /\ built \in Images /\ latest \in 1..built
  /\ local \subseteq Images /\ old \subseteq local
  /\ tag \in local \cup {Absent} /\ agent \in local \cup {Absent}
  /\ unit \in BOOLEAN /\ missed \in BOOLEAN
  /\ boot \in {"pull", "timer", "agent", "failed", "done"}
  /\ update \in {"none", "idle", "pull", "compare"}
  /\ rollbacks \in 0..MaxRollbacks /\ accidents \in 0..MaxAccidents

\* The agent ends up on the image that the repository has tagged, whichever of
\* the scripts was interrupted and whenever the agent exits; except after a run
\* of update.sh that was cut short between the pull and the restart, and after
\* a rollback to an image the machine still has, until the next build.
Settled    == agent = latest \/ missed
NewestRuns == <>[]Settled

=============================================================================
