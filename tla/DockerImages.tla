---------------------------- MODULE DockerImages ----------------------------
(***************************************************************************)
(* The `docker` Ansible role: container-<name>.service units, and the      *)
(* script update.sh that keeps their images up to date.                    *)
(*                                                                         *)
(* Two systemd units run the script.  docker-images-pull.service runs it   *)
(* at boot with NO_CONTAINER_RESTART, and every container unit requires it *)
(* and starts after it.  docker-images-update.service runs it on a timer   *)
(* and restarts a container when the pull changed its image.  The two may  *)
(* overlap, and the registry may receive a new image at any moment.  Only  *)
(* the pull is tried again: any other command that fails, the login or     *)
(* `docker images`, ends the script through `set -e`, and so does whoever  *)
(* kills it.                                                               *)
(***************************************************************************)
EXTENDS Naturals, Sequences, FiniteSets

CONSTANTS
  Containers,   \* names of the containers on the machine
  Images,       \* image repositories
  ImageOf,      \* the image of each container
  Order,        \* the order in which the script goes through the containers
  MaxVersion,   \* how many versions of an image are ever pushed
  MaxAttempts,  \* `max` of the retry function
  MaxFailures,  \* how many pull attempts fail
  MaxEnded,     \* how many runs end at another command, or are killed
  MaxReboots    \* how often the machine is rebooted

\* What the constants have to be: a machine with the role has a container, and the
\* script goes through all of them.
ImageOfAssumption == ImageOf \in [Containers -> Images]
OrderAssumption ==
  /\ Order \in Seq(Containers) /\ Order # <<>>
  /\ \A c \in Containers : \E k \in 1..Len(Order) : Order[k] = c
BoundsAssumption ==
  /\ MaxVersion \in Nat \ {0} /\ MaxAttempts \in Nat \ {0}
  /\ MaxFailures \in Nat /\ MaxEnded \in Nat /\ MaxReboots \in Nat

Units    == {"pull", "update"}    \* the two services that run the script
NoImage  == 0                     \* `docker images` lists nothing
Versions == NoImage..MaxVersion

VARIABLES
  registry,     \* newest version of each image in ECR
  local,        \* version each image name resolves to on the machine
  script,       \* per unit, the run of update.sh in progress
  unit,         \* state of docker-images-pull.service
  service,      \* state of each container-<name>.service
  running,      \* the version each running container was started from
  left,         \* containers whose image changed in a run that ended before the restart
  failures, ended, reboots

vars == <<registry, local, script, unit, service, running, failures, ended, reboots, left>>

Idle == [pc |-> "idle", k |-> 1, old |-> NoImage, attempt |-> 1]
Started == [Idle EXCEPT !.pc = "login"]

Container(u) == Order[script[u].k]
Image(u)     == ImageOf[Container(u)]

At(u, pc)   == script[u].pc = pc
Goto(u, pc) == script' = [script EXCEPT ![u].pc = pc]

\* Ending the script ends the oneshot unit that runs it.
Exit(u, result) ==
  /\ script' = [script EXCEPT ![u] = Idle]
  /\ unit' = IF u = "pull" THEN result ELSE unit

-----------------------------------------------------------------------------
(* update.sh.                                                              *)

\* Mutant: old_id survives from one container to the next.
BugOldIdOnce(u) ==
  /\ At(u, "login")
  /\ script' = [script EXCEPT ![u].pc = "pull", ![u].attempt = 1,
                  ![u].old = IF script[u].k = 1 THEN local[Image(u)] ELSE @]
  /\ UNCHANGED <<registry, local, unit, service, running, failures, ended, reboots, left>>

\* Log in to ECR and note the image the name stands for.
LoginAndReadOld(u) ==
  /\ At(u, "login")
  /\ script' = [script EXCEPT ![u].pc = "pull", ![u].attempt = 1,
                              ![u].old = local[Image(u)]]
  /\ UNCHANGED <<registry, local, unit, service, running, failures, ended, reboots, left>>

Pull(u) ==
  /\ At(u, "pull")
  /\ local' = [local EXCEPT ![Image(u)] = registry[Image(u)]]
  /\ Goto(u, "compare")
  /\ UNCHANGED <<registry, unit, service, running, failures, ended, reboots, left>>

\* `retry`: another attempt is left.
MayRetry(u) == script[u].attempt < MaxAttempts

PullFails(u) ==
  /\ At(u, "pull")
  /\ failures < MaxFailures
  /\ failures' = failures + 1
  /\ IF MayRetry(u)
     THEN script' = [script EXCEPT ![u].attempt = @ + 1] /\ UNCHANGED unit
     ELSE Exit(u, "failed")
  /\ UNCHANGED <<registry, local, service, running, ended, reboots, left>>

\* Mutant: NO_CONTAINER_RESTART is not looked at.
BugBootPullRestarts(u) == script[u].old # local[Image(u)]

\* The image changed, and NO_CONTAINER_RESTART is unset.
NeedsRestart(u) == script[u].old # local[Image(u)] /\ u = "update"

\* The loop goes on, or the script is done.
Advance(u) ==
  IF script[u].k < Len(Order)
  THEN script' = [script EXCEPT ![u].pc = "login", ![u].k = @ + 1] /\ UNCHANGED unit
  ELSE Exit(u, "active")

SameImage(u) ==
  /\ At(u, "compare")
  /\ ~NeedsRestart(u)
  /\ Advance(u)
  /\ UNCHANGED <<registry, local, service, running, failures, ended, reboots, left>>

\* `systemctl restart`: stop the container and queue a start job, which first
\* brings up the pull unit if that is down.
RequestRestart(u) ==
  /\ At(u, "compare")
  /\ NeedsRestart(u)
  /\ service' = [service EXCEPT ![Container(u)] = "starting"]
  /\ running' = [running EXCEPT ![Container(u)] = NoImage]
  /\ left' = left \ {Container(u)}
  /\ IF unit = "failed"
     THEN /\ script' = [script EXCEPT ![u].pc = "restart", !["pull"] = Started]
          /\ unit' = "activating"
     ELSE Goto(u, "restart") /\ UNCHANGED unit
  /\ UNCHANGED <<registry, local, failures, ended, reboots>>

\* `systemctl restart` returns when the job is done: with an error, which ends
\* the script, if the container was not started.
RestartReturns(u) ==
  /\ At(u, "restart")
  /\ service[Container(u)] # "starting"
  /\ IF service[Container(u)] = "running" THEN Advance(u) ELSE Exit(u, "failed")
  /\ UNCHANGED <<registry, local, service, running, failures, ended, reboots, left>>

\* A command outside `retry` fails, or the run is killed.  Between the pull and the
\* restart this leaves the container behind its image.
ScriptFails(u) ==
  /\ script[u].pc \in {"login", "pull", "compare", "restart"}
  /\ ended < MaxEnded
  /\ ended' = ended + 1
  /\ left' = IF At(u, "compare") /\ NeedsRestart(u) THEN left \cup {Container(u)} ELSE left
  /\ Exit(u, "failed")
  /\ UNCHANGED <<registry, local, service, running, failures, reboots>>

-----------------------------------------------------------------------------
(* systemd.                                                                *)

\* The timer never starts a service that is still running.
TimerFires ==
  /\ At("update", "idle")
  /\ script' = [script EXCEPT !["update"] = Started]
  /\ UNCHANGED <<registry, local, unit, service, running, failures, ended, reboots, left>>

\* A start job of a container waits for the pull unit and shares its failure.
ContainerStarts(c) ==
  /\ service[c] = "starting"
  /\ unit = "active"
  /\ service' = [service EXCEPT ![c] = "running"]
  /\ running' = [running EXCEPT ![c] = local[ImageOf[c]]]
  /\ left' = left \ {c}
  /\ UNCHANGED <<registry, local, script, unit, failures, ended, reboots>>

ContainerStartFails(c) ==
  /\ service[c] = "starting"
  /\ unit = "failed"
  /\ service' = [service EXCEPT ![c] = "stopped"]
  /\ UNCHANGED <<registry, local, script, unit, running, failures, ended, reboots, left>>

\* Restart=on-failure: the container comes back from the image of the moment.
ContainerCrashes(c) ==
  /\ service[c] = "running"
  /\ running[c] # local[ImageOf[c]]
  /\ running' = [running EXCEPT ![c] = local[ImageOf[c]]]
  /\ left' = left \ {c}
  /\ UNCHANGED <<registry, local, script, unit, service, failures, ended, reboots>>

BootScripts == [u \in Units |-> IF u = "pull" THEN Started ELSE Idle]

\* Boot starts the pull and queues the start jobs; local images survive.
Reboot ==
  /\ reboots < MaxReboots
  /\ reboots' = reboots + 1
  /\ script' = BootScripts
  /\ unit' = "activating"
  /\ service' = [c \in Containers |-> "starting"]
  /\ running' = [c \in Containers |-> NoImage]
  /\ left' = {}
  /\ UNCHANGED <<registry, local, failures, ended>>

-----------------------------------------------------------------------------

Push(i) ==
  /\ registry[i] < MaxVersion
  /\ registry' = [registry EXCEPT ![i] = @ + 1]
  /\ UNCHANGED <<local, script, unit, service, running, failures, ended, reboots, left>>

Init ==
  /\ registry = [i \in Images |-> 1]
  /\ local = [i \in Images |-> NoImage]
  /\ script = BootScripts
  /\ unit = "activating"
  /\ service = [c \in Containers |-> "starting"]
  /\ running = [c \in Containers |-> NoImage]
  /\ left = {}
  /\ failures = 0 /\ ended = 0 /\ reboots = 0

Step(u) ==
  \/ LoginAndReadOld(u) \/ Pull(u) \/ SameImage(u)
  \/ RequestRestart(u) \/ RestartReturns(u)

Next ==
  \/ TimerFires \/ Reboot
  \/ \E u \in Units : Step(u) \/ PullFails(u) \/ ScriptFails(u)
  \/ \E c \in Containers : ContainerStarts(c) \/ ContainerStartFails(c) \/ ContainerCrashes(c)
  \/ \E i \in Images : Push(i)

\* The script's commands end, the timer keeps firing, systemd runs its jobs.
\* Nothing is assumed of pushes, failures, crashes and reboots.
Fairness ==
  /\ WF_vars(TimerFires)
  /\ \A u \in Units : WF_vars(Step(u))
  /\ \A c \in Containers : WF_vars(ContainerStarts(c) \/ ContainerStartFails(c))

Spec     == Init /\ [][Next]_vars
FairSpec == Spec /\ Fairness

-----------------------------------------------------------------------------
(* Properties.                                                             *)

TypeOK ==
  /\ registry \in [Images -> 1..MaxVersion]
  /\ local \in [Images -> Versions]
  /\ script \in [Units -> [pc : {"idle", "login", "pull", "compare", "restart"},
                           k : 1..Len(Order), old : Versions, attempt : 1..MaxAttempts]]
  /\ unit \in {"activating", "active", "failed"}
  /\ service \in [Containers -> {"starting", "running", "stopped"}]
  /\ running \in [Containers -> Versions]
  /\ left \subseteq Containers
  /\ failures \in 0..MaxFailures
  /\ ended \in 0..MaxEnded
  /\ reboots \in 0..MaxReboots

\* When every container has an image of its own, a running container is behind
\* its image only while the updater is about to restart it, even when the two
\* runs of the script overlap or a pull fails (update.sh, update_image).  The
\* exception is a container that a run left behind, by ending after the pull of
\* the new image and before the restart: later runs find nothing changed.
OutdatedIsRestarted ==
  \A c \in Containers :
    service[c] = "running" /\ running[c] # local[ImageOf[c]] =>
      \/ At("update", "compare") /\ Container("update") = c /\ NeedsRestart("update")
      \/ c \in left

\* "Every time the timer pulls a new image the related container is restarted"
\* (ansible/roles/docker/README.md): after the update, no container is behind.
NoneOutdatedAfterUpdate ==
  At("update", "idle") =>
    \A c \in Containers : service[c] = "running" => running[c] = local[ImageOf[c]]

\* Every container ends up running the newest image: the two runs of the script,
\* the start jobs and the requirement on the pull unit never block each other for
\* good, and what fails in one container's part does not keep the others from
\* their images.  A container may stay behind when a run left it so, until the
\* next push; and it may stay down, once the boot's run has failed: only the pull
\* is tried again, a login that fails once is enough (update.sh).
AllNewest ==
  \A c \in Containers :
    \/ service[c] = "running" /\ running[c] = registry[ImageOf[c]]
    \/ service[c] = "running" /\ c \in left /\ local[ImageOf[c]] = registry[ImageOf[c]]
    \/ service[c] = "stopped" /\ (ended > 0 \/ failures >= MaxAttempts)
NewestRuns == <>[]AllNewest

=============================================================================
