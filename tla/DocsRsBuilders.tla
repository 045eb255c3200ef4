--------------------------- MODULE DocsRsBuilders ---------------------------
(***************************************************************************)
(* The fleet of docs.rs build hosts: an EC2 Auto Scaling group, and on     *)
(* each host the first-boot script (builder-startup.sh), builder.service,  *)
(* which runs the launcher (builder-launcher.sh), and the Docker container *)
(* the launcher starts.  The script reports to the launch hook of the      *)
(* group; the launcher reads secrets that may be rotated at any time.      *)
(***************************************************************************)
EXTENDS Naturals, FiniteSets, Sequences

CONSTANTS
  Hosts,         \* the places of the group: `builder_count` of them
  Secrets,       \* the SSM parameters, in the order they are fetched
  MaxFailures,   \* failures of commands, containers and hosts
  MaxRotations,  \* how often a secret is replaced
  MaxReruns      \* how often an operator runs the script again

ASSUME SecretsAssumption == Secrets \in Seq(STRING) /\ Len(Secrets) > 0
ASSUME BoundsAssumption ==
  MaxFailures \in Nat /\ MaxRotations \in Nat /\ MaxReruns \in Nat

Names == {Secrets[i] : i \in DOMAIN Secrets}
None  == 0

VARIABLES
  asg,       \* per place, the state of its instance in the group
  boot,      \* the first-boot script
  service,   \* builder.service and its launcher; `bare`: it found no secrets to fetch
  docker,    \* the container `docs-rs-builder`
  secret,    \* SSM: version of each secret
  failures, rotations, reruns

vars == <<asg, boot, service, docker, secret, failures, rotations, reruns>>
world == <<secret, failures, rotations, reruns>>

NoScript  == [pc |-> "idle", seen |-> None]
NoSecrets == [s \in Names |-> None]
Stopped   == [pc |-> "inactive", k |-> 1, file |-> NoSecrets, wants |-> NoSecrets, bare |-> FALSE]
NoneYet   == [running |-> FALSE, id |-> None, env |-> NoSecrets, looks |-> 0, best |-> 0]

BootAt(h, pc)    == boot[h].pc = pc
ServiceAt(h, pc) == service[h].pc = pc
BootGoto(h, pc)    == boot' = [boot EXCEPT ![h].pc = pc]

Fails == failures < MaxFailures /\ failures' = failures + 1

\* The host runs commands: it was launched and is not gone, though the group may
\* have given it up.
Up(h) == asg[h] # "gone"

-----------------------------------------------------------------------------
(* The Auto Scaling group.                                                 *)

\* MaxHealthyPercentage=100: a replacement only after the termination.
Launch(h) ==
  /\ asg[h] = "gone"
  /\ asg' = [asg EXCEPT ![h] = "wait"]
  /\ boot' = [boot EXCEPT ![h] = [NoScript EXCEPT !.pc = "install"]]
  /\ service' = [service EXCEPT ![h] = Stopped]
  /\ docker' = [docker EXCEPT ![h] = NoneYet]
  /\ UNCHANGED world

\* A failed health check, an instance refresh, or the hook's 30 minutes before
\* the script has ended.
Terminate(h) ==
  /\ asg[h] \in {"wait", "inService"}
  /\ Fails
  /\ asg' = [asg EXCEPT ![h] = "terminating"]
  /\ UNCHANGED <<boot, service, docker, secret, rotations, reruns>>

Terminated(h) ==
  /\ asg[h] = "terminating"
  /\ asg' = [asg EXCEPT ![h] = "gone"]
  /\ boot' = [boot EXCEPT ![h] = NoScript]
  /\ service' = [service EXCEPT ![h] = Stopped]
  /\ docker' = [docker EXCEPT ![h] = NoneYet]
  /\ UNCHANGED world

\* `complete-lifecycle-action` counts only while the hook holds the host.
Complete(h, result) ==
  IF asg[h] = "wait"
  THEN asg' = [asg EXCEPT ![h] = IF result = "CONTINUE" THEN "inService" ELSE "terminating"]
  ELSE UNCHANGED asg

\* Mutant: the host is taken on when nobody reports.
BugContinueByDefault(h) ==
  /\ asg[h] = "wait" /\ BootAt(h, "done")
  /\ asg' = [asg EXCEPT ![h] = "inService"]
  /\ UNCHANGED <<boot, service, docker>>
  /\ UNCHANGED world

\* The script has ended without a report that arrived: default_result.
HookTimesOut(h) ==
  /\ asg[h] = "wait" /\ BootAt(h, "done")
  /\ asg' = [asg EXCEPT ![h] = "terminating"]
  /\ UNCHANGED <<boot, service, docker>>
  /\ UNCHANGED world

-----------------------------------------------------------------------------
(* builder-startup.sh.                                                     *)

\* Stopping the service stops and removes the container.
StopService(h) ==
  /\ service' = [service EXCEPT ![h] = Stopped]
  /\ docker' = [docker EXCEPT ![h].running = FALSE]

\* AWS CLI, gVisor, Docker and its smoke test; docker.service restarts, and
\* with it builder.service, which is PartOf it.
Install(h) ==
  /\ Up(h)
  /\ BootAt(h, "install")
  /\ BootGoto(h, "start")
  /\ UNCHANGED <<asg, service, docker>>
  /\ UNCHANGED world

\* `systemctl restart --no-block builder.service`
StartService(h) ==
  /\ Up(h)
  /\ BootAt(h, "start")
  /\ boot' = [boot EXCEPT ![h].pc = "look"]
  /\ service' = [service EXCEPT ![h] = [Stopped EXCEPT !.pc = "fetch", !.wants = secret]]
  /\ docker' = [docker EXCEPT ![h].running = FALSE]
  /\ UNCHANGED asg
  /\ UNCHANGED world

Running(h) == docker[h].running

\* Count, up to two, the looks that found this container, and the best of the host.
Seen(d) ==
  [d EXCEPT !.looks = IF d.looks = 0 THEN 1 ELSE 2,
            !.best  = IF d.looks = 0 /\ d.best = 0 THEN 1 ELSE IF d.looks = 0 THEN @ ELSE 2]

\* One round of the loop.  A round that finds no container changes nothing.
Look(h) ==
  /\ Up(h)
  /\ BootAt(h, "look")
  /\ Running(h)
  /\ boot' = [boot EXCEPT ![h].pc = "confirm", ![h].seen = docker[h].id]
  /\ docker' = [docker EXCEPT ![h] = Seen(@)]
  /\ UNCHANGED <<asg, service>>
  /\ UNCHANGED world

\* Mutant: the second look asks for any container.
BugConfirmsAny(h) == Running(h)

SameContainer(h) == Running(h) /\ docker[h].id = boot[h].seen

\* Ten seconds later the same container still runs.
Confirm(h) ==
  /\ Up(h)
  /\ BootAt(h, "confirm")
  /\ BootGoto(h, IF SameContainer(h) THEN "report" ELSE "look")
  /\ docker' = [docker EXCEPT ![h] = IF Running(h) THEN Seen(@) ELSE @]
  /\ UNCHANGED <<asg, service>>
  /\ UNCHANGED world

\* Where no hook waits, as on a rerun or when the group has given the host up, the
\* call fails and so does the script, without any effect on the group.
Report(h) ==
  /\ Up(h)
  /\ BootAt(h, "report")
  /\ Complete(h, "CONTINUE")
  /\ BootGoto(h, "done")
  /\ UNCHANGED <<service, docker>>
  /\ UNCHANGED world

\* The trap of a script that fails.
Abandon(h) == Complete(h, "ABANDON")

\* A command fails, or the 240 rounds are over without a container.  The trap says
\* nothing where the AWS CLI is not installed yet, and its call may fail as well.
BootFails(h) ==
  /\ Up(h)
  /\ boot[h].pc \in {"install", "start", "look", "report"}
  /\ Fails
  /\ Abandon(h) \/ UNCHANGED asg
  /\ BootGoto(h, "done")
  /\ UNCHANGED <<service, docker, secret, rotations, reruns>>

\* A manual rerun begins by stopping the builder.
Rerun(h) ==
  /\ Up(h)
  /\ BootAt(h, "done")
  /\ reruns < MaxReruns
  /\ reruns' = reruns + 1
  /\ boot' = [boot EXCEPT ![h] = [NoScript EXCEPT !.pc = "install"]]
  /\ StopService(h)
  /\ UNCHANGED <<asg, secret, failures, rotations>>

-----------------------------------------------------------------------------
(* builder-launcher.sh and builder.service.                                *)

\* Mutant: the loop leaves its index behind the last secret.
BugNextSecret(k) == k + 1

NextSecret(k) == IF k = Len(Secrets) THEN 1 ELSE k + 1

\* A line `name=value` of the file that is being written.
Fetch(h) ==
  /\ Up(h)
  /\ ServiceAt(h, "fetch")
  /\ LET k == service[h].k
         name == Secrets[k]
     IN service' = [service EXCEPT ![h] = [@ EXCEPT
          !.file = [service[h].file EXCEPT ![name] = secret[name]],
          !.k    = NextSecret(k),
          !.pc   = IF k = Len(Secrets) THEN "pull" ELSE "fetch"]]
  /\ UNCHANGED <<asg, boot, docker>>
  /\ UNCHANGED world

\* jq, which lists the secrets to the loop, fails.  Nothing looks at the status of
\* a process substitution: the loop ends before its first round, and the launcher
\* goes on with the settings that are no secrets.
ListFails(h) ==
  /\ Up(h)
  /\ ServiceAt(h, "fetch")
  /\ service[h].file = NoSecrets
  /\ Fails
  /\ service' = [service EXCEPT ![h].pc = "pull", ![h].bare = TRUE]
  /\ UNCHANGED <<asg, boot, docker, secret, rotations, reruns>>

\* Log in, pull, remove the stale container.
Pull(h) ==
  /\ Up(h)
  /\ ServiceAt(h, "pull")
  /\ service' = [service EXCEPT ![h].pc = "run"]
  /\ docker' = [docker EXCEPT ![h].running = FALSE]
  /\ UNCHANGED <<asg, boot>>
  /\ UNCHANGED world

\* `exec docker run`
DockerRun(h) ==
  /\ Up(h)
  /\ ServiceAt(h, "run")
  /\ service' = [service EXCEPT ![h].pc = "active"]
  /\ docker' = [docker EXCEPT ![h].running = TRUE, ![h].id = @ + 1, ![h].looks = 0,
                                 ![h].env = service[h].file]
  /\ UNCHANGED <<asg, boot>>
  /\ UNCHANGED world

\* Mutant: the launcher goes on without the secret.
BugLauncherGoesOn(h) ==
  service' = [service EXCEPT ![h].pc = IF @ = "fetch" THEN "pull" ELSE "waiting", ![h].k = 1]

\* `set -e`: any other command that fails ends the launcher, and the service waits
\* for RestartSec; the runtime directory and its files go with it.
EndLauncher(h) == service' = [service EXCEPT ![h] = [Stopped EXCEPT !.pc = "waiting"]]

LauncherFails(h) ==
  /\ Up(h)
  /\ service[h].pc \in {"fetch", "pull", "run"}
  /\ Fails
  /\ EndLauncher(h)
  /\ UNCHANGED <<asg, boot, docker, secret, rotations, reruns>>

ContainerExits(h) ==
  /\ Up(h)
  /\ ServiceAt(h, "active")
  /\ Fails
  /\ service' = [service EXCEPT ![h] = [Stopped EXCEPT !.pc = "waiting"]]
  /\ docker' = [docker EXCEPT ![h].running = FALSE]
  /\ UNCHANGED <<asg, boot, secret, rotations, reruns>>

\* The docker client dies, the container lives on until the next launch.
ClientDies(h) ==
  /\ Up(h)
  /\ ServiceAt(h, "active")
  /\ Fails
  /\ service' = [service EXCEPT ![h] = [Stopped EXCEPT !.pc = "waiting"]]
  /\ UNCHANGED <<asg, boot, docker, secret, rotations, reruns>>

\* Restart=always
Restart(h) ==
  /\ Up(h)
  /\ ServiceAt(h, "waiting")
  /\ service' = [service EXCEPT ![h] = [Stopped EXCEPT !.pc = "fetch", !.wants = secret]]
  /\ UNCHANGED <<asg, boot, docker>>
  /\ UNCHANGED world

-----------------------------------------------------------------------------

Rotate(s) ==
  /\ rotations < MaxRotations
  /\ rotations' = rotations + 1
  /\ secret' = [secret EXCEPT ![s] = @ + 1]
  /\ UNCHANGED <<asg, boot, service, docker, failures, reruns>>

Init ==
  /\ asg = [h \in Hosts |-> "gone"]
  /\ boot = [h \in Hosts |-> NoScript]
  /\ service = [h \in Hosts |-> Stopped]
  /\ docker = [h \in Hosts |-> NoneYet]
  /\ secret = [s \in Names |-> 1]
  /\ failures = 0
  /\ rotations = 0
  /\ reruns = 0

Group(h)    == Launch(h) \/ Terminated(h) \/ HookTimesOut(h)
Script(h)   == Install(h) \/ StartService(h) \/ Look(h) \/ Confirm(h) \/ Report(h)
Launcher(h) == Fetch(h) \/ Pull(h) \/ DockerRun(h) \/ Restart(h)

Next ==
  \/ \E h \in Hosts :
       \/ Group(h) \/ Script(h) \/ Launcher(h)
       \/ Terminate(h) \/ BootFails(h) \/ ListFails(h) \/ LauncherFails(h)
       \/ ContainerExits(h) \/ ClientDies(h) \/ Rerun(h)
  \/ \E s \in Names : Rotate(s)

\* AWS, the script and systemd go on; failures, rotations and operators need not.
Fairness == \A h \in Hosts : WF_vars(Group(h)) /\ WF_vars(Script(h)) /\ WF_vars(Launcher(h))

Spec     == Init /\ [][Next]_vars
FairSpec == Spec /\ Fairness

-----------------------------------------------------------------------------
(* Properties.                                                             *)

Files == [Names -> 0..(1 + MaxRotations)]

Scripts    == [pc : {"idle", "install", "start", "look", "confirm", "report", "done"}, seen : Nat]
Services   == [pc : {"inactive", "fetch", "pull", "run", "active", "waiting"},
               k : DOMAIN Secrets, file : Files, wants : Files, bare : BOOLEAN]
Containers == [running : BOOLEAN, id : Nat, env : Files, looks : 0..2, best : 0..2]

TypeOK ==
  /\ asg \in [Hosts -> {"gone", "wait", "inService", "terminating"}]
  /\ boot \in [Hosts -> Scripts]
  /\ service \in [Hosts -> Services]
  /\ docker \in [Hosts -> Containers]
  /\ secret \in [Names -> 1..(1 + rotations)]
  /\ failures \in 0..MaxFailures
  /\ rotations \in 0..MaxRotations
  /\ reruns \in 0..MaxReruns

\* A running builder has every secret, none older than at the start of its
\* service ("rotations take effect on service restart", BUILDERS.md), although
\* the launcher may fail between two secrets and secrets change under it; or it
\* has none at all, when the launcher could not list them (ListFails), although
\* BUILDERS.md says that every start fetches them.
EverySecretIsFresh ==
  \A h \in Hosts : Running(h) /\ ServiceAt(h, "active") =>
    IF service[h].bare THEN docker[h].env = NoSecrets
    ELSE \A s \in Names : docker[h].env[s] # None /\ docker[h].env[s] >= service[h].wants[s]

\* A host in service has had a container that two looks of the script found
\* ("sees the builder container running for two checks", BUILDERS.md): one whose
\* containers keep dying, or that never ran one, is not admitted.
AdmittedAfterTwoLooks == \A h \in Hosts : asg[h] = "inService" => docker[h].best >= 2

Builds(h) == asg[h] = "inService" /\ Running(h) /\ ServiceAt(h, "active")

\* A rerun by hand failed between stopping the builder of a host in service and
\* starting it again: no hook waits for a report, and EC2 sees a healthy host.
LeftByRerun(h) ==
  reruns > 0 /\ asg[h] = "inService" /\ BootAt(h, "done") /\ ServiceAt(h, "inactive")

\* When failures and rotations end, every place of the group ends up with a
\* host in service whose builder runs: a failed bootstrap is replaced whether or
\* not its report arrives or comes too late, and nothing waits for an answer that
\* no one gives.  There is one way to lose a builder for good, the rerun above;
\* one that runs without secrets counts as running until it exits.
FleetRecovers == \A h \in Hosts : <>[](Builds(h) \/ LeftByRerun(h))

=============================================================================
