------------------------ MODULE DocsRsBuilders_proofs ------------------------
(***************************************************************************)
(* The docs.rs build hosts, for any number of places and secrets and any   *)
(* failures, rotations and reruns: a builder runs with every secret, none  *)
(* older than the start of its service, or with none if they could not be  *)
(* listed, and a host is admitted only after its script saw one container  *)
(* twice.                                                                  *)
(*                                                                         *)
(* The two arguments share the type invariant only.  FreshOK follows the   *)
(* file from the first secret to the container's environment; SeenOK       *)
(* follows the container the script noted: its id is not given to another  *)
(* one, so two sights of the id are two sights of one container.           *)
(***************************************************************************)
EXTENDS DocsRsBuilders, TLAPS

\* A secret is there, and not older than wanted.
Fresh(file, wants, s) == file[s] # None /\ file[s] >= wants[s]

\* What a launcher that is done with the secrets has: all of them or none.
AllOrNone(v, file) ==
  IF v.bare THEN file = NoSecrets ELSE \A s \in Names : Fresh(file, v.wants, s)

\* From the service's start, through the file that the launcher writes one secret
\* after the other, to the container that was run with it.
HostFresh(v, d) ==
  /\ \A s \in Names : v.wants[s] <= secret[s]
  /\ v.pc = "fetch" => ~v.bare /\ \A i \in 1..(v.k - 1) : Fresh(v.file, v.wants, Secrets[i])
  /\ v.pc \in {"pull", "run"} => AllOrNone(v, v.file)
  /\ v.pc = "active" /\ d.running => AllOrNone(v, d.env)

\* From the script's first look to the host in service.
HostSeen(a, b, d) ==
  /\ b.seen <= d.id
  /\ b.pc = "confirm" /\ b.seen = d.id => d.looks >= 1
  /\ b.pc = "report" => d.best >= 2
  /\ a = "inService" => d.best >= 2

FreshOK == \A h \in Hosts : HostFresh(service[h], docker[h])
SeenOK  == \A h \in Hosts : HostSeen(asg[h], boot[h], docker[h])

IInv == TypeOK /\ FreshOK /\ SeenOK

\* The steps of one host.
Step(h) ==
  \/ Group(h) \/ Script(h) \/ Launcher(h)
  \/ Terminate(h) \/ BootFails(h) \/ ListFails(h) \/ LauncherFails(h) \/ ContainerExits(h)
  \/ ClientDies(h) \/ Rerun(h)

-----------------------------------------------------------------------------
(* Types.                                                                  *)

LEMMA SecretsOK == Len(Secrets) \in Nat /\ 1 \in DOMAIN Secrets /\ DOMAIN Secrets = 1..Len(Secrets)
BY SecretsAssumption

LEMMA InitialsOK ==
  /\ NoScript \in Scripts /\ Stopped \in Services /\ NoneYet \in Containers
BY SecretsOK, BoundsAssumption
   DEF NoScript, Scripts, Stopped, Services, NoneYet, Containers, Files, None, NoSecrets

LEMMA StartedOK ==
  ASSUME TypeOK
  PROVE  [Stopped EXCEPT !.pc = "fetch", !.wants = secret] \in Services
PROOF
<1>1. secret \in Files
  BY BoundsAssumption DEF TypeOK, Files
<1> QED BY <1>1, InitialsOK DEF Services

LEMMA GroupType ==
  ASSUME TypeOK, NEW h \in Hosts, Group(h) \/ Terminate(h)
  PROVE  TypeOK'
PROOF
<1>1. [NoScript EXCEPT !.pc = "install"] \in Scripts
  BY DEF NoScript, Scripts, None
<1>2. CASE Launch(h)
  BY <1>1, <1>2, InitialsOK DEF Launch, TypeOK, world
<1>3. CASE Terminated(h)
  BY <1>3, InitialsOK DEF Terminated, TypeOK, world
<1>4. CASE HookTimesOut(h)
  BY <1>4 DEF HookTimesOut, TypeOK, world
<1>5. CASE Terminate(h)
  BY <1>5, BoundsAssumption DEF Terminate, Fails, TypeOK
<1> QED BY <1>2, <1>3, <1>4, <1>5 DEF Group

LEMMA SeenType ==
  ASSUME NEW d \in Containers
  PROVE  /\ Seen(d) \in Containers
         /\ Seen(d).id = d.id /\ Seen(d).looks >= 1 /\ Seen(d).best >= d.best
         /\ Seen(d).running = d.running /\ Seen(d).env = d.env
         /\ d.looks >= 1 => Seen(d).best = 2
PROOF
<1> DEFINE looks == IF d.looks = 0 THEN 1 ELSE 2
           best  == IF d.looks = 0 /\ d.best = 0 THEN 1 ELSE IF d.looks = 0 THEN d.best ELSE 2
<1>1. /\ looks \in 0..2 /\ looks >= 1 /\ best \in 0..2 /\ best >= d.best
      /\ d.looks >= 1 => best = 2
  BY DEF Containers
<1>2. Seen(d) = [d EXCEPT !.looks = looks, !.best = best]
  BY DEF Seen, Containers
<1> HIDE DEF looks, best
<1> QED BY <1>1, <1>2 DEF Containers

LEMMA ScriptType ==
  ASSUME TypeOK, NEW h \in Hosts, Script(h) \/ BootFails(h) \/ Rerun(h)
  PROVE  TypeOK'
PROOF
<1> USE DEF world
<1>1. /\ docker[h] \in Containers /\ boot[h] \in Scripts
      /\ [docker[h] EXCEPT !.running = FALSE] \in Containers
      /\ [NoScript EXCEPT !.pc = "install"] \in Scripts
  BY DEF TypeOK, Containers, NoScript, Scripts, None
<1>2. ASSUME NEW pc \in {"start", "look", "report", "done"}
      PROVE  [boot[h] EXCEPT !.pc = pc] \in Scripts
  BY <1>1 DEF Scripts
<1>3. CASE Install(h)
  BY <1>2, <1>3 DEF Install, BootGoto, TypeOK
<1>4. CASE StartService(h)
  BY <1>1, <1>2, <1>4, StartedOK DEF StartService, TypeOK
<1>5. CASE Look(h)
  <2>1. [boot[h] EXCEPT !.pc = "confirm", !.seen = docker[h].id] \in Scripts
    BY <1>1 DEF Scripts, Containers
  <2> QED BY <1>1, <1>5, <2>1, SeenType DEF Look, TypeOK
<1>6. CASE Confirm(h)
  BY <1>1, <1>2, <1>6, SeenType DEF Confirm, BootGoto, TypeOK
<1>7. CASE Report(h)
  BY <1>2, <1>7 DEF Report, Complete, BootGoto, TypeOK
<1>8. CASE BootFails(h)
  BY <1>2, <1>8, BoundsAssumption DEF BootFails, Fails, Abandon, Complete, BootGoto, TypeOK
<1>9. CASE Rerun(h)
  BY <1>1, <1>9, InitialsOK, BoundsAssumption DEF Rerun, StopService, TypeOK
<1> QED BY <1>3, <1>4, <1>5, <1>6, <1>7, <1>8, <1>9 DEF Script

\* What Fetch does to a service, and DockerRun to the container.
LEMMA FetchedOK ==
  ASSUME NEW v \in Services, NEW k \in DOMAIN Secrets, NEW file \in Files,
         NEW pc \in {"inactive", "fetch", "pull", "run", "active", "waiting"}
  PROVE  [v EXCEPT !.file = file, !.k = k, !.pc = pc] \in Services
BY DEF Services

LEMMA RunOK ==
  ASSUME NEW d \in Containers, NEW id \in Nat, NEW file \in Files, NEW looks \in 0..2
  PROVE  [d EXCEPT !.running = TRUE, !.id = id, !.looks = looks, !.env = file] \in Containers
BY DEF Containers

LEMMA LauncherType ==
  ASSUME TypeOK, NEW h \in Hosts,
         Launcher(h) \/ ListFails(h) \/ LauncherFails(h) \/ ContainerExits(h) \/ ClientDies(h)
  PROVE  TypeOK'
PROOF
<1> USE DEF world
<1>1. /\ docker[h] \in Containers /\ service[h] \in Services
      /\ [docker[h] EXCEPT !.running = FALSE] \in Containers
      /\ [Stopped EXCEPT !.pc = "waiting"] \in Services
  BY InitialsOK DEF TypeOK, Containers, Services
<1>2. CASE Fetch(h)
  <2> DEFINE v == service[h]
             name == Secrets[v.k]
             pc == IF v.k = Len(Secrets) THEN "pull" ELSE "fetch"
             file == [v.file EXCEPT ![name] = secret[name]]
             k == NextSecret(v.k)
  <2>1. v.k \in DOMAIN Secrets /\ name \in Names /\ v.file \in Files /\ v.wants \in Files
        /\ pc \in {"inactive", "fetch", "pull", "run", "active", "waiting"}
    BY <1>1 DEF Services, Names
  <2>2. k \in DOMAIN Secrets
    BY <2>1, SecretsOK DEF NextSecret
  <2>3. file \in Files
    <3>1. secret[name] \in 0..(1 + MaxRotations)
      BY <2>1, BoundsAssumption DEF TypeOK
    <3> QED BY <2>1, <3>1 DEF Files
  <2>4. service' = [service EXCEPT ![h] = [v EXCEPT !.file = file, !.k = k, !.pc = pc]]
    BY <1>2 DEF Fetch
  <2> HIDE DEF pc, file, k
  <2>5. [v EXCEPT !.file = file, !.k = k, !.pc = pc] \in Services
    <3>1. v \in Services
      BY <1>1
    <3> HIDE DEF v
    <3> QED BY <2>1, <2>2, <2>3, <3>1, FetchedOK
  <2> HIDE DEF v
  <2> QED BY <1>2, <2>4, <2>5 DEF Fetch, TypeOK
<1>3. CASE Pull(h)
  <2>1. [service[h] EXCEPT !.pc = "run"] \in Services
    BY <1>1 DEF Services
  <2> QED BY <1>1, <1>3, <2>1 DEF Pull, TypeOK
<1>4. CASE DockerRun(h)
  <2>1. [service[h] EXCEPT !.pc = "active"] \in Services
    BY <1>1 DEF Services
  <2>2. [docker[h] EXCEPT !.running = TRUE, !.id = @ + 1, !.looks = 0, !.env = service[h].file] \in Containers
    <3>1. docker[h].id + 1 \in Nat /\ service[h].file \in Files
      BY <1>1 DEF Containers, Services
    <3>2. 0 \in 0..2
      OBVIOUS
    <3> QED BY <1>1, <3>1, <3>2, RunOK
  <2> QED BY <1>4, <2>1, <2>2 DEF DockerRun, TypeOK
<1>5. CASE Restart(h)
  BY <1>5, StartedOK DEF Restart, TypeOK
<1>6. CASE LauncherFails(h)
  BY <1>1, <1>6, BoundsAssumption DEF LauncherFails, EndLauncher, Fails, TypeOK
<1>7. CASE ContainerExits(h)
  BY <1>1, <1>7, BoundsAssumption DEF ContainerExits, Fails, TypeOK
<1>8. CASE ClientDies(h)
  BY <1>1, <1>8, BoundsAssumption DEF ClientDies, Fails, TypeOK
<1>9. CASE ListFails(h)
  <2>1. [service[h] EXCEPT !.pc = "pull", !.bare = TRUE] \in Services
    BY <1>1 DEF Services
  <2>2. service' = [service EXCEPT ![h] = [service[h] EXCEPT !.pc = "pull", !.bare = TRUE]]
    BY <1>9 DEF ListFails, TypeOK
  <2> QED BY <1>9, <2>1, <2>2, BoundsAssumption DEF ListFails, Fails, TypeOK
<1> QED BY <1>2, <1>3, <1>4, <1>5, <1>6, <1>7, <1>8, <1>9 DEF Launcher

LEMMA RotateType ==
  ASSUME TypeOK, NEW s \in Names, Rotate(s)
  PROVE  TypeOK'
BY BoundsAssumption DEF Rotate, TypeOK

-----------------------------------------------------------------------------
(* One host at a time.                                                     *)

\* A step of one host leaves the others and the secrets alone.
LEMMA OthersStay ==
  ASSUME TypeOK, NEW h \in Hosts, Step(h)
  PROVE  /\ secret' = secret
         /\ \A g \in Hosts \ {h} : /\ asg'[g] = asg[g] /\ boot'[g] = boot[g]
                                  /\ service'[g] = service[g] /\ docker'[g] = docker[g]
PROOF
<1>1. CASE Group(h) \/ Terminate(h)
  BY <1>1 DEF Group, Launch, Terminated, HookTimesOut, Terminate, world, TypeOK
<1>2. CASE Script(h) \/ BootFails(h) \/ Rerun(h)
  <2>1. CASE Install(h) \/ StartService(h) \/ Look(h) \/ Confirm(h)
    BY <2>1 DEF Install, StartService, Look, Confirm, BootGoto, world, TypeOK
  <2>2. CASE Report(h) \/ BootFails(h)
    BY <2>2 DEF Report, BootFails, Abandon, Complete, BootGoto, world, TypeOK
  <2>3. CASE Rerun(h)
    BY <2>3 DEF Rerun, StopService, TypeOK
  <2> QED BY <1>2, <2>1, <2>2, <2>3 DEF Script
<1>3. CASE Launcher(h) \/ ListFails(h) \/ LauncherFails(h) \/ ContainerExits(h) \/ ClientDies(h)
  BY <1>3 DEF Launcher, Fetch, Pull, DockerRun, Restart, ListFails, LauncherFails, EndLauncher,
              ContainerExits, ClientDies, world, TypeOK
<1> QED BY <1>1, <1>2, <1>3 DEF Step

LEMMA HostStep ==
  ASSUME IInv, TypeOK', NEW h \in Hosts, Step(h),
         HostFresh(service[h], docker[h])', HostSeen(asg[h], boot[h], docker[h])'
  PROVE  IInv'
PROOF
<1>1. ASSUME NEW g \in Hosts \ {h}
      PROVE  HostFresh(service[g], docker[g])' /\ HostSeen(asg[g], boot[g], docker[g])'
  BY OthersStay DEF IInv, FreshOK, SeenOK, HostFresh, AllOrNone, Fresh, HostSeen
<1> QED BY <1>1 DEF IInv, FreshOK, SeenOK

\* Where a service starts, nothing has been fetched.
LEMMA StartFresh ==
  ASSUME TypeOK
  PROVE  /\ Stopped.pc = "inactive" /\ Stopped.k = 1 /\ \A s \in Names : Stopped.wants[s] <= secret[s]
         /\ \A s \in Names : secret[s] \in Nat /\ secret[s] >= 1 /\ secret[s] # None
BY BoundsAssumption DEF TypeOK, Stopped, None, NoSecrets

\* The service, or a failure, ends the service or starts it anew.
LEMMA StoppedFresh ==
  ASSUME TypeOK, NEW v, NEW d,
         \/ v \in {Stopped, [Stopped EXCEPT !.pc = "waiting"]}
         \/ v = [Stopped EXCEPT !.pc = "fetch", !.wants = secret]
  PROVE  HostFresh(v, d)
PROOF
<1>1. CASE v = Stopped
  BY <1>1, StartFresh DEF HostFresh
<1>2. CASE v = [Stopped EXCEPT !.pc = "waiting"]
  BY <1>2, StartFresh DEF HostFresh, Stopped
<1>3. CASE v = [Stopped EXCEPT !.pc = "fetch", !.wants = secret]
  BY <1>3, StartFresh DEF HostFresh, Stopped, Fresh
<1> QED BY <1>1, <1>2, <1>3
-----------------------------------------------------------------------------
(* The steps.                                                              *)

LEMMA GroupSteps ==
  ASSUME IInv, NEW h \in Hosts, Group(h) \/ Terminate(h)
  PROVE  IInv'
PROOF
<1>1. TypeOK /\ TypeOK' /\ secret' = secret /\ Step(h)
  BY GroupType, OthersStay DEF IInv, Step
<1>2. HostFresh(service[h], docker[h]) /\ HostSeen(asg[h], boot[h], docker[h])
  BY DEF IInv, FreshOK, SeenOK
<1>3. CASE Launch(h) \/ Terminated(h)
  <2>1. service'[h] = Stopped /\ docker'[h] = NoneYet /\ boot'[h].seen = None
        /\ boot'[h].pc \in {"install", "idle"} /\ asg'[h] \in {"wait", "gone"}
    BY <1>1, <1>3 DEF Launch, Terminated, NoScript, TypeOK
  <2>2. HostFresh(service[h], docker[h])'
    BY <1>1, <2>1, StartFresh DEF HostFresh
  <2>3. HostSeen(asg[h], boot[h], docker[h])'
    BY <2>1 DEF HostSeen, NoneYet, None
  <2> QED BY <1>1, <2>2, <2>3, HostStep
<1>4. CASE HookTimesOut(h) \/ Terminate(h)
  <2>1. UNCHANGED <<boot, service, docker>> /\ asg'[h] = "terminating"
    BY <1>1, <1>4 DEF HookTimesOut, Terminate, TypeOK
  <2>2. HostFresh(service[h], docker[h])' /\ HostSeen(asg[h], boot[h], docker[h])'
    BY <1>1, <1>2, <2>1 DEF HostFresh, HostSeen
  <2> QED BY <1>1, <2>2, HostStep
<1> QED BY <1>3, <1>4 DEF Group

LEMMA ScriptSteps ==
  ASSUME IInv, NEW h \in Hosts, Script(h) \/ BootFails(h) \/ Rerun(h)
  PROVE  IInv'
PROOF
<1>1. TypeOK /\ TypeOK' /\ secret' = secret /\ Step(h)
  BY ScriptType, OthersStay DEF IInv, Step
<1>2. HostFresh(service[h], docker[h]) /\ HostSeen(asg[h], boot[h], docker[h])
  BY DEF IInv, FreshOK, SeenOK
<1>3. boot[h] \in Scripts /\ docker[h] \in Containers
  BY <1>1 DEF TypeOK
<1>4. SUFFICES HostFresh(service[h], docker[h])' /\ HostSeen(asg[h], boot[h], docker[h])'
  BY <1>1, HostStep
<1>5. CASE Install(h)
  <2>1. UNCHANGED <<asg, service, docker>> /\ boot'[h].pc = "start" /\ boot'[h].seen = boot[h].seen
    BY <1>1, <1>3, <1>5 DEF Install, BootGoto, TypeOK, Scripts
  <2> QED BY <1>1, <1>2, <2>1 DEF HostFresh, HostSeen
<1>6. CASE StartService(h)
  <2>1. /\ service'[h] = [Stopped EXCEPT !.pc = "fetch", !.wants = secret]
        /\ docker'[h].id = docker[h].id /\ docker'[h].best = docker[h].best
        /\ boot'[h].pc = "look" /\ boot'[h].seen = boot[h].seen /\ asg' = asg
    BY <1>1, <1>3, <1>6 DEF StartService, TypeOK, Scripts, Containers
  <2>2. HostFresh(service'[h], docker'[h])
    BY <1>1, <2>1, StoppedFresh
  <2> QED BY <1>1, <1>2, <2>1, <2>2 DEF HostFresh, HostSeen
<1>7. CASE Look(h)
  <2>1. /\ UNCHANGED <<asg, service>> /\ docker'[h] = Seen(docker[h])
        /\ boot'[h].pc = "confirm" /\ boot'[h].seen = docker[h].id
    BY <1>1, <1>3, <1>7 DEF Look, TypeOK, Scripts
  <2>2. docker[h].best \in Nat /\ docker'[h].best \in Nat /\ docker[h].id \in Nat
    BY <1>1, <1>3 DEF TypeOK, Containers
  <2> QED BY <1>1, <1>2, <1>3, <2>1, <2>2, SeenType DEF HostFresh, HostSeen
<1>8. CASE Confirm(h)
  <2> DEFINE d == IF Running(h) THEN Seen(docker[h]) ELSE docker[h]
  <2>1. /\ UNCHANGED <<asg, service>> /\ docker'[h] = d
        /\ boot'[h].pc = (IF SameContainer(h) THEN "report" ELSE "look") /\ boot'[h].seen = boot[h].seen
    BY <1>1, <1>3, <1>8 DEF Confirm, BootGoto, TypeOK, Scripts
  <2>2. /\ d.running = docker[h].running /\ d.env = docker[h].env /\ d.id = docker[h].id
        /\ d.best \in Nat /\ docker[h].best \in Nat /\ d.best >= docker[h].best
    BY <1>3, SeenType DEF Containers
  <2>3. SameContainer(h) => d.best = 2
    BY <1>2, <1>3, <1>8, SeenType DEF SameContainer, HostSeen, Confirm, BootAt
  <2> HIDE DEF d
  <2> QED BY <1>1, <1>2, <2>1, <2>2, <2>3 DEF HostFresh, HostSeen
<1>9. CASE Report(h)
  <2>1. /\ UNCHANGED <<service, docker>> /\ docker[h].best >= 2
        /\ boot'[h].pc = "done" /\ boot'[h].seen = boot[h].seen
    BY <1>1, <1>2, <1>3, <1>9 DEF Report, BootGoto, BootAt, HostSeen, TypeOK, Scripts
  <2> QED BY <1>1, <1>2, <2>1 DEF HostFresh, HostSeen
<1>10. CASE BootFails(h)
  <2>1. /\ UNCHANGED <<service, docker>> /\ asg'[h] \in {asg[h], "terminating"}
        /\ boot'[h].pc = "done" /\ boot'[h].seen = boot[h].seen
    BY <1>1, <1>3, <1>10 DEF BootFails, Abandon, Complete, BootGoto, TypeOK, Scripts
  <2> QED BY <1>1, <1>2, <2>1 DEF HostFresh, HostSeen
<1>11. CASE Rerun(h)
  <2>1. /\ service'[h] = Stopped /\ docker'[h].id = docker[h].id /\ docker'[h].best = docker[h].best
        /\ boot'[h].pc = "install" /\ boot'[h].seen = None /\ asg' = asg
    BY <1>1, <1>3, <1>11 DEF Rerun, StopService, NoScript, TypeOK, Containers
  <2>2. HostFresh(service'[h], docker'[h])
    BY <1>1, <2>1, StoppedFresh
  <2>3. docker[h].id >= None
    BY <1>3 DEF Containers, None
  <2> QED BY <1>1, <1>2, <2>1, <2>2, <2>3 DEF HostFresh, HostSeen
<1> QED BY <1>5, <1>6, <1>7, <1>8, <1>9, <1>10, <1>11 DEF Script
\* A secret that was fetched is as new as any, so one more entry of the file is fresh.
LEMMA FetchStep ==
  ASSUME IInv, NEW h \in Hosts, Fetch(h)
  PROVE  HostFresh(service[h], docker[h])' /\ HostSeen(asg[h], boot[h], docker[h])'
PROOF
<1> DEFINE v == service[h]
           name == Secrets[v.k]
           file == [v.file EXCEPT ![name] = secret[name]]
           pc == IF v.k = Len(Secrets) THEN "pull" ELSE "fetch"
<1>1. /\ v \in Services /\ v.pc = "fetch" /\ name \in Names
      /\ v.k \in 1..Len(Secrets) /\ v.file \in Files /\ v.wants \in Files
  BY SecretsOK DEF IInv, TypeOK, Fetch, ServiceAt, Services, Names
<1>2. /\ service'[h].pc = pc /\ service'[h].k = NextSecret(v.k)
      /\ service'[h].file = file /\ service'[h].wants = v.wants /\ service'[h].bare = v.bare
      /\ UNCHANGED <<asg, boot, docker, secret>>
  BY <1>1 DEF IInv, TypeOK, Fetch, Services, world
<1>3. HostFresh(v, docker[h]) /\ HostSeen(asg[h], boot[h], docker[h])
  BY DEF IInv, FreshOK, SeenOK
<1>4. file[name] = secret[name] /\ secret[name] >= v.wants[name] /\ secret[name] # None
  BY <1>1, <1>3, StartFresh DEF HostFresh, IInv, Files
<1>5. \A s \in Names : s # name => file[s] = v.file[s]
  BY <1>1 DEF Files
<1>6. ASSUME NEW i \in 1..v.k PROVE Fresh(file, v.wants, Secrets[i])
  <2>1. CASE Secrets[i] = name
    BY <1>4, <2>1 DEF Fresh
  <2>2. CASE Secrets[i] # name
    <3>1. i \in 1..(v.k - 1) /\ Secrets[i] \in Names
      BY <1>1, <2>2, SecretsOK DEF Names
    <3> QED BY <1>1, <1>3, <1>5, <2>2, <3>1 DEF HostFresh, Fresh
  <2> QED BY <2>1, <2>2
<1> HIDE DEF file, name
<1>7. HostFresh(service[h], docker[h])'
  <2>1. CASE v.k = Len(Secrets)
    <3>1. pc = "pull" /\ \A s \in Names : Fresh(file, v.wants, s)
      BY <1>6, <2>1, SecretsOK DEF Names
    <3> HIDE DEF pc
    <3> QED BY <1>1, <1>2, <1>3, <3>1 DEF HostFresh, AllOrNone
  <2>2. CASE v.k # Len(Secrets)
    <3>1. pc = "fetch" /\ service'[h].k - 1 = v.k
      BY <1>1, <1>2, <2>2, SecretsOK DEF NextSecret
    <3> HIDE DEF pc
    <3> QED BY <1>1, <1>2, <1>3, <1>6, <3>1 DEF HostFresh, AllOrNone
  <2> QED BY <2>1, <2>2
<1> QED BY <1>2, <1>3, <1>7 DEF HostSeen

LEMMA LauncherSteps ==
  ASSUME IInv, NEW h \in Hosts,
         Launcher(h) \/ ListFails(h) \/ LauncherFails(h) \/ ContainerExits(h) \/ ClientDies(h)
  PROVE  IInv'
PROOF
<1>1. TypeOK /\ TypeOK' /\ secret' = secret /\ Step(h)
  BY LauncherType, OthersStay DEF IInv, Step
<1>2. HostFresh(service[h], docker[h]) /\ HostSeen(asg[h], boot[h], docker[h])
  BY DEF IInv, FreshOK, SeenOK
<1>3. service[h] \in Services /\ docker[h] \in Containers /\ boot[h] \in Scripts
  BY <1>1 DEF TypeOK
<1>4. SUFFICES HostFresh(service[h], docker[h])' /\ HostSeen(asg[h], boot[h], docker[h])'
  BY <1>1, HostStep
<1>5. CASE Fetch(h)
  BY <1>5, FetchStep
<1>6. CASE Pull(h)
  <2>1. /\ service[h].pc = "pull" /\ service'[h].pc = "run"
        /\ service'[h].file = service[h].file /\ service'[h].wants = service[h].wants
        /\ service'[h].bare = service[h].bare
        /\ docker'[h].id = docker[h].id /\ docker'[h].best = docker[h].best
        /\ docker'[h].looks = docker[h].looks /\ UNCHANGED <<asg, boot>>
    BY <1>1, <1>3, <1>6 DEF Pull, ServiceAt, TypeOK, Services, Containers
  <2> QED BY <1>1, <1>2, <2>1 DEF HostFresh, AllOrNone, HostSeen
<1>7. CASE DockerRun(h)
  <2>1. /\ service[h].pc = "run" /\ service'[h].pc = "active"
        /\ service'[h].wants = service[h].wants /\ service'[h].bare = service[h].bare
        /\ docker'[h].env = service[h].file /\ docker'[h].best = docker[h].best
        /\ docker'[h].id = docker[h].id + 1 /\ UNCHANGED <<asg, boot>>
    BY <1>1, <1>3, <1>7 DEF DockerRun, ServiceAt, TypeOK, Services, Containers
  <2>2. docker[h].id \in Nat /\ boot[h].seen \in Nat
    BY <1>3 DEF Containers, Scripts
  <2>3. HostSeen(asg[h], boot[h], docker[h])'
    BY <1>2, <2>1, <2>2 DEF HostSeen
  <2> QED BY <1>1, <1>2, <2>1, <2>3 DEF HostFresh, AllOrNone
<1>8. CASE Restart(h)
  <2>1. /\ service'[h] = [Stopped EXCEPT !.pc = "fetch", !.wants = secret]
        /\ UNCHANGED <<asg, boot, docker>>
    BY <1>1, <1>8 DEF Restart, TypeOK
  <2>2. HostFresh(service'[h], docker'[h])
    BY <1>1, <2>1, StoppedFresh
  <2> QED BY <1>1, <1>2, <2>1, <2>2 DEF HostFresh, HostSeen
<1>9. CASE LauncherFails(h) \/ ContainerExits(h) \/ ClientDies(h)
  <2>1. /\ service'[h] = [Stopped EXCEPT !.pc = "waiting"] /\ UNCHANGED <<asg, boot>>
        /\ docker'[h].id = docker[h].id /\ docker'[h].best = docker[h].best
        /\ docker'[h].looks = docker[h].looks
    BY <1>1, <1>3, <1>9
       DEF LauncherFails, EndLauncher, ContainerExits, ClientDies, TypeOK, Containers
  <2>2. HostFresh(service'[h], docker'[h])
    BY <1>1, <2>1, StoppedFresh
  <2> QED BY <1>1, <1>2, <2>1, <2>2 DEF HostFresh, HostSeen
<1>10. CASE ListFails(h)
  <2>1. /\ service[h].pc = "fetch" /\ service[h].file = NoSecrets
        /\ service' = [service EXCEPT ![h].pc = "pull", ![h].bare = TRUE]
        /\ UNCHANGED <<asg, boot, docker>>
    BY <1>10 DEF ListFails, ServiceAt
  <2>2. /\ service'[h].pc = "pull" /\ service'[h].bare
        /\ service'[h].file = NoSecrets /\ service'[h].wants = service[h].wants
    BY <1>1, <1>3, <2>1 DEF TypeOK, Services
  <2> QED BY <1>1, <1>2, <2>1, <2>2 DEF HostFresh, HostSeen, AllOrNone
<1> QED BY <1>5, <1>6, <1>7, <1>8, <1>9, <1>10 DEF Launcher

\* A rotation makes what a service wants no newer.
LEMMA RotateStep ==
  ASSUME IInv, NEW s \in Names, Rotate(s)
  PROVE  IInv'
PROOF
<1>1. TypeOK'
  BY RotateType DEF IInv
<1>2. UNCHANGED <<asg, boot, service, docker>>
  BY DEF Rotate
<1>3. \A n \in Names : secret'[n] >= secret[n] /\ secret[n] \in Nat /\ secret'[n] \in Nat
  BY <1>1 DEF Rotate, IInv, TypeOK
<1>4. \A h \in Hosts : service[h].wants \in [Names -> Nat]
  BY BoundsAssumption DEF IInv, TypeOK, Services, Files
<1>5. FreshOK'
  BY <1>2, <1>3, <1>4 DEF IInv, FreshOK, HostFresh, AllOrNone, Fresh
<1>6. SeenOK'
  BY <1>2 DEF IInv, SeenOK, HostSeen
<1> QED BY <1>1, <1>5, <1>6 DEF IInv

-----------------------------------------------------------------------------
(* The invariant.                                                          *)

LEMMA InitOK == Init => IInv
PROOF
<1> SUFFICES ASSUME Init PROVE IInv
  OBVIOUS
<1>1. TypeOK
  BY InitialsOK, BoundsAssumption DEF Init, TypeOK
<1>2. FreshOK
  BY <1>1, StoppedFresh DEF FreshOK, Init
<1>3. SeenOK
  BY DEF SeenOK, HostSeen, Init, NoScript, NoneYet, None
<1> QED BY <1>1, <1>2, <1>3 DEF IInv

LEMMA StepOK == IInv /\ [Next]_vars => IInv'
PROOF
<1> SUFFICES ASSUME IInv, [Next]_vars PROVE IInv'
  OBVIOUS
<1>1. ASSUME NEW h \in Hosts, Step(h) PROVE IInv'
  BY <1>1, GroupSteps, ScriptSteps, LauncherSteps DEF Step
<1>2. ASSUME NEW s \in Names, Rotate(s) PROVE IInv'
  BY <1>2, RotateStep
<1>3. CASE UNCHANGED vars
  BY <1>3 DEF vars, IInv, TypeOK, FreshOK, SeenOK, HostFresh, AllOrNone, Fresh, HostSeen
<1> QED BY <1>1, <1>2, <1>3 DEF Next, Step

\* Every reachable state is well typed, and there are never more versions of a secret
\* than rotations (BUILDERS.md).
THEOREM TypeCorrect == Spec => []TypeOK
PROOF
<1>1. IInv => TypeOK
  BY DEF IInv
<1> QED BY InitOK, StepOK, <1>1, PTL DEF Spec

\* For any secrets, rotated at any time, and any failure of the launcher: what
\* `docker run` gets is complete and not older than the start of the service, or has
\* no secret at all, which takes a failure to list them (builder-launcher.sh,
\* BUILDERS.md).
THEOREM BuildersGetFreshSecrets == Spec => []EverySecretIsFresh
PROOF
<1>1. IInv => EverySecretIsFresh
  BY DEF IInv, FreshOK, HostFresh, AllOrNone, Fresh, EverySecretIsFresh, Running, ServiceAt
<1> QED BY InitOK, StepOK, <1>1, PTL DEF Spec

\* For any number of hosts, failures and reruns: the launch hook is continued only after
\* the script saw one container in two looks (builder-startup.sh, BUILDERS.md).
THEOREM AdmissionNeedsTwoLooks == Spec => []AdmittedAfterTwoLooks
PROOF
<1>1. IInv => AdmittedAfterTwoLooks
  BY DEF IInv, SeenOK, HostSeen, AdmittedAfterTwoLooks
<1> QED BY InitOK, StepOK, <1>1, PTL DEF Spec

=============================================================================
