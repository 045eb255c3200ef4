--------------------------- MODULE ScheduledJobs ---------------------------
(***************************************************************************)
(* The jobs that timers, cron, schedules and CI start, each on machines of *)
(* its own.  They share nothing, so every behaviour is one of a single     *)
(* job, `which`; the others stay as they were set up.                      *)
(***************************************************************************)
EXTENDS Naturals, Sequences, FiniteSets

CONSTANTS
  Users, Unaddable, Crons, MaxChanges, MaxDeaths,     \* team_login
  Arches, None, MaxAge, MaxBuildFailures,             \* the AMI builder
  Hooks, Validity, RenewWithin, MaxBadWeeks,          \* the letsencrypt role
  MaxVersion, MaxCuts,                                \* the playground
  Roles, MaxFaults,                                   \* the firewall script
  MaxImages, MaxRollbacks, MaxAccidents,              \* a Crater agent
  Plans, Dumped, KeepDaily, MaxDays, MaxErrors,       \* the backup role
  Homes, Quoted, MaxUses,                             \* the nightly clean-up
  Containers, ImageNames, ImageOf, Order,             \* the docker role
  MaxTags, MaxAttempts, MaxPullFailures, MaxEnded, MaxReboots,
  Jobs, Redeploys, Tasks, KeepUntagged, MaxCallErrors \* uploads to ECS

VARIABLES
  which,
  team, keyfiles, account, run, stranded, changes, deaths,
  images, ssm, job, dangling, buildFailures,
  certificate, served, renewal, hook, bad,
  bucket, binary, runnable, server, gaveUp, script, cuts, behind,
  configured, chains, rules, todo, service, loaded, faults, unlucky,
  latest, built, local, tag, agent, unit, boot, update, old, missed, rollbacks, accidents,
  day, repository, snapshots, dump, backup, broken, errors,
  checkouts, recent, unreadable, locked, sweep, touched, uses,
  registry, pulled, updater, bootPull, containers, running, pullFailures, ended, reboots, left,
  ecr, tagged, mover, previous, pushes, ci, deployment, tasks, rollback, callErrors

login      == <<team, keyfiles, account, run, stranded, changes, deaths>>
ami        == <<images, ssm, job, dangling, buildFailures>>
ssl        == <<certificate, served, renewal, hook, bad>>
playground == <<bucket, binary, runnable, server, gaveUp, script, cuts, behind>>
firewall   == <<configured, chains, rules, todo, service, loaded, faults, unlucky>>
crater     == <<latest, built, local, tag, agent, unit, boot, update, old, missed, rollbacks, accidents>>
backups    == <<day, repository, snapshots, dump, backup, broken, errors>>
cleanup    == <<checkouts, recent, unreadable, locked, sweep, touched, uses>>
docker     == <<registry, pulled, updater, bootPull, containers, running, pullFailures, ended, reboots, left>>
ecs        == <<ecr, tagged, mover, previous, pushes, ci, deployment, tasks, rollback, callErrors>>
vars       == <<which, login, ami, ssl, playground, firewall, crater, backups, cleanup, docker, ecs>>

Login == INSTANCE TeamLogin WITH MaxFailures <- MaxDeaths
Ami   == INSTANCE AmiBuilder WITH failures <- buildFailures, MaxFailures <- MaxBuildFailures
Ssl   == INSTANCE SslRenewal WITH disk <- certificate, pc <- renewal
Play  == INSTANCE PlaygroundUpdate WITH disk <- binary
Fire  == INSTANCE Firewall
Agent == INSTANCE CraterAgent
Plan  == INSTANCE BackupPlans WITH MaxFaults <- MaxErrors
Clean == INSTANCE CheckoutCleanup WITH built <- checkouts
Docker == INSTANCE DockerImages WITH
            Images <- ImageNames, local <- pulled, script <- updater, unit <- bootPull,
            service <- containers, failures <- pullFailures, MaxVersion <- MaxTags, MaxFailures <- MaxPullFailures
Ecs == INSTANCE EcsDeploy WITH
            images <- ecr, latest <- tagged, errors <- callErrors, MaxErrors <- MaxCallErrors

ASSUME LoginAssumption == Login!BoundsAssumption
ASSUME SslAssumption == Ssl!HooksAssumption /\ Ssl!WeeksAssumption
ASSUME AmiAssumption == Ami!BoundsAssumption /\ Ami!NoneAssumption
ASSUME PlayAssumption == Play!BoundsAssumption
ASSUME FireAssumption == Fire!RolesAssumption /\ Fire!BoundsAssumption
ASSUME AgentAssumption == Agent!BoundsAssumption
ASSUME PlanAssumption == Plan!KeepDailyAssumption /\ Plan!BoundsAssumption
ASSUME CleanAssumption == Clean!BoundsAssumption
ASSUME DockerAssumption ==
  Docker!ImageOfAssumption /\ Docker!OrderAssumption /\ Docker!BoundsAssumption
ASSUME EcsAssumption ==
  Ecs!JobsAssumption /\ Ecs!KeepUntaggedAssumption /\ Ecs!BoundsAssumption

Init ==
  /\ which \in {"login", "ami", "ssl", "playground", "firewall", "crater", "backups", "cleanup",
               "docker", "ecs"}
  /\ Login!Init /\ Ami!Init /\ Ssl!Init /\ Play!Init
  /\ Fire!Init /\ Agent!Init /\ Plan!Init /\ Clean!Init
  /\ Docker!Init /\ Ecs!Init

\* A step of each job.
Only(name, A, others) == which = name /\ A /\ UNCHANGED <<which, others>>

LoginJob(A) == Only("login", A, <<ami, ssl, playground, firewall, crater, backups, cleanup, docker, ecs>>)
AmiJob(A)   == Only("ami", A, <<login, ssl, playground, firewall, crater, backups, cleanup, docker, ecs>>)
SslJob(A)   == Only("ssl", A, <<login, ami, playground, firewall, crater, backups, cleanup, docker, ecs>>)
PlayJob(A)  == Only("playground", A, <<login, ami, ssl, firewall, crater, backups, cleanup, docker, ecs>>)
FireJob(A)  == Only("firewall", A, <<login, ami, ssl, playground, crater, backups, cleanup, docker, ecs>>)
AgentJob(A) == Only("crater", A, <<login, ami, ssl, playground, firewall, backups, cleanup, docker, ecs>>)
PlanJob(A)  == Only("backups", A, <<login, ami, ssl, playground, firewall, crater, cleanup, docker, ecs>>)
CleanJob(A) == Only("cleanup", A, <<login, ami, ssl, playground, firewall, crater, backups, docker, ecs>>)
DockerJob(A) == Only("docker", A, <<login, ami, ssl, playground, firewall, crater, backups, cleanup, ecs>>)
EcsJob(A)   == Only("ecs", A, <<login, ami, ssl, playground, firewall, crater, backups, cleanup, docker>>)

Next ==
  \/ LoginJob(Login!Next) \/ AmiJob(Ami!Next) \/ SslJob(Ssl!Next) \/ PlayJob(Play!Next)
  \/ FireJob(Fire!Next) \/ AgentJob(Agent!Next) \/ PlanJob(Plan!Next) \/ CleanJob(Clean!Next)
  \/ DockerJob(Docker!Next) \/ EcsJob(Ecs!Next)

\* Cron, the daily schedules, the timers and the machines' manager keep going, and
\* a run goes on until it ends or fails.  The certificates and the backups need no
\* fairness, their weeks and days are numbered; nothing of the firewall is liveness.
Fairness ==
  /\ \A r \in Crons : WF_vars(LoginJob(Login!Step(r)))
  /\ WF_vars(AmiJob(Ami!NextDay)) /\ \A a \in Arches : WF_vars(AmiJob(Ami!Step(a)))
  /\ WF_vars(PlayJob(Play!Step))
  /\ WF_vars(AgentJob(Agent!StartUp)) /\ WF_vars(AgentJob(Agent!Update))
  /\ WF_vars(CleanJob(Clean!Sweep))
  /\ WF_vars(DockerJob(Docker!TimerFires))
  /\ \A u \in Docker!Units : WF_vars(DockerJob(Docker!Step(u)))
  /\ \A c \in Containers :
       WF_vars(DockerJob(Docker!ContainerStarts(c) \/ Docker!ContainerStartFails(c)))
  /\ \A j \in Jobs : WF_vars(EcsJob(Ecs!Upload(j)))
  /\ \A t \in Tasks : WF_vars(EcsJob(Ecs!ReplaceTask(t)))

Spec     == Init /\ [][Next]_vars
FairSpec == Spec /\ Fairness

-----------------------------------------------------------------------------
(* The properties of the jobs, under the names they have in their modules. *)

\* The types of the job's variables; those of the others never change.
TypeOK ==
  CASE which = "login"      -> Login!TypeOK
    [] which = "ami"        -> Ami!TypeOK
    [] which = "ssl"        -> Ssl!TypeOK
    [] which = "playground" -> Play!TypeOK
    [] which = "firewall"   -> Fire!TypeOK
    [] which = "crater"     -> Agent!TypeOK
    [] which = "backups"    -> Plan!TypeOK
    [] which = "cleanup"    -> Clean!TypeOK
    [] which = "docker"     -> Docker!TypeOK
    [] which = "ecs"        -> Ecs!TypeOK

\* Who has left the team for good ends up without keys.
RevokedLoseKeys == Login!RevokedLoseKeys

\* A member for good ends up with keys and a complete account.
MembersGetIn == Login!MembersGetIn

\* The machine image that the parameter names is there, with one exception.
NamedIsRegistered == which = "ami" => Ami!NamedIsRegistered

\* Once builds succeed, the published machine image is of today or yesterday.
PublishedDaily == Ami!PublishedDaily

\* No service serves an expired certificate.
NeverExpired == Ssl!NeverExpired

\* The newest playground binary ends up being served, with two exceptions.
NewestIsServed == <>[](which = "playground" => Play!Settled)

\* An enabled firewall has exactly the rules that are configured.
EnabledIsExact == which = "firewall" => Fire!EnabledIsExact

\* A run of the firewall script without bad luck never ends halfway.
CleanRunSucceeds == which = "firewall" => Fire!CleanRunSucceeds

\* One failing command cannot lock SSH out for good.
SshStaysOpen == which = "firewall" => Fire!SshStaysOpen

\* The Crater agent ends up on the tagged image.
AgentIsCurrent == <>[](which = "crater" => Agent!Settled)

\* A failing backup plan does not keep the others from their snapshot.
OthersAreBackedUp == which = "backups" => Plan!OthersAreBackedUp

\* A build directory in use is not deleted behind its owner's back.
InUseIsKept == Clean!InUseIsKept

\* Unused build directories go, up to the first that cannot be deleted, whatever
\* happens in the other homes.
UnusedIsDeleted == Clean!UnusedIsDeleted

\* A container behind its image is about to be restarted, unless a run left it so.
OutdatedIsRestarted == which = "docker" => Docker!OutdatedIsRestarted

\* Every container ends up on the newest image, with the exceptions it names.
NewestRuns == <>[](which = "docker" => Docker!AllNewest)

\* The image a successful upload left as latest is the one that is served.
UploadIsServed == <>[](which = "ecs" => Ecs!UploadIsServed)

\* The image before the latest can be gone back to.
PreviousIsKept == which = "ecs" => Ecs!PreviousIsKept

=============================================================================
