----------------------------- MODULE EcsDeploy -----------------------------
(***************************************************************************)
(* How an image gets from CI into an ECS service.  The action              *)
(* upload-docker-image pushes it as `latest` and asks ECS for a new        *)
(* deployment; two workflows may run it at the same time.  An operator may *)
(* move the tag back with aws-rollback.py, and the lifecycle policy of the *)
(* repository deletes old images.  Images are numbered as they are pushed. *)
(***************************************************************************)
EXTENDS Naturals, FiniteSets

CONSTANTS
  Jobs,          \* workflow runs that use the action, once each
  Redeploys,     \* those with a redeploy_ecs_service
  Tasks,         \* the tasks of the service
  KeepUntagged,  \* how many untagged images the lifecycle policy keeps
  MaxErrors      \* how many calls of the programs fail

JobsAssumption         == IsFiniteSet(Jobs) /\ Redeploys \subseteq Jobs
KeepUntaggedAssumption == KeepUntagged \in Nat \ {0}
BoundsAssumption       == MaxErrors \in Nat

NoImage == 0
Initial == 1      \* the image that is there when the behaviour starts
Numbers == NoImage..Cardinality(Jobs) + 1

Operator == "operator"
Movers   == Jobs \union {Operator, "nobody"}

VARIABLES
  images,      \* the images in the repository
  latest,      \* the image tagged `latest`
  mover,       \* who moved the tag there
  previous,    \* the image that was, and who had moved the tag there
  pushes,      \* how many images have been pushed
  ci,          \* per job, where the action is and the image it pushed
  deployment,  \* the newest deployment and what its tag stood for
  tasks,       \* per task, the deployment and the image it was started from
  rollback,    \* the run of aws-rollback.py
  errors

vars == <<images, latest, mover, previous, pushes, ci, deployment, tasks, rollback, errors>>

At(j, pc) == ci[j].pc = pc

\* put-image: the tag moves to the image.
Tag(image, who) ==
  /\ images' = images \union {image}
  /\ latest' = image
  /\ previous' = [image |-> latest, mover |-> mover]
  /\ mover' = who

\* update-service with forceNewDeployment.
ForceDeployment == deployment' = [n |-> deployment.n + 1, image |-> latest]

SameTag        == UNCHANGED <<images, latest, mover, previous>>
SameDeployment == UNCHANGED deployment

-----------------------------------------------------------------------------
(* upload-docker-image.  Each runner has a docker of its own.              *)

\* Inputs, account, authorization token, docker login, docker tag.
Prepare(j) ==
  /\ At(j, "start")
  /\ ci' = [ci EXCEPT ![j].pc = "push"]
  /\ SameTag /\ SameDeployment
  /\ UNCHANGED <<pushes, tasks, rollback, errors>>

PushImage(j) ==
  /\ At(j, "push")
  /\ Tag(pushes + 1, j)
  /\ pushes' = pushes + 1

\* Mutant: docker push is not awaited.
BugRedeployFirst(j) ==
  /\ At(j, "push")
  /\ ForceDeployment
  /\ Tag(pushes + 1, j)
  /\ pushes' = pushes + 1
  /\ ci' = [ci EXCEPT ![j].pc = "done", ![j].image = pushes']
  /\ UNCHANGED <<tasks, rollback, errors>>

Push(j) ==
  /\ PushImage(j)
  /\ ci' = [ci EXCEPT ![j].pc = "redeploy", ![j].image = pushes']
  /\ SameDeployment
  /\ UNCHANGED <<tasks, rollback, errors>>

\* `redeploy_ecs_service !== ""`
Redeploy(j) ==
  /\ At(j, "redeploy")
  /\ IF j \in Redeploys THEN ForceDeployment ELSE SameDeployment
  /\ ci' = [ci EXCEPT ![j].pc = "done"]
  /\ SameTag
  /\ UNCHANGED <<pushes, tasks, rollback, errors>>

\* Any step throws, before or after its effect: process.exit(1).
Fails(j) ==
  /\ errors < MaxErrors
  /\ errors' = errors + 1
  /\ \/ /\ \/ At(j, "start") \/ At(j, "push") \/ At(j, "redeploy")
        /\ SameTag /\ SameDeployment
        /\ ci' = [ci EXCEPT ![j].pc = "failed"]
        /\ UNCHANGED pushes
     \/ /\ PushImage(j) /\ SameDeployment
        /\ ci' = [ci EXCEPT ![j].pc = "failed", ![j].image = pushes']
     \/ /\ At(j, "redeploy") /\ j \in Redeploys
        /\ ForceDeployment /\ SameTag
        /\ ci' = [ci EXCEPT ![j].pc = "failed"]
        /\ UNCHANGED pushes
  /\ UNCHANGED <<tasks, rollback>>

-----------------------------------------------------------------------------
(* aws-rollback.py, run once by an operator.                               *)

Rolling(pc) == rollback.pc = pc

RollbackStep(pc, next) ==
  /\ Rolling(pc)
  /\ rollback' = [rollback EXCEPT !.pc = next]
  /\ UNCHANGED <<pushes, ci, tasks>>

\* get_images: what there is now is what the operator picks from.
ListImages ==
  /\ Rolling("idle")
  /\ rollback' = [rollback EXCEPT !.pc = "pick", !.listed = images, !.tagged = latest]
  /\ SameTag /\ SameDeployment
  /\ UNCHANGED <<pushes, ci, tasks, errors>>

\* The operator leaves, or picks the image that the list shows as latest.
PickNothing ==
  /\ RollbackStep("pick", "ended")
  /\ SameTag /\ SameDeployment
  /\ UNCHANGED errors

Pick ==
  /\ Rolling("pick")
  /\ \E i \in rollback.listed \ {rollback.tagged} :
       rollback' = [rollback EXCEPT !.pc = "manifest", !.image = i]
  /\ SameTag /\ SameDeployment
  /\ UNCHANGED <<pushes, ci, tasks, errors>>

\* batch-get-image; an image that has gone has no manifest.
GetManifest ==
  /\ RollbackStep("manifest", IF rollback.image \in images THEN "retag" ELSE "ended")
  /\ SameTag /\ SameDeployment
  /\ UNCHANGED errors

\* put-image refuses an image that has the tag already, or is not there any more.
Retag ==
  /\ RollbackStep("retag", IF rollback.image \in images \ {latest} THEN "services" ELSE "ended")
  /\ IF rollback.image \in images \ {latest} THEN Tag(rollback.image, Operator) ELSE SameTag
  /\ SameDeployment
  /\ UNCHANGED errors

\* can_redeploy finds the service.
FindService ==
  /\ RollbackStep("services", "redeploy")
  /\ SameTag /\ SameDeployment
  /\ UNCHANGED errors

\* force_redeploy() lacks its argument: a TypeError ends the program.
ForceRedeploy ==
  /\ RollbackStep("redeploy", "raised")
  /\ SameTag /\ SameDeployment
  /\ UNCHANGED errors

\* A command of the aws program fails: err().
RollbackFails ==
  /\ errors < MaxErrors
  /\ errors' = errors + 1
  /\ rollback.pc \in {"manifest", "retag", "services"}
  /\ RollbackStep(rollback.pc, "ended")
  /\ SameTag /\ SameDeployment

-----------------------------------------------------------------------------
(* The lifecycle policy of the repository, and ECS.                        *)

Newer(i, set) == {k \in set : k > i}

\* Mutant: the policy counts tagged images too.
BugCountsAll(i) == i # latest /\ Cardinality(Newer(i, images)) >= KeepUntagged

\* "Only keep the last 3 untagged images."
Expires(i) == i # latest /\ Cardinality(Newer(i, images \ {latest})) >= KeepUntagged

Expire ==
  /\ \E i \in images : Expires(i)
  /\ images' = {i \in images : ~Expires(i)}
  /\ UNCHANGED <<latest, mover, previous, pushes, ci, deployment, tasks, rollback, errors>>

\* What a new task may run: the image the tag stood for when the deployment was
\* made, or stands for now, depending on when ECS looks.
Pullable == {deployment.image, latest} \intersect images

\* A task of an older deployment is replaced, or one that stopped started again.
StartTask(t) ==
  /\ \E i \in Pullable : tasks' = [tasks EXCEPT ![t] = [n |-> deployment.n, image |-> i]]
  /\ UNCHANGED <<images, latest, mover, previous, pushes, ci, deployment, rollback, errors>>

ReplaceTask(t) == tasks[t].n # deployment.n /\ StartTask(t)
RestartTask(t) == tasks[t].n = deployment.n /\ StartTask(t)

-----------------------------------------------------------------------------

Init ==
  /\ images = {Initial} /\ latest = Initial
  /\ previous = [image |-> NoImage, mover |-> "nobody"] /\ mover = "nobody" /\ pushes = Initial
  /\ ci = [j \in Jobs |-> [pc |-> "start", image |-> NoImage]]
  /\ deployment = [n |-> 0, image |-> Initial]
  /\ tasks = [t \in Tasks |-> deployment]
  /\ rollback = [pc |-> "idle", listed |-> {}, tagged |-> NoImage, image |-> NoImage]
  /\ errors = 0

Upload(j) == Prepare(j) \/ Push(j) \/ Redeploy(j)

Rollback ==
  \/ ListImages \/ PickNothing \/ Pick \/ GetManifest \/ Retag
  \/ FindService \/ ForceRedeploy \/ RollbackFails

Next ==
  \/ \E j \in Jobs : Upload(j) \/ Fails(j)
  \/ Rollback \/ Expire
  \/ \E t \in Tasks : ReplaceTask(t) \/ RestartTask(t)

\* Workflows go on, and ECS carries out its newest deployment.
Fairness ==
  /\ \A j \in Jobs : WF_vars(Upload(j))
  /\ \A t \in Tasks : WF_vars(ReplaceTask(t))

Spec     == Init /\ [][Next]_vars
FairSpec == Spec /\ Fairness

-----------------------------------------------------------------------------
(* Properties.                                                             *)

TypeOK ==
  /\ images \subseteq Numbers
  /\ latest \in images
  /\ mover \in Movers
  /\ previous \in [image : Numbers, mover : Movers]
  /\ pushes \in Numbers
  /\ ci \in [Jobs -> [pc : {"start", "push", "redeploy", "done", "failed"}, image : Numbers]]
  /\ deployment \in [n : 0..Cardinality(Jobs), image : Numbers]
  /\ tasks \in [Tasks -> [n : 0..deployment.n, image : Numbers]]
  /\ rollback \in [pc : {"idle", "pick", "manifest", "retag", "services", "redeploy", "raised", "ended"},
                   listed : SUBSET Numbers, tagged : Numbers, image : Numbers]
  /\ errors \in 0..MaxErrors

\* When the action that pushed the newest image has succeeded and was to redeploy
\* the service, every task runs what is tagged latest, whatever other runs of the
\* action did in between and whenever ECS looks at the tag.
UploadIsServed ==
  mover \in Redeploys /\ ci[mover].pc = "done" => \A t \in Tasks : tasks[t].image = latest

\* It is possible to go back by one image: the lifecycle policy never deletes the
\* one whose tag was taken last, unless that is an old one an operator had gone
\* back to before.
PreviousIsKept == previous.image = NoImage \/ previous.mover = Operator \/ previous.image \in images

\* "successfully rollback and re-deploy": a rollback that moved the tag and found
\* the service, and whose commands all succeeded, has asked for a deployment.
RollbackRedeploys ==
  Rolling("raised") /\ mover = Operator => deployment.image = latest

=============================================================================
