----------------------------- MODULE AmiBuilder -----------------------------
(***************************************************************************)
(* gha-image-builder: the Lambda function that rebuilds the machine image  *)
(* (AMI) of the CI runners once a day for each architecture, names it in   *)
(* an SSM parameter and deregisters the old images.  Nothing is retried    *)
(* before the next day, and the function may end at any of its calls.      *)
(*                                                                         *)
(* At most one image of an architecture is built on a day, so the image is *)
(* identified by its architecture and its age in days.                     *)
(***************************************************************************)
EXTENDS Naturals, FiniteSets

CONSTANTS
  Arches,      \* architectures, each with a schedule and a parameter
  None,        \* parameter not set
  MaxAge,      \* an image older than this many days is deregistered: 14
  MaxFailures  \* how many invocations fail

\* What the constants have to be.
BoundsAssumption == MaxAge \in Nat /\ MaxFailures \in Nat
NoneAssumption == None \notin Nat

\* An image of this age is long gone; parameters that name one count no further.
LongGone == MaxAge + MaxFailures + 3
Ages     == 0..LongGone

VARIABLES
  images,    \* EC2: the registered images, <<architecture, age>>
  ssm,       \* per architecture, the age of the image the parameter names
  job,       \* per architecture, the invocation of the day
  dangling,  \* architectures with a failure between deregistering and publishing
  failures

vars == <<images, ssm, job, dangling, failures>>

Done == [pc |-> "done", todo |-> {}]

At(a, pc)   == job[a].pc = pc
Goto(a, pc) == job' = [job EXCEPT ![a].pc = pc]

\* Mutant: the images of the whole account are listed.
BugNoFilter(a) == images

\* describe_images, filtered by architecture.
ImagesOf(a) == {i \in images : i[1] = a}

\* The image of today's invocation, and the one the parameter names.
Built(a)     == <<a, 0>>
Published(a) == <<a, ssm[a]>>

-----------------------------------------------------------------------------

\* post_zulip: max() of no image raises.
NothingToReport(a) ==
  /\ At(a, "scheduled")
  /\ ImagesOf(a) = {}
  /\ Goto(a, "done")
  /\ UNCHANGED <<images, ssm, dangling, failures>>

\* A newest image of more than two days is reported, which changes nothing here.
PostZulip(a) ==
  /\ At(a, "scheduled")
  /\ ImagesOf(a) # {}
  /\ Goto(a, "build")
  /\ UNCHANGED <<images, ssm, dangling, failures>>

PackerBuild(a) ==
  /\ At(a, "build")
  /\ images' = images \cup {Built(a)}
  /\ Goto(a, "describe")
  /\ UNCHANGED <<ssm, dangling, failures>>

DescribeImages(a) ==
  /\ At(a, "describe")
  /\ job' = [job EXCEPT ![a].pc = "update", ![a].todo = ImagesOf(a)]
  /\ UNCHANGED <<images, ssm, dangling, failures>>

\* update_ami goes through the images in whatever order they were listed.
Publish(a) ==
  /\ At(a, "update")
  /\ Built(a) \in job[a].todo
  /\ ssm' = [ssm EXCEPT ![a] = 0]
  /\ job' = [job EXCEPT ![a].todo = @ \ {Built(a)}]
  /\ dangling' = dangling \ {a}
  /\ UNCHANGED <<images, failures>>

\* Mutant: images are kept for a day too long.
BugKeepsLonger(i) == i[2] > MaxAge + 1

IsOld(i) == i[2] > MaxAge

Deregister(a) ==
  /\ At(a, "update")
  /\ \E i \in job[a].todo \ {Built(a)} :
       /\ IsOld(i)
       /\ images' = images \ {i}
       /\ job' = [job EXCEPT ![a].todo = @ \ {i}]
  /\ UNCHANGED <<ssm, dangling, failures>>

\* The other images of the list are left alone.
Return(a) ==
  /\ At(a, "update")
  /\ \A i \in job[a].todo : i # Built(a) /\ ~IsOld(i)
  /\ job' = [job EXCEPT ![a] = Done]
  /\ UNCHANGED <<images, ssm, dangling, failures>>

\* An operator builds and publishes the first image by hand: the function itself
\* never builds it (NothingToReport).
SeedByHand(a) ==
  /\ At(a, "done")
  /\ ImagesOf(a) = {}
  /\ images' = images \cup {Built(a)}
  /\ ssm' = [ssm EXCEPT ![a] = 0]
  /\ dangling' = dangling \ {a}
  /\ UNCHANGED <<job, failures>>

\* A call or a command fails, or the 15 minutes are over: within the loop, the old
\* image may be gone by then and the parameter not yet name the new one.
Fails(a) ==
  /\ ~At(a, "done")
  /\ failures < MaxFailures
  /\ failures' = failures + 1
  /\ dangling' = IF At(a, "update") /\ Published(a) \notin images
                 THEN dangling \cup {a} ELSE dangling
  /\ job' = [job EXCEPT ![a] = Done]
  /\ UNCHANGED <<images, ssm>>

Older(age) == IF age \in 0..(LongGone - 1) THEN age + 1 ELSE age

NextDay ==
  /\ \A a \in Arches : At(a, "done")
  /\ job' = [a \in Arches |-> [Done EXCEPT !.pc = "scheduled"]]
  /\ images' = {<<i[1], Older(i[2])>> : i \in images}
  /\ ssm' = [a \in Arches |-> Older(ssm[a])]
  /\ UNCHANGED <<dangling, failures>>

-----------------------------------------------------------------------------

\* A new account.
Init ==
  /\ images = {}
  /\ ssm = [a \in Arches |-> None]
  /\ job = [a \in Arches |-> Done]
  /\ dangling = {}
  /\ failures = 0

Step(a) ==
  \/ NothingToReport(a) \/ PostZulip(a) \/ PackerBuild(a) \/ DescribeImages(a)
  \/ Publish(a) \/ Deregister(a) \/ Return(a)

Next == NextDay \/ \E a \in Arches : Step(a) \/ Fails(a) \/ SeedByHand(a)

-----------------------------------------------------------------------------
(* Properties.                                                             *)

TypeOK ==
  /\ images \subseteq Arches \X Ages
  /\ ssm \in [Arches -> Ages \cup {None}]
  /\ job \in [Arches -> [pc : {"scheduled", "build", "describe", "update", "done"},
                         todo : SUBSET (Arches \X Ages)]]
  /\ dangling \subseteq Arches
  /\ failures \in 0..MaxFailures

\* Runners are started from the image the parameter names (iam.tf).  It is there,
\* except that the loop of update_ami, after days of failures, may come to the old
\* image before the new one: until it publishes the new one, and if a call in
\* between fails, until the invocation of another day does.  The failures of one
\* architecture never take the named image of the other (index.py, update_ami).
NamedIsRegistered ==
  \A a \in Arches :
    ssm[a] # None /\ Published(a) \notin images =>
      /\ ssm[a] > MaxAge
      /\ (At(a, "update") /\ Built(a) \in job[a].todo) \/ a \in dangling

\* "Builds are expected daily" (index.py): once no invocation fails any more, an
\* architecture that has an image has a published one of today or yesterday,
\* and the older ones do not pile up.
PublishedDaily ==
  \A a \in Arches :
    <>[](ImagesOf(a) # {} =>
           /\ Published(a) \in images /\ ssm[a] <= 1
           /\ \A i \in ImagesOf(a) : i[2] <= MaxAge + 1)

=============================================================================
