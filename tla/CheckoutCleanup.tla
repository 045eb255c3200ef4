--------------------------- MODULE CheckoutCleanup ---------------------------
(***************************************************************************)
(* clean-unused-checkouts.sh: cron starts it every night on a dev desktop. *)
(* In each home it lists the build directories, then looks which of their  *)
(* projects were modified in the last 60 days, then deletes the others'    *)
(* directories, while their owners work.                                   *)
(***************************************************************************)
EXTENDS Naturals

CONSTANTS
  Homes,        \* homes of users other than root
  Quoted,       \* homes with quotes in the name of every directory
  MaxUses       \* how often somebody uses a project again

\* What the constant has to be.
BoundsAssumption == MaxUses \in Nat

Checkouts == Homes \X {1, 2}

VARIABLES
  built,        \* checkouts with a build directory
  recent,       \* those modified in the last 60 days
  unreadable,   \* homes with a directory their owner cannot read
  locked,       \* checkouts whose build directory its owner cannot delete
  sweep,        \* the run in progress
  touched,      \* history: checkouts used, or made unreadable, since their home was listed
  uses

vars == <<built, recent, unreadable, locked, sweep, touched, uses>>
home == <<built, recent, unreadable, locked>>

NoSweep == [pc |-> "idle", homes |-> {}, found |-> {}, unused |-> {}]

InHome(h) == {c \in Checkouts : c[1] = h}

-----------------------------------------------------------------------------
(* The script.                                                             *)

CronFires ==
  /\ sweep.pc = "idle"
  /\ sweep' = [NoSweep EXCEPT !.pc = "homes", !.homes = Homes]
  /\ UNCHANGED <<home, touched>>

\* cleanup_home: list the build directories of one home.
FindCaches ==
  /\ sweep.pc = "homes"
  /\ \E h \in sweep.homes \ unreadable :
       /\ sweep' = [pc |-> "check", homes |-> sweep.homes \ {h},
                    found |-> built \cap InHome(h), unused |-> {}]
       /\ touched' = touched \ InHome(h)
  /\ UNCHANGED home

\* The directories of a home are deleted in the order of their names.
IsNext(c) == c \in sweep.unused /\ \A d \in sweep.unused : c[2] <= d[2]

\* rm fails on what it cannot read, and on a directory without write permission or
\* with files of somebody else.
RmFails ==
  sweep.pc = "delete" /\ \E c \in sweep.unused : IsNext(c) /\ (c \in locked \/ c[1] \in unreadable)

\* Mutant: a home that cannot be cleaned ends the run.
BugEndsRun ==
  /\ RmFails \/ (sweep.pc = "homes" /\ sweep.homes \cap unreadable # {})
  /\ sweep' = NoSweep
  /\ UNCHANGED <<home, touched>>

\* "cleanup failed ...; continuing with remaining homes": find or rm has failed, and
\* the directories after the one that rm failed on stay.
HomeFails ==
  /\ \/ /\ sweep.pc = "homes"
        /\ \E h \in sweep.homes \cap unreadable : sweep' = [sweep EXCEPT !.homes = @ \ {h}]
     \/ /\ RmFails
        /\ sweep' = [sweep EXCEPT !.pc = "homes", !.unused = {}]
  /\ UNCHANGED <<home, touched>>

\* The modified files that are seen: xargs gives up at a quote, and find skips
\* what it cannot read; neither failure is noticed here.
Seen(c) == {{c} \cap recent} \cup (IF c[1] \in Quoted \cup unreadable THEN {{}} ELSE {})

Check ==
  /\ sweep.pc = "check"
  /\ \E c \in sweep.found : \E modified \in Seen(c) :
       sweep' = [sweep EXCEPT !.found = @ \ {c},
                              !.unused = IF modified = {} THEN @ \cup {c} ELSE @]
  /\ UNCHANGED <<home, touched>>

\* Mutant: all that was found in a home with something unused is deleted.
BugDeletesFound ==
  /\ sweep.pc = "check" /\ sweep.found = {}
  /\ sweep' = [sweep EXCEPT !.pc = "delete",
                 !.unused = UNION {InHome(c[1]) : c \in @} \cap built]
  /\ UNCHANGED <<home, touched>>

Checked ==
  /\ sweep.pc = "check" /\ sweep.found = {}
  /\ sweep' = [sweep EXCEPT !.pc = "delete"]
  /\ UNCHANGED <<home, touched>>

Delete ==
  /\ sweep.pc = "delete"
  /\ \E c \in sweep.unused \ locked :
       /\ IsNext(c)
       /\ built' = built \ {c}
       /\ sweep' = [sweep EXCEPT !.unused = @ \ {c}]
  /\ UNCHANGED <<recent, unreadable, locked, touched>>

HomeDone ==
  /\ sweep.pc = "delete" /\ sweep.unused = {}
  /\ sweep' = [sweep EXCEPT !.pc = "homes"]
  /\ UNCHANGED <<home, touched>>

SweepDone ==
  /\ sweep.pc = "homes" /\ sweep.homes = {}
  /\ sweep' = NoSweep
  /\ UNCHANGED <<home, touched>>

-----------------------------------------------------------------------------
(* The owners.                                                             *)

\* A build may leave directories of mode 0555, or files of root or of a container's
\* users, and the next one may be rid of them.
Use(c) ==
  /\ uses < MaxUses /\ uses' = uses + 1
  /\ built' = built \cup {c}
  /\ recent' = recent \cup {c}
  /\ touched' = touched \cup {c}
  /\ locked' \in {locked \cup {c}, locked \ {c}}
  /\ UNCHANGED <<unreadable, sweep>>

GrowsOld(c) ==
  /\ recent' = recent \ {c}
  /\ UNCHANGED <<built, unreadable, locked, sweep, touched, uses>>

ChangeModes(h) ==
  /\ uses < MaxUses /\ uses' = uses + 1
  /\ unreadable' = IF h \in unreadable THEN unreadable \ {h} ELSE unreadable \cup {h}
  /\ touched' = touched \cup InHome(h)
  /\ UNCHANGED <<built, recent, locked, sweep>>

Init ==
  /\ built = {} /\ recent = {} /\ unreadable = {} /\ locked = {}
  /\ sweep = NoSweep /\ touched = {} /\ uses = 0

Sweep ==
  /\ \/ CronFires \/ FindCaches \/ HomeFails \/ Check
     \/ Checked \/ Delete \/ HomeDone \/ SweepDone
  /\ UNCHANGED uses

Next ==
  \/ Sweep
  \/ \E c \in Checkouts : Use(c) \/ GrowsOld(c)
  \/ \E h \in Homes : ChangeModes(h)

FairSpec == Init /\ [][Next]_vars /\ WF_vars(Sweep)

-----------------------------------------------------------------------------
(* Properties.                                                             *)

TypeOK ==
  /\ built \subseteq Checkouts /\ recent \subseteq Checkouts /\ touched \subseteq Checkouts
  /\ unreadable \subseteq Homes /\ locked \subseteq Checkouts
  /\ sweep \in [pc : {"idle", "homes", "check", "delete"}, homes : SUBSET Homes,
                found : SUBSET Checkouts, unused : SUBSET Checkouts]
  /\ uses \in 0..MaxUses

\* A build directory in use is deleted only if its owner came back to it, or hid
\* it, between the listing and the deletion, or if its files cannot be told.
InUseIsKept ==
  [][\A c \in built \ built' : c \in recent => c \in touched \/ c[1] \in Quoted]_vars

\* What the run of every night stops at: a directory that is due and cannot be deleted.
Stuck(d) == d \in built \cap locked /\ (d \notin recent \/ d[1] \in Quoted)

\* "continuing with remaining homes": an unused checkout ends up without its build
\* directory, whatever happens in the other homes, unless something in its own home
\* cannot be read, or it or one before it by name cannot be deleted: the run for the
\* home ends there every night, by `set -e`.
UnusedIsDeleted ==
  \A c \in Checkouts :
    <>[](c \in built => \/ c \in recent \/ c[1] \in unreadable
                        \/ \E d \in InHome(c[1]) : d[2] <= c[2] /\ Stuck(d))

=============================================================================
