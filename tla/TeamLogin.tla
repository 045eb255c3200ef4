------------------------------ MODULE TeamLogin ------------------------------
(***************************************************************************)
(* team_login: the program cron starts every five minutes on a dev         *)
(* desktop.  It gives the members of the team an account and a file of SSH *)
(* keys, and deletes the key files of everybody else.  Cron does not wait  *)
(* for the previous run, so runs overlap; a run ends at the first step     *)
(* that fails (unwrap, expect, assert, ?).                                 *)
(***************************************************************************)
EXTENDS Naturals, FiniteSets

CONSTANTS
  Users,        \* GitHub users
  Unaddable,    \* those whose account useradd always refuses to create
  Crons,        \* runs that may overlap
  MaxChanges,   \* how often somebody joins or leaves the team
  MaxFailures   \* how many runs die of a passing failure

\* What the constants have to be.
BoundsAssumption == MaxChanges \in Nat /\ MaxFailures \in Nat

VARIABLES
  team,       \* github_users of the team API
  keyfiles,   \* users with a file in KEY_DIR
  account,    \* how far the account of each user has come
  run,        \* the runs in progress
  stranded,   \* history: users during the creation of whose account a run died
  changes, deaths

vars == <<team, keyfiles, account, run, stranded, changes, deaths>>
counters == <<stranded, changes, deaths>>

Idle == [pc |-> "idle", todo |-> {}, users |-> {}, user |-> {}, entries |-> {}]

At(r, pc)   == run[r].pc = pc
Goto(r, pc) == run' = [run EXCEPT ![r].pc = pc]
End(r)      == run' = [run EXCEPT ![r] = Idle]
NextUser(r) == run' = [run EXCEPT ![r].pc = "users", ![r].user = {}]

\* The user whose account the run is creating, or whose keys it is deleting.
Current(r) == CHOOSE u \in Users : run[r].user = {u}

-----------------------------------------------------------------------------

CronFires(r) ==
  /\ At(r, "idle")
  /\ Goto(r, "list")
  /\ UNCHANGED <<team, keyfiles, account, counters>>

GetList(r) ==
  /\ At(r, "list")
  /\ run' = [run EXCEPT ![r].pc = "users", ![r].todo = team]
  /\ UNCHANGED <<team, keyfiles, account, counters>>

\* Mutant: a user with an account is not noted.
BugNotesNewUsersOnly(r) ==
  /\ At(r, "users")
  /\ \E u \in run[r].todo :
       /\ keyfiles' = keyfiles \cup {u}
       /\ run' = [run EXCEPT ![r].pc = "id", ![r].user = {u}, ![r].todo = @ \ {u},
                    ![r].users = IF account[u] = "absent" THEN @ \cup {u} ELSE @]
  /\ UNCHANGED <<team, account, counters>>

\* Note the next user of the list, download the keys and write them.
WriteKeys(r) ==
  /\ At(r, "users")
  /\ \E u \in run[r].todo :
       /\ keyfiles' = keyfiles \cup {u}
       /\ run' = [run EXCEPT ![r].pc = "id", ![r].user = {u},
                             ![r].todo = @ \ {u}, ![r].users = @ \cup {u}]
  /\ UNCHANGED <<team, account, counters>>

\* `id`: nothing else is done for a user that exists.
CheckAccount(r) ==
  /\ At(r, "id")
  /\ IF account[Current(r)] = "absent" THEN Goto(r, "useradd") ELSE NextUser(r)
  /\ UNCHANGED <<team, keyfiles, account, counters>>

UserAdd(r) ==
  /\ At(r, "useradd")
  /\ account[Current(r)] = "absent"
  /\ Current(r) \notin Unaddable
  /\ account' = [account EXCEPT ![Current(r)] = "bare"]
  /\ Goto(r, "group")
  /\ UNCHANGED <<team, keyfiles, counters>>

\* "failed to create user": another run was faster, or useradd refuses.
UserAddFails(r) ==
  /\ At(r, "useradd")
  /\ account[Current(r)] # "absent" \/ Current(r) \in Unaddable
  /\ End(r)
  /\ UNCHANGED <<team, keyfiles, account, counters>>

AllowSsh(r) ==
  /\ At(r, "group")
  /\ account' = [account EXCEPT ![Current(r)] = "allowed"]
  /\ Goto(r, "shell")
  /\ UNCHANGED <<team, keyfiles, counters>>

SetShell(r) ==
  /\ At(r, "shell")
  /\ account' = [account EXCEPT ![Current(r)] = "complete"]
  /\ NextUser(r)
  /\ UNCHANGED <<team, keyfiles, counters>>

ReadKeyDir(r) ==
  /\ At(r, "users")
  /\ run[r].todo = {}
  /\ run' = [run EXCEPT ![r].pc = "sweep", ![r].entries = keyfiles]
  /\ UNCHANGED <<team, keyfiles, account, counters>>

\* Mutant: whoever has an account keeps the keys.
BugKeepsAccounts(r) == {u \in run[r].entries \ run[r].users : account[u] = "absent"}

\* The entries whose user was not on the list.
Revoked(r) == run[r].entries \ run[r].users

\* is_file: a file that another run has deleted in the meantime is skipped.
LookAtFile(r) ==
  /\ At(r, "sweep")
  /\ \E u \in Revoked(r) :
       run' = [run EXCEPT ![r].entries = @ \ {u}, ![r].user = {u} \cap keyfiles,
                          ![r].pc = IF u \in keyfiles THEN "remove" ELSE "sweep"]
  /\ UNCHANGED <<team, keyfiles, account, counters>>

RemoveKeys(r) ==
  /\ At(r, "remove")
  /\ Current(r) \in keyfiles
  /\ keyfiles' = keyfiles \ {Current(r)}
  /\ run' = [run EXCEPT ![r].pc = "sweep", ![r].user = {}]
  /\ UNCHANGED <<team, account, counters>>

\* Another run was faster after all, and the error ends this one.
RemoveKeysFails(r) ==
  /\ At(r, "remove")
  /\ Current(r) \notin keyfiles
  /\ End(r)
  /\ UNCHANGED <<team, keyfiles, account, counters>>

Finish(r) ==
  /\ At(r, "sweep")
  /\ Revoked(r) = {}
  /\ End(r)
  /\ UNCHANGED <<team, keyfiles, account, counters>>

\* A download, a command or a write fails, or the machine is rebooted.
Dies(r) ==
  /\ ~At(r, "idle")
  /\ deaths < MaxFailures
  /\ deaths' = deaths + 1
  /\ stranded' = IF run[r].pc \in {"group", "shell"} THEN stranded \cup run[r].user ELSE stranded
  /\ End(r)
  /\ UNCHANGED <<team, keyfiles, account, changes>>

\* Somebody joins or leaves the team.
TeamChanges(u) ==
  /\ changes < MaxChanges
  /\ changes' = changes + 1
  /\ team' = IF u \in team THEN team \ {u} ELSE team \cup {u}
  /\ UNCHANGED <<keyfiles, account, run, stranded, deaths>>

-----------------------------------------------------------------------------

\* A new machine; the team joins member by member.
Init ==
  /\ team = {}
  /\ keyfiles = {}
  /\ account = [u \in Users |-> "absent"]
  /\ run = [r \in Crons |-> Idle]
  /\ stranded = {}
  /\ changes = 0
  /\ deaths = 0

Step(r) ==
  \/ CronFires(r) \/ GetList(r) \/ WriteKeys(r) \/ CheckAccount(r)
  \/ UserAdd(r) \/ UserAddFails(r) \/ AllowSsh(r) \/ SetShell(r)
  \/ ReadKeyDir(r) \/ LookAtFile(r) \/ RemoveKeys(r) \/ RemoveKeysFails(r) \/ Finish(r)

Next ==
  \/ \E r \in Crons : Step(r) \/ Dies(r)
  \/ \E u \in Users : TeamChanges(u)

\* Cron keeps starting the program, and a run goes on until it ends or dies.
Fairness == \A r \in Crons : WF_vars(Step(r))

Spec     == Init /\ [][Next]_vars
FairSpec == Spec /\ Fairness

-----------------------------------------------------------------------------
(* Properties.                                                             *)

TypeOK ==
  /\ team \subseteq Users /\ keyfiles \subseteq Users /\ stranded \subseteq Users
  /\ account \in [Users -> {"absent", "bare", "allowed", "complete"}]
  /\ run \in [Crons -> [pc : {"idle", "list", "users", "id", "useradd", "group", "shell", "sweep", "remove"},
                        todo : SUBSET Users, users : SUBSET Users, user : SUBSET Users,
                        entries : SUBSET Users]]
  /\ changes \in 0..MaxChanges
  /\ deaths \in 0..MaxFailures

\* "Delete all keys for users that weren't on the list" (main.rs): somebody who
\* has left for good ends up without keys, even if an overlapping run with an
\* old list writes them again, and whatever runs have died.
RevokedLoseKeys == \A u \in Users : <>[](u \notin team => u \notin keyfiles)

\* A member for good ends up with keys and a complete account, unless a run died
\* while it was creating the account: overlapping runs do not spoil each other's.
MembersGetIn ==
  \A u \in Users :
    <>[](u \in team /\ u \notin stranded => u \in keyfiles /\ account[u] = "complete")

=============================================================================
