------------------------------ MODULE RustKey ------------------------------
(***************************************************************************)
(* with-rust-key.sh: runs a command with the Rust release signing key in a *)
(* temporary GnuPG home.  The home is a fixed path, so several runs of the *)
(* script on one machine share it, and creating it is their lock.  A run   *)
(* can fail at any command, be interrupted, or be killed outright.         *)
(***************************************************************************)
EXTENDS Naturals, FiniteSets

CONSTANTS
  Runs,   \* executions of the script
  Keys    \* IMPORT_KEYS

ASSUME KeysAssumption == Keys # {}

VARIABLES
  home,     \* $GNUPGHOME: "absent", "open" (as mkdir made it) or "private"
  keyring,  \* the keys imported into it
  agent,    \* whether gpg-agent holds the passphrase
  pc,       \* where each run is
  imported, \* the keys each run has imported
  dirty     \* a run ended without having cleaned up

vars == <<home, keyring, agent, pc, imported, dirty>>

At(r, places) == pc[r] \in places
Goto(r, place) == pc' = [pc EXCEPT ![r] = place]

\* A run goes on without changing anything that others see.
Move(r, place) == Goto(r, place) /\ UNCHANGED <<home, keyring, agent, imported, dirty>>

\* From mkdir to the end of the trap, and the part covered by the trap.
Inside  == {"chmod", "trap", "import", "passphrase", "command", "cleanup", "remove"}
Trapped == {"import", "passphrase", "command"}

-----------------------------------------------------------------------------

\* `[[ -d $GNUPGHOME ]]` finds nothing.
HomeIsFree(r) == At(r, {"test"}) /\ home = "absent" /\ Move(r, "mkdir")

HomeIsTaken(r) == At(r, {"test"}) /\ home # "absent" /\ Move(r, "ended")

Mkdir(r) ==
  /\ At(r, {"mkdir"})
  /\ home = "absent"
  /\ home' = "open"
  /\ Goto(r, "chmod")
  /\ UNCHANGED <<keyring, agent, imported, dirty>>

\* Mutant: mkdir -p.
BugMkdirLost(r) == At(r, {"mkdir"}) /\ home # "absent" /\ Move(r, "chmod")

\* Another run was faster: `set -e` ends this one, before its trap is set.
MkdirLost(r) == At(r, {"mkdir"}) /\ home # "absent" /\ Move(r, "ended")

\* Mutant: no chmod.
BugNoChmod(r) == At(r, {"chmod"}) /\ Move(r, "trap")

Chmod(r) ==
  /\ At(r, {"chmod"})
  /\ home' = "private"
  /\ Goto(r, "trap")
  /\ UNCHANGED <<keyring, agent, imported, dirty>>

SetTrap(r) == At(r, {"trap"}) /\ Move(r, "import")

\* Mutant: something that is no key of the list is imported.
BugImportsAnything(r) ==
  /\ At(r, {"import"})
  /\ keyring' = keyring \union {r}
  /\ imported' = [imported EXCEPT ![r] = Keys]
  /\ UNCHANGED <<home, agent, pc, dirty>>

\* `op read | gpg --import`
Import(r) ==
  /\ At(r, {"import"})
  /\ \E k \in Keys \ imported[r] :
       /\ keyring' = keyring \union {k}
       /\ imported' = [imported EXCEPT ![r] = @ \union {k}]
  /\ UNCHANGED <<home, agent, pc, dirty>>

ImportsDone(r) == At(r, {"import"}) /\ imported[r] = Keys /\ Move(r, "passphrase")

LoadPassphrase(r) ==
  /\ At(r, {"passphrase"})
  /\ agent' = TRUE
  /\ Goto(r, "command")
  /\ UNCHANGED <<home, keyring, imported, dirty>>

\* The user's command ends, well or not: `set +e`, then exit and the trap.
CommandEnds(r) == At(r, {"command"}) /\ Move(r, "cleanup")

\* A command of the script fails, or ^C: the trap runs.
Interrupted(r) == At(r, Trapped) /\ Move(r, "cleanup")

\* Mutant: the agent is not told.
BugAgentKeepsPassphrase(r) == At(r, {"cleanup"}) /\ Move(r, "remove")

\* RELOADAGENT flushes the passphrase.
FlushAgent(r) ==
  /\ At(r, {"cleanup"})
  /\ agent' = FALSE
  /\ Goto(r, "remove")
  /\ UNCHANGED <<home, keyring, imported, dirty>>

\* gpg-connect-agent fails: `set -e` holds in the trap too and ends it.
FlushFails(r) ==
  /\ At(r, {"cleanup"})
  /\ Goto(r, "ended")
  /\ dirty' = TRUE
  /\ UNCHANGED <<home, keyring, agent, imported>>

\* rm -rf; exit.
Remove(r) ==
  /\ At(r, {"remove"})
  /\ home' = "absent"
  /\ keyring' = {}
  /\ Goto(r, "ended")
  /\ UNCHANGED <<agent, imported, dirty>>

\* SIGKILL, or a failure or signal before the trap is set.
Killed(r) ==
  /\ At(r, Inside)
  /\ Goto(r, "ended")
  /\ dirty' = TRUE
  /\ UNCHANGED <<home, keyring, agent, imported>>

\* gpg-agent drops a passphrase on its own after default-cache-ttl.
AgentForgets ==
  /\ agent' = FALSE
  /\ UNCHANGED <<home, keyring, pc, imported, dirty>>

\* The user starts the script again.
StartAgain(r) ==
  /\ At(r, {"ended"})
  /\ Goto(r, "test")
  /\ imported' = [imported EXCEPT ![r] = {}]
  /\ UNCHANGED <<home, keyring, agent, dirty>>

-----------------------------------------------------------------------------

Init ==
  /\ home = "absent"
  /\ keyring = {}
  /\ agent = FALSE
  /\ pc = [r \in Runs |-> "test"]
  /\ imported = [r \in Runs |-> {}]
  /\ dirty = FALSE

Step(r) ==
  \/ HomeIsFree(r) \/ HomeIsTaken(r) \/ Mkdir(r) \/ MkdirLost(r) \/ Chmod(r)
  \/ SetTrap(r) \/ Import(r) \/ ImportsDone(r) \/ LoadPassphrase(r)
  \/ CommandEnds(r) \/ FlushAgent(r) \/ Remove(r)

Next ==
  \/ AgentForgets
  \/ \E r \in Runs :
       Step(r) \/ Interrupted(r) \/ FlushFails(r) \/ Killed(r) \/ StartAgain(r)

Spec == Init /\ [][Next]_vars

-----------------------------------------------------------------------------
(* Properties.                                                             *)

TypeOK ==
  /\ home \in {"absent", "open", "private"}
  /\ keyring \subseteq Keys
  /\ agent \in BOOLEAN
  /\ pc \in [Runs -> Inside \union {"test", "mkdir", "ended"}]
  /\ imported \in [Runs -> SUBSET Keys]
  /\ dirty \in BOOLEAN

\* Two runs never use the key at the same time: the test for the directory and
\* its creation are two steps, but mkdir fails for all runs but one.
MutualExclusion == \A r, s \in Runs : At(r, Inside) /\ At(s, Inside) => r = s

\* While the user's command runs, the home is private and holds every key: no
\* other run of the script has removed anything, whenever it failed or was killed.
CommandHasTheKeys ==
  \A r \in Runs : At(r, {"command"}) => home = "private" /\ keyring = Keys

\* "The script is designed to leave no traces of the key on the host system after
\* it finishes": unless a run was killed or could not reach the agent, there is
\* no directory, no key and no passphrase where no run is inside.
NoTraces ==
  ~dirty /\ (\A r \in Runs : ~At(r, Inside)) => home = "absent" /\ keyring = {} /\ ~agent

\* No key is ever written into a home that other users may read.
KeysArePrivate == keyring # {} => home = "private"

Holders == {r \in Runs : At(r, Inside)}
Serving == {r \in Runs : At(r, {"command"})}

Vault == INSTANCE KeyVault WITH
  holders <- Holders, keys <- keyring, serving <- Serving, lost <- dirty

\* The script is a vault, as KeyVault says: however its runs interleave and wherever
\* they die, one run at a time has it, its command is served with all keys and no
\* others, and the next run starts from nothing or does not start.
IsAVault == Vault!Spec

=============================================================================
