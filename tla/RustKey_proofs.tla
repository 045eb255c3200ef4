--------------------------- MODULE RustKey_proofs ---------------------------
(***************************************************************************)
(* For any number of runs of with-rust-key.sh and any set of keys: the     *)
(* runs exclude each other, the command finds every key, no trace is left  *)
(* unless a run could not clean up, and the script implements KeyVault.    *)
(*                                                                         *)
(* None of the invariants is inductive.  They follow together from what    *)
(* the directory says of the runs: a run inside means that it exists, so   *)
(* the run whose mkdir succeeds is alone.                                  *)
(***************************************************************************)
EXTENDS RustKey, TLAPS

\* A run inside has a home, and after its chmod a private one.
HomeOfRun ==
  \A r \in Runs :
    /\ At(r, Inside) => home # "absent"
    /\ At(r, Inside \ {"chmod"}) => home = "private"

\* A run begins without keys, what it imported is still there, and nothing is missing after the imports.
KeysOfRun ==
  \A r \in Runs :
    /\ At(r, {"test", "mkdir", "chmod", "trap"}) => imported[r] = {}
    /\ At(r, Trapped) => imported[r] \subseteq keyring
    /\ At(r, {"passphrase", "command"}) => imported[r] = Keys

\* Once the trap has told it, the agent has nothing.
AgentOfRun ==
  \A r \in Runs : At(r, {"remove"}) => ~agent

IInv ==
  /\ TypeOK
  /\ MutualExclusion
  /\ HomeOfRun
  /\ KeysOfRun
  /\ AgentOfRun
  /\ NoTraces
  /\ KeysArePrivate

\* Nothing has happened yet.
LEMMA InitIInv == Init => IInv
<1> SUFFICES ASSUME Init PROVE IInv
  OBVIOUS
<1> USE DEF Init, At, Inside, Trapped
<1>1. TypeOK
  BY DEF TypeOK
<1>2. MutualExclusion /\ HomeOfRun /\ KeysOfRun /\ AgentOfRun
  BY DEF MutualExclusion, HomeOfRun, KeysOfRun, AgentOfRun
<1>3. NoTraces /\ KeysArePrivate
  BY DEF NoTraces, KeysArePrivate
<1> QED
  BY <1>1, <1>2, <1>3 DEF IInv

\* A step of a run keeps the types.
LEMMA StepKeepsTypes == TypeOK /\ [Next]_vars => TypeOK'
<1> SUFFICES ASSUME TypeOK, [Next]_vars PROVE TypeOK'
  OBVIOUS
<1> USE DEF TypeOK, At, Goto, Move, Inside, Trapped
<1>1. CASE UNCHANGED vars
  BY <1>1 DEF vars
<1>2. ASSUME NEW r \in Runs, Step(r) PROVE TypeOK'
  <2>1. CASE HomeIsFree(r) \/ HomeIsTaken(r) \/ MkdirLost(r)
    BY <2>1 DEF HomeIsFree, HomeIsTaken, MkdirLost
  <2>2. CASE Mkdir(r) \/ Chmod(r) \/ SetTrap(r)
    BY <2>2 DEF Mkdir, Chmod, SetTrap
  <2>3. CASE Import(r)
    BY <2>3 DEF Import
  <2>4. CASE ImportsDone(r) \/ LoadPassphrase(r) \/ CommandEnds(r)
    BY <2>4 DEF ImportsDone, LoadPassphrase, CommandEnds
  <2>5. CASE FlushAgent(r) \/ Remove(r)
    BY <2>5 DEF FlushAgent, Remove
  <2> QED
    BY <1>2, <2>1, <2>2, <2>3, <2>4, <2>5 DEF Step
<1>3. ASSUME NEW r \in Runs, Interrupted(r) \/ FlushFails(r) \/ Killed(r) \/ StartAgain(r)
      PROVE  TypeOK'
  BY <1>3 DEF Interrupted, FlushFails, Killed, StartAgain
<1>4. CASE AgentForgets
  BY <1>4 DEF AgentForgets
<1> QED
  BY <1>1, <1>2, <1>3, <1>4 DEF Next

\* A run that only moves on, or leaves, and changes nothing that others see.
LEMMA QuietStep ==
  ASSUME IInv, TypeOK', NEW r \in Runs, NEW place,
         Goto(r, place), UNCHANGED <<home, keyring, agent, imported>>,
         dirty' = dirty \/ dirty' = TRUE,
         \/ At(r, {"test", "mkdir"}) /\ place \in {"mkdir", "ended"} /\ dirty' = dirty
         \/ At(r, Inside) /\ place = "ended" /\ dirty'
         \/ At(r, {"trap"}) /\ place = "import" /\ dirty' = dirty
         \/ At(r, {"import"}) /\ place = "passphrase" /\ imported[r] = Keys /\ dirty' = dirty
         \/ At(r, Trapped) /\ place = "cleanup" /\ dirty' = dirty
  PROVE  IInv'
<1> USE DEF IInv, TypeOK, At, Goto, Inside, Trapped
<1>1. MutualExclusion'
  BY DEF MutualExclusion
<1>2. HomeOfRun'
  BY DEF HomeOfRun, MutualExclusion
<1>3. KeysOfRun'
  BY DEF KeysOfRun, MutualExclusion
<1>4. AgentOfRun'
  BY DEF AgentOfRun, MutualExclusion
<1>5. NoTraces'
  BY DEF NoTraces
<1>6. KeysArePrivate'
  BY DEF KeysArePrivate
<1> QED
  BY <1>1, <1>2, <1>3, <1>4, <1>5, <1>6

\* The steps that change the home, the keyring or the agent.
LEMMA OwnerStep ==
  ASSUME IInv, TypeOK', NEW r \in Runs,
         \/ Mkdir(r) \/ Chmod(r) \/ Import(r) \/ LoadPassphrase(r)
         \/ FlushAgent(r) \/ Remove(r) \/ StartAgain(r)
  PROVE  IInv'
<1> USE DEF IInv, TypeOK, At, Goto, Inside, Trapped
<1>1. CASE Mkdir(r)
  <2>1. \A s \in Runs : ~At(s, Inside)
    BY <1>1 DEF Mkdir, HomeOfRun
  <2>2. MutualExclusion' /\ HomeOfRun'
    BY <1>1, <2>1 DEF Mkdir, MutualExclusion, HomeOfRun
  <2>3. KeysOfRun' /\ AgentOfRun'
    BY <1>1, <2>1 DEF Mkdir, KeysOfRun, AgentOfRun
  <2>4. NoTraces' /\ KeysArePrivate'
    BY <1>1, <2>1 DEF Mkdir, NoTraces, KeysArePrivate
  <2> QED
    BY <2>2, <2>3, <2>4
<1>2. CASE Chmod(r)
  <2>1. MutualExclusion' /\ HomeOfRun'
    BY <1>2 DEF Chmod, MutualExclusion, HomeOfRun
  <2>2. KeysOfRun' /\ AgentOfRun'
    BY <1>2 DEF Chmod, KeysOfRun, AgentOfRun
  <2>3. NoTraces' /\ KeysArePrivate'
    BY <1>2 DEF Chmod, NoTraces, KeysArePrivate
  <2> QED
    BY <2>1, <2>2, <2>3
<1>3. CASE Import(r)
  <2>1. MutualExclusion' /\ HomeOfRun' /\ AgentOfRun'
    BY <1>3 DEF Import, MutualExclusion, HomeOfRun, AgentOfRun
  <2>2. KeysOfRun'
    BY <1>3 DEF Import, KeysOfRun, MutualExclusion
  <2>3. NoTraces' /\ KeysArePrivate'
    BY <1>3 DEF Import, NoTraces, KeysArePrivate, HomeOfRun
  <2> QED
    BY <2>1, <2>2, <2>3
<1>4. CASE LoadPassphrase(r)
  <2>1. MutualExclusion' /\ HomeOfRun'
    BY <1>4 DEF LoadPassphrase, MutualExclusion, HomeOfRun
  <2>2. KeysOfRun' /\ AgentOfRun'
    BY <1>4 DEF LoadPassphrase, KeysOfRun, AgentOfRun, MutualExclusion
  <2>3. NoTraces' /\ KeysArePrivate'
    BY <1>4 DEF LoadPassphrase, NoTraces, KeysArePrivate
  <2> QED
    BY <2>1, <2>2, <2>3
<1>5. CASE FlushAgent(r)
  <2>1. MutualExclusion' /\ HomeOfRun'
    BY <1>5 DEF FlushAgent, MutualExclusion, HomeOfRun
  <2>2. KeysOfRun' /\ AgentOfRun'
    BY <1>5 DEF FlushAgent, KeysOfRun, AgentOfRun, MutualExclusion
  <2>3. NoTraces' /\ KeysArePrivate'
    BY <1>5 DEF FlushAgent, NoTraces, KeysArePrivate
  <2> QED
    BY <2>1, <2>2, <2>3
<1>6. CASE Remove(r)
  <2>1. \A s \in Runs : At(s, Inside) => s = r
    BY <1>6 DEF Remove, MutualExclusion
  <2>2. MutualExclusion' /\ HomeOfRun'
    BY <1>6, <2>1 DEF Remove, MutualExclusion, HomeOfRun
  <2>3. KeysOfRun' /\ AgentOfRun'
    BY <1>6, <2>1 DEF Remove, KeysOfRun, AgentOfRun
  <2>4. NoTraces' /\ KeysArePrivate'
    BY <1>6, <2>1 DEF Remove, NoTraces, KeysArePrivate, AgentOfRun
  <2> QED
    BY <2>2, <2>3, <2>4
<1>7. CASE StartAgain(r)
  <2>1. MutualExclusion' /\ HomeOfRun'
    BY <1>7 DEF StartAgain, MutualExclusion, HomeOfRun
  <2>2. KeysOfRun' /\ AgentOfRun'
    BY <1>7 DEF StartAgain, KeysOfRun, AgentOfRun
  <2>3. NoTraces' /\ KeysArePrivate'
    BY <1>7 DEF StartAgain, NoTraces, KeysArePrivate
  <2> QED
    BY <2>1, <2>2, <2>3
<1> QED
  BY <1>1, <1>2, <1>3, <1>4, <1>5, <1>6, <1>7

\* Every step keeps the invariant.
LEMMA NextIInv == IInv /\ [Next]_vars => IInv'
<1> SUFFICES ASSUME IInv, [Next]_vars PROVE IInv'
  OBVIOUS
<1>1. TypeOK'
  BY StepKeepsTypes DEF IInv
<1>2. CASE UNCHANGED vars
  BY <1>2 DEF vars, IInv, TypeOK, MutualExclusion, HomeOfRun, KeysOfRun, AgentOfRun, NoTraces,
              KeysArePrivate, At
<1>3. ASSUME NEW r \in Runs, Step(r) PROVE IInv'
  <2>1. CASE HomeIsFree(r)
    <3>1. At(r, {"test", "mkdir"}) /\ Goto(r, "mkdir") /\ dirty' = dirty
      BY <2>1 DEF HomeIsFree, Move, At
    <3> QED
      BY <1>1, <2>1, <3>1, QuietStep DEF HomeIsFree, Move
  <2>2. CASE HomeIsTaken(r) \/ MkdirLost(r)
    <3>1. At(r, {"test", "mkdir"}) /\ Goto(r, "ended") /\ dirty' = dirty
      BY <2>2 DEF HomeIsTaken, MkdirLost, Move, At
    <3> QED
      BY <1>1, <2>2, <3>1, QuietStep DEF HomeIsTaken, MkdirLost, Move
  <2>3. CASE SetTrap(r)
    BY <1>1, <2>3, QuietStep DEF SetTrap, Move
  <2>4. CASE ImportsDone(r)
    BY <1>1, <2>4, QuietStep DEF ImportsDone, Move
  <2>5. CASE CommandEnds(r)
    <3>1. At(r, Trapped)
      BY <2>5 DEF CommandEnds, Move, At, Trapped
    <3> QED
      BY <1>1, <2>5, <3>1, QuietStep DEF CommandEnds, Move
  <2> QED
    BY <1>1, <1>3, <2>1, <2>2, <2>3, <2>4, <2>5, OwnerStep DEF Step
<1>4. ASSUME NEW r \in Runs, Interrupted(r) PROVE IInv'
  BY <1>1, <1>4, QuietStep DEF Interrupted, Move
<1>5. ASSUME NEW r \in Runs, FlushFails(r) \/ Killed(r) PROVE IInv'
  <2>1. At(r, Inside)
    BY <1>5 DEF FlushFails, Killed, At, Inside
  <2> QED
    BY <1>1, <1>5, <2>1, QuietStep DEF FlushFails, Killed
<1>6. ASSUME NEW r \in Runs, StartAgain(r) PROVE IInv'
  BY <1>1, <1>6, OwnerStep
<1>7. CASE AgentForgets
  BY <1>1, <1>7 DEF AgentForgets, IInv, MutualExclusion, HomeOfRun, KeysOfRun, AgentOfRun,
                    NoTraces, KeysArePrivate, At
<1> QED
  BY <1>2, <1>3, <1>4, <1>5, <1>6, <1>7 DEF Next

\* The invariant gives what the command may rely on.
LEMMA IInvGivesKeys == IInv => CommandHasTheKeys
BY DEF IInv, CommandHasTheKeys, TypeOK, HomeOfRun, KeysOfRun, At, Inside, Trapped

\* Types, for any number of runs.
THEOREM TypeCorrect == Spec => []TypeOK
<1>1. IInv => TypeOK
  BY DEF IInv
<1> QED
  BY InitIInv, NextIInv, <1>1, PTL DEF Spec

\* Of any number of runs one at most is between its mkdir and the end of its
\* trap (with-rust-key.sh, lines 76 to 91).
THEOREM RunsExclude == Spec => []MutualExclusion
<1>1. IInv => MutualExclusion
  BY DEF IInv
<1> QED
  BY InitIInv, NextIInv, <1>1, PTL DEF Spec

\* The user's command finds a private home with every key in it.
THEOREM CommandIsServed == Spec => []CommandHasTheKeys
<1> QED
  BY InitIInv, NextIInv, IInvGivesKeys, PTL DEF Spec

\* No directory, key or passphrase is left by runs that could clean up, and no
\* key is ever in a home that is not private.
THEOREM NothingIsLeft == Spec => [](NoTraces /\ KeysArePrivate)
<1>1. IInv => NoTraces /\ KeysArePrivate
  BY DEF IInv
<1> QED
  BY InitIInv, NextIInv, <1>1, PTL DEF Spec

-----------------------------------------------------------------------------
(* The script implements KeyVault.                                         *)

\* Where a run has died inside, its directory keeps all others out for good.
DeathLocks ==
  dirty => home # "absent" /\ \A r \in Runs : ~At(r, Inside)

\* A run inside is the only holder, and serves exactly at its command.
LEMMA HolderMoves ==
  ASSUME IInv, NEW r \in Runs, At(r, Inside), NEW place, Goto(r, place)
  PROVE  /\ Holders = {r}
         /\ Serving = IF pc[r] = "command" THEN {r} ELSE {}
         /\ Holders' = IF place \in Inside THEN {r} ELSE {}
         /\ Serving' = IF place = "command" THEN {r} ELSE {}
<1> USE DEF IInv, TypeOK, MutualExclusion, At, Goto, Inside
<1>1. \A s \in Runs : s # r => pc[s] \notin Inside /\ pc'[s] = pc[s]
  OBVIOUS
<1>2. pc'[r] = place
  OBVIOUS
<1>3. Holders = {r} /\ Serving = IF pc[r] = "command" THEN {r} ELSE {}
  BY <1>1 DEF Holders, Serving
<1>4. Holders' = IF place \in Inside THEN {r} ELSE {}
  BY <1>1, <1>2 DEF Holders
<1>5. Serving' = IF place = "command" THEN {r} ELSE {}
  BY <1>1, <1>2 DEF Serving
<1> QED
  BY <1>3, <1>4, <1>5

\* A run that is outside and stays there changes no holder.
LEMMA OutsiderMoves ==
  ASSUME IInv, NEW r \in Runs, ~At(r, Inside), NEW place, place \notin Inside, Goto(r, place)
  PROVE  Holders' = Holders /\ Serving' = Serving
<1>1. \A s \in Runs : /\ At(s, Inside)' <=> At(s, Inside)
                      /\ At(s, {"command"})' <=> At(s, {"command"})
  BY DEF IInv, TypeOK, At, Goto, Inside
<1> QED
  BY <1>1 DEF Holders, Serving

\* The run whose mkdir succeeds takes the vault.
LEMMA MkdirTakes ==
  ASSUME IInv, DeathLocks, NEW r \in Runs, Mkdir(r)
  PROVE  DeathLocks' /\ Vault!Take(r)
<1> USE DEF IInv, TypeOK, At, Goto, Mkdir, Inside
<1>1. \A s \in Runs : ~At(s, Inside)
  BY DEF HomeOfRun
<1>2. ~dirty /\ ~dirty' /\ keyring = {}
  BY DEF DeathLocks, KeysArePrivate
<1>3. Holders = {} /\ Serving = {}
  BY <1>1 DEF Holders, Serving
<1>4. Holders' = {r} /\ Serving' = {}
  BY <1>1 DEF Holders, Serving
<1> QED
  BY <1>2, <1>3, <1>4 DEF Vault!Take, DeathLocks

\* What a run inside does, in terms of the vault.
LEMMA InsiderStep ==
  ASSUME IInv, DeathLocks, NEW r \in Runs,
         \/ Chmod(r) \/ SetTrap(r) \/ Import(r) \/ ImportsDone(r) \/ LoadPassphrase(r)
         \/ CommandEnds(r) \/ Interrupted(r) \/ FlushAgent(r) \/ Remove(r)
         \/ FlushFails(r) \/ Killed(r)
  PROVE  DeathLocks' /\ [Vault!Next]_(Vault!vars)
<1> USE DEF Vault!Next, Vault!vars
<1>1. At(r, Inside)
  BY DEF Chmod, SetTrap, Import, ImportsDone, LoadPassphrase, CommandEnds, Interrupted,
         FlushAgent, Remove, FlushFails, Killed, At, Inside, Trapped
<1>2. ~dirty /\ home # "absent"
  BY <1>1 DEF DeathLocks, IInv, TypeOK, HomeOfRun
<1>3. CASE Chmod(r) \/ SetTrap(r) \/ ImportsDone(r) \/ FlushAgent(r)
  <2>1. PICK place \in Inside \ {"command"} : Goto(r, place)
    BY <1>3 DEF Chmod, SetTrap, ImportsDone, FlushAgent, Move, Inside
  <2>2. pc[r] # "command" /\ UNCHANGED <<keyring, dirty>>
    BY <1>3 DEF Chmod, SetTrap, ImportsDone, FlushAgent, Move, At
  <2>3. UNCHANGED <<Holders, Serving>>
    BY <1>1, <2>1, <2>2, HolderMoves
  <2> QED
    BY <1>2, <2>2, <2>3 DEF DeathLocks
<1>4. CASE Import(r)
  <2>1. pc[r] = "import" /\ Goto(r, "import") /\ ~dirty'
    BY <1>2, <1>4 DEF Import, At, Goto, IInv, TypeOK
  <2>2. Holders = {r} /\ Serving = {} /\ UNCHANGED <<Holders, Serving>>
    BY <1>1, <2>1, HolderMoves DEF Inside
  <2>3. Vault!Put(r)
    BY <1>4, <2>2 DEF Import, Vault!Put
  <2> QED
    BY <2>1, <2>3 DEF DeathLocks
<1>5. CASE LoadPassphrase(r)
  <2>1. keyring = Keys
    BY <1>5 DEF LoadPassphrase, IInv, TypeOK, KeysOfRun, At, Trapped
  <2>2. pc[r] = "passphrase" /\ Goto(r, "command") /\ ~dirty'
    BY <1>2, <1>5 DEF LoadPassphrase, At
  <2>3. Holders = {r} /\ Holders' = {r} /\ Serving = {} /\ Serving' = {r}
    BY <1>1, <2>2, HolderMoves DEF Inside
  <2>4. Vault!Serve(r)
    BY <1>5, <2>1, <2>3 DEF LoadPassphrase, Vault!Serve
  <2> QED
    BY <2>2, <2>4 DEF DeathLocks
<1>6. CASE CommandEnds(r) \/ Interrupted(r)
  <2>1. Goto(r, "cleanup") /\ UNCHANGED <<keyring, dirty>>
    BY <1>6 DEF CommandEnds, Interrupted, Move
  <2>2. Holders = {r} /\ Holders' = {r} /\ Serving' = {}
    BY <1>1, <2>1, HolderMoves DEF Inside
  <2>3. Serving = {} \/ Serving = {r}
    BY <1>1, <2>1, HolderMoves
  <2>4. CASE Serving = {}
    BY <1>2, <2>1, <2>2, <2>4 DEF DeathLocks
  <2>5. CASE Serving = {r}
    <3>1. Vault!Stop(r)
      BY <2>1, <2>2, <2>5 DEF Vault!Stop
    <3> QED
      BY <1>2, <2>1, <3>1 DEF DeathLocks
  <2> QED
    BY <2>3, <2>4, <2>5
<1>7. CASE Remove(r)
  <2>1. pc[r] = "remove" /\ Goto(r, "ended") /\ ~dirty'
    BY <1>2, <1>7 DEF Remove, At
  <2>2. Holders = {r} /\ Holders' = {} /\ Serving = {} /\ Serving' = {}
    BY <1>1, <2>1, HolderMoves DEF Inside
  <2>3. Vault!GiveBack(r)
    BY <1>7, <2>2 DEF Remove, Vault!GiveBack
  <2> QED
    BY <2>1, <2>3 DEF DeathLocks
<1>8. CASE FlushFails(r) \/ Killed(r)
  <2>1. Goto(r, "ended") /\ dirty' = TRUE /\ UNCHANGED <<home, keyring>>
    BY <1>8 DEF FlushFails, Killed
  <2>2. Holders = {r} /\ Holders' = {} /\ Serving' = {}
    BY <1>1, <2>1, HolderMoves DEF Inside
  <2>3. Vault!Lose(r)
    BY <2>1, <2>2 DEF Vault!Lose
  <2>4. \A s \in Runs : ~At(s, Inside)'
    BY <2>2 DEF Holders
  <2> QED
    BY <1>2, <2>1, <2>3, <2>4 DEF DeathLocks
<1> QED
  BY <1>3, <1>4, <1>5, <1>6, <1>7, <1>8

\* Every step of the script is a step of the vault or leaves it alone.
LEMMA NextIsVaultStep ==
  IInv /\ DeathLocks /\ [Next]_vars => DeathLocks' /\ [Vault!Next]_(Vault!vars)
<1> SUFFICES ASSUME IInv, DeathLocks, [Next]_vars
             PROVE  DeathLocks' /\ [Vault!Next]_(Vault!vars)
  OBVIOUS
<1>1. CASE UNCHANGED vars \/ AgentForgets
  <2>1. UNCHANGED <<home, keyring, pc, dirty>>
    BY <1>1 DEF vars, AgentForgets
  <2> QED
    BY <2>1 DEF DeathLocks, Holders, Serving, At, Vault!vars
<1>2. ASSUME NEW r \in Runs,
             HomeIsFree(r) \/ HomeIsTaken(r) \/ MkdirLost(r) \/ StartAgain(r)
      PROVE  DeathLocks' /\ [Vault!Next]_(Vault!vars)
  <2>1. PICK place \in {"test", "mkdir", "ended"} : Goto(r, place)
    BY <1>2 DEF HomeIsFree, HomeIsTaken, MkdirLost, StartAgain, Move
  <2>2. ~At(r, Inside) /\ UNCHANGED <<home, keyring, dirty>>
    BY <1>2 DEF HomeIsFree, HomeIsTaken, MkdirLost, StartAgain, Move, At, Inside
  <2>3. UNCHANGED <<Holders, Serving>>
    BY <2>1, <2>2, OutsiderMoves DEF Inside
  <2>4. DeathLocks'
    <3>1. (\A s \in Runs : ~At(s, Inside)) <=> Holders = {}
      BY DEF Holders
    <3>2. (\A s \in Runs : ~At(s, Inside)') <=> Holders' = {}
      BY DEF Holders
    <3> QED
      BY <2>2, <2>3, <3>1, <3>2 DEF DeathLocks
  <2> QED
    BY <2>2, <2>3, <2>4 DEF Vault!vars
<1>3. ASSUME NEW r \in Runs, Mkdir(r)
      PROVE  DeathLocks' /\ [Vault!Next]_(Vault!vars)
  BY <1>3, MkdirTakes DEF Vault!Next
<1> QED
  BY <1>1, <1>2, <1>3, InsiderStep DEF Next, Step

\* However many runs of the script there are, they implement KeyVault: the
\* directory (with-rust-key.sh, lines 75 to 91) hands the keys from one run to the
\* next, empty, and a run that dies with them keeps everyone else out.
THEOREM VaultIsImplemented == Spec => IsAVault
<1>1. Init => DeathLocks /\ Vault!Init
  BY DEF Init, DeathLocks, Vault!Init, Holders, Serving, At, Inside
<1> QED
  BY InitIInv, NextIInv, <1>1, NextIsVaultStep, PTL DEF Spec, IsAVault, Vault!Spec

=============================================================================
