------------------------------ MODULE KeyVault ------------------------------
(***************************************************************************)
(* What with-rust-key.sh promises to those who run it at the same time: a  *)
(* vault that one run has at a time, that is empty when it gets it, that   *)
(* serves a command only when every key is in it, and that is empty again  *)
(* when the next run gets it.  A run that dies may leave the keys behind,  *)
(* and then nobody gets the vault any more.                                *)
(***************************************************************************)
CONSTANTS Runs, Keys

VARIABLES
  holders,  \* the runs that have the vault
  keys,     \* the keys that are in it
  serving,  \* the runs whose command may use the keys
  lost      \* a run has died with the vault

vars == <<holders, keys, serving, lost>>

Init ==
  /\ holders = {}
  /\ keys = {}
  /\ serving = {}
  /\ lost = FALSE

Take(r) ==
  /\ holders = {} /\ keys = {} /\ ~lost
  /\ holders' = {r}
  /\ UNCHANGED <<keys, serving, lost>>

Put(r) ==
  /\ holders = {r} /\ serving = {}
  /\ \E k \in Keys : keys' = keys \union {k}
  /\ UNCHANGED <<holders, serving, lost>>

Serve(r) ==
  /\ holders = {r} /\ keys = Keys
  /\ serving' = {r}
  /\ UNCHANGED <<holders, keys, lost>>

Stop(r) ==
  /\ serving = {r}
  /\ serving' = {}
  /\ UNCHANGED <<holders, keys, lost>>

GiveBack(r) ==
  /\ holders = {r} /\ serving = {}
  /\ holders' = {}
  /\ keys' = {}
  /\ UNCHANGED <<serving, lost>>

Lose(r) ==
  /\ holders = {r}
  /\ holders' = {}
  /\ serving' = {}
  /\ lost' = TRUE
  /\ UNCHANGED keys

Next == \E r \in Runs : Take(r) \/ Put(r) \/ Serve(r) \/ Stop(r) \/ GiveBack(r) \/ Lose(r)

Spec == Init /\ [][Next]_vars

=============================================================================
