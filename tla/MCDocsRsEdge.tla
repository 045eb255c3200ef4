---------------------------- MODULE MCDocsRsEdge ----------------------------
(* Small instances of DocsRsEdge for TLC. *)
EXTENDS DocsRsEdge, TLC

CONSTANTS edge, shield1, shield2

\* A client sets no internal header, or all of them.
AllOrNothing == {{}, HeaderNames}

\* Shielding at either candidate, by a mistyped name, or not at all.
TwoShields ==
  [shield : {shield1, shield2}, waf : {TRUE}] \cup [shield : {Unset, Typo}, waf : {FALSE}]

\* The same with one shield candidate.
OneShield == [shield : {shield1, Unset, Typo}, waf : BOOLEAN]

\* Shielding configured once and for all: only the secret changes.
RotationOnly == [shield : {shield1}, waf : {TRUE}]

\* Nothing tells one request from another, or one client.
Alike == Permutations(Requests) \cup Permutations(Clients)

=============================================================================
