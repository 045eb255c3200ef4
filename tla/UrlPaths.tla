------------------------------ MODULE UrlPaths ------------------------------
(***************************************************************************)
(* Paths of URLs as the routers at the edges see them, and what a router   *)
(* answers.                                                                *)
(*                                                                         *)
(* A path is the sequence of its segments, the empty segment for two       *)
(* slashes in a row and after a final slash: "/" is <<Empty>>.  A segment  *)
(* is a tuple of atoms: <<"v", "+", "w">> is the text "v+w".  No atom is   *)
(* the beginning of another atom that a router tells apart from it.        *)
(***************************************************************************)
EXTENDS Naturals, Sequences, FiniteSets

Text(atom) == <<atom>>
Empty == <<>>
Root == <<Empty>>

Path == Seq(Seq(STRING))

Ends(segment, atom) == segment # Empty /\ segment[Len(segment)] = atom

\* uri.startsWith(prefix): the last segment of the prefix may go on.
StartsWith(path, prefix) ==
  LET n == Len(prefix) IN
  /\ Len(path) >= n
  /\ \A s \in 1..n - 1 : path[s] = prefix[s]
  /\ Len(path[n]) >= Len(prefix[n])
  /\ SubSeq(path[n], 1, Len(prefix[n])) = prefix[n]

\* new + uri.slice(old.length): what follows the old prefix follows the new one.
Replace(path, old, new) ==
  LET n == Len(old)
      m == Len(new)
      rest == SubSeq(path[n], Len(old[n]) + 1, Len(path[n]))
  IN SubSeq(new, 1, m - 1) \o << new[m] \o rest >> \o SubSeq(path, n + 1, Len(path))

\* replace(/\/+/g, '/'): a final slash stays.
Collapse(path) ==
  LET kept   == {s \in DOMAIN path : path[s] # Empty \/ s = Len(path)}
      nth(i) == CHOOSE s \in kept : Cardinality({r \in kept : r <= s}) = i
  IN [i \in 1..Cardinality(kept) |-> path[nth(i)]]

-----------------------------------------------------------------------------
(* Answers: fetch a key from the origin, redirect on the same host, or     *)
(* send the client to another host.                                        *)

Fetch(path)               == [do |-> "fetch", path |-> path, code |-> 200]
Moved(path, code)         == [do |-> "redirect", path |-> path, code |-> code]
MovedTo(host, path, code) == [do |-> host, path |-> path, code |-> code]

=============================================================================
