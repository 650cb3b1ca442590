------------------------------ MODULE CidSlots ------------------------------
(***************************************************************************)
(* What the process table promises: one slot per cid, owned by at most one *)
(* command; a command runs only while it owns a slot, and a slot is given  *)
(* up only when its owner no longer runs.                                  *)
(***************************************************************************)
CONSTANTS Jobs, Keys, Nil

VARIABLES
  owner,  \* the command that owns each slot, or Nil
  live    \* the commands with a process that has not ended or been killed

vars == <<owner, live>>

Init ==
  /\ owner = [x \in Keys |-> Nil]
  /\ live = {}

Owns(j, x) == owner[x] = j

Acquire(j, x) ==
  /\ Owns(Nil, x)
  /\ owner' = [owner EXCEPT ![x] = j]
  /\ UNCHANGED live

Begin(j) ==
  /\ \E x \in Keys : Owns(j, x)
  /\ live' = live \cup {j}
  /\ UNCHANGED owner

\* One command ends, or all of them are killed at exit.
End(gone) ==
  /\ gone \subseteq live
  /\ live' = live \ gone
  /\ UNCHANGED owner

Release(x) ==
  /\ owner[x] \notin live
  /\ owner' = [owner EXCEPT ![x] = Nil]
  /\ UNCHANGED live

Next ==
  \/ \E j \in Jobs, x \in Keys : Acquire(j, x)
  \/ \E j \in Jobs : Begin(j)
  \/ \E gone \in SUBSET Jobs : End(gone)
  \/ \E x \in Keys : Release(x)

Spec == Init /\ [][Next]_vars
=============================================================================
