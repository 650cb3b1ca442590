----------------------------- MODULE Responder -----------------------------
(***************************************************************************)
(* What margo's broker promises its client: a request it has accepted is   *)
(* answered at most once, in any order, a request it has not accepted is   *)
(* never answered, and nothing is answered once the process is gone.       *)
(***************************************************************************)
EXTENDS Naturals

CONSTANT Reqs

VARIABLES
  accepted,  \* requests read from the client and not dropped
  answers,   \* how many responses to each request the client can read
  gone       \* the broker's process has exited

vars == <<accepted, answers, gone>>

Init ==
  /\ accepted = {}
  /\ answers = [r \in Reqs |-> 0]
  /\ gone = FALSE

Accept(r) ==
  /\ ~gone
  /\ accepted' = accepted \cup {r}
  /\ UNCHANGED <<answers, gone>>

Answer(r) ==
  /\ ~gone
  /\ r \in accepted
  /\ answers[r] = 0
  /\ answers' = [answers EXCEPT ![r] = 1]
  /\ UNCHANGED <<accepted, gone>>

Quit ==
  /\ gone' = TRUE
  /\ UNCHANGED <<accepted, answers>>

Next == Quit \/ \E r \in Reqs : Accept(r) \/ Answer(r)

Spec == Init /\ [][Next]_vars
=============================================================================
