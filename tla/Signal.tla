------------------------------- MODULE Signal -------------------------------
(***************************************************************************)
(* The debounced signals of ev.py.  A signal that is called waits until    *)
(* its delay has gone by without another call, and then calls its          *)
(* listeners once.  The callers are editor threads: the main thread, and   *)
(* the one that installs margo and announces it (margo_ready).  The timer  *)
(* rings in the thread that runs asynchronous callbacks.                   *)
(*                                                                         *)
(* A signal is made when it is first looked up, in a map (kv.M) whose get  *)
(* tests and stores in two critical sections: each of two threads may make *)
(* one.  The look-up of the view's map and that of the signal in it are    *)
(* alike, one stands for both.                                             *)
(*                                                                         *)
(* Time is what has passed: call number n sets the n-th deadline, and the  *)
(* deadlines pass in order.                                                *)
(***************************************************************************)
EXTENDS Naturals

CONSTANTS
  Callers,  \* the threads that call the signal of one view
  NoSig,    \* no signal is stored
  MaxCalls  \* bound: calls of one signal

ASSUME SignalAssumption ==
  /\ NoSig \notin Callers
  /\ MaxCalls \in Nat

\* The signals there may be: the one each caller makes if it finds none.
Sigs == Callers

VARIABLES
  stored,   \* the signal that the map has for the view
  caller,   \* where each caller is
  held,     \* the signal each caller has got from the map
  calls,    \* how often each signal has been called
  deadline, \* self.deadline: the call that has set it
  passed,   \* the calls whose deadlines have passed
  running,  \* self.running
  timers,   \* how many timers each signal has started that have not rung
  ringing,  \* where _timedout is, if it runs for the signal
  read,     \* its variable deadline
  placed,   \* how many calls have returned
  fires,    \* how often the listeners were called
  heard     \* the calls before the listeners were called last

mapVars   == <<stored, caller, held>>
timeVars  == <<deadline, passed>>
timerVars == <<running, timers, ringing, read>>
tellVars  == <<calls, placed, fires, heard>>
signalVars == <<mapVars, timeVars, timerVars, tellVars>>

SignalInit ==
  /\ stored = NoSig
  /\ caller = [t \in Callers |-> "idle"] /\ held = [t \in Callers |-> NoSig]
  /\ calls = [s \in Sigs |-> 0] /\ placed = [s \in Sigs |-> 0]
  /\ deadline = [s \in Sigs |-> 0] /\ passed = [s \in Sigs |-> 0]
  /\ running = [s \in Sigs |-> FALSE] /\ timers = [s \in Sigs |-> 0]
  /\ ringing = [s \in Sigs |-> "no"] /\ read = [s \in Sigs |-> 0]
  /\ fires = [s \in Sigs |-> 0] /\ heard = [s \in Sigs |-> 0]

-----------------------------------------------------------------------------
(* kv.M.get, and the call of the signal it returns. *)

\* The first critical section of get.
Lookup(t) ==
  /\ caller[t] = "idle"
  /\ stored # NoSig => calls[stored] < MaxCalls
  /\ held' = [held EXCEPT ![t] = stored]
  /\ caller' = [caller EXCEPT ![t] = IF stored = NoSig THEN "missing" ELSE "found"]
  /\ UNCHANGED <<stored, timeVars, timerVars, tellVars>>

\* The second one stores a new signal, whether or not another thread has stored
\* one meanwhile.
Store(t) ==
  /\ caller[t] = "missing"
  /\ stored' = t
  /\ held' = [held EXCEPT ![t] = t]
  /\ caller' = [caller EXCEPT ![t] = "found"]
  /\ UNCHANGED <<timeVars, timerVars, tellVars>>

\* The deadline is set in one critical section, the timer in another.
Stamp(t) ==
  /\ caller[t] = "found"
  /\ LET s == held[t] IN
       /\ calls[s] < MaxCalls
       /\ calls' = [calls EXCEPT ![s] = @ + 1]
       /\ deadline' = [deadline EXCEPT ![s] = calls[s] + 1]
  /\ caller' = [caller EXCEPT ![t] = "stamped"]
  /\ UNCHANGED <<stored, held, passed, timerVars, placed, fires, heard>>

\* _sched: a timer unless there is one.
Sched(s) ==
  IF running[s] THEN UNCHANGED <<running, timers>>
  ELSE /\ running' = [running EXCEPT ![s] = TRUE]
       /\ timers' = [timers EXCEPT ![s] = @ + 1]

CallReturns(t) ==
  /\ caller[t] = "stamped"
  /\ Sched(held[t])
  /\ placed' = [placed EXCEPT ![held[t]] = @ + 1]
  /\ caller' = [caller EXCEPT ![t] = "idle"]
  /\ UNCHANGED <<stored, held, timeVars, ringing, read, calls, fires, heard>>

-----------------------------------------------------------------------------
(* _timedout, in the thread of the asynchronous callbacks. *)

AsyncIdle == \A s \in Sigs : ringing[s] = "no"

\* A mistake: the flag is put down only when the listeners have been called.
RunningAfterRingKept(s) == running

RunningAfterRing(s) == [running EXCEPT ![s] = FALSE]

\* A timer may ring late, and early: what remains of the delay is looked at next.
Ring(s) ==
  /\ AsyncIdle /\ timers[s] > 0
  /\ timers' = [timers EXCEPT ![s] = @ - 1]
  /\ running' = RunningAfterRing(s)
  /\ read' = [read EXCEPT ![s] = deadline[s]]
  /\ ringing' = [ringing EXCEPT ![s] = "deciding"]
  /\ UNCHANGED <<mapVars, timeVars, tellVars>>

\* The deadline that was read has passed: the listeners are called.  They look at
\* the view afterwards, so that they know of every call so far.
Fire(s) ==
  /\ ringing[s] = "deciding" /\ read[s] <= passed[s]
  /\ ringing' = [ringing EXCEPT ![s] = "no"]
  /\ fires' = [fires EXCEPT ![s] = @ + 1]
  /\ heard' = [heard EXCEPT ![s] = calls[s]]
  /\ UNCHANGED <<mapVars, timeVars, running, timers, read, calls, placed>>

\* It has not: a timer for what remains, unless a caller has started one.
NotYet(s) ==
  /\ ringing[s] = "deciding" /\ read[s] > passed[s]
  /\ ringing' = [ringing EXCEPT ![s] = "again"]
  /\ UNCHANGED <<mapVars, timeVars, running, timers, read, tellVars>>

Again(s) ==
  /\ ringing[s] = "again"
  /\ Sched(s)
  /\ ringing' = [ringing EXCEPT ![s] = "no"]
  /\ UNCHANGED <<mapVars, timeVars, read, tellVars>>

\* Time goes by.
Elapse(s) ==
  /\ \E n \in (passed[s] + 1) .. calls[s] : passed' = [passed EXCEPT ![s] = n]
  /\ UNCHANGED <<mapVars, deadline, timerVars, tellVars>>

-----------------------------------------------------------------------------

Calling(t)  == Store(t) \/ Stamp(t) \/ CallReturns(t)
TimedOut(s) == Ring(s) \/ NotYet(s) \/ Again(s)

SignalNext ==
  \/ \E t \in Callers : Lookup(t) \/ Calling(t)
  \/ \E s \in Sigs : TimedOut(s) \/ Fire(s) \/ Elapse(s)

SignalSpec == SignalInit /\ [][SignalNext]_signalVars

-----------------------------------------------------------------------------

\* Every variable stays within its type.
SignalTypeOK ==
  /\ stored \in Sigs \cup {NoSig}
  /\ caller \in [Callers -> {"idle", "missing", "found", "stamped"}]
  /\ held \in [Callers -> Sigs \cup {NoSig}]
  /\ \A t \in Callers : caller[t] \in {"found", "stamped"} => held[t] \in Sigs
  /\ calls \in [Sigs -> Nat] /\ placed \in [Sigs -> Nat]
  /\ deadline \in [Sigs -> Nat] /\ passed \in [Sigs -> Nat]
  /\ timers \in [Sigs -> Nat] /\ read \in [Sigs -> Nat]
  /\ fires \in [Sigs -> Nat] /\ heard \in [Sigs -> Nat]
  /\ running \in [Sigs -> BOOLEAN]
  /\ ringing \in [Sigs -> {"no", "deciding", "again"}]

\* A signal never has two timers, which would call its listeners twice for one burst:
\* its flag says whether it has one.
OneTimer == \A s \in Sigs : timers[s] = IF running[s] THEN 1 ELSE 0

\* A call that the listeners have not heard of is going to be: there is a timer,
\* or _timedout is about to look, or the caller is about to start one.  The flag
\* and the deadline are read and set in separate critical sections, and the
\* listeners are called outside of all of them.
NothingForgotten ==
  \A s \in Sigs :
    heard[s] < calls[s] =>
      \/ timers[s] > 0
      \/ ringing[s] # "no"
      \/ \E t \in Callers : caller[t] = "stamped" /\ held[t] = s

\* A burst of calls is one call of the listeners: they are never called more often
\* than the signal, counting the call that a timer or _timedout is on its way to.
OnItsWay(s) == timers[s] + (IF ringing[s] = "no" THEN 0 ELSE 1)

FiresBounded == \A s \in Sigs : fires[s] + OnItsWay(s) <= placed[s]

\* The deadline that _timedout acts on is that of a call that was made.
DeadlinesAreCalls ==
  \A s \in Sigs : read[s] <= deadline[s] /\ deadline[s] = calls[s] /\ heard[s] <= calls[s]

\* The inductive invariant of the debounce.
SignalInv ==
  /\ SignalTypeOK
  /\ OneTimer
  /\ NothingForgotten
  /\ FiresBounded
  /\ DeadlinesAreCalls
=============================================================================
