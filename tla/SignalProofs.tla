----------------------------- MODULE SignalProofs -----------------------------
(***************************************************************************)
(* The debounce is right for any number of threads and calls: proofs of    *)
(* the invariants of Signal.  Its invariant SignalInv is inductive: that   *)
(* nothing is forgotten needs that the flag says whether there is a timer, *)
(* since a caller that finds it set starts none.                           *)
(***************************************************************************)
EXTENDS Signal, TLAPS

USE SignalAssumption DEF Sigs

\* The parts of signalVars, for the steps that change none of them.
LEMMA SignalStutters ==
  ASSUME SignalInv, UNCHANGED signalVars
  PROVE  SignalInv'
BY DEF SignalInv, SignalTypeOK, OneTimer, NothingForgotten, FiresBounded, OnItsWay,
       DeadlinesAreCalls, signalVars, mapVars, timeVars, timerVars, tellVars

\* The first states satisfy the invariant.
LEMMA SignalStarts == SignalInit => SignalInv
BY SMT DEF SignalInit, SignalInv, SignalTypeOK, OneTimer, NothingForgotten, FiresBounded,
       OnItsWay, DeadlinesAreCalls

\* Looking up the signal changes only what the caller knows.
LEMMA LookupKeeps ==
  ASSUME SignalInv, NEW t \in Callers, Lookup(t)
  PROVE  SignalInv'
<1>. USE DEF Lookup, timeVars, timerVars, tellVars
<1>1. SignalTypeOK' BY SMT DEF SignalInv, SignalTypeOK
<1>2. OneTimer' BY DEF SignalInv, OneTimer
<1>3. NothingForgotten'
  BY SMT DEF SignalInv, SignalTypeOK, NothingForgotten
<1>4. FiresBounded' BY DEF SignalInv, FiresBounded, OnItsWay
<1>5. DeadlinesAreCalls' BY DEF SignalInv, DeadlinesAreCalls
<1>. QED BY <1>1, <1>2, <1>3, <1>4, <1>5 DEF SignalInv

\* A thread may store its signal over another thread's: what the other one has got
\* keeps its timers.
LEMMA StoreKeeps ==
  ASSUME SignalInv, NEW t \in Callers, Store(t)
  PROVE  SignalInv'
<1>. USE DEF Store, timeVars, timerVars, tellVars
<1>1. SignalTypeOK' BY SMT DEF SignalInv, SignalTypeOK
<1>2. OneTimer' BY DEF SignalInv, OneTimer
<1>3. NothingForgotten'
  BY SMT DEF SignalInv, SignalTypeOK, NothingForgotten
<1>4. FiresBounded' BY DEF SignalInv, FiresBounded, OnItsWay
<1>5. DeadlinesAreCalls' BY DEF SignalInv, DeadlinesAreCalls
<1>. QED BY <1>1, <1>2, <1>3, <1>4, <1>5 DEF SignalInv

\* A call that has set the deadline is on its way to a timer.
LEMMA StampKeeps ==
  ASSUME SignalInv, NEW t \in Callers, Stamp(t)
  PROVE  SignalInv'
<1>. USE DEF Stamp, timerVars
<1>0. held[t] \in Callers BY DEF SignalInv, SignalTypeOK
<1>1. SignalTypeOK' BY <1>0, SMT DEF SignalInv, SignalTypeOK
<1>2. OneTimer' BY DEF SignalInv, OneTimer
<1>3. NothingForgotten'
  BY <1>0, SMT DEF SignalInv, SignalTypeOK, NothingForgotten
<1>4. FiresBounded' BY DEF SignalInv, FiresBounded, OnItsWay
<1>5. DeadlinesAreCalls'
  BY <1>0, SMT DEF SignalInv, SignalTypeOK, DeadlinesAreCalls
<1>. QED BY <1>1, <1>2, <1>3, <1>4, <1>5 DEF SignalInv

\* What _sched does, for whoever calls it: there is a timer afterwards, one.
LEMMA SchedKeepsOneTimer ==
  ASSUME SignalTypeOK, OneTimer, NEW s \in Callers, Sched(s)
  PROVE  /\ running' \in [Callers -> BOOLEAN] /\ timers' \in [Callers -> Nat]
         /\ OneTimer'
         /\ timers'[s] = 1
         /\ \A u \in Callers \ {s} : timers'[u] = timers[u]
<1>. USE DEF SignalTypeOK, OneTimer, Sched
<1>1. CASE running[s]
  <2>1. timers[s] = 1 BY <1>1
  <2>. QED BY <1>1, <2>1
<1>2. CASE ~ running[s]
  <2>1. timers[s] = 0 BY <1>2
  <2>2. /\ running' = [running EXCEPT ![s] = TRUE]
        /\ timers' = [timers EXCEPT ![s] = 1]
    BY <1>2, <2>1
  <2>3. running' \in [Callers -> BOOLEAN] /\ timers' \in [Callers -> Nat]
    BY <2>2
  <2>4. OneTimer' BY <2>2, SMT
  <2>. QED BY <2>2, <2>3, <2>4
<1>. QED BY <1>1, <1>2

\* A call that returns leaves a timer behind.
LEMMA CallReturnsKeeps ==
  ASSUME SignalInv, NEW t \in Callers, CallReturns(t)
  PROVE  SignalInv'
<1>. USE DEF CallReturns, timeVars
<1>0. held[t] \in Callers BY DEF SignalInv, SignalTypeOK
<1>s. /\ running' \in [Callers -> BOOLEAN] /\ timers' \in [Callers -> Nat]
      /\ OneTimer'
      /\ timers'[held[t]] = 1
      /\ \A u \in Callers \ {held[t]} : timers'[u] = timers[u]
  BY <1>0, SchedKeepsOneTimer DEF SignalInv
<1>1. SignalTypeOK'
  <2>1. placed' \in [Callers -> Nat] BY <1>0 DEF SignalInv, SignalTypeOK
  <2>2. /\ caller' \in [Callers -> {"idle", "missing", "found", "stamped"}]
        /\ \A u \in Callers : caller'[u] \in {"found", "stamped"} => held[u] \in Callers
    BY DEF SignalInv, SignalTypeOK
  <2>. QED BY <1>s, <2>1, <2>2 DEF SignalInv, SignalTypeOK
<1>3. NothingForgotten'
  BY <1>0, <1>s, SMT DEF SignalInv, SignalTypeOK, NothingForgotten
<1>4. FiresBounded'
  BY <1>0, <1>s, SMT DEF SignalInv, SignalTypeOK, FiresBounded, OnItsWay
<1>5. DeadlinesAreCalls' BY DEF SignalInv, DeadlinesAreCalls
<1>. QED BY <1>1, <1>s, <1>3, <1>4, <1>5 DEF SignalInv

\* A timer that rings puts the flag down: who calls now starts another one.
LEMMA RingKeeps ==
  ASSUME SignalInv, NEW s \in Callers, Ring(s)
  PROVE  SignalInv'
<1>. USE DEF Ring, RunningAfterRing, AsyncIdle, mapVars, timeVars, tellVars
<1>1. SignalTypeOK' BY SMT DEF SignalInv, SignalTypeOK, OneTimer
<1>2. OneTimer' BY SMT DEF SignalInv, SignalTypeOK, OneTimer
<1>3. NothingForgotten' BY SMT DEF SignalInv, SignalTypeOK, NothingForgotten
<1>4. FiresBounded' BY SMT DEF SignalInv, SignalTypeOK, FiresBounded, OnItsWay
<1>5. DeadlinesAreCalls' BY SMT DEF SignalInv, SignalTypeOK, DeadlinesAreCalls
<1>. QED BY <1>1, <1>2, <1>3, <1>4, <1>5 DEF SignalInv

\* The listeners hear of every call so far.
LEMMA FireKeeps ==
  ASSUME SignalInv, NEW s \in Callers, Fire(s)
  PROVE  SignalInv'
<1>. USE DEF Fire, mapVars, timeVars
<1>1. SignalTypeOK' BY SMT DEF SignalInv, SignalTypeOK
<1>2. OneTimer' BY DEF SignalInv, OneTimer
<1>3. NothingForgotten' BY SMT DEF SignalInv, SignalTypeOK, NothingForgotten
<1>4. FiresBounded' BY SMT DEF SignalInv, SignalTypeOK, FiresBounded, OnItsWay
<1>5. DeadlinesAreCalls' BY SMT DEF SignalInv, SignalTypeOK, DeadlinesAreCalls
<1>. QED BY <1>1, <1>2, <1>3, <1>4, <1>5 DEF SignalInv

\* Too early: another timer is to come.
LEMMA NotYetKeeps ==
  ASSUME SignalInv, NEW s \in Callers, NotYet(s)
  PROVE  SignalInv'
<1>. USE DEF NotYet, mapVars, timeVars, tellVars
<1>1. SignalTypeOK' BY SMT DEF SignalInv, SignalTypeOK
<1>2. OneTimer' BY DEF SignalInv, OneTimer
<1>3. NothingForgotten' BY SMT DEF SignalInv, SignalTypeOK, NothingForgotten
<1>4. FiresBounded' BY SMT DEF SignalInv, SignalTypeOK, FiresBounded, OnItsWay
<1>5. DeadlinesAreCalls' BY DEF SignalInv, DeadlinesAreCalls
<1>. QED BY <1>1, <1>2, <1>3, <1>4, <1>5 DEF SignalInv

\* The timer for what remains, or the one that a caller has started meanwhile.
LEMMA AgainKeeps ==
  ASSUME SignalInv, NEW s \in Callers, Again(s)
  PROVE  SignalInv'
<1>. USE DEF Again, mapVars, timeVars, tellVars
<1>s. /\ running' \in [Callers -> BOOLEAN] /\ timers' \in [Callers -> Nat]
      /\ OneTimer'
      /\ timers'[s] = 1
      /\ \A u \in Callers \ {s} : timers'[u] = timers[u]
  BY SchedKeepsOneTimer DEF SignalInv
<1>1. SignalTypeOK'
  <2>1. ringing' \in [Callers -> {"no", "deciding", "again"}]
    BY DEF SignalInv, SignalTypeOK
  <2>. QED BY <1>s, <2>1 DEF SignalInv, SignalTypeOK
<1>3. NothingForgotten'
  BY <1>s, SMT DEF SignalInv, SignalTypeOK, NothingForgotten
<1>4. FiresBounded'
  <2>1. ASSUME NEW u \in Callers PROVE fires[u] + OnItsWay(u)' <= placed[u]
    <3>1. timers[s] \in Nat /\ timers[u] \in Nat /\ fires[u] \in Nat /\ placed[u] \in Nat
      BY DEF SignalInv, SignalTypeOK
    <3>2. fires[u] + OnItsWay(u) <= placed[u] BY DEF SignalInv, FiresBounded
    <3>3. CASE u = s
      BY <1>s, <3>1, <3>2, <3>3, SMT DEF OnItsWay, SignalInv, SignalTypeOK
    <3>4. CASE u # s
      BY <1>s, <3>1, <3>2, <3>4, SMT DEF OnItsWay, SignalInv, SignalTypeOK
    <3>. QED BY <3>3, <3>4
  <2>. QED BY <2>1 DEF FiresBounded
<1>5. DeadlinesAreCalls' BY DEF SignalInv, DeadlinesAreCalls
<1>. QED BY <1>1, <1>s, <1>3, <1>4, <1>5 DEF SignalInv

\* Time goes by.
LEMMA ElapseKeeps ==
  ASSUME SignalInv, NEW s \in Callers, Elapse(s)
  PROVE  SignalInv'
<1>. USE DEF Elapse, mapVars, timerVars, tellVars
<1>1. SignalTypeOK' BY SMT DEF SignalInv, SignalTypeOK
<1>2. OneTimer' BY DEF SignalInv, OneTimer
<1>3. NothingForgotten' BY DEF SignalInv, NothingForgotten
<1>4. FiresBounded' BY DEF SignalInv, FiresBounded, OnItsWay
<1>5. DeadlinesAreCalls' BY DEF SignalInv, DeadlinesAreCalls
<1>. QED BY <1>1, <1>2, <1>3, <1>4, <1>5 DEF SignalInv

\* Every step keeps the invariant.
LEMMA SignalStepKeeps ==
  ASSUME SignalInv, [SignalNext]_signalVars
  PROVE  SignalInv'
<1>1. ASSUME NEW t \in Callers, Lookup(t) \/ Calling(t) PROVE SignalInv'
  BY <1>1, LookupKeeps, StoreKeeps, StampKeeps, CallReturnsKeeps DEF Calling
<1>2. ASSUME NEW s \in Callers, TimedOut(s) \/ Fire(s) \/ Elapse(s) PROVE SignalInv'
  BY <1>2, RingKeeps, NotYetKeeps, AgainKeeps, FireKeeps, ElapseKeeps DEF TimedOut
<1>3. CASE UNCHANGED signalVars BY <1>3, SignalStutters
<1>. QED BY <1>1, <1>2, <1>3 DEF SignalNext

\* The inductive invariant of the debounce (ev.Signal): its variables keep their types,
\* and it forgets no call, has one timer at most, and calls no listener too often.
THEOREM SignalInvariant == SignalSpec => []SignalInv
<1>1. SignalInit => SignalInv BY SignalStarts
<1>2. SignalInv /\ [SignalNext]_signalVars => SignalInv' BY SignalStepKeeps
<1>. QED BY <1>1, <1>2, PTL DEF SignalSpec

\* The flag of a signal says whether it has a timer, and it never has two (_sched).
THEOREM TimersAreSingle == SignalSpec => []OneTimer
<1>1. SignalInv => OneTimer BY DEF SignalInv
<1>. QED BY <1>1, SignalInvariant, PTL

\* Whatever happens between the critical sections of a call and of _timedout, a call
\* that the listeners have not heard of has a timer to come, or a thread that is at it.
THEOREM CallsAreNotForgotten == SignalSpec => []NothingForgotten
<1>1. SignalInv => NothingForgotten BY DEF SignalInv
<1>. QED BY <1>1, SignalInvariant, PTL
=============================================================================
