------------------------------ MODULE PlayProofs ------------------------------
(***************************************************************************)
(* Theorems about Play for any number of commands, cancels and cids: what  *)
(* holds of the process table holds beside .play, whose calls enter it     *)
(* later and by another way, and no temporary directory is left behind.    *)
(***************************************************************************)
EXTENDS Play, ProcTableProofs

\* Before a .play enters the table its call is idle there; it has cleaned up exactly
\* when it has answered, and has its directory while it builds.
PlayInv ==
  /\ TableInv
  /\ play \in [Plays -> {"idle", "package", "main", "building", "ready", "running",
                         "failed", "answered"}]
  /\ dir \in [Plays -> {"none", "there", "removed"}]
  /\ \A j \in Plays :
       /\ play[j] \notin {"running", "answered"} => pc[j] = "idle"
       /\ play[j] = "answered" => pc[j] \in {"idle", "done"} /\ dir[j] # "there"
       /\ play[j] = "building" => dir[j] = "there"
       /\ dir[j] = "removed" => play[j] = "answered"

\* A call that is idle may get its cid and its place in the table's protocol, together
\* (an exec call) or one after the other (.play).
LEMMA ArrivalInv ==
  ASSUME TableInv, NEW j \in Jobs, pc[j] = "idle",
         pc' \in {pc, [pc EXCEPT ![j] = "look"]},
         cid' \in {cid, [cid EXCEPT ![j] = Uid(j)]},
         UNCHANGED <<table, tries, seen, kind, proc, margo>>
  PROVE  TableInv'
<1>1. TypeOK'
  <2>1. j \in Callers /\ Uid(j) \in Keys
    BY DEF Callers, Keys, Uid
  <2>2. pc' \in [Callers -> Locations] /\ cid' \in [Callers -> Keys]
    BY <2>1, ZenonT(60) DEF TableInv, TypeOK, Locations
  <2>3. QED
    BY <2>2 DEF TableInv, TypeOK
<1>2. \A i \in Jobs : pc'[i] \in {"start", "wait", "delete"} <=>
                       pc[i] \in {"start", "wait", "delete"}
  BY DEF TableInv, TypeOK, Callers
<1>3. \A q \in Callers : pc[q] # "idle" => cid'[q] = cid[q] /\ pc'[q] = pc[q]
  BY DEF TableInv, TypeOK
<1>4. OwnerStaysRegistered'
  BY <1>2, <1>3 DEF TableInv, OwnerStaysRegistered, Callers
<1>5. EntryHasOwner'
  BY <1>2, <1>3 DEF TableInv, TypeOK, EntryHasOwner, Callers
<1>6. RunningIsAwaited'
  BY <1>3 DEF TableInv, RunningIsAwaited, Unkilled, Callers
<1>7. UidIsPrivate'
  BY DEF TableInv, TypeOK, UidIsPrivate, Uid
<1>8. SeenHasSameCid'
  <2>1. \A q \in Callers : pc'[q] = "interrupt" => pc[q] = "interrupt"
    BY DEF TableInv, TypeOK
  <2>2. QED
    BY <1>3, <2>1 DEF TableInv, TypeOK, SeenHasSameCid, Callers
<1>9. UnnamedNeverInterrupted'
  <2>1. \A i \in Jobs : proc[i] = "interrupted" => pc[i] # "idle"
    BY DEF TableInv, RunningIsAwaited, Unkilled
  <2>2. QED
    BY <1>3, <2>1 DEF TableInv, UnnamedNeverInterrupted, Callers
<1>10. QED
  BY <1>1, <1>4, <1>5, <1>6, <1>7, <1>8, <1>9 DEF TableInv

\* Only a call's own arrival takes it out of "idle", and nothing out of "done".
LEMMA IdleAndDoneStay ==
  ASSUME TableInv, NEW j \in Jobs,
         TableStep \/ (\E p \in Callers \ {j} : Call(p))
  PROVE  /\ pc[j] = "idle" => pc'[j] = "idle"
         /\ pc[j] = "done" => pc'[j] = "done"
<1>1. pc \in [Callers -> Locations] /\ j \in Callers
  BY DEF TableInv, TypeOK, Callers
<1>2. CASE \E p \in Callers \ {j} : Call(p)
  BY <1>1, <1>2 DEF Call
<1>3. CASE \E p \in Callers : Replace(p)
  BY <1>1, <1>3 DEF Replace, Look, Retry, Interrupt, Kill, LookAgain
<1>4. CASE \E i \in Jobs : Execute(i) \/ ProcessExit(i)
  BY <1>1, <1>4 DEF Execute, Start, Wait, Delete, ProcessExit, Callers
<1>5. CASE LoopEnds \/ ByeHook \/ Exit
  BY <1>5 DEF LoopEnds, ByeHook, Exit
<1>6. QED
  BY <1>2, <1>3, <1>4, <1>5 DEF TableStep

\* The invariant holds initially.
LEMMA PlayStarts == PlayInit => PlayInv
<1> SUFFICES ASSUME PlayInit PROVE PlayInv
  OBVIOUS
<1>1. TableInv
  BY InitInv DEF PlayInit
<1>2. QED
  BY <1>1, PlayAssumption DEF PlayInit, PlayInv, Init, Callers

\* The steps of one .play keep it.
LEMMA PlayStepKeeps ==
  ASSUME PlayInv, NEW j \in Plays, PlayCall(j) \/ PlaySteps(j)
  PROVE  PlayInv'
<1> USE PlayAssumption DEF PlayInv
<1>1. j \in Jobs /\ pc \in [Callers -> Locations] /\ Jobs \subseteq Callers
  BY DEF TableInv, TypeOK, Callers
<1>2. CASE PlayCall(j)
  <2>1. TableInv'
    BY <1>1, <1>2, ArrivalInv DEF PlayCall
  <2>2. QED
    BY <1>2, <2>1 DEF PlayCall
<1>3. CASE RunPlay(j)
  <2>1. TableInv'
    BY <1>1, <1>3, ArrivalInv DEF RunPlay
  <2>2. QED
    BY <1>1, <1>3, <2>1 DEF RunPlay
<1>4. ASSUME UNCHANGED vars PROVE TableInv' /\ pc' = pc
  BY <1>4, NextInv DEF vars
<1>5. CASE FindPackage(j)
  BY <1>4, <1>5 DEF FindPackage
<1>6. CASE MainCmd(j)
  BY <1>4, <1>6 DEF MainCmd
<1>7. CASE BuildEnds(j)
  BY <1>4, <1>7 DEF BuildEnds
<1>8. CASE AnswerPlay(j)
  BY <1>4, <1>8 DEF AnswerPlay, Fini
<1>9. QED
  BY <1>2, <1>3, <1>5, <1>6, <1>7, <1>8 DEF PlaySteps

\* So do those of the other calls and of the table.
LEMMA PlayNextKeeps == PlayInv /\ [PlayNext]_playVars => PlayInv'
<1> SUFFICES ASSUME PlayInv, [PlayNext]_playVars PROVE PlayInv'
  OBVIOUS
<1>1. ASSUME UNCHANGED <<play, dir>>, [Next]_vars,
             \A j \in Plays : /\ pc[j] = "idle" => pc'[j] = "idle"
                              /\ pc[j] = "done" => pc'[j] = "done"
      PROVE  PlayInv'
  <2>1. TableInv'
    BY <1>1, NextInv DEF PlayInv
  <2>2. QED
    BY <1>1, <2>1 DEF PlayInv
<1>2. CASE \E p \in Callers : OtherCall(p)
  <2>1. PICK p \in Callers : OtherCall(p)
    BY <1>2
  <2>2. Next /\ \A j \in Plays : p # j
    BY <2>1 DEF OtherCall, Next
  <2>3. QED
    BY <1>1, <2>1, <2>2, IdleAndDoneStay, PlayAssumption DEF OtherCall, PlayInv
<1>3. CASE TableStep /\ UNCHANGED <<play, dir, previous>>
  <2>1. Next
    BY <1>3 DEF TableStep, Next
  <2>2. QED
    BY <1>1, <1>3, <2>1, IdleAndDoneStay, PlayAssumption DEF PlayInv
<1>4. CASE \E j \in Plays : PlayCall(j) \/ PlaySteps(j)
  BY <1>4, PlayStepKeeps
<1>5. CASE UNCHANGED playVars
  BY <1>1, <1>5 DEF playVars, vars
<1>6. QED
  BY <1>2, <1>3, <1>4, <1>5 DEF PlayNext

\* The inductive invariant: that of the table, and where a .play and its directory are.
THEOREM PlayInvariant == PlaySpec => []PlayInv
BY PlayStarts, PlayNextKeeps, PTL DEF PlaySpec

\* No temporary directory outlives the answer of its call, or is removed while the
\* program built in it runs, whichever step has failed.
THEOREM DirectoriesAreRemoved == PlaySpec => []DirsRemoved
<1>1. PlayInv => DirsRemoved
  BY PlayAssumption DEF PlayInv, TableInv, RunningIsAwaited, DirsRemoved
<1>2. QED
  BY <1>1, PlayInvariant, PTL

\* The programs that .play runs exclude one another, and other commands of their cid,
\* although they are built outside of the table.
THEOREM PlayedProgramsExclude == PlaySpec => []AtMostOneRunning
<1>1. PlayInv => AtMostOneRunning
  BY DEF PlayInv, TableInv, OwnerStaysRegistered, RunningIsAwaited, AtMostOneRunning
<1>2. QED
  BY <1>1, PlayInvariant, PTL

\* The table beside .play is still an exclusive slot for each cid: what a .play does
\* before it enters the table acquires nothing and runs nothing that the table knows of.
THEOREM PlayImplementsSlots == PlaySpec => ImplementsSlots
<1>1. PlayInit => Slots!Init
  BY DEF PlayInit, Init, Slots!Init, Unkilled
<1>2. ASSUME PlayInv, [PlayNext]_playVars PROVE [Slots!Next]_(Slots!vars)
  <2>1. CASE [Next]_vars
    BY <1>2, <2>1, StepRefines DEF PlayInv
  <2>2. CASE \E j \in Plays : PlayCall(j) \/ PlaySteps(j)
    <3>1. table' = table /\ proc' = proc
      BY <2>2 DEF PlaySteps, PlayCall, FindPackage, MainCmd, BuildEnds, RunPlay,
                  AnswerPlay, vars
    <3>2. QED
      BY <3>1 DEF Slots!vars, Unkilled
  <2>3. QED
    BY <1>2, <2>1, <2>2 DEF PlayNext, OtherCall, TableStep, Next, playVars
<1>3. QED
  BY <1>1, <1>2, PlayInvariant, PTL DEF PlaySpec, ImplementsSlots, Slots!Spec
=============================================================================
