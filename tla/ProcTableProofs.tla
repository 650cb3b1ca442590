-------------------------- MODULE ProcTableProofs --------------------------
(***************************************************************************)
(* Theorems about ProcTable for any number of commands, cancels and cids.  *)
(***************************************************************************)
EXTENDS ProcTable, TLAPS

\* Names for single expressions of the code, always expanded.
USE DEF MayProceed, MoreTries, Uid, AfterFailure, HookKills

\* The table invariant holds initially.
LEMMA InitInv == Init => TableInv
<1> SUFFICES ASSUME Init PROVE TableInv
  OBVIOUS
<1> USE DEF Init
<1>1. TypeOK
  BY DEF TypeOK, Keys, Callers, Locations, MaxTries
<1>2. OwnerStaysRegistered /\ RunningIsAwaited /\ UnnamedNeverInterrupted
  BY DEF OwnerStaysRegistered, RunningIsAwaited, UnnamedNeverInterrupted,
         Unkilled, Callers
<1>3. EntryHasOwner /\ SeenHasSameCid
  BY DEF EntryHasOwner, SeenHasSameCid
<1>4. UidIsPrivate
  BY ProcTableAssumption DEF UidIsPrivate
<1>5. QED
  BY <1>1, <1>2, <1>3, <1>4 DEF TableInv

\* What a set() leaves in the table: the slot of the caller holds what it held,
\* or the caller's own command if it was empty; other slots are untouched.
LEMMA SetFacts ==
  ASSUME TableInv, NEW p \in Callers, Set(p)
  PROVE  /\ table' \in [Keys -> Jobs \cup {Nil}]
         /\ seen' \in [Callers -> Jobs \cup {Nil}]
         /\ \A q \in Callers \ {p} : seen'[q] = seen[q]
         /\ \A x \in Keys \ {cid[p]} : table'[x] = table[x]
         /\ seen'[p] = Registered(p)
         /\ table'[cid[p]] = Registered(p)
         /\ cid[p] \in Keys
         /\ table[cid[p]] # Nil => Registered(p) = table[cid[p]]
         /\ table[cid[p]] = Nil => Registered(p) = Cmd(p)
         /\ p \in Jobs => Cmd(p) = p
         /\ p \notin Jobs => Cmd(p) = Nil
BY DEF TableInv, TypeOK, Set, Registered, Cmd

\* A set() step of repl keeps the invariant, whichever of the three it is.
LEMMA SetStepInv ==
  ASSUME TableInv, NEW p \in Callers, Set(p),
         pc[p] \in {"look", "retry", "look again"},
         NEW next \in {"retry", "interrupt", "kill"},
         next = "interrupt" => tries[p] < MaxTries,
         pc' = [pc EXCEPT ![p] = IF MayProceed(p) THEN Replaced(p) ELSE next],
         UNCHANGED <<tries, cid, kind, proc, margo>>
  PROVE  TableInv'
<1>f. /\ table' \in [Keys -> Jobs \cup {Nil}]
      /\ seen' \in [Callers -> Jobs \cup {Nil}]
      /\ \A q \in Callers \ {p} : seen'[q] = seen[q]
      /\ \A x \in Keys \ {cid[p]} : table'[x] = table[x]
      /\ seen'[p] = Registered(p)
      /\ table'[cid[p]] = Registered(p)
      /\ cid[p] \in Keys
      /\ table[cid[p]] # Nil => Registered(p) = table[cid[p]]
      /\ table[cid[p]] = Nil => Registered(p) = Cmd(p)
      /\ p \in Jobs => Cmd(p) = p
      /\ p \notin Jobs => Cmd(p) = Nil
  BY SetFacts
<1>1. TypeOK'
  BY <1>f DEF TableInv, TypeOK, Replaced, Locations
<1>2. OwnerStaysRegistered'
  <2> SUFFICES ASSUME NEW j \in Jobs, pc'[j] \in {"start", "wait", "delete"}
               PROVE  table'[cid[j]] = j
    BY DEF OwnerStaysRegistered
  <2>1. CASE j = p
    <3>1. Registered(p) = Cmd(p)
      BY <2>1 DEF TableInv, TypeOK
    <3>2. QED
      BY <2>1, <3>1, <1>f
  <2>2. CASE j # p
    <3>1. table[cid[j]] = j /\ cid[j] \in Keys /\ j # Nil
      BY <2>2, ProcTableAssumption DEF TableInv, TypeOK, OwnerStaysRegistered, Callers
    <3>2. QED
      BY <3>1, <1>f
  <2>3. QED
    BY <2>1, <2>2
<1>3. EntryHasOwner'
  <2> SUFFICES ASSUME NEW x \in Keys, table'[x] # Nil
               PROVE  /\ cid[table'[x]] = x
                      /\ pc'[table'[x]] \in {"start", "wait", "delete"}
    BY DEF EntryHasOwner
  <2>1. CASE table[x] # Nil
    <3>1. table'[x] = table[x]
      BY <2>1, <1>f
    <3>2. pc[table[x]] \in {"start", "wait", "delete"} /\ cid[table[x]] = x
      BY <2>1 DEF TableInv, EntryHasOwner
    <3>3. table[x] # p
      BY <3>2
    <3>4. QED
      BY <3>1, <3>2, <3>3, <2>1 DEF TableInv, TypeOK, Callers
  <2>2. CASE table[x] = Nil
    <3>1. x = cid[p] /\ p \in Jobs /\ table'[x] = p /\ Registered(p) = Cmd(p)
      BY <2>2, <1>f
    <3>2. QED
      BY <3>1 DEF Replaced, TableInv, TypeOK
  <2>3. QED
    BY <2>1, <2>2
<1>4. RunningIsAwaited'
  BY DEF TableInv, TypeOK, RunningIsAwaited, Unkilled, Callers
<1>5. UidIsPrivate' /\ UnnamedNeverInterrupted'
  BY DEF TableInv, UidIsPrivate, UnnamedNeverInterrupted
<1>6. SeenHasSameCid'
  <2> SUFFICES ASSUME NEW q \in Callers, pc'[q] = "interrupt"
               PROVE  /\ seen'[q] \in Jobs \ {q}
                      /\ cid[seen'[q]] = cid[q]
                      /\ pc'[seen'[q]] # "idle"
                      /\ tries[q] < MaxTries
    BY DEF SeenHasSameCid
  <2>1. ASSUME NEW r \in Callers, pc[r] # "idle"
        PROVE  pc'[r] # "idle"
    BY <2>1 DEF TableInv, TypeOK, Replaced
  <2>2. CASE q # p
    <3>1. pc[q] = "interrupt" /\ seen'[q] = seen[q]
      BY <2>2, <1>f DEF TableInv, TypeOK
    <3>2. /\ seen[q] \in Jobs \ {q} /\ cid[seen[q]] = cid[q]
          /\ pc[seen[q]] # "idle" /\ tries[q] < MaxTries
      BY <3>1 DEF TableInv, SeenHasSameCid
    <3>3. QED
      BY <2>1, <3>1, <3>2 DEF Callers
  <2>3. CASE q = p
    <3>1. Registered(p) # Cmd(p) /\ next = "interrupt" /\ tries[p] < MaxTries
      BY <2>3 DEF TableInv, TypeOK, Replaced
    <3>2. table[cid[p]] # Nil /\ seen'[p] = table[cid[p]]
      BY <3>1, <1>f
    <3>3. table[cid[p]] \in Jobs
      BY <3>2, <1>f DEF TableInv, TypeOK
    <3>7. cid[table[cid[p]]] = cid[p]
      BY <3>2, <1>f DEF TableInv, EntryHasOwner
    <3>4. pc[table[cid[p]]] # "idle"
      BY <3>2, <1>f DEF TableInv, EntryHasOwner
    <3>5. seen'[p] # p
      BY <3>1, <3>2, <1>f DEF Cmd
    <3>6. QED
      BY <2>1, <2>3, <3>1, <3>2, <3>3, <3>4, <3>5, <3>7 DEF Callers
  <2>4. QED
    BY <2>2, <2>3
<1>7. QED
  BY <1>1, <1>2, <1>3, <1>4, <1>5, <1>6 DEF TableInv

\* A step that only moves one call, neither making it an owner nor ending its
\* ownership nor leaving a running process behind, keeps the invariant.
LEMMA MoveInv ==
  ASSUME TableInv, NEW p \in Callers, NEW to \in Locations \ {"idle", "interrupt"},
         pc[p] # "idle", pc' = [pc EXCEPT ![p] = to],
         pc[p] \in {"start", "wait", "delete"} <=> to \in {"start", "wait", "delete"},
         p \in Jobs => ~Unkilled(p),
         UNCHANGED <<table, tries, seen, cid, kind, proc, margo>>
  PROVE  TableInv'
<1>1. TypeOK' /\ UidIsPrivate' /\ UnnamedNeverInterrupted'
  BY DEF TableInv, TypeOK, UidIsPrivate, UnnamedNeverInterrupted
<1>2. OwnerStaysRegistered' /\ EntryHasOwner'
  BY DEF TableInv, TypeOK, OwnerStaysRegistered, EntryHasOwner, Callers
<1>3. RunningIsAwaited'
  BY DEF TableInv, TypeOK, RunningIsAwaited, Unkilled, Callers
<1>4. SeenHasSameCid'
  BY DEF TableInv, TypeOK, SeenHasSameCid, Callers
<1>5. QED
  BY <1>1, <1>2, <1>3, <1>4 DEF TableInv

\* Every step of the program keeps the invariant.
LEMMA NextInv == TableInv /\ [Next]_vars => TableInv'
<1> SUFFICES ASSUME TableInv, [Next]_vars PROVE TableInv'
  OBVIOUS
<1>1. ASSUME NEW p \in Callers, Call(p) PROVE TableInv'
  <2> USE <1>1 DEF Call
  <2>1. TypeOK'
    BY DEF TableInv, TypeOK, Locations, Keys
  <2>2. \A j \in Jobs : pc'[j] \in {"start", "wait", "delete"} <=>
                         pc[j] \in {"start", "wait", "delete"}
    BY DEF TableInv, TypeOK, Callers
  <2>3. \A q \in Callers : pc[q] # "idle" => cid'[q] = cid[q] /\ pc'[q] = pc[q]
    BY DEF TableInv, TypeOK
  <2>4. OwnerStaysRegistered'
    BY <2>2, <2>3 DEF TableInv, OwnerStaysRegistered, Callers
  <2>5. EntryHasOwner'
    BY <2>2, <2>3 DEF TableInv, TypeOK, EntryHasOwner, Callers
  <2>6. RunningIsAwaited'
    BY <2>3 DEF TableInv, RunningIsAwaited, Unkilled, Callers
  <2>7. UidIsPrivate'
    BY DEF TableInv, TypeOK, UidIsPrivate
  <2>8. SeenHasSameCid'
    BY <2>3 DEF TableInv, TypeOK, SeenHasSameCid, Callers
  <2>9. UnnamedNeverInterrupted'
    <3>1. \A j \in Jobs : proc[j] = "interrupted" => pc[j] # "idle"
      BY DEF TableInv, RunningIsAwaited, Unkilled
    <3>2. QED
      BY <2>3, <3>1 DEF TableInv, UnnamedNeverInterrupted, Callers
  <2>10. QED
    BY <2>1, <2>4, <2>5, <2>6, <2>7, <2>8, <2>9 DEF TableInv
<1>2. ASSUME NEW p \in Callers, Look(p) PROVE TableInv'
  BY <1>2, SetStepInv DEF Look
<1>3. ASSUME NEW p \in Callers, Retry(p) PROVE TableInv'
  <2>1. CASE ~MoreTries(p)
    <3>1. /\ UNCHANGED <<table, seen, tries, cid, kind, proc, margo>>
          /\ pc' = [pc EXCEPT ![p] = "kill"]
          /\ pc[p] = "retry"
      BY <1>3, <2>1 DEF Retry
    <3>2. p \in Jobs => ~Unkilled(p)
      BY <3>1 DEF TableInv, RunningIsAwaited
    <3>3. QED
      BY <3>1, <3>2, MoveInv DEF Locations
  <2>2. CASE MoreTries(p)
    BY <1>3, <2>2, SetStepInv DEF Retry
  <2>3. QED
    BY <2>1, <2>2
<1>4. ASSUME NEW p \in Callers, Interrupt(p) PROVE TableInv'
  <2> USE <1>4 DEF Interrupt
  <2>1. TypeOK'
    <3>1. tries[p] + 1 \in 0..MaxTries
      BY DEF TableInv, TypeOK, SeenHasSameCid, MaxTries
    <3>2. QED
      BY <3>1 DEF TableInv, TypeOK, Locations
  <2>2. \A j \in Jobs : Unkilled(j)' => Unkilled(j)
    BY DEF TableInv, TypeOK, Unkilled
  <2>3. OwnerStaysRegistered' /\ EntryHasOwner'
    BY DEF TableInv, TypeOK, OwnerStaysRegistered, EntryHasOwner, Callers
  <2>4. RunningIsAwaited'
    BY <2>2 DEF TableInv, TypeOK, RunningIsAwaited, Callers
  <2>5. UidIsPrivate' /\ SeenHasSameCid'
    BY DEF TableInv, TypeOK, UidIsPrivate, SeenHasSameCid, Callers
  <2>6. UnnamedNeverInterrupted'
    BY DEF TableInv, TypeOK, UnnamedNeverInterrupted, UidIsPrivate,
           SeenHasSameCid
  <2>7. QED
    BY <2>1, <2>3, <2>4, <2>5, <2>6 DEF TableInv
<1>5. ASSUME NEW p \in Callers, Kill(p) PROVE TableInv'
  <2> USE <1>5 DEF Kill
  <2>1. p \in Jobs => ~Unkilled(p)
    BY DEF TableInv, RunningIsAwaited
  <2>2. proc' = proc
    BY <2>1, ProcTableAssumption DEF KillTarget, Cmd, TableInv, TypeOK
  <2>3. QED
    BY <2>1, <2>2, MoveInv DEF Locations
<1>6. ASSUME NEW p \in Callers, LookAgain(p) PROVE TableInv'
  BY <1>6, SetStepInv DEF LookAgain
<1>7. ASSUME NEW j \in Jobs, Start(j) PROVE TableInv'
  <2>1. j \in Callers /\ pc[j] = "start"
    BY <1>7 DEF Start, Callers
  <2>2. ~Unkilled(j)
    BY <2>1 DEF TableInv, RunningIsAwaited
  <2>3. CASE UNCHANGED proc
    BY <1>7, <2>1, <2>2, <2>3, MoveInv DEF Start, Locations
  <2>4. CASE proc' # proc
    <3>1. /\ proc' = [proc EXCEPT ![j] = "alive"]
          /\ pc' = [pc EXCEPT ![j] = "wait"]
          /\ UNCHANGED <<table, tries, seen, cid, kind, margo>>
      BY <1>7, <2>4 DEF Start
    <3>2. TypeOK' /\ UidIsPrivate' /\ UnnamedNeverInterrupted'
      BY <3>1 DEF TableInv, TypeOK, UidIsPrivate, UnnamedNeverInterrupted, Locations
    <3>3. OwnerStaysRegistered' /\ EntryHasOwner'
      BY <2>1, <3>1 DEF TableInv, TypeOK, OwnerStaysRegistered, EntryHasOwner, Callers
    <3>4. RunningIsAwaited' /\ SeenHasSameCid'
      BY <2>1, <3>1 DEF TableInv, TypeOK, RunningIsAwaited, SeenHasSameCid,
                       Unkilled, Callers
    <3>5. QED
      BY <3>2, <3>3, <3>4 DEF TableInv
  <2>5. QED
    BY <2>3, <2>4
<1>8. ASSUME NEW j \in Jobs, Wait(j) PROVE TableInv'
  BY <1>8, MoveInv DEF Wait, Unkilled, Locations, Callers
<1>9. ASSUME NEW j \in Jobs, Delete(j) PROVE TableInv'
  <2> USE <1>9 DEF Delete
  <2>1. TypeOK'
    BY DEF TableInv, TypeOK, Locations, Callers
  <2>2. table[cid[j]] = j
    BY DEF TableInv, OwnerStaysRegistered
  <2>3. OwnerStaysRegistered'
    BY <2>2, ProcTableAssumption
       DEF TableInv, TypeOK, OwnerStaysRegistered, Callers
  <2>4. EntryHasOwner'
    <3> SUFFICES ASSUME NEW x \in Keys, table'[x] # Nil
                 PROVE  /\ cid[table'[x]] = x
                        /\ pc'[table'[x]] \in {"start", "wait", "delete"}
      BY DEF EntryHasOwner
    <3>1. x # cid[j] /\ table'[x] = table[x]
      BY DEF TableInv, TypeOK
    <3>2. cid[table[x]] = x /\ pc[table[x]] \in {"start", "wait", "delete"}
      BY <3>1 DEF TableInv, EntryHasOwner
    <3>3. QED
      BY <3>1, <3>2 DEF TableInv, TypeOK
  <2>5. RunningIsAwaited' /\ UidIsPrivate' /\ UnnamedNeverInterrupted'
    BY DEF TableInv, TypeOK, RunningIsAwaited, Unkilled, UidIsPrivate,
           UnnamedNeverInterrupted, Callers
  <2>6. SeenHasSameCid'
    BY DEF TableInv, TypeOK, SeenHasSameCid, Callers
  <2>7. QED
    BY <2>1, <2>3, <2>4, <2>5, <2>6 DEF TableInv
<1>10. ASSUME NEW j \in Jobs, ProcessExit(j) PROVE TableInv'
  BY <1>10 DEF ProcessExit, TableInv, TypeOK, OwnerStaysRegistered, EntryHasOwner,
               RunningIsAwaited, UidIsPrivate, SeenHasSameCid,
               UnnamedNeverInterrupted, Unkilled
<1>11. CASE LoopEnds \/ ByeHook \/ Exit \/ UNCHANGED vars
  BY <1>11 DEF LoopEnds, ByeHook, Exit, vars, TableInv, TypeOK,
               OwnerStaysRegistered, EntryHasOwner, RunningIsAwaited,
               UidIsPrivate, SeenHasSameCid, UnnamedNeverInterrupted, Unkilled
<1>12. QED
  BY <1>1, <1>2, <1>3, <1>4, <1>5, <1>6, <1>7, <1>8, <1>9, <1>10, <1>11
     DEF Next, Replace, Execute

\* proc.go: the entry of a command, its process and the calls that watch it
\* always agree, for any number of commands, cancels and cids.
THEOREM TableInvariant == Spec => []TableInv
  BY InitInv, NextInv, PTL DEF Spec

-----------------------------------------------------------------------------

\* Owners are registered, an entry has room for one, so two running commands
\* cannot have the same cid.
LEMMA OneOwner == TableInv => AtMostOneRunning
BY DEF TableInv, OwnerStaysRegistered, RunningIsAwaited, AtMostOneRunning

\* Two commands with the same cid never run at the same time.
THEOREM MutualExclusion == Spec => []AtMostOneRunning
  BY TableInvariant, OneOwner, PTL

\* A command submitted without a cid is never interrupted on another's behalf.
THEOREM PrivateCommands == Spec => []UnnamedNeverInterrupted
<1>1. TableInv => UnnamedNeverInterrupted
  BY DEF TableInv
<1>2. QED
  BY <1>1, TableInvariant, PTL

\* Cancel returns only from a set() that found its slot empty, and a running
\* command would have been in it.
THEOREM CancelFindsIdleCid == Spec => CancelReturnsOnIdleCid
<1>1. ASSUME TableInv, [Next]_vars,
             NEW p \in Cancels, pc[p] # "done", pc'[p] = "done"
      PROVE  \A j \in Jobs : cid[j] = cid[p] => ~Unkilled(j)
  <2>1. p \in Callers /\ p \notin Jobs
    BY ProcTableAssumption DEF Callers
  <2>2. Look(p) \/ Retry(p) \/ LookAgain(p)
    BY <1>1, <2>1, ZenonT(60)
       DEF Next, Replace, Execute, vars, Call, Look, Retry, Interrupt, Kill,
           LookAgain, Start, Wait, Delete, ProcessExit, LoopEnds, ByeHook, Exit,
           TableInv, TypeOK, Callers
  <2>3. Registered(p) = Cmd(p) /\ Cmd(p) = Nil
    BY <1>1, <2>1, <2>2 DEF Look, Retry, LookAgain, Cmd, TableInv, TypeOK
  <2>4. table[cid[p]] = Nil
    BY <2>3 DEF Registered
  <2>5. QED
    BY <1>1, <2>4, ProcTableAssumption
       DEF TableInv, OwnerStaysRegistered, RunningIsAwaited
<1>2. TableInv /\ [Next]_vars =>
        [\A p \in Cancels :
           pc[p] # "done" /\ pc'[p] = "done" =>
             \A j \in Jobs : cid[j] = cid[p] => ~Unkilled(j)]_vars
  BY <1>1
<1>3. QED
  BY <1>2, TableInvariant, PTL DEF Spec, CancelReturnsOnIdleCid

\* The exit hook walks the table, and every running command is in the table.
THEOREM HookKillsAll == Spec => HookReachesEveryProcess
<1>1. ASSUME TableInv, [Next]_vars, margo = "closing", margo' = "closed",
             NEW j \in Jobs
      PROVE  ~Unkilled(j)'
  <2>1. ByeHook
    BY <1>1 DEF Next, Replace, Execute, vars, Call, Look, Retry, Interrupt, Kill,
                LookAgain, Start, Wait, Delete, ProcessExit, LoopEnds, Exit
  <2>2. Unkilled(j) => table[cid[j]] = j /\ cid[j] \in Keys
    BY <1>1 DEF TableInv, TypeOK, OwnerStaysRegistered, RunningIsAwaited, Callers
  <2>3. QED
    BY <2>1, <2>2 DEF ByeHook, Unkilled
<1>2. TableInv /\ [Next]_vars =>
        [margo = "closing" /\ margo' = "closed" =>
           \A j \in Jobs : ~Unkilled(j)']_vars
  BY <1>1
<1>3. QED
  BY <1>2, TableInvariant, PTL DEF Spec, HookReachesEveryProcess

-----------------------------------------------------------------------------

Live == {j \in Jobs : Unkilled(j)}

\* A set() acquires the caller's slot or changes nothing.
LEMMA SetRefines ==
  ASSUME TableInv, NEW p \in Callers, Set(p), UNCHANGED proc
  PROVE  [Slots!Next]_(Slots!vars)
<1>1. Live' = Live
  BY DEF Live, Unkilled
<1>2. CASE table[cid[p]] = Nil /\ p \in Jobs
  <2>1. table' = [table EXCEPT ![cid[p]] = p] /\ cid[p] \in Keys
    BY <1>2 DEF Set, Registered, Cmd, TableInv, TypeOK
  <2>2. Slots!Acquire(p, cid[p])
    BY <1>1, <1>2, <2>1 DEF Slots!Acquire, Slots!Owns, Live
  <2>3. QED
    BY <1>2, <2>1, <2>2 DEF Slots!Next
<1>3. CASE ~(table[cid[p]] = Nil /\ p \in Jobs)
  <2>1. table' = table
    BY <1>3 DEF Set, Registered, Cmd, TableInv, TypeOK
  <2>2. QED
    BY <1>1, <2>1 DEF Slots!vars, Live
<1>4. QED
  BY <1>2, <1>3

\* Every step of the table is a step of the slots or leaves them unchanged.
LEMMA StepRefines == TableInv /\ [Next]_vars => [Slots!Next]_(Slots!vars)
<1> SUFFICES ASSUME TableInv, [Next]_vars PROVE [Slots!Next]_(Slots!vars)
  OBVIOUS
<1>1. ASSUME table' = table, \A j \in Jobs : Unkilled(j)' <=> Unkilled(j)
      PROVE  UNCHANGED Slots!vars
  BY <1>1 DEF Slots!vars
<1>2. ASSUME NEW p \in Callers, Call(p) \/ Replace(p)
      PROVE  [Slots!Next]_(Slots!vars)
  <2>1. CASE Set(p) /\ UNCHANGED proc
    BY <2>1, SetRefines
  <2>2. CASE ~(Set(p) /\ UNCHANGED proc)
    <3>1. table' = table
      BY <1>2, <2>2 DEF Replace, Call, Look, Retry, Interrupt, Kill, LookAgain
    <3>2. p \in Jobs /\ Kill(p) => ~Unkilled(p)
      BY DEF Kill, TableInv, RunningIsAwaited
    <3>3. \A j \in Jobs : Unkilled(j)' <=> Unkilled(j)
      <4>1. CASE Kill(p)
        BY <4>1, <3>2, ProcTableAssumption DEF Kill, KillTarget, Cmd, Unkilled
      <4>2. CASE Interrupt(p)
        BY <4>2 DEF Interrupt, Unkilled, TableInv, TypeOK
      <4>3. CASE UNCHANGED proc
        BY <4>3 DEF Unkilled
      <4>4. QED
        BY <1>2, <4>1, <4>2, <4>3 DEF Replace, Call, Look, Retry, LookAgain
    <3>4. QED
      BY <1>1, <3>1, <3>3
  <2>3. QED
    BY <2>1, <2>2
<1>3. ASSUME NEW j \in Jobs, Start(j)
      PROVE  [Slots!Next]_(Slots!vars)
  <2>1. table[cid[j]] = j /\ cid[j] \in Keys
    BY <1>3 DEF Start, TableInv, TypeOK, OwnerStaysRegistered, Callers
  <2>2. CASE UNCHANGED proc
    BY <1>1, <1>3, <2>2 DEF Start, Unkilled
  <2>3. CASE proc' # proc
    <3>1. table' = table /\ Live' = Live \cup {j}
      BY <1>3, <2>3 DEF Start, Live, Unkilled, TableInv, TypeOK
    <3>2. Slots!Begin(j)
      BY <2>1, <3>1 DEF Slots!Begin, Slots!Owns, Live
    <3>3. QED
      BY <3>2 DEF Slots!Next
  <2>4. QED
    BY <2>2, <2>3
<1>4. ASSUME NEW j \in Jobs, Wait(j)
      PROVE  [Slots!Next]_(Slots!vars)
  BY <1>1, <1>4 DEF Wait, Unkilled
<1>5. ASSUME NEW j \in Jobs, Delete(j)
      PROVE  [Slots!Next]_(Slots!vars)
  <2>1. table[cid[j]] = j /\ cid[j] \in Keys /\ ~Unkilled(j)
    BY <1>5 DEF Delete, TableInv, TypeOK, OwnerStaysRegistered,
                RunningIsAwaited, Callers
  <2>2. Slots!Release(cid[j])
    BY <1>5, <2>1 DEF Delete, Slots!Release, Unkilled
  <2>3. QED
    BY <2>1, <2>2 DEF Slots!Next
<1>6. ASSUME table' = table, Live' \subseteq Live
      PROVE  [Slots!Next]_(Slots!vars)
  <2>1. Slots!End(Live \ Live')
    BY <1>6 DEF Slots!End, Live
  <2>2. Live \ Live' \in SUBSET Jobs
    BY DEF Live
  <2>3. QED
    BY <2>1, <2>2 DEF Slots!Next
<1>7. ASSUME NEW j \in Jobs, ProcessExit(j)
      PROVE  [Slots!Next]_(Slots!vars)
  <2>1. table' = table /\ Live' \subseteq Live
    BY <1>7 DEF ProcessExit, Live, Unkilled, TableInv, TypeOK
  <2>2. QED
    BY <1>6, <2>1
<1>8. CASE LoopEnds \/ ByeHook \/ Exit \/ UNCHANGED vars
  <2>1. table' = table /\ Live' \subseteq Live
    BY <1>8 DEF LoopEnds, ByeHook, Exit, vars, Live, Unkilled, TableInv, TypeOK
  <2>2. QED
    BY <1>6, <2>1
<1>9. QED
  BY <1>2, <1>3, <1>4, <1>5, <1>7, <1>8 DEF Next, Execute

\* The process table with all its interrupting, killing and re-checking is an
\* exclusive slot per cid.
THEOREM TableImplementsSlots == Spec => ImplementsSlots
<1>1. Init => Slots!Init
  BY DEF Init, Slots!Init, Unkilled
<1>2. QED
  BY <1>1, StepRefines, TableInvariant, PTL DEF Spec, ImplementsSlots, Slots!Spec
=============================================================================
