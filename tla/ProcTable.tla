----------------------------- MODULE ProcTable -----------------------------
(***************************************************************************)
(* margo's process table (meth/exec/proc.go).  A command runs under a cid; *)
(* at most one command may own a cid.  `Run' registers its command, after  *)
(* replacing the command it finds under the cid, starts the process, waits *)
(* for it and removes the entry.  `Cancel' is a replacement by nothing.    *)
(* Each call is a goroutine of its own; the table is behind one mutex, but *)
(* the replacement protocol takes and releases it many times.              *)
(*                                                                         *)
(* Sleeps are left out: any interleaving is possible between two steps.    *)
(* Signals go to the process group of the command; a group is modelled by  *)
(* its leader.                                                             *)
(***************************************************************************)
EXTENDS Naturals

CONSTANTS
  Jobs,     \* exec calls, each with the one exec.Cmd it runs
  Cancels,  \* cancel calls
  Cids,     \* the cids clients name; a call without one gets its own Uid
  Kinds,    \* the kinds of commands that clients run
  Nil       \* no command

ASSUME ProcTableAssumption ==
  /\ Jobs \cap Cancels = {}
  /\ Nil \notin Jobs
  /\ Jobs \cap Cids = {}
  /\ Kinds \subseteq {"finite", "server", "stubborn"}

Callers == Jobs \cup Cancels

\* The keys of the table: a call that names no cid is keyed by itself (mg.Uid).
Keys == Cids \cup Jobs

VARIABLES
  table,  \* p.m: the command registered under a cid
  pc,     \* where each call is
  tries,  \* i of the loop of repl
  seen,   \* c of repl: the command the last set() returned
  cid,    \* the key each call works on
  kind,   \* whether a command ends by itself, on SIGINT or only on SIGKILL
  proc,   \* the command's process; "unstarted" is a nil cmd.Process
  margo   \* where the program is on its way out

vars == <<table, pc, tries, seen, cid, kind, proc, margo>>

\* How often repl interrupts before it turns to killing.
MaxTries == 2

-----------------------------------------------------------------------------

Running(j)  == proc[j] \in {"alive", "interrupted", "killed"}
Unkilled(j) == proc[j] \in {"alive", "interrupted"}
Up          == margo # "gone"

\* The command a call wants to see under its cid.
Cmd(p) == IF p \in Jobs THEN p ELSE Nil

\* A mistake: set() overwrites what is registered.
RegisteredOverwritten(p) == IF p \in Jobs THEN p ELSE table[cid[p]]

\* What set() returns to p: the registered command, or else p's own.
Registered(p) == IF table[cid[p]] # Nil THEN table[cid[p]] ELSE Cmd(p)

\* set(): one critical section that registers p's command in an empty slot.
Set(p) ==
  /\ seen'  = [seen EXCEPT ![p] = Registered(p)]
  /\ table' = [table EXCEPT ![cid[p]] = Registered(p)]

\* A mistake: repl does not look at what set() returned.
MayProceedAlways(p) == TRUE

\* c == cmd: nobody else's command is registered.
MayProceed(p) == Registered(p) = Cmd(p)

\* Where repl returns to: Run goes on to start its command, Cancel is done.
Replaced(p) == IF p \in Jobs THEN "start" ELSE "done"

MoreTries(p) == tries[p] < MaxTries

\* mg.Uid: a key nobody else uses.
Uid(j) == j

-----------------------------------------------------------------------------

Init ==
  /\ table = [x \in Keys |-> Nil]
  /\ pc    = [p \in Callers |-> "idle"]
  /\ tries = [p \in Callers |-> 0]
  /\ seen  = [p \in Callers |-> Nil]
  /\ cid  \in [Callers -> Cids]
  /\ kind \in [Jobs -> Kinds]
  /\ proc  = [j \in Jobs |-> "unstarted"]
  /\ margo = "serving"

\* A request arrives: its cid is the one it names or, for an exec, a fresh one.
Call(p) ==
  /\ margo = "serving"
  /\ pc[p] = "idle"
  /\ pc' = [pc EXCEPT ![p] = "look"]
  /\ \/ UNCHANGED cid
     \/ p \in Jobs /\ cid' = [cid EXCEPT ![p] = Uid(p)]
  /\ UNCHANGED <<table, tries, seen, kind, proc, margo>>

\* The first set of repl: nothing to replace if the slot was empty.
Look(p) ==
  /\ Up
  /\ pc[p] = "look"
  /\ Set(p)
  /\ pc' = [pc EXCEPT ![p] = IF MayProceed(p) THEN Replaced(p) ELSE "retry"]
  /\ UNCHANGED <<tries, cid, kind, proc, margo>>

\* The set at the top of the interrupt loop, and the test of the loop.
Retry(p) ==
  /\ Up
  /\ pc[p] = "retry"
  /\ \/ /\ MoreTries(p)
        /\ Set(p)
        /\ pc' = [pc EXCEPT ![p] = IF MayProceed(p) THEN Replaced(p) ELSE "interrupt"]
     \/ /\ ~MoreTries(p)
        /\ pc' = [pc EXCEPT ![p] = "kill"]
        /\ UNCHANGED <<table, seen>>
  /\ UNCHANGED <<tries, cid, kind, proc, margo>>

\* interrupt(c): SIGINT to the command seen; nothing if its process is nil.
Interrupt(p) ==
  /\ Up
  /\ pc[p] = "interrupt"
  /\ proc' = [proc EXCEPT ![seen[p]] = IF @ = "alive" THEN "interrupted" ELSE @]
  /\ tries' = [tries EXCEPT ![p] = @ + 1]
  /\ pc' = [pc EXCEPT ![p] = "retry"]
  /\ UNCHANGED <<table, seen, cid, kind, margo>>

\* What kill(cmd) in the last loop of repl kills: the caller's own command,
\* which is nil or not started yet, and not the command it waits for.
KillTarget(p) == Cmd(p)

Kill(p) ==
  /\ Up
  /\ pc[p] = "kill"
  /\ proc' = [j \in Jobs |->
                IF j = KillTarget(p) /\ Unkilled(j) THEN "killed" ELSE proc[j]]
  /\ pc' = [pc EXCEPT ![p] = "look again"]
  /\ UNCHANGED <<table, tries, seen, cid, kind, margo>>

\* The set at the bottom of the last loop.
LookAgain(p) ==
  /\ Up
  /\ pc[p] = "look again"
  /\ Set(p)
  /\ pc' = [pc EXCEPT ![p] = IF MayProceed(p) THEN Replaced(p) ELSE "kill"]
  /\ UNCHANGED <<tries, cid, kind, proc, margo>>

\* A mistake: Run returns at once when the command cannot be started.
AfterFailureReturn(j) == "done"

\* Run goes on to its delete whether or not the command could be started.
AfterFailure(j) == "delete"

\* cmd.Start, which fails when there is no such program.
Start(j) ==
  /\ Up
  /\ pc[j] = "start"
  /\ \/ /\ proc' = [proc EXCEPT ![j] = "alive"]
        /\ pc' = [pc EXCEPT ![j] = "wait"]
     \/ /\ pc' = [pc EXCEPT ![j] = AfterFailure(j)]
        /\ UNCHANGED proc
  /\ UNCHANGED <<table, tries, seen, cid, kind, margo>>

\* cmd.Wait returns when the process has exited, or at once with an error when
\* the exit hook has released the process before Wait looked at it.
Wait(j) ==
  /\ Up
  /\ pc[j] = "wait"
  /\ proc[j] = "exited" \/ (proc[j] = "killed" /\ margo = "closed")
  /\ pc' = [pc EXCEPT ![j] = "delete"]
  /\ UNCHANGED <<table, tries, seen, cid, kind, proc, margo>>

\* delete(p.m, cid): whatever is registered under the cid goes.
Delete(j) ==
  /\ Up
  /\ pc[j] = "delete"
  /\ table' = [table EXCEPT ![cid[j]] = Nil]
  /\ pc' = [pc EXCEPT ![j] = "done"]
  /\ UNCHANGED <<tries, seen, cid, kind, proc, margo>>

\* A process ends, whether or not margo is still there.
Ends(j) ==
  \/ proc[j] = "killed"
  \/ proc[j] = "interrupted" /\ kind[j] \in {"finite", "server"}
  \/ proc[j] = "alive" /\ kind[j] = "finite"

ProcessExit(j) ==
  /\ Ends(j)
  /\ proc' = [proc EXCEPT ![j] = "exited"]
  /\ UNCHANGED <<table, pc, tries, seen, cid, kind, margo>>

\* The request loop has ended: no new calls, but those under way go on.
LoopEnds ==
  /\ margo = "serving"
  /\ margo' = "closing"
  /\ UNCHANGED <<table, pc, tries, seen, cid, kind, proc>>

\* A mistake: the hook knows only the commands that clients gave a cid.
HookKillsNamed(j) == Unkilled(j) /\ \E x \in Cids : table[x] = j

\* c.Process # nil, for a command the hook finds in the table.
HookKills(j) == Unkilled(j) /\ \E x \in Keys : table[x] = j

\* The exit hook kills and releases every registered process that has started.
ByeHook ==
  /\ margo = "closing"
  /\ margo' = "closed"
  /\ proc' = [j \in Jobs |-> IF HookKills(j) THEN "killed" ELSE proc[j]]
  /\ UNCHANGED <<table, pc, tries, seen, cid, kind>>

\* os.Exit: at the end of Run, or at any time from the memory limit's log.Fatalf.
Exit ==
  /\ Up
  /\ margo' = "gone"
  /\ UNCHANGED <<table, pc, tries, seen, cid, kind, proc>>

Replace(p) == Look(p) \/ Retry(p) \/ Interrupt(p) \/ Kill(p) \/ LookAgain(p)
Execute(j) == Start(j) \/ Wait(j) \/ Delete(j)

Next ==
  \/ \E p \in Callers : Call(p) \/ Replace(p)
  \/ \E j \in Jobs : Execute(j) \/ ProcessExit(j)
  \/ LoopEnds
  \/ ByeHook
  \/ Exit

Spec == Init /\ [][Next]_vars

\* The Go scheduler runs every goroutine that can take a step, and the kernel
\* ends every process that ends by itself or from a signal it does not ignore.
Fairness ==
  /\ \A p \in Callers : WF_vars(Replace(p))
  /\ \A j \in Jobs : WF_vars(Execute(j)) /\ WF_vars(ProcessExit(j))

FairSpec == Spec /\ Fairness

-----------------------------------------------------------------------------

Locations ==
  {"idle", "look", "retry", "interrupt", "kill", "look again", "start",
   "wait", "delete", "done"}

\* Every variable stays within its type.
TypeOK ==
  /\ table \in [Keys -> Jobs \cup {Nil}]
  /\ pc    \in [Callers -> Locations]
  /\ tries \in [Callers -> 0..MaxTries]
  /\ seen  \in [Callers -> Jobs \cup {Nil}]
  /\ cid   \in [Callers -> Keys]
  /\ kind  \in [Jobs -> Kinds]
  /\ proc  \in [Jobs -> {"unstarted", "alive", "interrupted", "killed", "exited"}]
  /\ margo \in {"serving", "closing", "closed", "gone"}

\* What a fixed cid is for (proc.go, GoSublime.sublime-settings:218): two
\* commands with the same cid never run at the same time.  Only a process the
\* exit hook has already sent SIGKILL may still be dying when the next starts.
AtMostOneRunning ==
  \A i, j \in Jobs :
    cid[i] = cid[j] /\ Unkilled(i) /\ Unkilled(j) => i = j

\* When Cancel returns, no command of that cid is running: what it was asked to
\* cancel is gone, and so is everything that slipped in while it was waiting.
CancelReturnsOnIdleCid ==
  [][\A p \in Cancels :
       pc[p] # "done" /\ pc'[p] = "done" =>
         \A j \in Jobs : cid[j] = cid[p] => ~Unkilled(j)]_vars

\* A command submitted without a cid cannot be hit by anybody's cancel or
\* replacement: Run keys it by a fresh Uid.
UnnamedNeverInterrupted ==
  \A j \in Jobs : cid[j] = j => proc[j] # "interrupted"

\* The exit hook finds every process margo has started and not yet reaped.
HookReachesEveryProcess ==
  [][margo = "closing" /\ margo' = "closed" =>
       \A j \in Jobs : ~Unkilled(j)']_vars

\* Between its registration and its removal a command stays in the table, so
\* the unconditional delete of Run removes its own entry and no other.
OwnerStaysRegistered ==
  \A j \in Jobs : pc[j] \in {"start", "wait", "delete"} => table[cid[j]] = j

\* An entry belongs to a command that has still to remove it.
EntryHasOwner ==
  \A x \in Keys :
    table[x] # Nil =>
      cid[table[x]] = x /\ pc[table[x]] \in {"start", "wait", "delete"}

\* A process that runs unkilled has its Run waiting for it.
RunningIsAwaited == \A j \in Jobs : Unkilled(j) => pc[j] = "wait"

\* The key a call makes up for itself is nobody else's.
UidIsPrivate == \A p \in Callers, j \in Jobs : cid[p] = j => p = j

\* What a call is about to interrupt was submitted under the call's own cid, and
\* the call interrupts at most MaxTries times.
SeenHasSameCid ==
  \A p \in Callers :
    pc[p] = "interrupt" =>
      /\ seen[p] \in Jobs \ {p}
      /\ cid[seen[p]] = cid[p]
      /\ pc[seen[p]] # "idle"
      /\ tries[p] < MaxTries

\* The inductive invariant behind the theorems about the table: why replacing,
\* cancelling and deleting by cid alone never touches the wrong command.
TableInv ==
  /\ TypeOK
  /\ OwnerStaysRegistered
  /\ EntryHasOwner
  /\ RunningIsAwaited
  /\ UidIsPrivate
  /\ SeenHasSameCid
  /\ UnnamedNeverInterrupted

\* The table implements the slots: whatever the replacements and cancels do, it
\* is an exclusive lock per cid, held for as long as the command's process runs.
Slots == INSTANCE CidSlots WITH
           Keys  <- Keys,
           owner <- table,
           live  <- {j \in Jobs : Unkilled(j)}

ImplementsSlots == Slots!Spec

AllFinite == \A j \in Jobs : kind[j] = "finite"

\* If every command ends by itself, every Run and every Cancel returns, however
\* they contend for a cid.
CallsReturn ==
  \A p \in Callers :
    (AllFinite /\ pc[p] = "look") ~> (pc[p] = "done" \/ ~Up)

\* GoSublime.sublime-settings:219-220: "any previous un-finished instance will
\* be killed before starting a new one".
PreviousInstanceIsKilled ==
  \A i, j \in Jobs :
    (pc[j] = "kill" /\ seen[j] = i /\ Unkilled(i)) ~> (~Unkilled(i) \/ ~Up)
=============================================================================
