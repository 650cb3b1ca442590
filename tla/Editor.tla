------------------------------- MODULE Editor -------------------------------
(***************************************************************************)
(* An editor's view: its debounced signal (Signal), the hook that it runs  *)
(* (nineo._hk), and the commands of the 9o engine (Nineo) that hooks and   *)
(* the user start.  All of them share one thread that runs asynchronous    *)
(* callbacks, first come, first served but for timers.                     *)
(*                                                                         *)
(* A call of the signal is an edit, or another change of the view.  When   *)
(* the signal has waited long enough its listener queues view_updated,     *)
(* whose hook starts the next of the program's hook commands: each run of  *)
(* the same configured command, gs.on-lint for example, is a Cmd of its    *)
(* own.  It takes the text of the view as it is when it starts.            *)
(***************************************************************************)
EXTENDS Signal, Nineo

CONSTANT
  HookCmd    \* stands for the hook in doq

VARIABLES
  saw,   \* the edits each hook command has seen when it started, 0 before
  hooked \* how many hook commands were started

editorVars == <<signalVars, nineoVars, saw, hooked>>

EditorInit ==
  /\ SignalInit /\ NineoInit
  /\ saw = [c \in Cmds |-> 0] /\ hooked = 0

Edits == SumFunction(calls)

-----------------------------------------------------------------------------

\* The view changes.  The bound, one edit for each hook command of the program, is on
\* the edits in the making too.
Edit(t) ==
  /\ t \in program.by
  /\ Edits + Cardinality({u \in Callers : caller[u] \in {"missing", "found"}})
       < Len(program.hooks)
  /\ Lookup(t)
  /\ UNCHANGED <<nineoVars, saw, hooked>>

EditCalls(t) == Calling(t) /\ UNCHANGED <<nineoVars, saw, hooked>>

\* The timer's part of the asynchronous thread.
SignalTimedOut(s) == TimedOut(s) /\ UNCHANGED <<nineoVars, saw, hooked>>

\* The listener of the signal queues view_updated.
FireHook(s) ==
  /\ Fire(s)
  /\ doq' = Append(doq, Do("hook", HookCmd))
  /\ UNCHANGED <<program, engineVars, hlVars, saw, hooked>>

TimeGoesBy(s) == Elapse(s) /\ UNCHANGED <<nineoVars, saw, hooked>>

\* _hk, with one configured command, which is given the view as it is now.
Hook ==
  /\ AsyncIdle /\ doq # <<>> /\ Head(doq).does = "hook"
  /\ hooked < Len(program.hooks)
  /\ hooked' = hooked + 1
  /\ LET h == program.hooks[hooked + 1] IN
       /\ Start(h, at, ok, Tail(doq))
       /\ saw' = [saw EXCEPT ![h] = Edits]
  /\ UNCHANGED <<program, own, asked, attrs, hlVars, signalVars>>

UserRuns(c) == StartTop(c) /\ UNCHANGED <<signalVars, saw, hooked>>

EngineRuns(c) == AsyncIdle /\ Engine(c) /\ UNCHANGED <<signalVars, saw, hooked>>

MargoSends(c)   == Chunk(c) /\ UNCHANGED <<signalVars, saw, hooked>>
MargoAnswers(c) == ExecAnswer(c) /\ UNCHANGED <<signalVars, saw, hooked>>

\* The one thread of the asynchronous callbacks: queued functions and timers.
AsyncThread ==
  \/ Hook
  \/ \E c \in Cmds : EngineRuns(c)
  \/ \E s \in Sigs : SignalTimedOut(s) \/ FireHook(s)

EditorNext ==
  \/ \E t \in Callers : Edit(t) \/ EditCalls(t)
  \/ \E s \in Sigs : TimeGoesBy(s)
  \/ AsyncThread
  \/ \E c \in Cmds : UserRuns(c) \/ MargoSends(c) \/ MargoAnswers(c)

\* Threads go on, timers ring, time goes by, and margo answers every exec.
EditorFairness ==
  /\ \A t \in Callers : WF_editorVars(EditCalls(t))
  /\ WF_editorVars(AsyncThread)
  /\ \A s \in Sigs : WF_editorVars(TimeGoesBy(s))
  /\ \A c \in Cmds : WF_editorVars(MargoAnswers(c))

EditorSpec == EditorInit /\ [][EditorNext]_editorVars /\ EditorFairness

-----------------------------------------------------------------------------

\* Nothing is on its way from an edit to the highlights.
Quiet ==
  /\ \A t \in Callers : caller[t] # "stamped"
  /\ \A s \in Sigs : timers[s] = 0 /\ ringing[s] = "no"
  /\ doq = <<>> /\ asked = {}

\* The view has changed.
Edited == \E s \in Sigs : calls[s] > 0

\* The hooks' commands lint: they highlight what they find when they have ended.
HooksLint == \A h \in ToSet(program.hooks) : Cmd(h).hl /\ ~ Cmd(h).stream

\* When nothing is on its way any more, a hook's command that has seen every edit has
\* ended, with everything chained to it, and the notes are its own, or else those of a
\* newer command that is none of the hooks': however the edits, the timers, the threads
\* that look up the signal and the answers of the hooks' commands were ordered.
NotesSeeEveryEdit ==
  Quiet /\ Edited /\ Sound /\ HooksLint =>
    \E h \in ToSet(program.hooks) :
      /\ saw[h] = Edits /\ Phase(h) = "over"
      /\ \/ clr = seq[h] /\ shown = {h} \cap attrs
         \/ \E c \in Cmds \ ToSet(program.hooks) : Cmd(c).hl /\ clr = seq[c] /\ clr > seq[h]

\* Once the edits stop, a hook that has seen them all ends and reports, unless a newer
\* one has: no edit is lost between the signal, its timer and the queue.
EditsAreLinted ==
  []<>(Edits > 0 => \E h \in ToSet(program.hooks) :
                      saw[h] = Edits /\ Phase(h) = "over" /\ clr >= seq[h])

\* The commands that are started end, each with everything chained to it: whatever
\* margo answers, someone resumes every generator until its last step.
ChainsEnd ==
  []<>(Sound => \A c \in Cmds : seq[c] # 0 => Phase(c) = "over")
=============================================================================
