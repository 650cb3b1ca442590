-------------------------------- MODULE Nineo --------------------------------
(***************************************************************************)
(* The 9o command engine of nineo.py: commands that run in chains (`all`,  *)
(* `any`, `each`), the generators they are run by, and the highlights that *)
(* they leave in the editor.                                               *)
(*                                                                         *)
(* A command runs as a Python generator.  Whatever ends a step of it asks  *)
(* for the next one by gs.do, which queues a function for the one thread   *)
(* that runs asynchronous callbacks: `doq` is that queue.  What runs       *)
(* outside of margo asks at once; a process that margo runs asks when its  *)
(* answer arrives, in a thread of mg9.                                     *)
(*                                                                         *)
(* Which commands there are and how they are chained is the user's: Init   *)
(* chooses among Programs.  The records of a program say, of each command, *)
(*   does   what its function is: "exec" (a process), "done" and "fail"    *)
(*          (builtins that end at once), "all", "any" and "each" (builtins *)
(*          that chain their arguments), "debug" (gs.cmdebug) or "raise"   *)
(*   bad    whether Cmd found errors in its definition                     *)
(*   all, any, each, args   the commands chained to it                     *)
(*   hl, stream             whether it highlights, and streams its output  *)
(* and of the program, which commands the user runs (top), which ones the  *)
(* view's hook does (hooks), and which threads change the view (by).       *)
(***************************************************************************)
EXTENDS Naturals, FiniteSets, SequencesExt

CONSTANTS
  Cmds,     \* the commands of a session
  Programs  \* what the user may have configured

Chains    == {"all", "any", "each"}
Functions == {"exec", "done", "fail", "debug", "raise"} \cup Chains

Definitions ==
  [does : Functions, bad : BOOLEAN, hl : BOOLEAN, stream : BOOLEAN,
   all : Seq(Cmds), any : Seq(Cmds), each : Seq(Cmds), args : Seq(Cmds)]

\* What is chained to a command of definition d once its function has run: _do_cl
\* adds its arguments.
ChainIn(d, k) == d[k] \o (IF d.does = k THEN d.args ELSE <<>>)

\* The commands that one starts in a chain, or gs.cmdebug starts its argument.
StartsIn(d, k) ==
  IF k # "args" THEN ChainIn(d, k) ELSE IF d.does = "debug" THEN d.args ELSE <<>>

\* A Cmd is made for each time that a command is run: it is started in one place.
StartedOnce(p) ==
  /\ \A c, d \in Cmds, k, l \in Chains \cup {"args"} :
       \A i \in DOMAIN StartsIn(p.cmd[c], k), j \in DOMAIN StartsIn(p.cmd[d], l) :
         StartsIn(p.cmd[c], k)[i] = StartsIn(p.cmd[d], l)[j] => c = d /\ k = l /\ i = j
  /\ \A c \in Cmds, k \in Chains \cup {"args"} :
       ToSet(StartsIn(p.cmd[c], k)) \cap (p.top \cup ToSet(p.hooks)) = {}
  /\ p.top \cap ToSet(p.hooks) = {}
  /\ IsInjective(p.hooks)

ASSUME NineoAssumption ==
  /\ IsFiniteSet(Cmds)
  /\ \A p \in Programs :
       /\ p.cmd \in [Cmds -> Definitions] /\ p.top \subseteq Cmds /\ p.hooks \in Seq(Cmds)
       /\ \A c \in Cmds : p.cmd[c].does = "debug" => Len(p.cmd[c].args) = 1
       /\ StartedOnce(p)

VARIABLES
  program, \* the program that was chosen: [cmd, top, hooks, by]
  at,      \* how far each generator is: <<phase, index>>
  ok,      \* self.ok
  own,     \* whether the command's own function succeeded (for checking)
  doq,     \* the functions that the asynchronous thread has to run
  asked,   \* the commands that wait for margo's answer
  attrs,   \* the commands that have matches to highlight: self.attrs
  seq,     \* self.seq, 0 before the command has started
  stale,   \* the commands whose highlights are stale: self.hl['_stale']
  clr,     \* _clr: the command that cleared the highlights last, its seq
  shown    \* the commands whose notes are shown

engineVars == <<at, ok, own, asked, attrs, seq>>
hlVars     == <<stale, clr, shown>>
nineoVars  == <<program, engineVars, doq, hlVars>>

Cmd(c) == program.cmd[c]

Chain(c, k) == ChainIn(Cmd(c), k)

Children(c) == UNION {ToSet(Chain(c, k)) : k \in Chains}

\* The commands that a command starts: those chained to it, or that of gs.cmdebug.
Starts(c) == IF Cmd(c).does = "debug" THEN Children(c) \cup ToSet(Cmd(c).args) ELSE Children(c)

Debugged(x) == \E c \in Cmds : Cmd(c).does = "debug" /\ x = Cmd(c).args[1]
ParentsOf(x) == {c \in Cmds : x \in Starts(c)}

Phase(c) == at[c][1]

NineoInit ==
  /\ program \in Programs
  /\ at = [c \in Cmds |-> <<"none", 0>>]
  /\ ok = [c \in Cmds |-> TRUE] /\ own = [c \in Cmds |-> TRUE]
  /\ seq = [c \in Cmds |-> 0]
  /\ doq = <<>> /\ asked = {} /\ attrs = {}
  /\ stale = {} /\ clr = 0 /\ shown = {}

-----------------------------------------------------------------------------
(* What gs.do is given. *)

Do(does, c)      == [does |-> does, cmd |-> c, attrs |-> FALSE]
DoNext(c)        == Do("next", c)
DoHl(c, matches) == [does |-> "hl", cmd |-> c, attrs |-> matches]

NextSeq == 1 + Cardinality({c \in Cmds : seq[c] # 0})

\* Cmd.start, given what else the step has done to the generators, the results and
\* the queue.  A command with errors fails before it has a generator, and before it
\* has the callback that would resume the one that started it.
Start(x, ats, oks, q) ==
  /\ doq' = Append(q, DoNext(x))
  /\ IF Cmd(x).bad
     THEN /\ ok' = [oks EXCEPT ![x] = FALSE]
          /\ at' = ats
          /\ UNCHANGED seq
     ELSE /\ at' = [ats EXCEPT ![x] = <<"new", 0>>]
          /\ seq' = [seq EXCEPT ![x] = NextSeq]
          /\ ok' = oks

\* The user runs a command, in the main thread.
StartTop(c) ==
  /\ c \in program.top /\ seq[c] = 0 /\ DoNext(c) \notin ToSet(doq)
  /\ Start(c, at, ok, doq)
  /\ UNCHANGED <<program, own, asked, attrs, hlVars>>

-----------------------------------------------------------------------------
(* A generator's steps, in the asynchronous thread. *)

NextOf(c) == doq # <<>> /\ Head(doq) = DoNext(c)

\* next(None) raises, and a generator that has ended has no next step.
NoStep(c) ==
  /\ NextOf(c) /\ Phase(c) \in {"none", "over", "dead"}
  /\ doq' = Tail(doq)
  /\ UNCHANGED <<program, engineVars, hlVars>>

\* The result that a builtin has when it resumes itself.
BuiltinOk(c) == CASE Cmd(c).does = "fail" -> FALSE
                  [] Cmd(c).does = "any"  -> Cmd(c).args = <<>>
                  [] OTHER -> TRUE

\* The first step calls the command's function.
Begin(c) ==
  /\ NextOf(c) /\ Phase(c) = "new"
  /\ LET called == [at EXCEPT ![c] = <<"f", 0>>] IN
       CASE Cmd(c).does = "exec" ->
              /\ asked' = asked \cup {c} /\ at' = called /\ doq' = Tail(doq)
              /\ UNCHANGED <<ok, seq>>
         [] Cmd(c).does = "raise" ->
              /\ at' = [at EXCEPT ![c] = <<"dead", 0>>] /\ doq' = Tail(doq)
              /\ UNCHANGED <<ok, seq, asked>>
         [] Cmd(c).does = "debug" ->
              Start(Cmd(c).args[1], called, ok, Tail(doq)) /\ UNCHANGED asked
         [] OTHER ->
              /\ ok' = [ok EXCEPT ![c] = BuiltinOk(c)] /\ at' = called
              /\ doq' = Append(Tail(doq), DoNext(c))
              /\ UNCHANGED <<seq, asked>>
  /\ UNCHANGED <<program, own, attrs, hlVars>>

\* A mistake: the result of a chain is looked at only when the chain has ended.
ResultIgnored(c) == ok[c]

\* The result after a step: a chain takes over that of its last command, `each` does not.
Result(c) ==
  IF Phase(c) \in {"all", "any"} THEN ok[Chain(c, Phase(c))[at[c][2]]] ELSE ok[c]

\* Where a generator goes after the i-th command of a chain.
Beyond(c, k, i) ==
  IF i < Len(Chain(c, k)) THEN <<k, i + 1>>
  ELSE IF k # "each" /\ Chain(c, "each") # <<>> THEN <<"each", 1>>
  ELSE <<"cb", 0>>

\* A chain is left early when its last command decides it.
StepAfter(c) ==
  LET r == Result(c) IN
    CASE Phase(c) = "f"   -> Beyond(c, IF r THEN "all" ELSE "any", 0)
      [] Phase(c) = "all" -> Beyond(c, "all", IF r THEN at[c][2] ELSE Len(Chain(c, "all")))
      [] Phase(c) = "any" -> Beyond(c, "any", IF r THEN Len(Chain(c, "any")) ELSE at[c][2])
      [] OTHER            -> Beyond(c, "each", at[c][2])

\* The next command of a chain is started.
ContinueChain(c) ==
  /\ NextOf(c) /\ Phase(c) \in {"f"} \cup Chains /\ StepAfter(c)[1] \in Chains
  /\ LET p == StepAfter(c) IN
       Start(Chain(c, p[1])[p[2]], [at EXCEPT ![c] = p], [ok EXCEPT ![c] = Result(c)],
             Tail(doq))
  /\ own' = IF Phase(c) = "f" THEN [own EXCEPT ![c] = ok[c]] ELSE own
  /\ UNCHANGED <<program, asked, attrs, hlVars>>

\* A mistake: the callback resumes the parent twice.
CallbackResumesTwice(c) ==
  <<DoNext(c)>> \o SetToSeq({DoNext(p) : p \in ParentsOf(c)})
    \o SetToSeq({DoNext(p) : p \in ParentsOf(c)})

\* A mistake: only the command itself is resumed.
CallbackForgetsParent(c) == <<DoNext(c)>>

\* Whom the callback resumes: the command, and the one that started it
\* (call_resume, and the callback of gs.cmdebug).
CallbackResumes(c) == <<DoNext(c)>> \o SetToSeq({DoNext(p) : p \in ParentsOf(c)})

\* No command is left: the callback.  That of gs.cmdebug sets its command's result.
Callback(c) ==
  /\ NextOf(c) /\ Phase(c) \in {"f"} \cup Chains /\ StepAfter(c)[1] = "cb"
  /\ at' = [at EXCEPT ![c] = <<"cb", 0>>]
  /\ ok' = IF Debugged(c) THEN [ok EXCEPT ![c] = Result(c), ![CHOOSE p \in ParentsOf(c) : TRUE] = Result(c)]
           ELSE [ok EXCEPT ![c] = Result(c)]
  /\ own' = IF Phase(c) = "f" THEN [own EXCEPT ![c] = ok[c]] ELSE own
  /\ doq' = Tail(doq) \o CallbackResumes(c)
  /\ UNCHANGED <<program, asked, attrs, seq, hlVars>>

\* The generator's last step.
Finish(c) ==
  /\ NextOf(c) /\ Phase(c) = "cb"
  /\ at' = [at EXCEPT ![c] = <<"over", 0>>]
  /\ doq' = Tail(doq) \o (IF Cmd(c).hl THEN <<DoHl(c, c \in attrs)>> ELSE <<>>)
  /\ UNCHANGED <<program, ok, own, asked, attrs, seq, hlVars>>

-----------------------------------------------------------------------------
(* exec_c's callbacks, in mg9's threads. *)

\* A message of the stream, with matches or without: the asynchronous thread does the
\* highlights either way, and clears those of older commands.
Chunk(c) ==
  /\ c \in asked /\ Cmd(c).stream
  /\ \E matches \in BOOLEAN :
       /\ DoHl(c, matches) \notin ToSet(doq)
       /\ doq' = Append(doq, DoHl(c, matches))
  /\ UNCHANGED <<program, engineVars, hlVars>>

\* The answer: an error fails the command, a result need not say Ok.
ExecAnswer(c) ==
  /\ c \in asked
  /\ asked' = asked \ {c}
  /\ \E good \in BOOLEAN : ok' = [ok EXCEPT ![c] = good]
  /\ \E new \in {{}, {c}} : attrs' = attrs \cup new
  /\ doq' = Append(doq, DoNext(c))
  /\ UNCHANGED <<program, at, own, seq, hlVars>>

-----------------------------------------------------------------------------
(* Cmd.do_hl *)

\* A mistake: whoever reports last clears the highlights.
OutdatedNever(c) == FALSE

\* A newer command has cleared the highlights.
Outdated(c) == clr > seq[c]

HlOf(c, matches) == doq # <<>> /\ Head(doq) = DoHl(c, matches)

HlSkip(c, matches) ==
  /\ HlOf(c, matches) /\ (~ Cmd(c).hl \/ c \in stale \/ Outdated(c))
  /\ stale' = IF Cmd(c).hl THEN stale \cup {c} ELSE stale
  /\ doq' = Tail(doq)
  /\ UNCHANGED <<program, engineVars, clr, shown>>

\* The first report of a command clears what is shown; its matches are added.
HlReport(c, matches) ==
  /\ HlOf(c, matches) /\ Cmd(c).hl /\ c \notin stale /\ ~ Outdated(c)
  /\ clr' = seq[c]
  /\ shown' = (IF clr = seq[c] THEN shown ELSE {}) \cup (IF matches THEN {c} ELSE {})
  /\ doq' = Tail(doq)
  /\ UNCHANGED <<program, engineVars, stale>>

-----------------------------------------------------------------------------

Engine(c) ==
  \/ NoStep(c) \/ Begin(c) \/ ContinueChain(c) \/ Callback(c) \/ Finish(c)
  \/ \E matches \in BOOLEAN : HlSkip(c, matches) \/ HlReport(c, matches)

-----------------------------------------------------------------------------

Ended(c)   == Phase(c) \in {"cb", "over"}
Begun(c)   == Phase(c) \notin {"none", "dead"}
Thunks(t)  == Cardinality({i \in DOMAIN doq : doq[i] = t})

\* What may still resume a generator: a queued call of next, margo's answer, or the
\* command it has started, whose callback is still to come.
Causes(c) ==
  Thunks(DoNext(c)) + Cardinality(asked \cap {c})
    + Cardinality({x \in Starts(c) : /\ ~ Ended(x)
                                     /\ Begun(x) \/ Thunks(DoNext(x)) > 0})

\* A generator is never resumed twice for one step, which would start the next command
\* of a chain while the one before it runs.  Resumptions come from the builtins, from
\* mg9's threads and from the callbacks of other commands.
ResumedOnce ==
  \A c \in Cmds : Causes(c) <= 1 /\ (Phase(c) = "over" => Causes(c) = 0)

\* No command of the program stops its chain: none has errors in its definition,
\* which fail it before it has the callback of its chain, and no function raises.
Sound == \A c \in Cmds : ~ Cmd(c).bad /\ Cmd(c).does # "raise"

\* Every command is resumed until its last step: when no function is queued and margo
\* owes no answer, none of the commands that were started is left in the middle of its
\* chains, waiting for a callback that nobody is going to call.
NoChainStalls ==
  Sound /\ doq = <<>> /\ asked = {} => \A c \in Cmds : Phase(c) \in {"none", "over"}

\* Every command of a chain before the i-th has ended, and none after it has begun.
UpTo(L, i) ==
  /\ \A j \in 1 .. i : j < i => Ended(L[j])
  /\ \A j \in i + 1 .. Len(L) : ~ Begun(L[j])

\* The chains do what the settings say: `all` is `this && a && b`, `any` is
\* `this || a || b`, `each` is `this ; a ; b`; one command runs at a time.
Outcome(c) ==
  LET L == Chain(c, IF own[c] THEN "all" ELSE "any") IN
  \E n \in 0 .. Len(L) :
    /\ n = 0 => L = <<>>
    /\ \A i \in 1 .. n : i < n => ok[L[i]] = own[c]
    /\ n \in 1 .. (Len(L) - 1) => ok[L[n]] # own[c]
    /\ ok[c] = IF n = 0 THEN own[c] ELSE ok[L[n]]
    /\ {x \in Children(c) : Begun(x)} = {L[i] : i \in 1 .. n} \cup ToSet(Chain(c, "each"))

ChainsAsDocumented ==
  \A c \in Cmds :
    /\ Phase(c) \in Chains => UpTo(Chain(c, Phase(c)), at[c][2])
    /\ Ended(c) =>
         /\ \A x \in Children(c) : Begun(x) => Ended(x)
         /\ Outcome(c)

\* Notes are those of the newest command that has reported: an older one that ends
\* later neither clears nor adds to them.
NewestHighlights ==
  /\ \A c \in shown : seq[c] = clr
  /\ \A c \in Cmds : /\ Phase(c) = "over" /\ Cmd(c).hl
                     /\ \A m \in BOOLEAN : DoHl(c, m) \notin ToSet(doq)
                     => seq[c] <= clr
=============================================================================
