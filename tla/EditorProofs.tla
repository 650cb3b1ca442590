---------------------------- MODULE EditorProofs ----------------------------
(***************************************************************************)
(* A view in the editor, with its hooks and the commands of the 9o engine, *)
(* keeps the promises of its signal: every step of Editor is a step of     *)
(* Signal or leaves the signal alone, so that what SignalProofs proves of  *)
(* the debounce holds of the composition, whatever commands are chained.   *)
(*                                                                         *)
(* And the engine resumes a generator once for each of its steps, whatever *)
(* programs, hooks and answers there are, until its last step; does with   *)
(* chains what is documented; and shows the newest highlights.  Together   *)
(* they show the notes of a hook that has seen the last edit.              *)
(***************************************************************************)
EXTENDS Editor, SignalProofs, FiniteSetTheorems

\* A step of the editor is one of its view's signal, or does not touch the signal.
LEMMA EditorStepsSignal == [EditorNext]_editorVars => [SignalNext]_signalVars
<1>. SUFFICES ASSUME [EditorNext]_editorVars PROVE [SignalNext]_signalVars
  OBVIOUS
<1>1. ASSUME NEW t \in Callers, Edit(t) \/ EditCalls(t) PROVE SignalNext
  BY <1>1 DEF Edit, EditCalls, SignalNext
<1>2. ASSUME NEW s \in Sigs, TimeGoesBy(s) \/ SignalTimedOut(s) \/ FireHook(s)
      PROVE  SignalNext
  BY <1>2 DEF TimeGoesBy, SignalTimedOut, FireHook, SignalNext
<1>3. CASE Hook BY <1>3 DEF Hook
<1>4. ASSUME NEW c \in Cmds,
             UserRuns(c) \/ EngineRuns(c) \/ MargoSends(c) \/ MargoAnswers(c)
      PROVE  UNCHANGED signalVars
  BY <1>4 DEF UserRuns, EngineRuns, MargoSends, MargoAnswers
<1>5. CASE UNCHANGED editorVars BY <1>5 DEF editorVars
<1>. QED BY <1>1, <1>2, <1>3, <1>4, <1>5 DEF EditorNext, AsyncThread

\* The editor implements its signal: the debounce is used as its callers should.
THEOREM EditorImplementsSignal == EditorSpec => SignalSpec
<1>1. EditorInit => SignalInit BY DEF EditorInit
<1>. QED BY <1>1, EditorStepsSignal, PTL DEF EditorSpec, SignalSpec

\* No edit is forgotten between the threads that make it, the timer and the listeners
\* that run the hooks, however the hooks' commands are chained.
THEOREM EditsAreNotForgotten == EditorSpec => []NothingForgotten
BY EditorImplementsSignal, CallsAreNotForgotten, PTL

\* A view's signal has one timer at most in the asynchronous thread's queue.
THEOREM EditorTimersAreSingle == EditorSpec => []OneTimer
BY EditorImplementsSignal, TimersAreSingle, PTL

-----------------------------------------------------------------------------
(* The queue of functions. *)

In(q, e)   == \E i \in 1..Len(q) : q[i] = e
Once(q, e) == \A i, j \in 1..Len(q) : q[i] = e /\ q[j] = e => i = j

LEMMA Appended ==
  ASSUME NEW S, NEW q \in Seq(S), NEW e \in S
  PROVE  /\ Append(q, e) \in Seq(S)
         /\ \A f : In(Append(q, e), f) <=> In(q, f) \/ f = e
         /\ \A f : Once(q, f) /\ (f = e => ~ In(q, f)) => Once(Append(q, e), f)
<1>1. /\ Append(q, e) \in Seq(S) /\ Len(q) \in Nat /\ Len(Append(q, e)) = Len(q) + 1
      /\ \A i \in 1..Len(q) : Append(q, e)[i] = q[i]
      /\ Append(q, e)[Len(q) + 1] = e
  OBVIOUS
<1>2. \A f : In(Append(q, e), f) <=> In(q, f) \/ f = e
  BY <1>1 DEF In
<1>3. ASSUME NEW f, Once(q, f), f = e => ~ In(q, f) PROVE Once(Append(q, e), f)
  BY <1>1, <1>3 DEF In, Once
<1> QED
  BY <1>1, <1>2, <1>3

LEMMA Taken ==
  ASSUME NEW S, NEW q \in Seq(S), q # <<>>
  PROVE  /\ Tail(q) \in Seq(S) /\ In(q, Head(q))
         /\ \A f : f # Head(q) => (In(Tail(q), f) <=> In(q, f))
         /\ \A f : Once(q, f) => Once(Tail(q), f)
         /\ Once(q, Head(q)) => ~ In(Tail(q), Head(q))
         /\ \A f : In(Tail(q), f) => In(q, f)
<1>1. /\ Tail(q) \in Seq(S) /\ Len(q) \in Nat \ {0} /\ Len(Tail(q)) = Len(q) - 1
      /\ \A i \in 1..Len(Tail(q)) : i + 1 \in 1..Len(q) /\ Tail(q)[i] = q[i + 1]
      /\ Head(q) = q[1]
  OBVIOUS
<1>2. \A i \in 1..Len(q) : i = 1 \/ (i - 1 \in 1..Len(Tail(q)) /\ q[i] = Tail(q)[i - 1])
  <2>1. ASSUME NEW i \in 1..Len(q), i # 1 
        PROVE i - 1 \in 1..Len(Tail(q)) /\ (i - 1) + 1 = i
    BY <1>1, <2>1
  <2> QED
    BY <1>1, <2>1
<1>3. ASSUME NEW f, Once(q, f) PROVE Once(Tail(q), f)
  <2>1. ASSUME NEW i \in 1..Len(Tail(q)), NEW j \in 1..Len(Tail(q)), Tail(q)[i] = f, Tail(q)[j] = f
        PROVE  i = j
    <3>1. i + 1 \in 1..Len(q) /\ j + 1 \in 1..Len(q) /\ q[i + 1] = f /\ q[j + 1] = f
      BY <1>1, <2>1
    <3>2. i + 1 = j + 1
      BY <1>3, <3>1 DEF Once
    <3> QED
      BY <1>1, <3>2
  <2> QED
    BY <2>1 DEF Once
<1>4. \A f : In(Tail(q), f) => In(q, f)
  BY <1>1 DEF In
<1>5. \A f : f # Head(q) => (In(Tail(q), f) <=> In(q, f))
  BY <1>1, <1>2 DEF In
<1>6. ASSUME Once(q, Head(q)) PROVE ~ In(Tail(q), Head(q))
  <2>1. ASSUME NEW i \in 1..Len(Tail(q)), Tail(q)[i] = Head(q) PROVE FALSE
    <3>1. i + 1 \in 1..Len(q) /\ q[i + 1] = Head(q) /\ 1 \in 1..Len(q) /\ q[1] = Head(q)
      BY <1>1, <2>1
    <3>2. i + 1 = 1
      BY <1>6, <3>1 DEF Once
    <3> QED
      BY <1>1, <3>2
  <2> QED
    BY <2>1 DEF In
<1>7. In(q, Head(q))
  BY <1>1 DEF In
<1> QED
  BY <1>1, <1>3, <1>4, <1>5, <1>6, <1>7

\* ToSet has the members of a queue.
LEMMA InToSet == ASSUME NEW S, NEW q \in Seq(S), NEW e PROVE e \in ToSet(q) <=> In(q, e)
BY DEF ToSet, In

\* The members that a set of at most one has as a sequence.
LEMMA OneToSeq ==
  ASSUME NEW S, \A x, y \in S : x = y
  PROVE  \/ S = {} /\ SetToSeq(S) = <<>>
         \/ \E x : S = {x} /\ SetToSeq(S) = <<x>>
<1>1. CASE S = {}
  <2>1. Cardinality(S) = 0
    BY <1>1, FS_EmptySet
  <2>2. ASSUME NEW f \in [1..0 -> {}] PROVE f = <<>>
    <3>1. f \in Seq({}) /\ Len(f) = 0
      OBVIOUS
    <3> QED
      BY <3>1
  <2>3. <<>> \in [1..0 -> {}]
    OBVIOUS
  <2>4. IsInjective(<<>>)
    BY DEF IsInjective
  <2> QED
    BY <1>1, <2>1, <2>2, <2>3, <2>4 DEF SetToSeq
<1>2. CASE S # {}
  <2>1. PICK x : S = {x}
    BY <1>2
  <2>2. Cardinality(S) = 1
    BY <2>1, FS_Singleton
  <2>3. \A f : f \in [1..1 -> {x}] <=> f = <<x>>
    OBVIOUS
  <2>4. IsInjective(<<x>>)
    BY DEF IsInjective
  <2> QED
    BY <2>1, <2>2, <2>3, <2>4 DEF SetToSeq
<1> QED
  BY <1>1, <1>2

-----------------------------------------------------------------------------
(* The program. *)

Kinds  == Chains \cup {"args"}
Phases == Chains \cup {"none", "new", "f", "cb", "over", "dead"}
Queued == [does : {"next", "hl"}, cmd : Cmds, attrs : BOOLEAN] \cup {Do("hook", HookCmd)}

\* What a command starts in one of the ways there are.
Started(c, k) == StartsIn(Cmd(c), k)

\* Each variable of the engine has its type.
EngineTypes ==
  /\ program \in Programs
  /\ at \in [Cmds -> Phases \X Nat]
  /\ ok \in [Cmds -> BOOLEAN] /\ own \in [Cmds -> BOOLEAN] /\ seq \in [Cmds -> Nat]
  /\ doq \in Seq(Queued) /\ asked \subseteq Cmds /\ attrs \subseteq Cmds
  /\ stale \subseteq Cmds /\ shown \subseteq Cmds /\ clr \in Nat
  /\ hooked \in 0..Len(program.hooks)

LEMMA ProgramTypes ==
  ASSUME program \in Programs
  PROVE  /\ program.hooks \in Seq(Cmds) /\ program.top \subseteq Cmds
         /\ \A c \in Cmds : Cmd(c) \in Definitions
BY NineoAssumption DEF Cmd

LEMMA ChainIsStarted == \A c, k : k \in Chains => Chain(c, k) = Started(c, k)
BY DEF Chain, Started, StartsIn, Chains

LEMMA StartedType ==
  ASSUME program \in Programs, NEW c \in Cmds, NEW k \in Kinds
  PROVE  /\ Started(c, k) \in Seq(Cmds) /\ Len(Started(c, k)) \in Nat
         /\ DOMAIN Started(c, k) = 1..Len(Started(c, k))
         /\ \A i \in 1..Len(Started(c, k)) : Started(c, k)[i] \in Cmds
<1> DEFINE d == Cmd(c)
<1>1. d \in Definitions
  BY ProgramTypes
<1>2. /\ d.all \in Seq(Cmds) /\ d.any \in Seq(Cmds) /\ d.each \in Seq(Cmds)
      /\ d.args \in Seq(Cmds)
  BY <1>1 DEF Definitions
<1>3. \A l \in Chains : d[l] \in Seq(Cmds)
  BY <1>2 DEF Chains
<1>4. \A l \in Chains : ChainIn(d, l) \in Seq(Cmds)
  BY <1>2, <1>3 DEF ChainIn
<1>5. Started(c, k) \in Seq(Cmds)
  BY <1>2, <1>4 DEF Started, StartsIn, Kinds
<1> HIDE DEF d
<1> QED
  BY <1>5

\* A command is started in one place.
LEMMA OnePlace ==
  ASSUME program \in Programs, NEW c \in Cmds, NEW k \in Kinds, NEW i \in 1..Len(Started(c, k)),
         NEW x, x = Started(c, k)[i]
  PROVE  /\ \A d \in Cmds, l \in Kinds : \A j \in 1..Len(Started(d, l)) :
              Started(d, l)[j] = x => d = c /\ l = k /\ j = i
         /\ x \notin program.top /\ \A j \in 1..Len(program.hooks) : program.hooks[j] # x
<1>1. StartedOnce(program)
  BY NineoAssumption
<1>2. \A d \in Cmds, l \in Kinds : DOMAIN Started(d, l) = 1..Len(Started(d, l))
  BY StartedType
<1>3. \A d \in Cmds, l \in Kinds : \A j \in 1..Len(Started(d, l)) :
        Started(d, l)[j] = x => d = c /\ l = k /\ j = i
  <2>1. \A e, d \in Cmds, m, l \in Kinds :
          \A h \in DOMAIN Started(e, m), j \in DOMAIN Started(d, l) :
            Started(e, m)[h] = Started(d, l)[j] => e = d /\ m = l /\ h = j
    BY <1>1 DEF StartedOnce, Started, Cmd, Kinds
  <2> QED
    BY <1>2, <2>1
<1>4. x \in ToSet(Started(c, k))
  BY <1>2 DEF ToSet
<1>5. x \notin program.top \cup ToSet(program.hooks)
  BY <1>1, <1>4 DEF StartedOnce, Started, Cmd, Kinds
<1>6. \A j \in 1..Len(program.hooks) : program.hooks[j] \in ToSet(program.hooks)
  BY ProgramTypes DEF ToSet
<1> QED
  BY <1>3, <1>5, <1>6

\* So are those of the user, and those of the hooks.
LEMMA OneTop ==
  ASSUME program \in Programs, NEW x \in program.top
  PROVE  /\ \A d \in Cmds, l \in Kinds : \A j \in 1..Len(Started(d, l)) : Started(d, l)[j] # x
         /\ \A j \in 1..Len(program.hooks) : program.hooks[j] # x
<1>1. \A j \in 1..Len(program.hooks) : program.hooks[j] \in ToSet(program.hooks)
  BY ProgramTypes DEF ToSet
<1>2. program.top \cap ToSet(program.hooks) = {}
  BY NineoAssumption DEF StartedOnce
<1>3. \A d \in Cmds, l \in Kinds : \A j \in 1..Len(Started(d, l)) : Started(d, l)[j] # x
  BY OnePlace
<1> QED
  BY <1>1, <1>2, <1>3

LEMMA OneHook ==
  ASSUME program \in Programs, NEW i \in 1..Len(program.hooks), NEW x, x = program.hooks[i]
  PROVE  /\ \A d \in Cmds, l \in Kinds : \A j \in 1..Len(Started(d, l)) : Started(d, l)[j] # x
         /\ \A j \in 1..Len(program.hooks) : program.hooks[j] = x => j = i
<1>1. \A d \in Cmds, l \in Kinds : \A j \in 1..Len(Started(d, l)) : Started(d, l)[j] # x
  BY OnePlace
<1>2. IsInjective(program.hooks) /\ program.hooks \in Seq(Cmds)
  BY NineoAssumption, ProgramTypes DEF StartedOnce
<1> QED
  BY <1>1, <1>2 DEF IsInjective

\* What a command starts.
LEMMA StartsFacts ==
  ASSUME program \in Programs, NEW c \in Cmds
  PROVE  \A x : x \in Starts(c) <=> \E k \in Kinds : \E i \in 1..Len(Started(c, k)) :
          x = Started(c, k)[i]
<1>1. \A k \in Kinds : \A x : x \in ToSet(Started(c, k)) <=> \E i \in 1..Len(Started(c, k)) :
        x = Started(c, k)[i]
  BY StartedType DEF ToSet
<1>2. \A x : x \in Children(c) <=> \E k \in Chains : x \in ToSet(Started(c, k))
  BY ChainIsStarted DEF Children
<1>3. ToSet(Started(c, "args")) = IF Cmd(c).does = "debug" THEN ToSet(Cmd(c).args) ELSE {}
  BY DEF Started, StartsIn, ToSet
<1>4. \A x : x \in Starts(c) <=> \E k \in Kinds : x \in ToSet(Started(c, k))
  BY <1>2, <1>3 DEF Starts, Kinds
<1> QED
  BY <1>1, <1>4

\* gs.cmdebug starts its argument.
LEMMA DebugFacts ==
  ASSUME program \in Programs, NEW c \in Cmds
  PROVE  /\ Cmd(c).does = "debug" => Len(Started(c, "args")) = 1
          /\ Started(c, "args")[1] = Cmd(c).args[1]
         /\ Cmd(c).does # "debug" => Len(Started(c, "args")) = 0
BY NineoAssumption DEF Started, StartsIn, Cmd

-----------------------------------------------------------------------------
(* The inductive invariant of the engine. *)

NextsIn(q) == {c \in Cmds : In(q, DoNext(c))}
OnceIn(q)  == \A c \in Cmds : Once(q, DoNext(c))

\* The commands that are about to be resumed.
Nexts == NextsIn(doq)

\* A command that was not started.
Fresh(x) == seq[x] = 0 /\ x \notin Nexts

InChain(c) == (Phase(c) \in Chains) => (at[c][2] \in 1..Len(Started(c, Phase(c))))

\* c has not come to the i-th of the commands that it starts in the way k.
Ahead(c, k, i) ==
  \/ Phase(c) \in {"none", "new"}
  \/ Phase(c) = "f" /\ k \in Chains
  \/ Phase(c) \in Chains /\ k = Phase(c) /\ i > at[c][2]
  \/ Phase(c) \in {"all", "any"} /\ k = "each"

\* A command or the hook may still start x.
Coming(x) ==
  \/ \E c \in Cmds, k \in Kinds : \E i \in 1..Len(Started(c, k)) :
       Ahead(c, k, i) /\ x = Started(c, k)[i]
  \/ \E i \in 1..Len(program.hooks) : i > hooked /\ x = program.hooks[i]

\* Commands are started in their turn, none of them twice.
PlacesInv ==
  /\ \A c \in Cmds :
       /\ InChain(c)
       /\ seq[c] = 0 <=> Phase(c) = "none"
       /\ c \in asked => Phase(c) = "f" /\ Cmd(c).does = "exec"
  /\ \A x \in Cmds : Coming(x) => Fresh(x)

Running(x) == ~ Ended(x) /\ (Begun(x) \/ x \in Nexts)

\* The command that c has started last.
Current(c, x) ==
  \/ Phase(c) = "f" /\ Cmd(c).does = "debug" /\ x = Started(c, "args")[1]
  \/ Phase(c) \in Chains /\ x = Started(c, Phase(c))[at[c][2]]

\* A command is resumed by the queue, by margo's answer or by the command it has
\* started last.
ResumeInv ==
  /\ OnceIn(doq)
  /\ \A c \in Cmds :
       /\ c \in Nexts => c \notin asked /\ Phase(c) # "over"
       /\ \A x \in Cmds : x \in Starts(c) /\ Running(x) =>
            Current(c, x) /\ c \notin Nexts /\ c \notin asked

EngineInv == EngineTypes /\ PlacesInv /\ ResumeInv

LEMMA SameProgram ==
  ASSUME program' = program
  PROVE  \A c : /\ Cmd(c)' = Cmd(c) /\ Starts(c)' = Starts(c)
                /\ \A k : Started(c, k)' = Started(c, k) /\ Chain(c, k)' = Chain(c, k)
BY DEF Cmd, Starts, Started, Children, Chain

\* What a step leaves alone that changes only the phase of c.
LEMMA PhasesSame ==
  ASSUME program' = program, NEW C, \A d \in Cmds \ C : at'[d] = at[d]
  PROVE  \A d \in Cmds \ C :
           /\ Phase(d)' = Phase(d) /\ (Ended(d)' <=> Ended(d)) /\ (Begun(d)' <=> Begun(d))
           /\ InChain(d) => InChain(d)'
           /\ \A k : \A i \in Nat : Ahead(d, k, i)' => Ahead(d, k, i)
           /\ \A x : Current(d, x) => Current(d, x)'
BY SameProgram DEF Phase, Ended, Begun, InChain, Ahead, Current

\* A step after which no more is coming.
LEMMA ComingLess ==
  ASSUME program' = program, hooked' >= hooked, hooked \in Nat, hooked' \in Nat,
         program \in Programs,
         \A d \in Cmds : \A k : \A i \in Nat : Ahead(d, k, i)' => Ahead(d, k, i)
  PROVE  \A x : Coming(x)' => Coming(x)
<1>1. \A i \in 1..Len(program.hooks) : i > hooked' => i > hooked
  BY ProgramTypes
<1>2. \A d \in Cmds, k \in Kinds : \A i \in 1..Len(Started(d, k)) : i \in Nat
  BY StartedType
<1>3. \A d \in Cmds, k \in Kinds : \A i \in 1..Len(Started(d, k)) :
        Ahead(d, k, i)' => Ahead(d, k, i)
  BY <1>2
<1> QED
  BY <1>1, <1>3, SameProgram DEF Coming

\* A step of c, or an answer to it, that starts nothing and resumes nobody else.
LEMMA MoveKeeps ==
  ASSUME EngineInv, EngineTypes', program' = program, hooked' = hooked, seq' = seq,
         NEW c \in Cmds, c \in Nexts \/ c \in asked,
         \A d \in Cmds \ {c} : at'[d] = at[d],
         Nexts' \subseteq Nexts \cup {c}, asked' \subseteq asked \cup {c}, OnceIn(doq)',
         InChain(c)', Phase(c)' = "none" <=> Phase(c) = "none",
         \A k : \A i \in Nat : Ahead(c, k, i)' => Ahead(c, k, i),
         c \in asked' => c \notin Nexts' /\ Phase(c)' = "f" /\ Cmd(c).does = "exec",
         c \in Nexts' => Phase(c)' # "over",
         Running(c)' => Running(c)
  PROVE  EngineInv'
<1>1. \A d \in Cmds \ {c} :
        /\ Phase(d)' = Phase(d) /\ (Ended(d)' <=> Ended(d)) /\ (Begun(d)' <=> Begun(d))
        /\ InChain(d) => InChain(d)'
        /\ \A k : \A i \in Nat : Ahead(d, k, i)' => Ahead(d, k, i)
        /\ \A x : Current(d, x) => Current(d, x)'
  BY PhasesSame
<1>2. \A d : Cmd(d)' = Cmd(d) /\ Starts(d)' = Starts(d)
  BY SameProgram
<1>3. \A x : Coming(x)' => Coming(x)
  <2>1. hooked \in Nat /\ hooked' \in Nat /\ hooked' >= hooked /\ program \in Programs
    BY ProgramTypes DEF EngineInv, EngineTypes
  <2>2. \A d \in Cmds : \A k : \A i \in Nat : Ahead(d, k, i)' => Ahead(d, k, i)
    BY <1>1
  <2> QED
    BY <2>1, <2>2, ComingLess
<1>4. ~ Fresh(c)
  BY DEF EngineInv, PlacesInv, Fresh
<1>5. \A x \in Cmds : Fresh(x) => Fresh(x)'
  BY <1>4 DEF Fresh
<1>6. PlacesInv'
  BY <1>1, <1>2, <1>3, <1>5 DEF EngineInv, PlacesInv
<1>7. \A x \in Cmds : Running(x)' => Running(x)
  BY <1>1 DEF Running
<1>8. ASSUME NEW d \in Cmds, NEW x \in Cmds, x \in Starts(d), Running(x)'
      PROVE  Current(d, x)' /\ d \notin Nexts' /\ d \notin asked'
  <2>1. Current(d, x) /\ d \notin Nexts /\ d \notin asked
    BY <1>7, <1>8 DEF EngineInv, ResumeInv
  <2> QED
    BY <1>1, <2>1
<1>9. ResumeInv'
  BY <1>1, <1>2, <1>8 DEF EngineInv, ResumeInv
<1> QED
  BY <1>6, <1>9 DEF EngineInv

\* x is started: by c in one of its steps, if C is {c}, else by the user or the hook.
LEMMA StartKeeps ==
  ASSUME EngineInv, EngineTypes', program' = program, hooked' >= hooked, asked' = asked,
         NEW x \in Cmds, Fresh(x), NEW C \in SUBSET Cmds, x \notin C,
         \A d \in Cmds \ (C \cup {x}) : at'[d] = at[d],
         \A d \in Cmds \ {x} : seq'[d] = seq[d],
         Nexts' = (Nexts \ C) \cup {x}, OnceIn(doq)',
         \/ at'[x] = at[x] /\ seq'[x] = seq[x]
         \/ Phase(x)' = "new" /\ seq'[x] # 0,
         \A c \in C : /\ c \in Nexts /\ Phase(c) # "none" /\ ~ Ended(c) /\ Phase(c) # "dead"
                      /\ Phase(c)' # "none" /\ InChain(c)' /\ Current(c, x)'
                      /\ \A k : \A i \in Nat : Ahead(c, k, i)' => Ahead(c, k, i),
         \A d \in Cmds : x \in Starts(d) => d \in C,
         ~ Coming(x)'
  PROVE  EngineInv'
<1>1. \A d \in Cmds \ (C \cup {x}) :
        /\ Phase(d)' = Phase(d) /\ (Ended(d)' <=> Ended(d)) /\ (Begun(d)' <=> Begun(d))
        /\ InChain(d) => InChain(d)'
        /\ \A k : \A i \in Nat : Ahead(d, k, i)' => Ahead(d, k, i)
        /\ \A y : Current(d, y) => Current(d, y)'
  BY PhasesSame
<1>2. \A d : Cmd(d)' = Cmd(d) /\ Starts(d)' = Starts(d)
  BY SameProgram
<1>3. Phase(x) = "none" /\ seq[x] = 0 /\ x \notin asked /\ x \notin Nexts
  BY DEF EngineInv, PlacesInv, Fresh
<1>4. /\ Phase(x)' \in {"none", "new"} /\ (seq'[x] = 0 <=> Phase(x)' = "none") /\ InChain(x)'
      /\ \A k : \A i \in Nat : Ahead(x, k, i)
  BY <1>3 DEF Phase, InChain, Chains, Ahead
<1>5. \A y : Coming(y)' => Coming(y)
  <2>1. hooked \in Nat /\ hooked' \in Nat /\ program \in Programs
    BY ProgramTypes DEF EngineInv, EngineTypes
  <2>2. \A d \in Cmds : \A k : \A i \in Nat : Ahead(d, k, i)' => Ahead(d, k, i)
    BY <1>1, <1>4
  <2> QED
    BY <2>1, <2>2, ComingLess
<1>6. \A y \in Cmds \ {x} : Fresh(y) => Fresh(y)'
  BY DEF Fresh
<1>7. ASSUME NEW c \in C
      PROVE  c \notin asked /\ seq'[c] # 0 /\ Phase(c)' # "none" /\ InChain(c)' /\ Running(c)
             /\ c \notin Nexts'
  <2>1. c \in Nexts /\ c # x /\ c \in Cmds
    OBVIOUS
  <2>2. c \notin asked /\ seq[c] # 0
    BY <2>1 DEF EngineInv, PlacesInv, ResumeInv
  <2> QED
    BY <2>1, <2>2 DEF Running
<1>8. PlacesInv'
  <2>1. ASSUME NEW d \in Cmds
        PROVE  /\ InChain(d)'
               /\ (seq[d] = 0)' <=> (Phase(d) = "none")'
               /\ d \in asked' => Phase(d)' = "f" /\ Cmd(d)'.does = "exec"
    <3>1. CASE d \in C
      BY <1>7, <3>1
    <3>2. CASE d = x
      BY <1>3, <1>4, <3>2
    <3>3. CASE d \notin C \cup {x}
      <4>1. /\ InChain(d) /\ (seq[d] = 0 <=> Phase(d) = "none")
            /\ d \in asked => Phase(d) = "f" /\ Cmd(d).does = "exec"
        BY DEF EngineInv, PlacesInv
      <4> QED
        BY <1>1, <1>2, <3>3, <4>1
    <3> QED
      BY <3>1, <3>2, <3>3
  <2>2. \A y \in Cmds : Coming(y)' => Fresh(y)'
    BY <1>5, <1>6 DEF EngineInv, PlacesInv
  <2> QED
    BY <2>1, <2>2 DEF PlacesInv
<1>9. \A y \in Cmds \ {x} : Running(y)' => Running(y)
  <2>1. \A y \in C : Running(y)
    BY <1>7
  <2> QED
    BY <1>1, <2>1 DEF Running
<1>10. ASSUME NEW d \in Cmds, NEW y \in Cmds, y \in Starts(d), Running(y)'
       PROVE  Current(d, y)' /\ d \notin Nexts' /\ d \notin asked'
  <2>1. CASE y = x
    BY <1>7, <1>10, <2>1
  <2>2. CASE y # x
    <3>1. Current(d, y) /\ d \notin Nexts /\ d \notin asked
      BY <1>9, <1>10, <2>2 DEF EngineInv, ResumeInv
    <3>2. d # x
      BY <1>3, <3>1 DEF Current, Chains
    <3> QED
      BY <1>1, <3>1, <3>2
  <2> QED
    BY <2>1, <2>2
<1>11. ResumeInv'
  <2>1. ASSUME NEW d \in Cmds PROVE d \in Nexts' => d \notin asked' /\ Phase(d)' # "over"
    <3>1. CASE d = x
      BY <1>3, <1>4, <3>1
    <3>2. CASE d # x
      BY <1>1, <3>2 DEF EngineInv, ResumeInv
    <3> QED
      BY <3>1, <3>2
  <2> QED
    BY <1>2, <1>10, <2>1 DEF ResumeInv
<1> QED
  BY <1>8, <1>11 DEF EngineInv

\* The callback of c: it resumes c and the one that has started it.
LEMMA CallbackKeeps ==
  ASSUME EngineInv, EngineTypes', program' = program, hooked' = hooked, asked' = asked,
         seq' = seq, NEW c \in Cmds, c \in Nexts, Running(c), Phase(c) # "none",
         \A d \in Cmds \ {c} : at'[d] = at[d], Phase(c)' = "cb",
         Nexts' = Nexts \cup {d \in Cmds : c \in Starts(d)}, OnceIn(doq)'
  PROVE  EngineInv'
<1>1. \A d \in Cmds \ {c} :
        /\ Phase(d)' = Phase(d) /\ (Ended(d)' <=> Ended(d)) /\ (Begun(d)' <=> Begun(d))
        /\ InChain(d) => InChain(d)'
        /\ \A k : \A i \in Nat : Ahead(d, k, i)' => Ahead(d, k, i)
        /\ \A y : Current(d, y) => Current(d, y)'
  BY PhasesSame
<1>2. \A d : Cmd(d)' = Cmd(d) /\ Starts(d)' = Starts(d)
  BY SameProgram
<1>3. /\ InChain(c)' /\ Ended(c)' /\ \A k : \A i \in Nat : ~ Ahead(c, k, i)'
  BY DEF InChain, Ended, Phase, Ahead, Chains
<1>4. \A y : Coming(y)' => Coming(y)
  <2>1. hooked \in Nat /\ hooked' >= hooked /\ program \in Programs
    BY ProgramTypes DEF EngineInv, EngineTypes
  <2>2. \A d \in Cmds : \A k : \A i \in Nat : Ahead(d, k, i)' => Ahead(d, k, i)
    BY <1>1, <1>3
  <2> QED
    BY <2>1, <2>2, ComingLess
<1>5. ASSUME NEW d \in Cmds, c \in Starts(d)
      PROVE  /\ d # c /\ Current(d, c) /\ d \notin Nexts /\ d \notin asked
             /\ Phase(d) \in {"f"} \cup Chains /\ seq[d] # 0
  <2>1. Current(d, c) /\ d \notin Nexts /\ d \notin asked
    BY <1>5 DEF EngineInv, ResumeInv
  <2>2. Phase(d) \in {"f"} \cup Chains /\ Phase(d) # "none"
    BY <2>1 DEF Current, Chains
  <2> QED
    BY <2>1, <2>2 DEF EngineInv, PlacesInv
<1>6. \A y \in Cmds : Fresh(y) => Fresh(y)'
  BY <1>5 DEF Fresh
<1>7. c \notin asked /\ seq[c] # 0
  BY DEF EngineInv, ResumeInv, PlacesInv
<1>8. PlacesInv'
  <2>1. ASSUME NEW d \in Cmds
        PROVE  /\ InChain(d)'
               /\ (seq[d] = 0)' <=> (Phase(d) = "none")'
               /\ d \in asked' => Phase(d)' = "f" /\ Cmd(d)'.does = "exec"
    <3>1. /\ InChain(d) /\ (seq[d] = 0 <=> Phase(d) = "none")
          /\ d \in asked => Phase(d) = "f" /\ Cmd(d).does = "exec"
      BY DEF EngineInv, PlacesInv
    <3>2. CASE d = c
      BY <1>3, <1>7, <3>2
    <3>3. CASE d # c
      BY <1>1, <1>2, <3>1, <3>3
    <3> QED
      BY <3>2, <3>3
  <2>2. \A y \in Cmds : Coming(y)' => Fresh(y)'
    BY <1>4, <1>6 DEF EngineInv, PlacesInv
  <2> QED
    BY <2>1, <2>2 DEF PlacesInv
<1>9. ASSUME NEW y \in Cmds, Running(y)' PROVE Running(y) /\ y # c
  <2>1. y # c
    BY <1>3, <1>9 DEF Running
  <2>2. CASE y \in Nexts' \ Nexts
    BY <1>5, <2>2, <1>1, <1>9, <2>1 DEF Running, Begun, Chains
  <2>3. CASE ~(y \in Nexts' \ Nexts)
    BY <1>1, <1>9, <2>1, <2>3 DEF Running
  <2> QED
    BY <2>1, <2>2, <2>3
<1>10. ASSUME NEW d \in Cmds, NEW y \in Cmds, y \in Starts(d), Running(y)'
       PROVE  Current(d, y)' /\ d \notin Nexts' /\ d \notin asked'
  <2>1. Current(d, y) /\ d \notin Nexts /\ d \notin asked /\ d # c /\ y # c
    BY <1>9, <1>10 DEF EngineInv, ResumeInv
  <2>2. c \notin Starts(d)
    <3>1. SUFFICES ASSUME c \in Starts(d) PROVE FALSE
      OBVIOUS
    <3>2. Current(d, c)
      BY <1>5, <3>1
    <3>3. c = y
      BY <2>1, <3>2 DEF Current, Chains
    <3> QED
      BY <2>1, <3>3
  <2> QED
    BY <1>1, <2>1, <2>2
<1>11. ResumeInv'
  <2>1. ASSUME NEW d \in Cmds PROVE d \in Nexts' => d \notin asked' /\ Phase(d)' # "over"
    <3>1. CASE d = c
      BY <1>7, <3>1
    <3>2. CASE c \in Starts(d)
      BY <1>1, <1>5, <3>2 DEF Chains
    <3>3. CASE d # c /\ c \notin Starts(d)
      BY <1>1, <3>3 DEF EngineInv, ResumeInv
    <3> QED
      BY <3>1, <3>2, <3>3
  <2> QED
    BY <1>2, <1>10, <2>1 DEF ResumeInv
<1> QED
  BY <1>8, <1>11 DEF EngineInv

-----------------------------------------------------------------------------
(* What the actions do to the queue. *)

LEMMA DoFacts ==
  /\ \A c \in Cmds : DoNext(c) \in Queued /\ \A d : DoNext(d) = DoNext(c) => d = c
  /\ \A c \in Cmds, m \in BOOLEAN : DoHl(c, m) \in Queued
  /\ Do("hook", HookCmd) \in Queued
  /\ \A c, d, m : DoNext(c) # DoHl(d, m) /\ DoNext(c) # Do("hook", HookCmd)
                  /\ DoHl(d, m) # Do("hook", HookCmd)
  /\ \A c, d, m, n1 : DoHl(c, m) = DoHl(d, n1) => c = d
BY DEF DoNext, DoHl, Do, Queued

\* The commands that are about to report.
HlsIn(q) == {c \in Cmds : \E m \in BOOLEAN : In(q, DoHl(c, m))}

LEMMA NextAppended ==
  ASSUME NEW q \in Seq(Queued), OnceIn(q), NEW x \in Cmds, x \notin NextsIn(q)
  PROVE  /\ Append(q, DoNext(x)) \in Seq(Queued) /\ OnceIn(Append(q, DoNext(x)))
         /\ NextsIn(Append(q, DoNext(x))) = NextsIn(q) \cup {x}
         /\ HlsIn(Append(q, DoNext(x))) = HlsIn(q)
<1> DEFINE e == DoNext(x)
           r == Append(q, e)
<1>1. e \in Queued /\ (\A d : DoNext(d) = e => d = x) /\ \A d, m : DoHl(d, m) # e
  BY DoFacts
<1> HIDE DEF e
<1>2. /\ r \in Seq(Queued)
      /\ \A f : In(r, f) <=> In(q, f) \/ f = e
      /\ \A f : Once(q, f) /\ (f = e => ~ In(q, f)) => Once(r, f)
  BY <1>1, Appended
<1> HIDE DEF r
<1>3. ~ In(q, e)
  BY DEF NextsIn, e
<1>4. OnceIn(r)
  BY <1>2, <1>3 DEF OnceIn
<1>5. NextsIn(r) = NextsIn(q) \cup {x}
  BY <1>1, <1>2 DEF NextsIn, e
<1>6. HlsIn(r) = HlsIn(q)
  BY <1>1, <1>2 DEF HlsIn
<1> QED
  BY <1>2, <1>4, <1>5, <1>6 DEF r, e

LEMMA OtherAppended ==
  ASSUME NEW q \in Seq(Queued), OnceIn(q), NEW e \in Queued, \A c : e # DoNext(c)
  PROVE  /\ Append(q, e) \in Seq(Queued) /\ OnceIn(Append(q, e))
         /\ NextsIn(Append(q, e)) = NextsIn(q)
         /\ \A c \in Cmds : (\A m \in BOOLEAN : e # DoHl(c, m)) =>
              (c \in HlsIn(Append(q, e)) <=> c \in HlsIn(q))
         /\ \A c \in Cmds, m \in BOOLEAN : e = DoHl(c, m) => HlsIn(Append(q, e)) = HlsIn(q) \cup {c}
<1> DEFINE r == Append(q, e)
<1>1. /\ r \in Seq(Queued)
      /\ \A f : In(r, f) <=> In(q, f) \/ f = e
      /\ \A f : Once(q, f) /\ (f = e => ~ In(q, f)) => Once(r, f)
  BY Appended
<1> HIDE DEF r
<1>2. OnceIn(r) /\ NextsIn(r) = NextsIn(q)
  BY <1>1 DEF OnceIn, NextsIn
<1>3. \A c \in Cmds : (\A m \in BOOLEAN : e # DoHl(c, m)) => (c \in HlsIn(r) <=> c \in HlsIn(q))
  BY <1>1 DEF HlsIn
<1>4. ASSUME NEW c \in Cmds, NEW m \in BOOLEAN, e = DoHl(c, m)
      PROVE  HlsIn(r) = HlsIn(q) \cup {c}
  <2>1. \A d \in Cmds, l \in BOOLEAN : e = DoHl(d, l) => d = c
    BY <1>4, DoFacts
  <2> QED
    BY <1>1, <1>4, <2>1 DEF HlsIn
<1> QED
  BY <1>1, <1>2, <1>3, <1>4 DEF r

LEMMA NextTaken ==
  ASSUME NEW q \in Seq(Queued), OnceIn(q), q # <<>>, NEW c \in Cmds, Head(q) = DoNext(c)
  PROVE  /\ Tail(q) \in Seq(Queued) /\ OnceIn(Tail(q)) /\ c \in NextsIn(q)
         /\ NextsIn(Tail(q)) = NextsIn(q) \ {c} /\ HlsIn(Tail(q)) = HlsIn(q)
<1> DEFINE h == Head(q)
           r == Tail(q)
<1>1. /\ r \in Seq(Queued) /\ In(q, h)
      /\ \A f : f # h => (In(r, f) <=> In(q, f))
      /\ \A f : Once(q, f) => Once(r, f)
      /\ Once(q, h) => ~ In(r, h)
  BY Taken
<1> HIDE DEF h, r
<1>2. h = DoNext(c)
  BY DEF h
<1>3. (\A d : DoNext(d) = h => d = c) /\ \A d, m : DoHl(d, m) # h
  BY <1>2, DoFacts
<1>4. ~ In(r, h) /\ OnceIn(r)
  BY <1>1, <1>2 DEF OnceIn
<1>5. c \in NextsIn(q) /\ NextsIn(r) = NextsIn(q) \ {c}
  BY <1>1, <1>2, <1>3, <1>4 DEF NextsIn
<1>6. HlsIn(r) = HlsIn(q)
  BY <1>1, <1>3 DEF HlsIn
<1> QED
  BY <1>1, <1>4, <1>5, <1>6 DEF r

LEMMA OtherTaken ==
  ASSUME NEW q \in Seq(Queued), OnceIn(q), q # <<>>, \A c : Head(q) # DoNext(c)
  PROVE  /\ Tail(q) \in Seq(Queued) /\ OnceIn(Tail(q)) /\ NextsIn(Tail(q)) = NextsIn(q)
         /\ HlsIn(Tail(q)) \subseteq HlsIn(q)
         /\ \A c \in Cmds : (\A m \in BOOLEAN : Head(q) # DoHl(c, m)) =>
              (c \in HlsIn(Tail(q)) <=> c \in HlsIn(q))
         /\ \A c \in Cmds, m \in BOOLEAN : Head(q) = DoHl(c, m) => c \in HlsIn(q)
<1> DEFINE h == Head(q)
           r == Tail(q)
<1>1. /\ r \in Seq(Queued) /\ In(q, h)
      /\ \A f : f # h => (In(r, f) <=> In(q, f))
      /\ \A f : In(r, f) => In(q, f)
      /\ \A f : Once(q, f) => Once(r, f)
  BY Taken
<1> HIDE DEF h, r
<1>2. \A c : h # DoNext(c)
  BY DEF h
<1>3. OnceIn(r) /\ NextsIn(r) = NextsIn(q)
  BY <1>1, <1>2 DEF OnceIn, NextsIn
<1>4. HlsIn(r) \subseteq HlsIn(q)
  BY <1>1 DEF HlsIn
<1>5. \A c \in Cmds : (\A m \in BOOLEAN : h # DoHl(c, m)) => (c \in HlsIn(r) <=> c \in HlsIn(q))
  BY <1>1 DEF HlsIn
<1>6. \A c \in Cmds, m \in BOOLEAN : h = DoHl(c, m) => c \in HlsIn(q)
  BY <1>1 DEF HlsIn
<1> QED
  BY <1>1, <1>3, <1>4, <1>5, <1>6 DEF r, h

\* The next function is a step of c.
LEMMA StepTaken ==
  ASSUME EngineInv, NEW c \in Cmds, NextOf(c)
  PROVE  /\ Tail(doq) \in Seq(Queued) /\ OnceIn(Tail(doq)) /\ c \in Nexts
         /\ NextsIn(Tail(doq)) = Nexts \ {c} /\ HlsIn(Tail(doq)) = HlsIn(doq)
         /\ c \notin asked /\ Phase(c) # "over"
<1>1. doq \in Seq(Queued) /\ OnceIn(doq) /\ doq # <<>> /\ Head(doq) = DoNext(c)
  BY DEF EngineInv, EngineTypes, ResumeInv, NextOf
<1>2. /\ Tail(doq) \in Seq(Queued) /\ OnceIn(Tail(doq)) /\ c \in NextsIn(doq)
      /\ NextsIn(Tail(doq)) = NextsIn(doq) \ {c} /\ HlsIn(Tail(doq)) = HlsIn(doq)
  BY <1>1, NextTaken
<1>3. NextsIn(doq) = Nexts
  BY DEF Nexts
<1>4. c \in Nexts
  BY <1>2, <1>3
<1> QED
  BY <1>2, <1>3, <1>4 DEF EngineInv, ResumeInv

-----------------------------------------------------------------------------
(* The steps of the engine. *)

LEMMA PhaseTypes ==
  ASSUME EngineTypes, NEW c \in Cmds
  PROVE  Phase(c) \in Phases /\ at[c] \in Phases \X Nat /\ at[c] = <<Phase(c), at[c][2]>>
BY DEF EngineTypes, Phase

\* A step that does not touch the engine, but for functions of others in the queue.
LEMMA IdleKeeps ==
  ASSUME EngineInv, program' = program, hooked' = hooked, EngineTypes', OnceIn(doq)',
          Nexts' = Nexts,
         UNCHANGED <<at, seq, asked>>
  PROVE  EngineInv'
<1>1. \A c : Cmd(c)' = Cmd(c) /\ Starts(c)' = Starts(c) /\ \A k : Started(c, k)' = Started(c, k)
  BY SameProgram
<1>2. \A c : Phase(c)' = Phase(c)
  BY DEF Phase
<1>3. \A c : InChain(c)' <=> InChain(c)
  BY <1>1, <1>2 DEF InChain
<1>4. \A x : Coming(x)' => Coming(x)
  BY <1>1, <1>2 DEF Coming, Ahead
<1>5. \A x : Fresh(x)' <=> Fresh(x)
  BY DEF Fresh
<1>6. \A x : Running(x)' <=> Running(x)
  BY <1>2 DEF Running, Ended, Begun
<1>7. \A c, x : Current(c, x)' <=> Current(c, x)
  BY <1>1, <1>2 DEF Current
<1>8. PlacesInv'
  BY <1>1, <1>2, <1>3, <1>4, <1>5 DEF EngineInv, PlacesInv
<1>9. ResumeInv'
  BY <1>1, <1>2, <1>6, <1>7 DEF EngineInv, ResumeInv
<1> QED
  BY <1>8, <1>9 DEF EngineInv

LEMMA NoStepInv ==
  ASSUME EngineInv, NEW c \in Cmds, NoStep(c), hooked' = hooked
  PROVE  EngineInv' /\ Nexts' \subseteq Nexts
<1>1. /\ Tail(doq) \in Seq(Queued) /\ OnceIn(Tail(doq)) /\ c \in Nexts
      /\ NextsIn(Tail(doq)) = Nexts \ {c} /\ HlsIn(Tail(doq)) = HlsIn(doq)
      /\ c \notin asked /\ Phase(c) # "over"
  BY StepTaken DEF NoStep
<1>2. /\ program' = program /\ at' = at /\ ok' = ok /\ own' = own /\ asked' = asked
      /\ attrs' = attrs /\ seq' = seq /\ stale' = stale /\ clr' = clr /\ shown' = shown
      /\ doq' = Tail(doq)
  BY DEF NoStep, engineVars, hlVars
<1>3. EngineTypes'
  BY <1>1, <1>2 DEF EngineInv, EngineTypes
<1>4. Nexts' = Nexts \ {c} /\ OnceIn(doq)'
  BY <1>1, <1>2 DEF Nexts
<1>5. /\ Phase(c)' = Phase(c) /\ InChain(c) /\ (InChain(c)' <=> InChain(c))
      /\ \A k : \A i \in Nat : Ahead(c, k, i)' <=> Ahead(c, k, i)
  BY <1>2, SameProgram DEF EngineInv, PlacesInv, Phase, InChain, Ahead
<1>6. Running(c)' => Running(c)
  BY <1>4, <1>5 DEF Running, Ended, Begun
<1> QED
  BY <1>1, <1>2, <1>3, <1>4, <1>5, <1>6, MoveKeeps

\* The last step of c asks for its highlights.
LEMMA FinishQueue ==
  ASSUME NEW c, Finish(c), Tail(doq) \in Seq(Queued)
  PROVE  \/ ~ Cmd(c).hl /\ doq' = Tail(doq)
         \/ \E m \in BOOLEAN : doq' = Append(Tail(doq), DoHl(c, m))
<1>1. CASE ~ Cmd(c).hl
  BY <1>1 DEF Finish
<1>2. CASE Cmd(c).hl
  <2>1. doq' = Append(Tail(doq), DoHl(c, c \in attrs))
    BY <1>2 DEF Finish
  <2>2. CASE c \in attrs
    <3>1. (c \in attrs) = TRUE
      BY <2>2
    <3> QED
      BY <2>1, <3>1, Zenon
  <2>3. CASE c \notin attrs
    <3>1. (c \in attrs) = FALSE
      BY <2>3
    <3> QED
      BY <2>1, <3>1, Zenon
  <2> QED
    BY <2>2, <2>3
<1> QED
  BY <1>1, <1>2

LEMMA FinishInv ==
  ASSUME EngineInv, NEW c \in Cmds, Finish(c), hooked' = hooked
  PROVE  EngineInv' /\ Nexts' = Nexts \ {c}
<1>1. /\ Tail(doq) \in Seq(Queued) /\ OnceIn(Tail(doq)) /\ c \in Nexts
      /\ NextsIn(Tail(doq)) = Nexts \ {c} /\ HlsIn(Tail(doq)) = HlsIn(doq)
      /\ c \notin asked /\ Phase(c) # "over"
  BY StepTaken DEF Finish
<1>2. /\ program' = program /\ at' = [at EXCEPT ![c] = <<"over", 0>>] /\ ok' = ok /\ own' = own
      /\ asked' = asked /\ attrs' = attrs /\ seq' = seq
      /\ stale' = stale /\ clr' = clr /\ shown' = shown /\ Phase(c) = "cb"
  BY DEF Finish, hlVars
<1>3. doq' = Tail(doq) \/ \E m \in BOOLEAN : doq' = Append(Tail(doq), DoHl(c, m))
  BY <1>1, FinishQueue
<1>4. doq' \in Seq(Queued) /\ NextsIn(doq') = Nexts \ {c} /\ OnceIn(doq')
  <2>1. CASE doq' = Tail(doq)
    BY <1>1, <2>1
  <2>2. ASSUME NEW m \in BOOLEAN, doq' = Append(Tail(doq), DoHl(c, m))
        PROVE  doq' \in Seq(Queued) /\ NextsIn(doq') = Nexts \ {c} /\ OnceIn(doq')
    <3>1. DoHl(c, m) \in Queued /\ \A d : DoHl(c, m) # DoNext(d)
      BY DoFacts
    <3> QED
      BY <1>1, <2>2, <3>1, OtherAppended
  <2> QED
    BY <1>3, <2>1, <2>2
<1>5. Nexts' = Nexts \ {c} /\ OnceIn(doq)'
  BY <1>4 DEF Nexts
<1>6. at \in [Cmds -> Phases \X Nat]
  BY DEF EngineInv, EngineTypes
<1>7. at' \in [Cmds -> Phases \X Nat] /\ at'[c] = <<"over", 0>> /\ \A d \in Cmds \ {c} :
        at'[d] = at[d]
  BY <1>2, <1>6 DEF Phases
<1>8. EngineTypes'
  BY <1>2, <1>4, <1>7 DEF EngineInv, EngineTypes
<1>9. Phase(c)' = "over" /\ InChain(c)' /\ \A k : \A i \in Nat : ~ Ahead(c, k, i)'
  BY <1>7 DEF Phase, InChain, Ahead, Chains
<1>10. ~ Running(c)'
  BY <1>9 DEF Running, Ended
<1> QED
  BY <1>1, <1>2, <1>5, <1>7, <1>8, <1>9, <1>10, MoveKeeps

LEMMA ChunkInv ==
  ASSUME EngineInv, NEW c \in Cmds, Chunk(c), hooked' = hooked
  PROVE  EngineInv' /\ Nexts' = Nexts
<1>1. PICK m \in BOOLEAN :
        /\ program' = program /\ at' = at /\ ok' = ok /\ own' = own /\ asked' = asked
        /\ attrs' = attrs /\ seq' = seq /\ stale' = stale /\ clr' = clr /\ shown' = shown
        /\ doq' = Append(doq, DoHl(c, m))
  BY DEF Chunk, engineVars, hlVars
<1>2. DoHl(c, m) \in Queued /\ \A d : DoHl(c, m) # DoNext(d)
  BY DoFacts
<1>3. doq \in Seq(Queued) /\ OnceIn(doq)
  BY DEF EngineInv, EngineTypes, ResumeInv
<1>4. doq' \in Seq(Queued) /\ OnceIn(doq') /\ NextsIn(doq') = NextsIn(doq)
  BY <1>1, <1>2, <1>3, OtherAppended
<1>5. EngineTypes'
  BY <1>1, <1>4 DEF EngineInv, EngineTypes
<1>6. Nexts' = Nexts /\ OnceIn(doq)'
  BY <1>4 DEF Nexts
<1> QED
  BY <1>1, <1>5, <1>6, IdleKeeps

LEMMA ExecAnswerInv ==
  ASSUME EngineInv, NEW c \in Cmds, ExecAnswer(c), hooked' = hooked
  PROVE  EngineInv' /\ Nexts' = Nexts \cup {c} /\ Phase(c) = "f"
<1>1. /\ program' = program /\ at' = at /\ own' = own /\ asked' = asked \ {c} /\ c \in asked
      /\ seq' = seq /\ stale' = stale /\ clr' = clr /\ shown' = shown
      /\ doq' = Append(doq, DoNext(c))
  BY DEF ExecAnswer, hlVars
<1>2. PICK good \in BOOLEAN : ok' = [ok EXCEPT ![c] = good]
  BY DEF ExecAnswer
<1>3. attrs' \subseteq attrs \cup {c}
  BY DEF ExecAnswer
<1>4. doq \in Seq(Queued) /\ OnceIn(doq) /\ c \notin NextsIn(doq) /\ Phase(c) = "f"
  BY <1>1 DEF EngineInv, EngineTypes, PlacesInv, ResumeInv, Nexts
<1>5. doq' \in Seq(Queued) /\ OnceIn(doq') /\ NextsIn(doq') = NextsIn(doq) \cup {c}
  BY <1>1, <1>4, NextAppended
<1>6. EngineTypes'
  BY <1>1, <1>2, <1>3, <1>5 DEF EngineInv, EngineTypes
<1>7. Nexts' = Nexts \cup {c} /\ OnceIn(doq)'
  BY <1>5 DEF Nexts
<1>8. /\ Phase(c)' = Phase(c) /\ InChain(c) /\ (InChain(c)' <=> InChain(c))
      /\ \A k : \A i \in Nat : Ahead(c, k, i)' <=> Ahead(c, k, i)
  BY <1>1, SameProgram DEF EngineInv, PlacesInv, Phase, InChain, Ahead
<1>9. Running(c)
  BY <1>4 DEF Running, Ended, Begun
<1>10. Phase(c)' = "f"
  BY <1>4, <1>8
<1> QED
  BY <1>1, <1>4, <1>6, <1>7, <1>8, <1>9, <1>10, MoveKeeps

LEMMA NextSeqType == NextSeq \in Nat /\ NextSeq # 0
<1>1. IsFiniteSet({c \in Cmds : seq[c] # 0})
  BY NineoAssumption, FS_Subset
<1>2. Cardinality({c \in Cmds : seq[c] # 0}) \in Nat
  BY <1>1, FS_CardinalityType
<1> QED
  BY <1>2 DEF NextSeq

\* What Cmd.start does.
LEMMA StartFacts ==
  ASSUME EngineTypes, NEW x \in Cmds, NEW ats \in [Cmds -> Phases \X Nat],
         NEW oks \in [Cmds -> BOOLEAN], NEW q, Start(x, ats, oks, q)
  PROVE  /\ doq' = Append(q, DoNext(x))
         /\ at' \in [Cmds -> Phases \X Nat] /\ ok' \in [Cmds -> BOOLEAN] /\ seq' \in [Cmds -> Nat]
         /\ \A d \in Cmds \ {x} : at'[d] = ats[d] /\ ok'[d] = oks[d] /\ seq'[d] = seq[d]
         /\ \/ Cmd(x).bad /\ at'[x] = ats[x] /\ seq'[x] = seq[x]
            \/ ~ Cmd(x).bad /\ at'[x] = <<"new", 0>> /\ seq'[x] = NextSeq /\ seq'[x] # 0
<1>1. NextSeq \in Nat /\ NextSeq # 0
  BY NextSeqType
<1>2. <<"new", 0>> \in Phases \X Nat
  BY DEF Phases
<1>3. CASE Cmd(x).bad
  BY <1>3 DEF Start, EngineTypes
<1>4. CASE ~ Cmd(x).bad
  BY <1>1, <1>2, <1>4 DEF Start, EngineTypes
<1> QED
  BY <1>3, <1>4 DEF Start

\* x, which was not started, is started: by the step of c if C is {c}.
Launched(x, C) ==
  /\ x \in Cmds /\ x \notin C /\ Fresh(x)
  /\ HlsIn(doq') = HlsIn(doq) /\ Nexts' = (Nexts \ C) \cup {x}
  /\ \A d \in Cmds \ (C \cup {x}) : at'[d] = at[d] /\ ok'[d] = ok[d]
  /\ \A d \in Cmds \ {x} : seq'[d] = seq[d]
  /\ \A d \in Cmds : x \in Starts(d) <=> d \in C
  /\ \/ Cmd(x).bad /\ at'[x] = at[x] /\ seq'[x] = seq[x]
     \/ ~ Cmd(x).bad /\ Phase(x)' = "new" /\ seq'[x] = NextSeq /\ seq'[x] # 0

\* c starts x.
LaunchedBy(c, x) == Launched(x, {c})

\* The user runs x.
LEMMA StartTopInv ==
  ASSUME EngineInv, NEW x \in Cmds, StartTop(x), hooked' = hooked
  PROVE  EngineInv' /\ Launched(x, {}) /\ x \in program.top
<1>1. /\ x \in program.top /\ seq[x] = 0 /\ DoNext(x) \notin ToSet(doq) /\ Start(x, at, ok, doq)
      /\ program' = program /\ own' = own /\ asked' = asked /\ attrs' = attrs
      /\ stale' = stale /\ clr' = clr /\ shown' = shown
  BY DEF StartTop, hlVars
<1>2. EngineTypes /\ doq \in Seq(Queued) /\ OnceIn(doq) /\ program \in Programs
  BY DEF EngineInv, EngineTypes, ResumeInv
<1>3. Fresh(x) /\ x \notin NextsIn(doq)
  BY <1>1, <1>2, InToSet DEF Fresh, Nexts, NextsIn
<1>4. /\ doq' = Append(doq, DoNext(x))
      /\ at' \in [Cmds -> Phases \X Nat] /\ ok' \in [Cmds -> BOOLEAN] /\ seq' \in [Cmds -> Nat]
      /\ \A d \in Cmds \ {x} : at'[d] = at[d] /\ ok'[d] = ok[d] /\ seq'[d] = seq[d]
      /\ \/ Cmd(x).bad /\ at'[x] = at[x] /\ seq'[x] = seq[x]
         \/ ~ Cmd(x).bad /\ at'[x] = <<"new", 0>> /\ seq'[x] = NextSeq /\ seq'[x] # 0
  BY <1>1, <1>2, StartFacts DEF EngineTypes
<1>5. /\ doq' \in Seq(Queued) /\ OnceIn(doq') /\ NextsIn(doq') = NextsIn(doq) \cup {x}
      /\ HlsIn(doq') = HlsIn(doq)
  BY <1>2, <1>3, <1>4, NextAppended
<1>6. Nexts' = (Nexts \ {}) \cup {x} /\ OnceIn(doq)'
  BY <1>5 DEF Nexts
<1>7. EngineTypes'
  BY <1>1, <1>2, <1>4, <1>5 DEF EngineTypes
<1>8. /\ \A d \in Cmds, l \in Kinds : \A j \in 1..Len(Started(d, l)) : Started(d, l)[j] # x
      /\ \A j \in 1..Len(program.hooks) : program.hooks[j] # x
  BY <1>1, <1>2, OneTop
<1>9. \A d \in Cmds : x \notin Starts(d)
  BY <1>2, <1>8, StartsFacts
<1>10. ~ Coming(x)'
  BY <1>1, <1>8, SameProgram DEF Coming
<1>11. \/ at'[x] = at[x] /\ seq'[x] = seq[x]
       \/ Phase(x)' = "new" /\ seq'[x] # 0
  BY <1>4 DEF Phase
<1>12. hooked' >= hooked
  BY <1>2 DEF EngineTypes
<1>13. /\ {} \in SUBSET Cmds /\ x \notin {}
       /\ \A d \in Cmds \ ({} \cup {x}) : at'[d] = at[d]
       /\ \A d \in Cmds \ {x} : seq'[d] = seq[d]
       /\ \A c \in {} : /\ c \in Nexts /\ Phase(c) # "none" /\ ~ Ended(c) /\ Phase(c) # "dead"
                        /\ Phase(c)' # "none" /\ InChain(c)' /\ Current(c, x)'
                        /\ \A k : \A i \in Nat : Ahead(c, k, i)' => Ahead(c, k, i)
       /\ \A d \in Cmds : x \in Starts(d) => d \in {}
  BY <1>4, <1>9
<1>14. EngineInv'
  BY <1>1, <1>3, <1>6, <1>7, <1>10, <1>11, <1>12, <1>13, StartKeeps
<1>15. Launched(x, {})
  <2>1. \/ Cmd(x).bad /\ at'[x] = at[x] /\ seq'[x] = seq[x]
        \/ ~ Cmd(x).bad /\ Phase(x)' = "new" /\ seq'[x] = NextSeq /\ seq'[x] # 0
    BY <1>4 DEF Phase
  <2> QED
    BY <1>3, <1>4, <1>5, <1>6, <1>9, <2>1 DEF Launched
<1> QED
  BY <1>1, <1>14, <1>15

\* The hook runs its next command.
LEMMA HookInv ==
  ASSUME EngineInv, Hook
  PROVE  /\ EngineInv' /\ hooked' = hooked + 1
         /\ \E x \in Cmds : Launched(x, {}) /\ Coming(x) /\ x = program.hooks[hooked + 1]
<1>0. PICK x : x = program.hooks[hooked + 1]
  OBVIOUS
<1>1. /\ doq # <<>> /\ Head(doq).does = "hook" /\ hooked < Len(program.hooks)
      /\ hooked' = hooked + 1 /\ Start(x, at, ok, Tail(doq))
      /\ program' = program /\ own' = own /\ asked' = asked /\ attrs' = attrs
      /\ stale' = stale /\ clr' = clr /\ shown' = shown
  BY <1>0 DEF Hook, hlVars
<1>2. EngineTypes /\ doq \in Seq(Queued) /\ OnceIn(doq) /\ program \in Programs
  BY DEF EngineInv, EngineTypes, ResumeInv
<1>3. /\ hooked \in Nat /\ hooked' \in Nat /\ Len(program.hooks) \in Nat /\ hooked' > hooked
      /\ hooked + 1 \in 1..Len(program.hooks) /\ hooked' \in 0..Len(program.hooks) /\ x \in Cmds
  <2>1. program.hooks \in Seq(Cmds) /\ hooked \in 0..Len(program.hooks)
    BY <1>2, ProgramTypes DEF EngineTypes
  <2>2. /\ Len(program.hooks) \in Nat
        /\ \A i \in 1..Len(program.hooks) : program.hooks[i] \in Cmds
    BY <2>1
  <2> QED
    BY <1>0, <1>1, <2>1, <2>2
<1>4. \A c : Head(doq) # DoNext(c)
  BY <1>1 DEF DoNext, Do
<1>5. /\ Tail(doq) \in Seq(Queued) /\ OnceIn(Tail(doq)) /\ NextsIn(Tail(doq)) = NextsIn(doq)
      /\ HlsIn(Tail(doq)) = HlsIn(doq)
  <2>1. \A c, m : Head(doq) # DoHl(c, m)
    BY <1>1 DEF DoHl, Do
  <2>2. /\ Tail(doq) \in Seq(Queued) /\ OnceIn(Tail(doq)) /\ NextsIn(Tail(doq)) = NextsIn(doq)
        /\ HlsIn(Tail(doq)) \subseteq HlsIn(doq)
        /\ \A c \in Cmds : (\A m \in BOOLEAN : Head(doq) # DoHl(c, m)) =>
             (c \in HlsIn(Tail(doq)) <=> c \in HlsIn(doq))
    BY <1>1, <1>2, <1>4, OtherTaken
  <2> QED
    BY <2>1, <2>2 DEF HlsIn
<1>6. Coming(x)
  BY <1>0, <1>3 DEF Coming
<1>7. /\ \A d \in Cmds, l \in Kinds : \A j \in 1..Len(Started(d, l)) : Started(d, l)[j] # x
      /\ \A j \in 1..Len(program.hooks) : program.hooks[j] = x => j = hooked + 1
  BY <1>0, <1>2, <1>3, OneHook
<1>8. Fresh(x) /\ x \notin NextsIn(Tail(doq))
  BY <1>3, <1>5, <1>6 DEF EngineInv, PlacesInv, Fresh, Nexts
<1>9. /\ doq' = Append(Tail(doq), DoNext(x))
      /\ at' \in [Cmds -> Phases \X Nat] /\ ok' \in [Cmds -> BOOLEAN] /\ seq' \in [Cmds -> Nat]
      /\ \A d \in Cmds \ {x} : at'[d] = at[d] /\ ok'[d] = ok[d] /\ seq'[d] = seq[d]
      /\ \/ Cmd(x).bad /\ at'[x] = at[x] /\ seq'[x] = seq[x]
         \/ ~ Cmd(x).bad /\ at'[x] = <<"new", 0>> /\ seq'[x] = NextSeq /\ seq'[x] # 0
  BY <1>1, <1>2, <1>3, StartFacts DEF EngineTypes
<1>10. /\ doq' \in Seq(Queued) /\ OnceIn(doq') /\ NextsIn(doq') = NextsIn(doq) \cup {x}
       /\ HlsIn(doq') = HlsIn(doq)
  BY <1>3, <1>5, <1>8, <1>9, NextAppended
<1>11. Nexts' = (Nexts \ {}) \cup {x} /\ OnceIn(doq)'
  BY <1>10 DEF Nexts
<1>12. EngineTypes'
  BY <1>1, <1>2, <1>3, <1>9, <1>10 DEF EngineTypes
<1>13. \A d \in Cmds : x \notin Starts(d)
  BY <1>2, <1>7, StartsFacts
<1>14. ~ Coming(x)'
  <2>1. \A j \in 1..Len(program.hooks) : program.hooks[j] = x => ~ (j > hooked')
    BY <1>1, <1>3, <1>7
  <2> QED
    BY <1>1, <1>7, <2>1, SameProgram DEF Coming
<1>15. \/ at'[x] = at[x] /\ seq'[x] = seq[x]
       \/ Phase(x)' = "new" /\ seq'[x] # 0
  BY <1>9 DEF Phase
<1>16. hooked' >= hooked
  BY <1>3
<1>17. /\ {} \in SUBSET Cmds /\ x \notin {}
       /\ \A d \in Cmds \ ({} \cup {x}) : at'[d] = at[d]
       /\ \A d \in Cmds \ {x} : seq'[d] = seq[d]
       /\ \A c \in {} : /\ c \in Nexts /\ Phase(c) # "none" /\ ~ Ended(c) /\ Phase(c) # "dead"
                        /\ Phase(c)' # "none" /\ InChain(c)' /\ Current(c, x)'
                        /\ \A k : \A i \in Nat : Ahead(c, k, i)' => Ahead(c, k, i)
       /\ \A d \in Cmds : x \in Starts(d) => d \in {}
  BY <1>9, <1>13
<1>18. EngineInv'
  BY <1>1, <1>3, <1>8, <1>11, <1>12, <1>14, <1>15, <1>16, <1>17, StartKeeps
<1>19. Launched(x, {})
  <2>1. \/ Cmd(x).bad /\ at'[x] = at[x] /\ seq'[x] = seq[x]
        \/ ~ Cmd(x).bad /\ Phase(x)' = "new" /\ seq'[x] = NextSeq /\ seq'[x] # 0
    BY <1>9 DEF Phase
  <2> QED
    BY <1>3, <1>8, <1>9, <1>10, <1>11, <1>13, <2>1 DEF Launched
<1> QED
  BY <1>0, <1>1, <1>3, <1>6, <1>18, <1>19

\* What is ahead after the i-th command of chain k was ahead before.
Onward(c, k, i) ==
  \A l \in Chains : \A j \in Nat :
    (l = k /\ j > i) \/ (k \in {"all", "any"} /\ l = "each") => Ahead(c, l, j)

\* x is the i-th of the commands that c starts in the way k.
IsPlace(c, k, i, x) == i \in 1..Len(Started(c, k)) /\ x = Started(c, k)[i]

\* A step of c to the i-th of the commands that it starts in the way k.
GoesTo(c, k, i, p) ==
  \/ p = <<"f", 0>> /\ Phase(c) = "new" /\ Cmd(c).does = "debug" /\ k = "args"
  \/ p = <<k, i>> /\ k \in Chains /\ Onward(c, k, i)

\* Where a generator goes next, and that it has not been there.
LEMMA StepAfterFacts ==
  ASSUME EngineInv, NEW c \in Cmds, Phase(c) \in {"f"} \cup Chains, NEW p, p = StepAfter(c)
  PROVE  \/ p = <<"cb", 0>>
         \/ /\ p \in Chains \X Nat /\ p = <<p[1], p[2]>> /\ p[2] \in 1..Len(Started(c, p[1]))
            /\ Ahead(c, p[1], p[2])
            /\ Onward(c, p[1], p[2])
<1>1. program \in Programs /\ at[c][2] \in Nat /\ InChain(c)
  BY PhaseTypes DEF EngineInv, EngineTypes, PlacesInv
<1>2. \A k \in Chains : Chain(c, k) = Started(c, k) /\ Len(Started(c, k)) \in Nat
                        /\ (Started(c, k) # <<>> => 1 <= Len(Started(c, k)))
  BY <1>1, ChainIsStarted, StartedType DEF Kinds
<1>3. ASSUME NEW k \in Chains, NEW i \in Nat
      PROVE  \/ Beyond(c, k, i) = <<"cb", 0>>
             \/ Beyond(c, k, i) = <<k, i + 1>> /\ i + 1 <= Len(Started(c, k))
             \/ k # "each" /\ Beyond(c, k, i) = <<"each", 1>> /\ 1 <= Len(Started(c, "each"))
  BY <1>2 DEF Beyond, Chains
<1>4. Len(Chain(c, "all")) \in Nat /\ Len(Chain(c, "any")) \in Nat
  BY <1>2 DEF Chains
<1>5. CASE Phase(c) = "f"
  <2>1. PICK k \in {"all", "any"} : p = Beyond(c, k, 0)
    BY <1>5 DEF StepAfter
  <2>2. \/ p = <<"cb", 0>>
        \/ p = <<k, 0 + 1>> /\ 0 + 1 <= Len(Started(c, k))
        \/ p = <<"each", 1>> /\ 1 <= Len(Started(c, "each"))
    BY <1>3, <2>1 DEF Chains
  <2>3. p = <<"cb", 0>> \/ (p[1] \in Chains /\ p[2] = 1 /\ p = <<p[1], p[2]>>
          /\ 1 <= Len(Started(c, p[1])))
    BY <2>2 DEF Chains
  <2>4. \A k1 \in Chains : \A i : Ahead(c, k1, i)
    BY <1>5 DEF Ahead
  <2> QED
    BY <1>2, <2>3, <2>4 DEF Onward, Chains
<1>6. CASE Phase(c) = "all"
  <2>1. PICK i \in Nat : p = Beyond(c, "all", i) /\ (i = at[c][2] \/ i = Len(Started(c, "all")))
    BY <1>1, <1>2, <1>6 DEF StepAfter, Chains
  <2>2. \/ p = <<"cb", 0>>
        \/ p = <<"all", at[c][2] + 1>> /\ at[c][2] + 1 <= Len(Started(c, "all"))
        \/ p = <<"each", 1>> /\ 1 <= Len(Started(c, "each"))
    <3>1. \/ p = <<"cb", 0>>
          \/ p = <<"all", i + 1>> /\ i + 1 <= Len(Started(c, "all"))
          \/ p = <<"each", 1>> /\ 1 <= Len(Started(c, "each"))
      BY <1>3, <2>1 DEF Chains
    <3>2. Len(Started(c, "all")) \in Nat
      BY <1>2 DEF Chains
    <3>3. i + 1 <= Len(Started(c, "all")) => i = at[c][2]
      BY <2>1, <3>2
    <3> QED
      BY <3>1, <3>3
  <2> QED
    BY <1>1, <1>2, <1>6, <2>2 DEF Onward, Ahead, Chains
<1>7. CASE Phase(c) = "any"
  <2>1. PICK i \in Nat : p = Beyond(c, "any", i) /\ (i = at[c][2] \/ i = Len(Started(c, "any")))
    BY <1>1, <1>2, <1>7 DEF StepAfter, Chains
  <2>2. \/ p = <<"cb", 0>>
        \/ p = <<"any", at[c][2] + 1>> /\ at[c][2] + 1 <= Len(Started(c, "any"))
        \/ p = <<"each", 1>> /\ 1 <= Len(Started(c, "each"))
    <3>1. \/ p = <<"cb", 0>>
          \/ p = <<"any", i + 1>> /\ i + 1 <= Len(Started(c, "any"))
          \/ p = <<"each", 1>> /\ 1 <= Len(Started(c, "each"))
      BY <1>3, <2>1 DEF Chains
    <3>2. Len(Started(c, "any")) \in Nat
      BY <1>2 DEF Chains
    <3>3. i + 1 <= Len(Started(c, "any")) => i = at[c][2]
      BY <2>1, <3>2
    <3> QED
      BY <3>1, <3>3
  <2> QED
    BY SMTT(20), <1>1, <1>2, <1>7, <2>2 DEF Onward, Ahead, Chains
<1>8. CASE Phase(c) = "each"
  <2>1. p = Beyond(c, "each", at[c][2])
    BY <1>8 DEF StepAfter
  <2>2. \/ p = <<"cb", 0>>
        \/ p = <<"each", at[c][2] + 1>> /\ at[c][2] + 1 <= Len(Started(c, "each"))
    BY <1>1, <1>3, <2>1 DEF Chains
  <2> QED
    BY <1>1, <1>2, <1>8, <2>2 DEF Onward, Ahead, Chains
<1> QED
  BY <1>5, <1>6, <1>7, <1>8 DEF Chains

\* A step of c changes no other generator before it starts a command.
OnlyOf(c, ats, oks) == \A d \in Cmds \ {c} : ats[d] = at[d] /\ oks[d] = ok[d]

\* c starts what it has at a place it has not come to, and goes there.
LEMMA PlaceStarted ==
  ASSUME EngineInv, EngineTypes', program' = program, hooked' = hooked, asked' = asked,
         NEW c \in Cmds, c \in Nexts, Phase(c) \in {"new", "f"} \cup Chains,
         NEW k \in Kinds, NEW i \in Nat, NEW x, IsPlace(c, k, i, x), Ahead(c, k, i),
         NEW ats \in [Cmds -> Phases \X Nat], NEW oks \in [Cmds -> BOOLEAN], OnlyOf(c, ats, oks),
         NextsIn(Tail(doq)) = Nexts \ {c}, HlsIn(Tail(doq)) = HlsIn(doq),
         OnceIn(Tail(doq)), Tail(doq) \in Seq(Queued),
         Start(x, ats, oks, Tail(doq)),
         GoesTo(c, k, i, ats[c])
  PROVE  EngineInv' /\ LaunchedBy(c, x)
<1>1. EngineTypes /\ program \in Programs /\ hooked \in Nat /\ seq[c] # 0
  <2>1. EngineTypes /\ program \in Programs /\ hooked \in Nat
    <3>1. EngineTypes /\ program \in Programs /\ hooked \in 0..Len(program.hooks)
      BY DEF EngineInv, EngineTypes
    <3>2. Len(program.hooks) \in Nat
      BY <3>1, ProgramTypes
    <3> QED
      BY <3>1, <3>2
  <2>2. Phase(c) # "none"
    BY DEF Chains
  <2> QED
    BY <2>1, <2>2 DEF EngineInv, PlacesInv
<1>2. x \in Cmds
  BY <1>1, StartedType DEF IsPlace
<1>3. /\ doq' = Append(Tail(doq), DoNext(x))
      /\ at' \in [Cmds -> Phases \X Nat] /\ ok' \in [Cmds -> BOOLEAN] /\ seq' \in [Cmds -> Nat]
      /\ \A d \in Cmds \ {x} : at'[d] = ats[d] /\ ok'[d] = oks[d] /\ seq'[d] = seq[d]
      /\ \/ Cmd(x).bad /\ at'[x] = ats[x] /\ seq'[x] = seq[x]
         \/ ~ Cmd(x).bad /\ at'[x] = <<"new", 0>> /\ seq'[x] = NextSeq /\ seq'[x] # 0
  <2>1. /\ ats \in [Cmds -> Phases \X Nat] /\ oks \in [Cmds -> BOOLEAN]
        /\ Start(x, ats, oks, Tail(doq))
    OBVIOUS
  <2> QED
    BY <1>1, <1>2, <2>1, StartFacts
<1>4. Fresh(x)
  <2>1. Coming(x)
    BY DEF IsPlace, Coming
  <2> QED
    BY <1>2, <2>1 DEF EngineInv, PlacesInv
<1>5. x # c /\ x \notin NextsIn(Tail(doq))
  BY <1>1, <1>4 DEF Fresh
<1>6. /\ OnceIn(doq') /\ NextsIn(doq') = NextsIn(Tail(doq)) \cup {x}
      /\ HlsIn(doq') = HlsIn(Tail(doq))
  BY <1>2, <1>3, <1>5, NextAppended
<1>7. Nexts' = (Nexts \ {c}) \cup {x} /\ OnceIn(doq)'
  BY <1>6 DEF Nexts
<1>8. /\ \A d \in Cmds, l \in Kinds : \A j \in 1..Len(Started(d, l)) :
           Started(d, l)[j] = x => d = c /\ l = k /\ j = i
      /\ \A j \in 1..Len(program.hooks) : program.hooks[j] # x
  BY SMTT(20), <1>1, OnePlace DEF IsPlace
<1>9. /\ at'[c] = ats[c]
      /\ \A d \in Cmds \ ({c} \cup {x}) : at'[d] = at[d] /\ ok'[d] = ok[d]
  BY <1>3, <1>5 DEF OnlyOf
<1>10. ASSUME NEW d \in Cmds, x \in Starts(d) PROVE d \in {c}
  <2>1. PICK l \in Kinds : \E j \in 1..Len(Started(d, l)) : x = Started(d, l)[j]
    BY <1>1, <1>10, StartsFacts
  <2> QED
    BY <1>8, <2>1
<1>11. \A d, l : Started(d, l)' = Started(d, l) /\ Cmd(d)' = Cmd(d)
  BY SameProgram
<1>12. /\ Phase(c)' # "none" /\ InChain(c)' /\ Current(c, x)' /\ ~ Ahead(c, k, i)'
  <2>1. CASE ats[c] = <<"f", 0>> /\ Phase(c) = "new" /\ Cmd(c).does = "debug" /\ k = "args"
    <3>1. Phase(c)' = "f" /\ i = 1
      BY <1>1, <1>9, <2>1, DebugFacts DEF Phase, IsPlace
    <3> QED
      BY <1>11, <2>1, <3>1 DEF InChain, Current, Ahead, Chains, IsPlace
  <2>2. CASE ats[c] = <<k, i>> /\ k \in Chains
    <3>1. Phase(c)' = k /\ at'[c][2] = i /\ i \in Nat
      BY <1>9, <2>2 DEF Phase
    <3>2. ~ (i > i)
      OBVIOUS
    <3> QED
      BY <1>11, <2>2, <3>1, <3>2 DEF InChain, Current, Ahead, Chains, IsPlace
  <2> QED
    BY <2>1, <2>2 DEF GoesTo
<1>13. ASSUME NEW l, NEW j \in Nat, Ahead(c, l, j)' PROVE Ahead(c, l, j)
  <2>1. CASE Phase(c) = "new"
    BY <2>1 DEF Ahead
  <2>2. CASE ats[c] = <<k, i>> /\ k \in Chains /\ Onward(c, k, i)
    <3>1. Phase(c)' = k /\ at'[c][2] = i
      BY <1>9, <2>2 DEF Phase
    <3> QED
      BY <1>13, <2>2, <3>1 DEF Onward, Ahead, Chains
  <2> QED
    BY <2>1, <2>2 DEF GoesTo
<1>14. ~ Coming(x)'
  BY <1>8, <1>11, <1>12, SameProgram DEF Coming
<1>15. \/ at'[x] = at[x] /\ seq'[x] = seq[x]
       \/ Phase(x)' = "new" /\ seq'[x] # 0
  BY <1>2, <1>3, <1>5 DEF Phase, OnlyOf
<1>16. /\ {c} \in SUBSET Cmds /\ x \notin {c} /\ hooked' >= hooked
       /\ \A d \in Cmds \ {x} : seq'[d] = seq[d]
       /\ \A d \in Cmds : x \in Starts(d) => d \in {c}
  BY <1>1, <1>3, <1>5, <1>10
<1>17. Phase(c) # "none" /\ ~ Ended(c) /\ Phase(c) # "dead"
  BY DEF Ended, Chains
<1>18. \A d \in {c} : /\ d \in Nexts /\ Phase(d) # "none" /\ ~ Ended(d) /\ Phase(d) # "dead"
                      /\ Phase(d)' # "none" /\ InChain(d)' /\ Current(d, x)'
                      /\ \A l : \A j \in Nat : Ahead(d, l, j)' => Ahead(d, l, j)
  BY <1>12, <1>13, <1>17
<1>19. EngineInv'
  BY <1>2, <1>4, <1>7, <1>9, <1>14, <1>15, <1>16, <1>18, StartKeeps
<1>20. LaunchedBy(c, x)
  <2>1. \/ Cmd(x).bad /\ at'[x] = at[x] /\ seq'[x] = seq[x]
        \/ ~ Cmd(x).bad /\ Phase(x)' = "new" /\ seq'[x] = NextSeq /\ seq'[x] # 0
    BY <1>2, <1>3, <1>5 DEF Phase, OnlyOf
  <2>2. x \in Starts(c)
    BY <1>1, StartsFacts DEF IsPlace
  <2> QED
    BY <1>2, <1>3, <1>4, <1>5, <1>6, <1>7, <1>9, <1>10, <2>1, <2>2 DEF Launched, LaunchedBy
<1> QED
  BY <1>19, <1>20

LEMMA ResultType == ASSUME EngineInv, NEW c \in Cmds PROVE Result(c) \in BOOLEAN
<1>1. EngineTypes /\ program \in Programs
  BY DEF EngineInv, EngineTypes
<1>2. CASE Phase(c) \in {"all", "any"}
  <2>1. Chain(c, Phase(c))[at[c][2]] \in Cmds
    BY <1>1, <1>2, ChainIsStarted, StartedType, SMTT(30)
       DEF EngineInv, PlacesInv, InChain, Chains, Kinds
  <2> QED
    BY <1>1, <1>2, <2>1 DEF Result, EngineTypes
<1>3. CASE Phase(c) \notin {"all", "any"}
  BY <1>1, <1>3 DEF Result, EngineTypes
<1> QED
  BY <1>2, <1>3

\* c goes on to the next command of its chain.
LEMMA ContinueChainInv ==
  ASSUME EngineInv, NEW c \in Cmds, ContinueChain(c), hooked' = hooked
  PROVE  /\ EngineInv'
         /\ \E x \in Cmds, k \in Chains, i \in Nat :
              /\ IsPlace(c, k, i, x) /\ Ahead(c, k, i) /\ LaunchedBy(c, x)
              /\ StepAfter(c) = <<k, i>> /\ at'[c] = <<k, i>> /\ ok'[c] = Result(c)
<1>1. /\ Tail(doq) \in Seq(Queued) /\ OnceIn(Tail(doq)) /\ c \in Nexts
      /\ NextsIn(Tail(doq)) = Nexts \ {c} /\ HlsIn(Tail(doq)) = HlsIn(doq)
      /\ c \notin asked /\ Phase(c) # "over"
  BY StepTaken DEF ContinueChain
<1>2. PICK p : p = StepAfter(c)
  OBVIOUS
<1>3. /\ Phase(c) \in {"f"} \cup Chains /\ p[1] \in Chains
      /\ Start(Chain(c, p[1])[p[2]], [at EXCEPT ![c] = p], [ok EXCEPT ![c] = Result(c)], Tail(doq))
      /\ program' = program /\ asked' = asked /\ attrs' = attrs
      /\ stale' = stale /\ clr' = clr /\ shown' = shown
      /\ own' = IF Phase(c) = "f" THEN [own EXCEPT ![c] = ok[c]] ELSE own
  BY <1>2 DEF ContinueChain, hlVars
<1>4. /\ p \in Chains \X Nat /\ p = <<p[1], p[2]>> /\ p[2] \in 1..Len(Started(c, p[1]))
      /\ Ahead(c, p[1], p[2]) /\ Onward(c, p[1], p[2])
  <2>1. p # <<"cb", 0>>
    BY <1>3 DEF Chains
  <2> QED
    BY <1>2, <1>3, <2>1, StepAfterFacts
<1>5. EngineTypes /\ program \in Programs
  BY DEF EngineInv, EngineTypes
<1>6. PICK ats : ats = [at EXCEPT ![c] = p]
  OBVIOUS
<1>7. ats \in [Cmds -> Phases \X Nat] /\ ats[c] = p /\ \A d \in Cmds \ {c} : ats[d] = at[d]
  BY <1>4, <1>5, <1>6 DEF EngineTypes, Phases
<1>8. Result(c) \in BOOLEAN
  BY ResultType
<1>9. PICK oks : oks = [ok EXCEPT ![c] = Result(c)]
  OBVIOUS
<1>10. /\ oks \in [Cmds -> BOOLEAN] /\ oks[c] = Result(c)
       /\ \A d \in Cmds \ {c} : oks[d] = ok[d]
  BY <1>5, <1>8, <1>9 DEF EngineTypes
<1>11. PICK k \in Kinds, i \in Nat : k = p[1] /\ i = p[2]
  BY <1>4 DEF Kinds
<1>12. PICK x : x = Started(c, k)[i]
  OBVIOUS
<1>13. Chain(c, p[1])[p[2]] = x /\ IsPlace(c, k, i, x) /\ x \in Cmds
  BY <1>3, <1>4, <1>5, <1>11, <1>12, ChainIsStarted, StartedType DEF IsPlace
<1>14. /\ EngineTypes /\ x \in Cmds /\ ats \in [Cmds -> Phases \X Nat]
       /\ oks \in [Cmds -> BOOLEAN] /\ Start(x, ats, oks, Tail(doq))
  BY <1>3, <1>5, <1>6, <1>7, <1>9, <1>13, <1>10
<1>15. /\ doq' = Append(Tail(doq), DoNext(x))
       /\ at' \in [Cmds -> Phases \X Nat] /\ ok' \in [Cmds -> BOOLEAN] /\ seq' \in [Cmds -> Nat]
       /\ \A d \in Cmds \ {x} : at'[d] = ats[d] /\ ok'[d] = oks[d] /\ seq'[d] = seq[d]
       /\ \/ Cmd(x).bad /\ at'[x] = ats[x] /\ seq'[x] = seq[x]
          \/ ~ Cmd(x).bad /\ at'[x] = <<"new", 0>> /\ seq'[x] = NextSeq /\ seq'[x] # 0
  BY <1>14, StartFacts
<1>16. DoNext(x) \in Queued
  BY <1>13, DoFacts
<1>17. own' \in [Cmds -> BOOLEAN] /\ doq' \in Seq(Queued)
  BY <1>1, <1>3, <1>5, <1>15, <1>16 DEF EngineTypes
<1>18. EngineTypes'
  BY <1>3, <1>5, <1>15, <1>17 DEF EngineTypes
<1>19. Ahead(c, k, i) /\ Phase(c) \in {"new", "f"} \cup Chains /\ GoesTo(c, k, i, ats[c])
  BY <1>3, <1>4, <1>7, <1>11 DEF GoesTo
<1>20. EngineInv' /\ LaunchedBy(c, x)
  <2>1. /\ EngineTypes' /\ program' = program /\ hooked' = hooked /\ asked' = asked
        /\ c \in Nexts /\ Phase(c) \in {"new", "f"} \cup Chains
        /\ IsPlace(c, k, i, x) /\ Ahead(c, k, i)
    BY <1>1, <1>3, <1>13, <1>18, <1>19
  <2>2. OnlyOf(c, ats, oks)
    BY <1>7, <1>10 DEF OnlyOf
  <2>3. /\ NextsIn(Tail(doq)) = Nexts \ {c} /\ HlsIn(Tail(doq)) = HlsIn(doq)
        /\ OnceIn(Tail(doq)) /\ Tail(doq) \in Seq(Queued)
    BY <1>1
  <2>4. /\ ats \in [Cmds -> Phases \X Nat] /\ oks \in [Cmds -> BOOLEAN]
        /\ Start(x, ats, oks, Tail(doq)) /\ GoesTo(c, k, i, ats[c])
    BY <1>14, <1>19
  <2> QED
    BY <2>1, <2>2, <2>3, <2>4, PlaceStarted
<1>21. at'[c] = ats[c] /\ ok'[c] = oks[c]
  BY <1>15, <1>20 DEF LaunchedBy, Launched
<1>22. k \in Chains /\ StepAfter(c) = <<k, i>> /\ at'[c] = <<k, i>>
  BY <1>2, <1>3, <1>4, <1>7, <1>11, <1>21
<1> QED
  BY <1>13, <1>19, <1>10, <1>20, <1>21, <1>22

\* The function of c is called.
LEMMA BeginInv ==
  ASSUME EngineInv, NEW c \in Cmds, Begin(c), hooked' = hooked
  PROVE  /\ EngineInv' /\ Phase(c)' \in {"f", "dead"}
         /\ Phase(c)' = "dead" => Cmd(c).does = "raise"
         /\ \/ /\ HlsIn(doq') = HlsIn(doq) /\ seq' = seq /\ Nexts' \subseteq Nexts
               /\ \A d \in Cmds \ {c} : at'[d] = at[d] /\ ok'[d] = ok[d]
               /\ Cmd(c).does # "debug"
            \/ /\ \E x \in Cmds : LaunchedBy(c, x) /\ Coming(x)
               /\ Cmd(c).does = "debug" /\ asked' = asked
<1>1. /\ Tail(doq) \in Seq(Queued) /\ OnceIn(Tail(doq)) /\ c \in Nexts
      /\ NextsIn(Tail(doq)) = Nexts \ {c} /\ HlsIn(Tail(doq)) = HlsIn(doq)
      /\ c \notin asked /\ Phase(c) # "over"
  BY StepTaken DEF Begin
<1>2. /\ Phase(c) = "new" /\ program' = program /\ own' = own /\ attrs' = attrs
      /\ stale' = stale /\ clr' = clr /\ shown' = shown
  BY DEF Begin, hlVars
<1>3. EngineTypes /\ program \in Programs
  BY DEF EngineInv, EngineTypes
<1>4. Running(c)
  BY <1>2 DEF Running, Ended, Begun
<1>5. Cmd(c).does \in Functions
  BY <1>3, ProgramTypes DEF Definitions
<1>6. \A p \in {<<"f", 0>>, <<"dead", 0>>} : [at EXCEPT ![c] = p] \in [Cmds -> Phases \X Nat]
  BY <1>3 DEF EngineTypes, Phases
<1>7. ASSUME NEW p \in {<<"f", 0>>, <<"dead", 0>>}, at' = [at EXCEPT ![c] = p]
      PROVE  /\ at' \in [Cmds -> Phases \X Nat] /\ at'[c] = p /\ Phase(c)' = p[1]
             /\ \A d \in Cmds \ {c} : at'[d] = at[d]
             /\ InChain(c)' /\ Phase(c)' # "none" /\ Phase(c)' # "over"
             /\ \A k : \A i \in Nat : Ahead(c, k, i)' => Ahead(c, k, i)
  <2>1. /\ at' \in [Cmds -> Phases \X Nat] /\ at'[c] = p
        /\ \A d \in Cmds \ {c} : at'[d] = at[d]
    BY <1>3, <1>6, <1>7 DEF EngineTypes
  <2>2. Phase(c)' = p[1] /\ p[1] \in {"f", "dead"}
    BY <2>1 DEF Phase
  <2> QED
    BY <1>2, <2>1, <2>2 DEF InChain, Ahead, Chains
<1>8. CASE Cmd(c).does = "exec"
  <2>1. /\ asked' = asked \cup {c} /\ at' = [at EXCEPT ![c] = <<"f", 0>>] /\ doq' = Tail(doq)
        /\ ok' = ok /\ seq' = seq
    BY <1>8 DEF Begin
  <2>2. /\ at' \in [Cmds -> Phases \X Nat] /\ Phase(c)' = "f"
        /\ \A d \in Cmds \ {c} : at'[d] = at[d]
        /\ InChain(c)' /\ Phase(c)' # "none" /\ Phase(c)' # "over"
        /\ \A k : \A i \in Nat : Ahead(c, k, i)' => Ahead(c, k, i)
    BY <1>7, <2>1
  <2>3. EngineTypes'
    BY <1>1, <1>2, <1>3, <2>1, <2>2 DEF EngineTypes
  <2>4. Nexts' = Nexts \ {c} /\ OnceIn(doq)'
    BY <1>1, <2>1 DEF Nexts
  <2> QED
    BY <1>1, <1>2, <1>4, <1>8, <2>1, <2>2, <2>3, <2>4, MoveKeeps, Zenon
<1>9. CASE Cmd(c).does = "raise"
  <2>1. /\ asked' = asked /\ at' = [at EXCEPT ![c] = <<"dead", 0>>] /\ doq' = Tail(doq)
        /\ ok' = ok /\ seq' = seq
    BY <1>9 DEF Begin
  <2>2. /\ at' \in [Cmds -> Phases \X Nat] /\ Phase(c)' = "dead"
        /\ \A d \in Cmds \ {c} : at'[d] = at[d]
        /\ InChain(c)' /\ Phase(c)' # "none" /\ Phase(c)' # "over"
        /\ \A k : \A i \in Nat : Ahead(c, k, i)' => Ahead(c, k, i)
    BY <1>7, <2>1
  <2>3. EngineTypes'
    BY <1>1, <1>2, <1>3, <2>1, <2>2 DEF EngineTypes
  <2>4. Nexts' = Nexts \ {c} /\ OnceIn(doq)'
    BY <1>1, <2>1 DEF Nexts
  <2> QED
    BY <1>1, <1>2, <1>4, <1>9, <2>1, <2>2, <2>3, <2>4, MoveKeeps, Zenon
<1>10. CASE Cmd(c).does = "debug"
  <2>1. Start(Cmd(c).args[1], [at EXCEPT ![c] = <<"f", 0>>], ok, Tail(doq)) /\ asked' = asked
    BY <1>10 DEF Begin
  <2>2. PICK ats : ats = [at EXCEPT ![c] = <<"f", 0>>]
    OBVIOUS
  <2>3. ats \in [Cmds -> Phases \X Nat] /\ ats[c] = <<"f", 0>> /\ \A d \in Cmds \ {c} :
          ats[d] = at[d]
    BY <1>3, <1>6, <2>2 DEF EngineTypes
  <2>4. PICK x : x = Started(c, "args")[1]
    OBVIOUS
  <2>5. IsPlace(c, "args", 1, x) /\ x = Cmd(c).args[1] /\ x \in Cmds /\ "args" \in Kinds
    <3>1. Len(Started(c, "args")) = 1 /\ Started(c, "args")[1] = Cmd(c).args[1]
      BY <1>3, <1>10, DebugFacts
    <3>2. "args" \in Kinds
      BY DEF Kinds
    <3>3. \A i \in 1..Len(Started(c, "args")) : Started(c, "args")[i] \in Cmds
      BY <1>3, <3>2, StartedType
    <3> QED
      BY <2>4, <3>1, <3>2, <3>3 DEF IsPlace
  <2>6. /\ EngineTypes /\ x \in Cmds /\ ats \in [Cmds -> Phases \X Nat]
        /\ ok \in [Cmds -> BOOLEAN] /\ Start(x, ats, ok, Tail(doq))
    BY <1>3, <2>1, <2>2, <2>3, <2>5 DEF EngineTypes
  <2>7. /\ doq' = Append(Tail(doq), DoNext(x))
        /\ at' \in [Cmds -> Phases \X Nat] /\ ok' \in [Cmds -> BOOLEAN] /\ seq' \in [Cmds -> Nat]
        /\ \A d \in Cmds \ {x} : at'[d] = ats[d] /\ ok'[d] = ok[d] /\ seq'[d] = seq[d]
        /\ \/ Cmd(x).bad /\ at'[x] = ats[x] /\ seq'[x] = seq[x]
           \/ ~ Cmd(x).bad /\ at'[x] = <<"new", 0>> /\ seq'[x] = NextSeq /\ seq'[x] # 0
    BY <2>6, StartFacts
  <2>8. DoNext(x) \in Queued
    BY <2>5, DoFacts
  <2>9. EngineTypes'
    BY <1>1, <1>2, <1>3, <2>1, <2>7, <2>8, SMTT(30) DEF EngineTypes
  <2>10. Ahead(c, "args", 1) /\ Phase(c) \in {"new", "f"} \cup Chains
           /\ GoesTo(c, "args", 1, ats[c])
    BY <1>2, <1>10, <2>3 DEF Ahead, GoesTo
  <2>11. OnlyOf(c, ats, ok)
    BY <2>3 DEF OnlyOf
  <2>12. /\ NextsIn(Tail(doq)) = Nexts \ {c} /\ HlsIn(Tail(doq)) = HlsIn(doq)
         /\ OnceIn(Tail(doq)) /\ Tail(doq) \in Seq(Queued)
    BY <1>1
  <2>13. EngineInv' /\ LaunchedBy(c, x)
    BY <1>1, <1>2, <2>1, <2>3, <2>5, <2>6, <2>9, <2>10, <2>11, <2>12, PlaceStarted
  <2>14. Coming(x) /\ Phase(c)' = "f"
    BY <2>3, <2>5, <2>7, <2>10, <2>13 DEF Coming, IsPlace, Phase, LaunchedBy, Launched
  <2> QED
    BY <1>10, <2>1, <2>5, <2>13, <2>14
<1>11. CASE Cmd(c).does \in {"done", "fail", "all", "any", "each"}
  <2>1. /\ ok' = [ok EXCEPT ![c] = BuiltinOk(c)] /\ at' = [at EXCEPT ![c] = <<"f", 0>>]
        /\ doq' = Append(Tail(doq), DoNext(c)) /\ seq' = seq /\ asked' = asked
    BY <1>11 DEF Begin
  <2>2. /\ at' \in [Cmds -> Phases \X Nat] /\ Phase(c)' = "f"
        /\ \A d \in Cmds \ {c} : at'[d] = at[d]
        /\ InChain(c)' /\ Phase(c)' # "none" /\ Phase(c)' # "over"
        /\ \A k : \A i \in Nat : Ahead(c, k, i)' => Ahead(c, k, i)
    BY <1>7, <2>1
  <2>3. BuiltinOk(c) \in BOOLEAN
    BY DEF BuiltinOk
  <2>4. doq' \in Seq(Queued) /\ OnceIn(doq') /\ NextsIn(doq') = (Nexts \ {c}) \cup {c}
    BY <1>1, <2>1, NextAppended
  <2>5. EngineTypes'
    BY <1>1, <1>2, <1>3, <2>1, <2>2, <2>3, <2>4 DEF EngineTypes
  <2>6. Nexts' \subseteq Nexts \cup {c} /\ OnceIn(doq)'
    BY <2>4 DEF Nexts
  <2>7. EngineInv'
    BY <1>1, <1>2, <1>4, <2>1, <2>2, <2>5, <2>6, MoveKeeps
  <2>8. HlsIn(doq') = HlsIn(doq)
    BY <1>1, <2>1, NextAppended
  <2>9. \A d \in Cmds \ {c} : ok'[d] = ok[d]
    BY <1>3, <2>1 DEF EngineTypes
  <2> QED
    BY <1>1, <1>11, <2>1, <2>2, <2>6, <2>7, <2>8, <2>9
<1> QED
  BY <1>5, <1>8, <1>9, <1>10, <1>11 DEF Functions, Chains

\* There is at most one command that c was started by.
LEMMA OneParent ==
  ASSUME program \in Programs, NEW x \in Cmds, NEW c \in Cmds, x \in Starts(c)
  PROVE  ParentsOf(x) = {c}
<1>1. PICK k \in Kinds : \E i \in 1..Len(Started(c, k)) : x = Started(c, k)[i]
  BY StartsFacts
<1>2. PICK i \in 1..Len(Started(c, k)) : x = Started(c, k)[i]
  BY <1>1
<1>3. \A d \in Cmds, l \in Kinds : \A j \in 1..Len(Started(d, l)) : Started(d, l)[j] = x => d = c
  BY <1>2, OnePlace
<1>4. ASSUME NEW d \in Cmds, x \in Starts(d) PROVE d = c
  <2>1. PICK l \in Kinds : \E j \in 1..Len(Started(d, l)) : x = Started(d, l)[j]
    BY <1>4, StartsFacts
  <2> QED
    BY <1>3, <2>1
<1> QED
  BY <1>4 DEF ParentsOf

LEMMA AppendedTwo ==
  ASSUME NEW S, NEW q \in Seq(S), NEW e \in S, NEW f \in S
  PROVE  q \o (<<e>> \o <<f>>) = Append(Append(q, e), f)
OBVIOUS

\* Whom the callback of c puts into the queue.
LEMMA CallbackQueue ==
  ASSUME EngineInv, NEW c \in Cmds, Callback(c)
  PROVE  /\ doq' \in Seq(Queued) /\ OnceIn(doq') /\ HlsIn(doq') = HlsIn(doq)
         /\ NextsIn(doq') = Nexts \cup {d \in Cmds : c \in Starts(d)}
         /\ \/ doq' = Append(Tail(doq), DoNext(c))
            \/ \E d \in Cmds : doq' = Append(Append(Tail(doq), DoNext(c)), DoNext(d))
<1>1. /\ Tail(doq) \in Seq(Queued) /\ OnceIn(Tail(doq)) /\ c \in Nexts
      /\ NextsIn(Tail(doq)) = Nexts \ {c} /\ HlsIn(Tail(doq)) = HlsIn(doq)
  BY StepTaken DEF Callback
<1>2. /\ Phase(c) \in {"f"} \cup Chains /\ program \in Programs
      /\ doq' = Tail(doq) \o (<<DoNext(c)>> \o SetToSeq({DoNext(p) : p \in ParentsOf(c)}))
  BY DEF Callback, CallbackResumes, EngineInv, EngineTypes
<1>3. PICK q : q = Append(Tail(doq), DoNext(c))
  OBVIOUS
<1>4. /\ q \in Seq(Queued) /\ OnceIn(q) /\ HlsIn(q) = HlsIn(doq) /\ NextsIn(q) = Nexts
  <2>1. c \notin NextsIn(Tail(doq))
    BY <1>1
  <2> QED
    <3>1. /\ q \in Seq(Queued) /\ OnceIn(q) /\ HlsIn(q) = HlsIn(Tail(doq))
          /\ NextsIn(q) = NextsIn(Tail(doq)) \cup {c}
      BY <1>1, <1>3, <2>1, NextAppended
    <3> QED
      BY <1>1, <3>1
<1>5. DoNext(c) \in Queued
  BY DoFacts
<1>6. CASE ParentsOf(c) = {}
  <2>1. {DoNext(p) : p \in ParentsOf(c)} = {}
    BY <1>6
  <2>2. SetToSeq({DoNext(p) : p \in ParentsOf(c)}) = <<>>
    BY <2>1, OneToSeq
  <2>3. doq' = q
    BY <1>1, <1>2, <1>3, <1>5, <2>2
  <2> QED
    BY <1>3, <1>4, <1>6, <2>3 DEF ParentsOf
<1>7. ASSUME NEW d \in Cmds, c \in Starts(d)
      PROVE  /\ doq' \in Seq(Queued) /\ OnceIn(doq') /\ HlsIn(doq') = HlsIn(doq)
             /\ NextsIn(doq') = Nexts \cup {e \in Cmds : c \in Starts(e)}
             /\ doq' = Append(Append(Tail(doq), DoNext(c)), DoNext(d))
  <2>1. ParentsOf(c) = {d}
    BY <1>2, <1>7, OneParent
  <2>2. Running(c)
    BY <1>2 DEF Running, Ended, Begun, Chains
  <2>3. d \notin Nexts
    BY <1>7, <2>2 DEF EngineInv, ResumeInv
  <2>4. {DoNext(p) : p \in ParentsOf(c)} = {DoNext(d)}
    BY <2>1
  <2>5. SetToSeq({DoNext(p) : p \in ParentsOf(c)}) = <<DoNext(d)>>
    BY <2>4, OneToSeq
  <2>6. DoNext(d) \in Queued
    BY DoFacts
  <2>7. doq' = Append(q, DoNext(d))
    <3>1. Tail(doq) \o (<<DoNext(c)>> \o <<DoNext(d)>>)
            = Append(Append(Tail(doq), DoNext(c)), DoNext(d))
      BY <1>1, <1>5, <2>6, AppendedTwo
    <3>2. doq' = Tail(doq) \o (<<DoNext(c)>> \o <<DoNext(d)>>)
      BY <1>2, <2>5, Zenon
    <3> QED
      BY <1>3, <3>1, <3>2, Zenon
  <2>8. doq' \in Seq(Queued) /\ OnceIn(doq') /\ HlsIn(doq') = HlsIn(q)
          /\ NextsIn(doq') = NextsIn(q) \cup {d}
    BY <1>4, <2>3, <2>7, NextAppended
  <2> QED
    BY <1>3, <1>4, <2>1, <2>7, <2>8 DEF ParentsOf
<1> QED
  BY <1>6, <1>7 DEF ParentsOf

LEMMA CallbackInv ==
  ASSUME EngineInv, NEW c \in Cmds, Callback(c), hooked' = hooked PROVE EngineInv'
<1>1. /\ doq' \in Seq(Queued) /\ OnceIn(doq') /\ HlsIn(doq') = HlsIn(doq)
      /\ NextsIn(doq') = Nexts \cup {d \in Cmds : c \in Starts(d)}
  BY CallbackQueue
<1>2. /\ Phase(c) \in {"f"} \cup Chains /\ at' = [at EXCEPT ![c] = <<"cb", 0>>]
      /\ program' = program /\ asked' = asked /\ attrs' = attrs /\ seq' = seq
      /\ stale' = stale /\ clr' = clr /\ shown' = shown
      /\ own' = IF Phase(c) = "f" THEN [own EXCEPT ![c] = ok[c]] ELSE own
  BY DEF Callback, hlVars
<1>3. EngineTypes /\ c \in Nexts
  BY StepTaken DEF Callback, EngineInv
<1>4. Result(c) \in BOOLEAN
  BY ResultType
<1>5. ok' \in [Cmds -> BOOLEAN]
  <2>1. PICK p : p = CHOOSE d \in ParentsOf(c) : TRUE
    OBVIOUS
  <2>2. ok' = [ok EXCEPT ![c] = Result(c), ![p] = Result(c)] \/ ok' = [ok EXCEPT ![c] = Result(c)]
    BY <2>1 DEF Callback
  <2> QED
    BY <1>3, <1>4, <2>2 DEF EngineTypes
<1>6. /\ at' \in [Cmds -> Phases \X Nat] /\ at'[c] = <<"cb", 0>>
      /\ \A d \in Cmds \ {c} : at'[d] = at[d]
  BY <1>2, <1>3 DEF EngineTypes, Phases
<1>7. own' \in [Cmds -> BOOLEAN]
  BY <1>2, <1>3 DEF EngineTypes
<1>8. EngineTypes'
  BY <1>1, <1>2, <1>3, <1>5, <1>6, <1>7 DEF EngineTypes
<1>9. Running(c) /\ Phase(c) # "none"
  BY <1>2 DEF Running, Ended, Begun, Chains
<1>10. Phase(c)' = "cb"
  BY <1>6 DEF Phase
<1>11. Nexts' = Nexts \cup {d \in Cmds : c \in Starts(d)} /\ OnceIn(doq)'
  BY <1>1 DEF Nexts
<1> QED
  BY <1>2, <1>3, <1>6, <1>8, <1>9, <1>10, <1>11, CallbackKeeps

LEMMA HlTaken ==
  ASSUME EngineInv, NEW c, NEW m, HlOf(c, m)
  PROVE  /\ Tail(doq) \in Seq(Queued) /\ OnceIn(Tail(doq)) /\ NextsIn(Tail(doq)) = Nexts
         /\ HlsIn(Tail(doq)) \subseteq HlsIn(doq)
         /\ HlsIn(doq) \ {c} \subseteq HlsIn(Tail(doq))
         /\ c \in Cmds /\ m \in BOOLEAN => c \in HlsIn(doq)
<1>1. doq \in Seq(Queued) /\ OnceIn(doq) /\ doq # <<>> /\ Head(doq) = DoHl(c, m)
  BY DEF EngineInv, EngineTypes, ResumeInv, HlOf
<1>2. (\A d : Head(doq) # DoNext(d)) /\ \A d, l : Head(doq) = DoHl(d, l) => d = c
  BY <1>1, DoFacts
<1>3. /\ Tail(doq) \in Seq(Queued) /\ OnceIn(Tail(doq)) /\ NextsIn(Tail(doq)) = NextsIn(doq)
      /\ HlsIn(Tail(doq)) \subseteq HlsIn(doq)
      /\ \A d \in Cmds : (\A l \in BOOLEAN : Head(doq) # DoHl(d, l)) =>
           (d \in HlsIn(Tail(doq)) <=> d \in HlsIn(doq))
      /\ \A d \in Cmds, l \in BOOLEAN : Head(doq) = DoHl(d, l) => d \in HlsIn(doq)
  BY <1>1, <1>2, OtherTaken
<1>4. HlsIn(doq) \ {c} \subseteq HlsIn(Tail(doq))
  BY <1>2, <1>3 DEF HlsIn
<1> QED
  BY <1>1, <1>3, <1>4 DEF Nexts

LEMMA HlInvKept ==
  ASSUME EngineInv, NEW c \in Cmds, NEW m \in BOOLEAN, HlSkip(c, m) \/ HlReport(c, m),
          hooked' = hooked
  PROVE  EngineInv' /\ Nexts' = Nexts
<1>1. /\ Tail(doq) \in Seq(Queued) /\ OnceIn(Tail(doq)) /\ NextsIn(Tail(doq)) = Nexts
  BY HlTaken DEF HlSkip, HlReport
<1>2. /\ program' = program /\ at' = at /\ ok' = ok /\ own' = own /\ asked' = asked
      /\ attrs' = attrs /\ seq' = seq /\ doq' = Tail(doq)
  BY DEF HlSkip, HlReport, engineVars
<1>3. stale' \subseteq Cmds /\ clr' \in Nat /\ shown' \subseteq Cmds
  BY DEF HlSkip, HlReport, EngineInv, EngineTypes
<1>4. EngineTypes'
  BY <1>1, <1>2, <1>3 DEF EngineInv, EngineTypes
<1>5. Nexts' = Nexts /\ OnceIn(doq)'
  BY <1>1, <1>2 DEF Nexts
<1> QED
  BY <1>2, <1>4, <1>5, IdleKeeps

LEMMA FireHookInv ==
  ASSUME EngineInv, NEW s \in Sigs, FireHook(s) PROVE EngineInv' /\ Nexts' = Nexts
<1>1. /\ program' = program /\ at' = at /\ ok' = ok /\ own' = own /\ asked' = asked
      /\ attrs' = attrs /\ seq' = seq /\ stale' = stale /\ clr' = clr /\ shown' = shown
      /\ doq' = Append(doq, Do("hook", HookCmd)) /\ hooked' = hooked
  BY DEF FireHook, engineVars, hlVars
<1>2. Do("hook", HookCmd) \in Queued /\ \A c : Do("hook", HookCmd) # DoNext(c)
  BY DoFacts
<1>3. doq \in Seq(Queued) /\ OnceIn(doq)
  BY DEF EngineInv, EngineTypes, ResumeInv
<1>4. doq' \in Seq(Queued) /\ OnceIn(doq') /\ NextsIn(doq') = NextsIn(doq)
  BY <1>1, <1>2, <1>3, OtherAppended
<1>5. EngineTypes'
  BY <1>1, <1>4 DEF EngineInv, EngineTypes
<1>6. Nexts' = Nexts /\ OnceIn(doq)'
  BY <1>4 DEF Nexts
<1> QED
  BY <1>1, <1>5, <1>6, IdleKeeps

LEMMA RestInv ==
  ASSUME EngineInv, UNCHANGED <<nineoVars, hooked>> PROVE EngineInv' /\ Nexts' = Nexts
<1>1. /\ program' = program /\ at' = at /\ ok' = ok /\ own' = own /\ asked' = asked
      /\ attrs' = attrs /\ seq' = seq /\ stale' = stale /\ clr' = clr /\ shown' = shown
      /\ doq' = doq /\ hooked' = hooked
  BY DEF nineoVars, engineVars, hlVars
<1>2. EngineTypes'
  BY <1>1 DEF EngineInv, EngineTypes
<1>3. Nexts' = Nexts /\ OnceIn(doq)'
  BY <1>1 DEF Nexts, EngineInv, ResumeInv
<1> QED
  BY <1>1, <1>2, <1>3, IdleKeeps

LEMMA EngineInit == EditorInit => EngineInv
<1> SUFFICES ASSUME EditorInit PROVE EngineInv
  OBVIOUS
<1>1. /\ program \in Programs /\ at = [c \in Cmds |-> <<"none", 0>>]
      /\ ok = [c \in Cmds |-> TRUE] /\ own = [c \in Cmds |-> TRUE]
      /\ seq = [c \in Cmds |-> 0] /\ doq = <<>> /\ asked = {} /\ attrs = {}
      /\ stale = {} /\ clr = 0 /\ shown = {} /\ hooked = 0
  BY DEF EditorInit, NineoInit
<1>2. /\ Len(program.hooks) \in Nat /\ <<"none", 0>> \in Phases \X Nat
  BY <1>1, ProgramTypes DEF Phases
<1>3. EngineTypes
  BY <1>1, <1>2 DEF EngineTypes
<1>4. \A c \in Cmds : Phase(c) = "none" /\ seq[c] = 0
  BY <1>1 DEF Phase
<1>5. \A e : ~ In(doq, e) /\ Once(doq, e)
  BY <1>1 DEF In, Once
<1>6. Nexts = {} /\ OnceIn(doq)
  BY <1>5 DEF Nexts, NextsIn, OnceIn
<1>7. PlacesInv
  BY <1>1, <1>4, <1>6 DEF PlacesInv, InChain, Chains, Fresh
<1>8. \A c \in Cmds : ~ Running(c)
  BY <1>4, <1>6 DEF Running, Begun
<1>9. ResumeInv
  BY <1>6, <1>8 DEF ResumeInv
<1> QED
  BY <1>3, <1>7, <1>9 DEF EngineInv

\* The steps of the asynchronous thread, of the user and of margo.
LEMMA EngineRunsInv ==
  ASSUME EngineInv, NEW c \in Cmds, EngineRuns(c) \/ UserRuns(c) \/ MargoSends(c) \/ MargoAnswers(c)
  PROVE  EngineInv'
<1>1. hooked' = hooked
  BY DEF EngineRuns, UserRuns, MargoSends, MargoAnswers
<1>2. CASE NoStep(c) BY <1>1, <1>2, NoStepInv
<1>3. CASE Begin(c) BY <1>1, <1>3, BeginInv
<1>4. CASE ContinueChain(c) BY <1>1, <1>4, ContinueChainInv
<1>5. CASE Callback(c) BY <1>1, <1>5, CallbackInv
<1>6. CASE Finish(c) BY <1>1, <1>6, FinishInv
<1>7. ASSUME NEW m \in BOOLEAN, HlSkip(c, m) \/ HlReport(c, m) PROVE EngineInv'
  BY <1>1, <1>7, HlInvKept
<1>8. CASE UserRuns(c) BY <1>1, <1>8, StartTopInv DEF UserRuns
<1>9. CASE MargoSends(c) BY <1>1, <1>9, ChunkInv DEF MargoSends
<1>10. CASE MargoAnswers(c) BY <1>1, <1>10, ExecAnswerInv DEF MargoAnswers
<1> QED
  BY <1>2, <1>3, <1>4, <1>5, <1>6, <1>7, <1>8, <1>9, <1>10 DEF EngineRuns, Engine

\* The steps that leave the engine alone.
LEMMA EngineRests ==
  ASSUME [EditorNext]_editorVars
  PROVE  \/ UNCHANGED <<nineoVars, hooked>>
         \/ Hook
         \/ \E s \in Sigs : FireHook(s)
         \/ \E c \in Cmds : EngineRuns(c) \/ UserRuns(c) \/ MargoSends(c) \/ MargoAnswers(c)
BY DEF EditorNext, AsyncThread, Edit, EditCalls, TimeGoesBy, SignalTimedOut, editorVars

LEMMA EngineStep == EngineInv /\ [EditorNext]_editorVars => EngineInv'
<1> SUFFICES ASSUME EngineInv, [EditorNext]_editorVars PROVE EngineInv'
  OBVIOUS
<1>1. CASE UNCHANGED <<nineoVars, hooked>> BY <1>1, RestInv
<1>2. CASE Hook BY <1>2, HookInv
<1>3. CASE \E s \in Sigs : FireHook(s) BY <1>3, FireHookInv
<1>4. CASE \E c \in Cmds : EngineRuns(c) \/ UserRuns(c) \/ MargoSends(c) \/ MargoAnswers(c)
  BY <1>4, EngineRunsInv
<1> QED
  BY <1>1, <1>2, <1>3, <1>4, EngineRests

\* The commands are started in their turn, and whoever may resume one is who should.
THEOREM EngineIsConsistent == EditorSpec => []EngineInv
BY EngineInit, EngineStep, PTL DEF EditorSpec

-----------------------------------------------------------------------------
(* What the invariant says of the causes that resume a generator. *)

LEMMA AtMostOne ==
  ASSUME NEW S, \A x, y \in S : x = y
  PROVE  Cardinality(S) \in {0, 1} /\ (Cardinality(S) = 0 <=> S = {})
<1>1. CASE S = {}
  BY <1>1, FS_EmptySet
<1>2. CASE S # {}
  <2>1. PICK x : S = {x}
    BY <1>2
  <2>2. Cardinality({x}) = 1
    BY FS_Singleton
  <2> QED
    BY <1>2, <2>1, <2>2
<1> QED
  BY <1>1, <1>2

LEMMA ThunksOfNext ==
  ASSUME EngineInv, NEW c \in Cmds
  PROVE  /\ Thunks(DoNext(c)) \in {0, 1}
         /\ Thunks(DoNext(c)) > 0 <=> c \in Nexts
<1> DEFINE I == {i \in DOMAIN doq : doq[i] = DoNext(c)}
<1>1. doq \in Seq(Queued) /\ Once(doq, DoNext(c)) /\ (c \in Nexts <=> In(doq, DoNext(c)))
  BY DEF EngineInv, EngineTypes, ResumeInv, OnceIn, Nexts, NextsIn
<1>2. DOMAIN doq = 1..Len(doq)
  BY <1>1
<1>3. \A i, j \in I : i = j
  BY <1>1, <1>2 DEF Once
<1>4. I # {} <=> c \in Nexts
  BY <1>1, <1>2 DEF In
<1>5. Cardinality(I) \in {0, 1} /\ (Cardinality(I) = 0 <=> I = {})
  BY <1>3, AtMostOne
<1> QED
  BY <1>4, <1>5 DEF Thunks

LEMMA CausesOfInv == EngineInv => ResumedOnce
<1> SUFFICES ASSUME EngineInv, NEW c \in Cmds
             PROVE  Causes(c) <= 1 /\ (Phase(c) = "over" => Causes(c) = 0)
  BY DEF ResumedOnce
<1> DEFINE R == {x \in Starts(c) : ~ Ended(x) /\ (Begun(x) \/ Thunks(DoNext(x)) > 0)}
<1>1. program \in Programs
  BY DEF EngineInv, EngineTypes
<1>2. Starts(c) \subseteq Cmds
  BY <1>1, StartsFacts, StartedType
<1>3. \A x \in R : Current(c, x) /\ c \notin Nexts /\ c \notin asked
  BY <1>2, ThunksOfNext DEF EngineInv, ResumeInv, Running
<1>4. \A x, y \in R : x = y
  BY <1>3 DEF Current, Chains
<1>5. Cardinality(R) \in {0, 1} /\ (Cardinality(R) = 0 <=> R = {})
  BY <1>4, AtMostOne
<1>6. Cardinality(asked \cap {c}) \in {0, 1} /\ (Cardinality(asked \cap {c}) = 0 <=> c \notin asked)
  <2>1. \A x, y \in asked \cap {c} : x = y
    OBVIOUS
  <2>2. asked \cap {c} = {} <=> c \notin asked
    OBVIOUS
  <2> QED
    BY <2>1, <2>2, AtMostOne
<1>7. Thunks(DoNext(c)) \in {0, 1} /\ (Thunks(DoNext(c)) > 0 <=> c \in Nexts)
  BY ThunksOfNext
<1>8. c \in Nexts => c \notin asked /\ Phase(c) # "over"
  BY DEF EngineInv, ResumeInv
<1>9. Phase(c) = "over" => c \notin asked /\ R = {}
  <2>1. c \in asked => Phase(c) = "f"
    BY DEF EngineInv, PlacesInv
  <2> QED
    BY <1>3, <2>1 DEF Current, Chains
<1>10. R # {} => c \notin Nexts /\ c \notin asked
  BY <1>3
<1> HIDE DEF R
<1>11. Causes(c) = Thunks(DoNext(c)) + Cardinality(asked \cap {c}) + Cardinality(R)
  BY DEF Causes, R
<1> QED
  BY <1>5, <1>6, <1>7, <1>8, <1>9, <1>10, <1>11

\* A generator is resumed once for each of its steps: by a builtin, by margo's answer or
\* by the callback of the command that it has started last, never by two of them.
THEOREM GeneratorsAreResumedOnce == EditorSpec => []ResumedOnce
BY EngineIsConsistent, CausesOfInv, PTL

-----------------------------------------------------------------------------
(* The highlights. *)

\* Only what has started reports, what is shown has cleared the highlights, and a newer
\* command has cleared those that are stale.
HlInv ==
  /\ \A c \in HlsIn(doq) : seq[c] # 0
  /\ \A c \in shown : seq[c] # 0 /\ seq[c] = clr
  /\ \A c \in stale : seq[c] # 0 /\ clr > seq[c]
  /\ \A c \in Cmds : Phase(c) = "over" /\ Cmd(c).hl /\ c \notin HlsIn(doq) => seq[c] <= clr

\* A step that does not touch the highlights.
LEMMA HlKeeps ==
  ASSUME EngineInv, HlInv, program' = program, stale' = stale, clr' = clr, shown' = shown,
         \A d \in Cmds : seq[d] # 0 => seq'[d] = seq[d],
         \A d \in HlsIn(doq)' : d \in HlsIn(doq) \/ seq[d] # 0,
         \A d \in Cmds : Phase(d)' = "over" /\ Cmd(d).hl /\ d \notin HlsIn(doq)' =>
                           Phase(d) = "over" /\ d \notin HlsIn(doq)
  PROVE  HlInv'
<1>1. /\ shown \subseteq Cmds /\ stale \subseteq Cmds
      /\ \A d \in Cmds : Phase(d) = "over" => seq[d] # 0
  BY DEF EngineInv, EngineTypes, PlacesInv
<1>2. HlsIn(doq)' \subseteq Cmds
  BY DEF HlsIn
<1>3. \A c \in HlsIn(doq)' : seq'[c] # 0
  BY <1>2 DEF HlInv
<1>4. \A c \in shown' : seq'[c] # 0 /\ seq'[c] = clr'
  BY <1>1 DEF HlInv
<1>5. \A c \in stale' : seq'[c] # 0 /\ clr' > seq'[c]
  BY <1>1 DEF HlInv
<1>6. \A d : Cmd(d)' = Cmd(d)
  BY DEF Cmd
<1>7. ASSUME NEW d \in Cmds, Phase(d)' = "over", Cmd(d)'.hl, d \notin HlsIn(doq)'
      PROVE  seq'[d] <= clr'
  <2>1. Phase(d) = "over" /\ d \notin HlsIn(doq) /\ Cmd(d).hl
    BY <1>6, <1>7
  <2> QED
    BY <1>1, <2>1 DEF HlInv
<1> QED
  BY <1>3, <1>4, <1>5, <1>7 DEF HlInv

\* A command is started, by the step of c if C is {c}.
LEMMA LaunchKeepsHl ==
  ASSUME EngineInv, HlInv, program' = program, stale' = stale, clr' = clr, shown' = shown,
         NEW x, NEW C, Launched(x, C), \A c \in C : Phase(c)' # "over"
  PROVE  HlInv'
<1>1. \A d \in Cmds : seq[d] # 0 => seq'[d] = seq[d]
  BY DEF Launched, Fresh
<1>2. HlsIn(doq)' = HlsIn(doq)
  BY DEF Launched, HlsIn, In, DoHl
<1>3. \A d \in Cmds : Phase(d)' = "over" => Phase(d) = "over"
  BY DEF Launched, Phase
<1> QED
  BY <1>1, <1>2, <1>3, HlKeeps

\* A step after which the same commands report as before.
LEMMA SameReportsKeepHl ==
  ASSUME EngineInv, HlInv, program' = program, stale' = stale, clr' = clr, shown' = shown,
          seq' = seq,
         \A d \in Cmds : Phase(d)' = "over" => Phase(d) = "over", HlsIn(doq)' = HlsIn(doq)
  PROVE  HlInv'
BY HlKeeps

\* A step after which c reports too.
LEMMA NewReportKeepsHl ==
  ASSUME EngineInv, HlInv, program' = program, stale' = stale, clr' = clr, shown' = shown,
          seq' = seq,
         NEW c \in Cmds, seq[c] # 0, HlsIn(doq)' = HlsIn(doq) \cup {c},
         \A d \in Cmds \ {c} : Phase(d)' = "over" => Phase(d) = "over"
  PROVE  HlInv'
BY HlKeeps

LEMMA HlsPrime == HlsIn(doq)' = HlsIn(doq')
BY DEF HlsIn, In, DoHl

LEMMA StartsKeepHl ==
  ASSUME EngineInv, HlInv, NEW c \in Cmds, hooked' = hooked,
         Begin(c) \/ ContinueChain(c) \/ StartTop(c)
  PROVE  HlInv'
<1>1. program' = program /\ stale' = stale /\ clr' = clr /\ shown' = shown
  BY DEF Begin, ContinueChain, StartTop, hlVars
<1>2. CASE StartTop(c)
  <2>1. Launched(c, {}) /\ \A d \in {} : Phase(d)' # "over"
    BY <1>2, StartTopInv
  <2> QED
    BY <1>1, <2>1, LaunchKeepsHl
<1>3. CASE ContinueChain(c)
  <2>1. PICK x \in Cmds, k \in Chains, i \in Nat : LaunchedBy(c, x) /\ at'[c] = <<k, i>>
    BY <1>3, ContinueChainInv
  <2>2. Launched(x, {c}) /\ \A d \in {c} : Phase(d)' # "over"
    BY <2>1 DEF LaunchedBy, Phase, Chains
  <2> QED
    BY <1>1, <2>2, LaunchKeepsHl
<1>4. CASE Begin(c)
  <2>1. /\ Phase(c)' # "over"
        /\ \/ /\ HlsIn(doq') = HlsIn(doq) /\ seq' = seq /\ Nexts' \subseteq Nexts
              /\ \A d \in Cmds \ {c} : at'[d] = at[d] /\ ok'[d] = ok[d]
           \/ \E x \in Cmds : LaunchedBy(c, x) /\ Coming(x)
    BY <1>4, BeginInv
  <2>2. CASE /\ HlsIn(doq') = HlsIn(doq) /\ seq' = seq /\ Nexts' \subseteq Nexts
             /\ \A d \in Cmds \ {c} : at'[d] = at[d] /\ ok'[d] = ok[d]
    <3>1. HlsIn(doq)' = HlsIn(doq)
      BY <2>2, HlsPrime
    <3>2. \A d \in Cmds : Phase(d)' = "over" => Phase(d) = "over"
      BY <2>1, <2>2 DEF Phase
    <3> QED
      BY <1>1, <2>2, <3>1, <3>2, SameReportsKeepHl
  <2>3. ASSUME NEW x \in Cmds, LaunchedBy(c, x) PROVE HlInv'
    <3>1. Launched(x, {c}) /\ \A d \in {c} : Phase(d)' # "over"
      BY <2>1, <2>3 DEF LaunchedBy
    <3> QED
      BY <1>1, <3>1, LaunchKeepsHl
  <2> QED
    BY <2>1, <2>2, <2>3
<1> QED
  BY <1>2, <1>3, <1>4

LEMMA StepsKeepHl ==
  ASSUME EngineInv, HlInv, NEW c \in Cmds, hooked' = hooked,
         NoStep(c) \/ Callback(c) \/ ExecAnswer(c)
  PROVE  HlInv'
<1>1. program' = program /\ stale' = stale /\ clr' = clr /\ shown' = shown /\ seq' = seq
  BY DEF NoStep, Callback, ExecAnswer, hlVars, engineVars
<1>2. at \in [Cmds -> Phases \X Nat]
  BY DEF EngineInv, EngineTypes
<1>3. \A d \in Cmds : Phase(d)' = "over" => Phase(d) = "over"
  <2>1. at' = at \/ at' = [at EXCEPT ![c] = <<"cb", 0>>]
    BY DEF NoStep, Callback, ExecAnswer, engineVars
  <2> QED
    BY <1>2, <2>1 DEF Phase
<1>4. HlsIn(doq') = HlsIn(doq)
  <2>1. CASE NoStep(c)
    <3>1. doq' = Tail(doq) /\ NextOf(c)
      BY <2>1 DEF NoStep
    <3> QED
      BY <3>1, StepTaken
  <2>2. CASE Callback(c) BY <2>2, CallbackQueue
  <2>3. CASE ExecAnswer(c)
    <3>1. doq \in Seq(Queued) /\ OnceIn(doq) /\ c \notin NextsIn(doq)
            /\ doq' = Append(doq, DoNext(c))
      BY <2>3 DEF EngineInv, EngineTypes, ResumeInv, Nexts, ExecAnswer
    <3> QED
      BY <3>1, NextAppended
  <2> QED
    BY <2>1, <2>2, <2>3
<1>5. HlsIn(doq)' = HlsIn(doq)
  BY <1>4, HlsPrime
<1> QED
  BY <1>1, <1>3, <1>5, SameReportsKeepHl

LEMMA ReportsKeepHl ==
  ASSUME EngineInv, HlInv, NEW c \in Cmds, hooked' = hooked, Finish(c) \/ Chunk(c)
  PROVE  HlInv'
<1>1. program' = program /\ stale' = stale /\ clr' = clr /\ shown' = shown /\ seq' = seq
  BY DEF Finish, Chunk, hlVars, engineVars
<1>2. at \in [Cmds -> Phases \X Nat] /\ doq \in Seq(Queued) /\ OnceIn(doq)
  BY DEF EngineInv, EngineTypes, ResumeInv
<1>3. seq[c] # 0
  BY DEF EngineInv, PlacesInv, Finish, Chunk
<1>4. \A d \in Cmds \ {c} : Phase(d)' = "over" => Phase(d) = "over"
  <2>1. at' = at \/ at' = [at EXCEPT ![c] = <<"over", 0>>]
    BY DEF Finish, Chunk, engineVars
  <2> QED
    BY <1>2, <2>1 DEF Phase
<1>5. \A m \in BOOLEAN : DoHl(c, m) \in Queued /\ \A d : DoHl(c, m) # DoNext(d)
  BY DoFacts
<1>6. CASE Chunk(c)
  <2>1. PICK m \in BOOLEAN : doq' = Append(doq, DoHl(c, m))
    BY <1>6 DEF Chunk
  <2>2. HlsIn(doq') = HlsIn(doq) \cup {c}
    BY <1>2, <1>5, <2>1, OtherAppended
  <2>3. HlsIn(doq)' = HlsIn(doq) \cup {c}
    BY <2>2, HlsPrime
  <2> QED
    BY <1>1, <1>3, <1>4, <2>3, NewReportKeepsHl
<1>7. CASE Finish(c)
  <2>1. Tail(doq) \in Seq(Queued) /\ OnceIn(Tail(doq)) /\ HlsIn(Tail(doq)) = HlsIn(doq)
    BY <1>7, StepTaken DEF Finish
  <2>2. CASE ~ Cmd(c).hl /\ doq' = Tail(doq)
    <3>1. HlsIn(doq)' = HlsIn(doq)
      BY <2>1, <2>2, HlsPrime
    <3>2. \A d \in Cmds : Phase(d)' = "over" /\ Cmd(d).hl /\ d \notin HlsIn(doq)' =>
                            Phase(d) = "over" /\ d \notin HlsIn(doq)
      BY <1>4, <2>2, <3>1
    <3> QED
      BY <1>1, <3>1, <3>2, HlKeeps
  <2>3. ASSUME NEW m \in BOOLEAN, doq' = Append(Tail(doq), DoHl(c, m)) PROVE HlInv'
    <3>1. HlsIn(doq') = HlsIn(Tail(doq)) \cup {c}
      BY <1>5, <2>1, <2>3, OtherAppended
    <3>2. HlsIn(doq)' = HlsIn(doq) \cup {c}
      BY <2>1, <3>1, HlsPrime
    <3> QED
      BY <1>1, <1>3, <1>4, <3>2, NewReportKeepsHl
  <2> QED
    BY <1>7, <2>1, <2>2, <2>3, FinishQueue
<1> QED
  BY <1>6, <1>7

\* A command that reports, and whoever is newer, keep the highlights of the newest.
LEMMA HlStepsKeepHl ==
  ASSUME EngineInv, HlInv, NEW c \in Cmds, NEW m \in BOOLEAN, HlSkip(c, m) \/ HlReport(c, m)
  PROVE  HlInv'
<1>1. /\ HlsIn(Tail(doq)) \subseteq HlsIn(doq) /\ HlsIn(doq) \ {c} \subseteq HlsIn(Tail(doq))
      /\ c \in HlsIn(doq)
  BY HlTaken DEF HlSkip, HlReport
<1>2. /\ program' = program /\ at' = at /\ seq' = seq /\ doq' = Tail(doq)
  BY DEF HlSkip, HlReport, engineVars
<1>3. /\ HlsIn(doq)' \subseteq HlsIn(doq) /\ HlsIn(doq) \ {c} \subseteq HlsIn(doq)'
  BY <1>1, <1>2, HlsPrime
<1>4. /\ clr \in Nat /\ seq \in [Cmds -> Nat] /\ stale \subseteq Cmds /\ shown \subseteq Cmds
  BY DEF EngineInv, EngineTypes
<1>5. \A d : Cmd(d)' = Cmd(d) /\ Phase(d)' = Phase(d)
  BY <1>2 DEF Cmd, Phase
<1>6. seq[c] # 0 /\ \A d \in HlsIn(doq)' : seq'[d] # 0
  BY <1>1, <1>2, <1>3 DEF HlInv
<1>7. \A d \in Cmds \ {c} : Phase(d)' = "over" /\ Cmd(d)'.hl /\ d \notin HlsIn(doq)' =>
        seq[d] <= clr
  BY <1>3, <1>5 DEF HlInv
<1>8. CASE HlSkip(c, m)
  <2>1. /\ clr' = clr /\ shown' = shown
        /\ (~ Cmd(c).hl /\ stale' = stale) \/ (stale' = stale \cup {c} /\ clr > seq[c])
    BY <1>8 DEF HlSkip, HlInv, Outdated
  <2>2. \A d \in shown' : seq'[d] # 0 /\ seq'[d] = clr'
    BY <1>2, <2>1 DEF HlInv
  <2>3. \A d \in stale' : seq'[d] # 0 /\ clr' > seq'[d]
    BY <1>2, <1>6, <2>1 DEF HlInv
  <2>4. \A d \in Cmds : Phase(d)' = "over" /\ Cmd(d)'.hl /\ d \notin HlsIn(doq)' => seq'[d] <= clr'
    BY <1>2, <1>4, <1>5, <1>7, <2>1
  <2> QED
    BY <1>6, <2>2, <2>3, <2>4 DEF HlInv
<1>9. CASE HlReport(c, m)
  <2>1. /\ clr' = seq[c] /\ clr' >= clr /\ stale' = stale /\ clr' \in Nat
        /\ shown' = (IF clr = seq[c] THEN shown ELSE {}) \cup (IF m THEN {c} ELSE {})
    BY <1>4, <1>9 DEF HlReport, Outdated
  <2>2. \A d \in shown' : seq'[d] # 0 /\ seq'[d] = clr'
    BY <1>2, <1>6, <2>1 DEF HlInv
  <2>3. \A d \in stale' : seq'[d] # 0 /\ clr' > seq'[d]
    BY <1>2, <1>4, <2>1 DEF HlInv
  <2>4. \A d \in Cmds : Phase(d)' = "over" /\ Cmd(d)'.hl /\ d \notin HlsIn(doq)' => seq'[d] <= clr'
    BY <1>2, <1>4, <1>7, <2>1
  <2> QED
    BY <1>6, <2>2, <2>3, <2>4 DEF HlInv
<1> QED
  BY <1>8, <1>9

LEMMA FireHookKeepsHl == ASSUME EngineInv, HlInv, NEW s \in Sigs, FireHook(s) PROVE HlInv'
<1>1. /\ program' = program /\ at' = at /\ seq' = seq
      /\ stale' = stale /\ clr' = clr /\ shown' = shown
      /\ doq' = Append(doq, Do("hook", HookCmd))
  BY DEF FireHook, engineVars, hlVars
<1>2. /\ Do("hook", HookCmd) \in Queued /\ \A d : Do("hook", HookCmd) # DoNext(d)
      /\ \A d, m : Do("hook", HookCmd) # DoHl(d, m)
  BY DoFacts
<1>3. doq \in Seq(Queued) /\ OnceIn(doq)
  BY DEF EngineInv, EngineTypes, ResumeInv
<1>4. \A d \in Cmds : d \in HlsIn(doq') <=> d \in HlsIn(doq)
  BY <1>1, <1>2, <1>3, OtherAppended
<1>5. HlsIn(doq)' = HlsIn(doq)
  BY <1>4, HlsPrime DEF HlsIn
<1>6. \A d \in Cmds : Phase(d)' = "over" => Phase(d) = "over"
  BY <1>1 DEF Phase
<1> QED
  BY <1>1, <1>5, <1>6, SameReportsKeepHl

LEMMA HlStep == EngineInv /\ HlInv /\ [EditorNext]_editorVars => HlInv'
<1> SUFFICES ASSUME EngineInv, HlInv, [EditorNext]_editorVars PROVE HlInv'
  OBVIOUS
<1>1. CASE UNCHANGED <<nineoVars, hooked>>
  <2>1. /\ program' = program /\ at' = at /\ seq' = seq /\ doq' = doq
        /\ stale' = stale /\ clr' = clr /\ shown' = shown
    BY <1>1 DEF nineoVars, engineVars, hlVars
  <2>2. HlsIn(doq)' = HlsIn(doq) /\ \A d \in Cmds : Phase(d)' = "over" => Phase(d) = "over"
    BY <2>1 DEF HlsIn, Phase
  <2> QED
    BY <2>1, <2>2, SameReportsKeepHl
<1>2. CASE Hook
  <2>1. PICK x : Launched(x, {})
    BY <1>2, HookInv
  <2>2. program' = program /\ stale' = stale /\ clr' = clr /\ shown' = shown
    BY <1>2 DEF Hook, hlVars
  <2>3. \A c \in {} : Phase(c)' # "over"
    OBVIOUS
  <2> QED
    BY <2>1, <2>2, <2>3, LaunchKeepsHl
<1>3. CASE \E s \in Sigs : FireHook(s) BY <1>3, FireHookKeepsHl
<1>4. ASSUME NEW c \in Cmds, EngineRuns(c) \/ UserRuns(c) \/ MargoSends(c) \/ MargoAnswers(c)
      PROVE  HlInv'
  <2>1. hooked' = hooked
    BY <1>4 DEF EngineRuns, UserRuns, MargoSends, MargoAnswers
  <2>2. CASE Begin(c) \/ ContinueChain(c) \/ StartTop(c) BY <2>1, <2>2, StartsKeepHl
  <2>3. CASE NoStep(c) \/ Callback(c) \/ ExecAnswer(c) BY <2>1, <2>3, StepsKeepHl
  <2>4. CASE Finish(c) \/ Chunk(c) BY <2>1, <2>4, ReportsKeepHl
  <2>5. ASSUME NEW m \in BOOLEAN, HlSkip(c, m) \/ HlReport(c, m) PROVE HlInv'
    BY <2>5, HlStepsKeepHl
  <2> QED
    BY <1>4, <2>2, <2>3, <2>4, <2>5 DEF EngineRuns, Engine, UserRuns, MargoSends, MargoAnswers
<1> QED
  BY <1>1, <1>2, <1>3, <1>4, EngineRests

LEMMA HlInit == EditorInit => HlInv
<1> SUFFICES ASSUME EditorInit PROVE HlInv
  OBVIOUS
<1>1. /\ at = [c \in Cmds |-> <<"none", 0>>] /\ doq = <<>> /\ shown = {} /\ stale = {}
  BY DEF EditorInit, NineoInit
<1>2. HlsIn(doq) = {} /\ \A c \in Cmds : Phase(c) # "over"
  BY <1>1 DEF HlsIn, In, Phase
<1> QED
  BY <1>1, <1>2 DEF HlInv

LEMMA HlInvShowsNewest == EngineInv /\ HlInv => NewestHighlights
<1> SUFFICES ASSUME EngineInv, HlInv PROVE NewestHighlights
  OBVIOUS
<1>1. \A c \in Cmds : (\A m \in BOOLEAN : DoHl(c, m) \notin ToSet(doq)) => c \notin HlsIn(doq)
  BY InToSet DEF HlsIn, EngineInv, EngineTypes
<1> QED
  BY <1>1 DEF NewestHighlights, HlInv

\* The notes are those of the newest command that has reported: one that was started
\* earlier and ends later neither clears the highlights nor adds to them.
THEOREM HighlightsAreNewest == EditorSpec => []NewestHighlights
<1>1. EditorSpec => []HlInv
  BY HlInit, HlStep, EngineIsConsistent, PTL DEF EditorSpec
<1> QED
  BY <1>1, EngineIsConsistent, HlInvShowsNewest, PTL

-----------------------------------------------------------------------------
(* The chains. *)

\* The chain that follows when the command's own result is o.
OwnChain(o) == IF o THEN "all" ELSE "any"

Idle(c, k) == \A y \in Cmds, j \in 1..Len(Started(c, k)) : IsPlace(c, k, j, y) => ~ Begun(y)

\* The chain of c after its own result o ended with the n-th command, and its result is r.
PassedAt(c, o, r, n) ==
  /\ n = 0 => Len(Started(c, OwnChain(o))) = 0 /\ r = o
  /\ \A y \in Cmds, j \in 1..Len(Started(c, OwnChain(o))) : IsPlace(c, OwnChain(o), j, y) =>
       /\ j <= n => Ended(y)
       /\ j < n  => ok[y] = o
       /\ j = n  => ok[y] = r /\ (n < Len(Started(c, OwnChain(o))) => r # o)
       /\ j > n  => ~ Begun(y)

Passed(c, o, r) ==
  /\ Idle(c, OwnChain(~ o))
  /\ \E n \in 0..Len(Started(c, OwnChain(o))) : PassedAt(c, o, r, n)

\* The commands of the chain up to where c is have ended, but for the last of them while it runs.
Behind(c, k) ==
  \A y \in Cmds, j \in 1..Len(Started(c, k)) : IsPlace(c, k, j, y) =>
    (j < at[c][2] \/ (j = at[c][2] /\ c \in Nexts) => Ended(y))

\* c goes through the chain that follows its own result o.
Within(c, o) ==
  /\ Phase(c) = OwnChain(o) /\ Idle(c, OwnChain(~ o))
  /\ \A y \in Cmds, j \in 1..Len(Started(c, OwnChain(o))) : IsPlace(c, OwnChain(o), j, y) =>
       (j < at[c][2] => ok[y] = o)

EachEnded(c) == \A y \in Cmds, j \in 1..Len(Started(c, "each")) :
        IsPlace(c, "each", j, y) => Ended(y)

\* Where a command is in its chains is where its results have led it.
Chained(c) ==
  /\ \A k \in Chains : Phase(c) = k => Behind(c, k)
  /\ \A o, r \in BOOLEAN : own[c] = o /\ ok[c] = r =>
       /\ Phase(c) \in {"all", "any"} => Within(c, o)
       /\ Phase(c) \in {"each", "cb", "over"} => Passed(c, o, r)
  /\ Ended(c) => EachEnded(c)

ChainsInv == \A c \in Cmds : Chained(c)

\* A command that has ended keeps its result.
EndedStay == \A y \in Cmds : Ended(y) => Ended(y)' /\ ok'[y] = ok[y]

\* Those begin whose turn it is.
BegunInTurn == \A y \in Cmds : Begun(y)' => Begun(y) \/ Coming(y) \/ y \in program.top

\* No command that c starts in the way k begins.
Undisturbed(c, k) ==
  \A y \in Cmds, j \in 1..Len(Started(c, k)) : IsPlace(c, k, j, y) => (Begun(y)' => Begun(y))

LEMMA NotBegunAgain ==
  ASSUME program \in Programs, BegunInTurn, NEW c \in Cmds, NEW k \in Kinds,
         \A j \in Nat : ~ Ahead(c, k, j)
  PROVE  Undisturbed(c, k)
<1> SUFFICES ASSUME NEW y \in Cmds, NEW j \in 1..Len(Started(c, k)), IsPlace(c, k, j, y), Begun(y)'
             PROVE  Begun(y)
  BY DEF Undisturbed
<1>1. /\ \A d \in Cmds, l \in Kinds : \A i \in 1..Len(Started(d, l)) :
           Started(d, l)[i] = y => d = c /\ l = k /\ i = j
      /\ y \notin program.top /\ \A i \in 1..Len(program.hooks) : program.hooks[i] # y
  BY OnePlace DEF IsPlace
<1>2. ~ Coming(y)
  BY <1>1 DEF Coming
<1> QED
  BY <1>1, <1>2 DEF BegunInTurn

LEMMA OwnChainType ==
  \A o \in BOOLEAN : OwnChain(o) \in {"all", "any"} /\ OwnChain(o) \in Kinds
          /\ OwnChain(o) \in Chains
BY DEF OwnChain, Kinds, Chains

LEMMA SamePlaces ==
  ASSUME program' = program
  PROVE  \A c, k, j, y : /\ IsPlace(c, k, j, y)' <=> IsPlace(c, k, j, y)
                         /\ Started(c, k)' = Started(c, k)
BY SameProgram DEF IsPlace

LEMMA IdleKept ==
  ASSUME program' = program, NEW c \in Cmds, NEW k, Idle(c, k), Undisturbed(c, k)
  PROVE  Idle(c, k)'
BY SamePlaces DEF Idle, Undisturbed

LEMMA PassedKept ==
  ASSUME program' = program, EndedStay, NEW c \in Cmds, NEW o \in BOOLEAN, NEW r, Passed(c, o, r),
         Undisturbed(c, "all"), Undisturbed(c, "any")
  PROVE  Passed(c, o, r)'
<1>1. PICK k \in {"all", "any"}, l \in {"all", "any"} : k = OwnChain(o) /\ l = OwnChain(~ o)
  BY OwnChainType
<1>2. Idle(c, OwnChain(~ o))'
  <2>1. Idle(c, l) /\ Undisturbed(c, l)
    BY <1>1 DEF Passed
  <2>2. Idle(c, l)'
    BY <2>1, IdleKept
  <2> QED
    BY <1>1, <2>2
<1>3. PICK n \in 0..Len(Started(c, OwnChain(o))) : PassedAt(c, o, r, n)
  BY DEF Passed
<1>4. Undisturbed(c, k)
  OBVIOUS
<1>5. ASSUME NEW y \in Cmds, NEW j \in 1..Len(Started(c, k)), IsPlace(c, k, j, y)
      PROVE  /\ Ended(y) => Ended(y)' /\ ok'[y] = ok[y]
             /\ Begun(y)' => Begun(y)
  BY <1>4, <1>5 DEF Undisturbed, EndedStay
<1>6. PassedAt(c, o, r, n)'
  BY <1>1, <1>3, <1>5, SamePlaces DEF PassedAt
<1>7. n \in 0..Len(Started(c, OwnChain(o))')
  BY <1>3, SamePlaces
<1> QED
  BY <1>2, <1>6, <1>7 DEF Passed

\* A step that does not move c.
LEMMA RestKeepsChain ==
  ASSUME EngineInv, program' = program, EndedStay, BegunInTurn, NEW c \in Cmds, Chained(c),
         at'[c] = at[c], own'[c] = own[c],
         Phase(c) \in {"all", "any", "each", "cb", "over"} => ok'[c] = ok[c],
         \A k \in Chains, y \in Cmds :
           Phase(c) = k /\ c \in Nexts' /\ IsPlace(c, k, at[c][2], y) => c \in Nexts \/ Ended(y)'
  PROVE  Chained(c)'
<1>1. Phase(c)' = Phase(c) /\ (Ended(c)' <=> Ended(c)) /\ program \in Programs
  BY DEF Phase, Ended, EngineInv, EngineTypes
<1>2. ASSUME NEW k \in Chains, Phase(c)' = k PROVE Behind(c, k)'
  <2>1. Behind(c, k) /\ Phase(c) = k
    BY <1>1, <1>2 DEF Chained
  <2>2. ASSUME NEW y \in Cmds, NEW j \in 1..Len(Started(c, k)), IsPlace(c, k, j, y),
               j < at[c][2] \/ (j = at[c][2] /\ c \in Nexts')
        PROVE  Ended(y)'
    BY <2>1, <2>2 DEF Behind, EndedStay
  <2> QED
    BY <2>2, SamePlaces DEF Behind
<1>3. ASSUME NEW o \in BOOLEAN, own[c] = o, Phase(c) \in {"all", "any"} PROVE Within(c, o)'
  <2>1. Within(c, o)
    <3>1. PICK r : r = ok[c]
      OBVIOUS
    <3>2. r \in BOOLEAN
      BY <3>1 DEF EngineInv, EngineTypes
    <3> QED
      BY <1>3, <3>1, <3>2 DEF Chained
  <2>2. PICK k : k = OwnChain(o)
    OBVIOUS
  <2>3. PICK l : l = OwnChain(~ o)
    OBVIOUS
  <2>4. k \in Chains /\ l \in Kinds /\ l \in {"all", "any"} /\ k # l
    BY <2>2, <2>3, OwnChainType DEF OwnChain
  <2>5. Phase(c) = k /\ Idle(c, l) /\ Behind(c, k)
    BY <2>1, <2>2, <2>3, <2>4 DEF Within, Chained
  <2>6. \A j \in Nat : ~ Ahead(c, l, j)
    BY <1>3, <2>4, <2>5 DEF Ahead, Chains
  <2>7. Idle(c, l)'
    <3>1. Undisturbed(c, l)
      BY <1>1, <2>4, <2>6, NotBegunAgain
    <3> QED
      BY <2>5, <3>1, IdleKept
  <2>8. ASSUME NEW y \in Cmds, NEW j \in 1..Len(Started(c, k)), IsPlace(c, k, j, y), j < at[c][2]
        PROVE  ok'[y] = o
    <3>1. Ended(y) /\ ok[y] = o
      BY <2>1, <2>2, <2>5, <2>8 DEF Behind, Within
    <3> QED
      BY <3>1 DEF EndedStay
  <2> QED
    BY <1>1, <2>2, <2>3, <2>5, <2>7, <2>8, SamePlaces DEF Within
<1>4. ASSUME NEW o \in BOOLEAN, NEW r \in BOOLEAN, own[c] = o, ok[c] = r,
               Phase(c) \in {"each", "cb", "over"}
      PROVE  Passed(c, o, r)'
  <2>1. Passed(c, o, r) /\ \A k \in {"all", "any"} : \A j \in Nat : ~ Ahead(c, k, j)
    BY <1>4 DEF Chained, Ahead
  <2>2. Undisturbed(c, "all") /\ Undisturbed(c, "any")
    <3>1. \A k \in {"all", "any"} : k \in Kinds
      BY DEF Kinds, Chains
    <3> QED
      BY <1>1, <2>1, <3>1, NotBegunAgain
  <2> QED
    BY <2>1, <2>2, PassedKept
<1>5. ASSUME Ended(c) PROVE EachEnded(c)'
  <2>1. EachEnded(c)
    BY <1>5 DEF Chained
  <2> QED
    BY <2>1, SamePlaces DEF EachEnded, EndedStay
<1> QED
  BY <1>1, <1>2, <1>3, <1>4, <1>5 DEF Chained

\* A command that is in none of its chains, nor beyond them.
LEMMA NotChained ==
  ASSUME NEW c \in Cmds, Phase(c) \notin {"all", "any", "each", "cb", "over"}
  PROVE  Chained(c)
BY DEF Chained, Chains, Ended

\* A command is started, by the step of c if C is {c}.
LEMMA LaunchKeepsChains ==
  ASSUME EngineInv, ChainsInv, program' = program, NEW C \in SUBSET Cmds, NEW x, Launched(x, C),
         Coming(x) \/ x \in program.top,
         \A c \in C : c \in Nexts /\ Begun(c) /\ ~ Ended(c),
         \A d \in Cmds \ C : own'[d] = own[d]
  PROVE  EndedStay /\ BegunInTurn /\ \A d \in Cmds \ C : Chained(d)'
<1>1. x \in Cmds /\ x \notin C /\ Phase(x) = "none" /\ program \in Programs
  BY DEF Launched, Fresh, EngineInv, EngineTypes, PlacesInv
<1>2. \A y \in Cmds \ (C \cup {x}) :
        at'[y] = at[y] /\ ok'[y] = ok[y] /\ Phase(y)' = Phase(y)
  BY DEF Launched, Phase
<1>3. Phase(x)' \in {"none", "new"}
  BY <1>1 DEF Launched, Phase
<1>4. EndedStay
  BY <1>1, <1>2 DEF EndedStay, Ended
<1>5. BegunInTurn
  BY <1>2 DEF BegunInTurn, Begun
<1>6. ASSUME NEW d \in Cmds \ C PROVE Chained(d)'
  <2>1. CASE d = x
    <3>1. Phase(d)' \notin {"all", "any", "each", "cb", "over"}
      BY <1>3, <2>1
    <3> QED
      BY <3>1 DEF Chained, Chains, Ended
  <2>2. CASE d # x
    <3>1. at'[d] = at[d] /\ ok'[d] = ok[d] /\ own'[d] = own[d] /\ (d \in Nexts' => d \in Nexts)
      BY <1>2, <1>6, <2>2 DEF Launched
    <3>2. Chained(d)
      BY DEF ChainsInv
    <3> QED
      BY <1>4, <1>5, <3>1, <3>2, RestKeepsChain
  <2> QED
    BY <2>1, <2>2
<1> QED
  BY <1>4, <1>5, <1>6

EndedBelow(c, k, i) ==
  \A y \in Cmds, j \in 1..Len(Started(c, k)) : IsPlace(c, k, j, y) /\ j < i => Ended(y)
OkBelow(c, k, i, o) ==
  \A y \in Cmds, j \in 1..Len(Started(c, k)) : IsPlace(c, k, j, y) /\ j < i => ok[y] = o

\* What is ahead of a command has not begun.
LEMMA AheadIdle ==
  ASSUME EngineInv, NEW c \in Cmds, NEW k \in Kinds, NEW y \in Cmds,
         NEW j \in 1..Len(Started(c, k)), IsPlace(c, k, j, y), Ahead(c, k, j)
  PROVE  ~ Begun(y)
BY DEF IsPlace, Coming, EngineInv, PlacesInv, Fresh, Begun

\* The chain of c is decided: it goes on to its `each`, or to its callback.
LEMMA BeyondOwn ==
  ASSUME EngineInv, NEW c \in Cmds, NEW k \in {"all", "any"}, NEW i \in Nat,
         ~ (i < Len(Chain(c, k)))
  PROVE  \/ Beyond(c, k, i) = <<"each", 1>> /\ 1 \in 1..Len(Started(c, "each"))
          /\ EndedBelow(c, "each", 1)
         \/ Beyond(c, k, i) = <<"cb", 0>> /\ EachEnded(c)
<1>1. /\ Chain(c, "each") = Started(c, "each") /\ Started(c, "each") \in Seq(Cmds)
  BY ChainIsStarted, StartedType DEF EngineInv, EngineTypes, Kinds, Chains
<1>2. EndedBelow(c, "each", 1)
  BY DEF EndedBelow
<1>3. CASE Chain(c, "each") = <<>>
  <2>1. EachEnded(c)
    BY <1>1, <1>3 DEF EachEnded
  <2> QED
    BY <1>3, <2>1 DEF Beyond
<1>4. CASE Chain(c, "each") # <<>>
  BY <1>1, <1>2, <1>4 DEF Beyond
<1> QED
  BY <1>3, <1>4

\* Where a command goes next, and what its chains have come to.
LEMMA NextStage ==
  ASSUME EngineInv, NEW c \in Cmds, Chained(c), c \in Nexts, Phase(c) \in {"f"} \cup Chains,
         NEW o \in BOOLEAN, o = IF Phase(c) = "f" THEN ok[c] ELSE own[c],
         NEW r \in BOOLEAN, r = Result(c), NEW p, p = StepAfter(c)
  PROVE  \/ \E i \in 1..Len(Started(c, OwnChain(o))) :
              /\ p = <<OwnChain(o), i>> /\ Idle(c, OwnChain(~ o))
              /\ EndedBelow(c, OwnChain(o), i) /\ OkBelow(c, OwnChain(o), i, o)
         \/ /\ Passed(c, o, r)
            /\ \/ \E i \in 1..Len(Started(c, "each")) :
                    p = <<"each", i>> /\ EndedBelow(c, "each", i)
               \/ p = <<"cb", 0>> /\ EachEnded(c)
<1>1. program \in Programs /\ at[c][2] \in Nat /\ InChain(c)
  BY PhaseTypes DEF EngineInv, EngineTypes, PlacesInv
<1>2. PICK k \in {"all", "any"} : k = OwnChain(o) /\ k \in Kinds /\ k \in Chains
  BY OwnChainType
<1>3. PICK l \in {"all", "any"} : l = OwnChain(~ o) /\ l \in Kinds /\ l \in Chains
  BY OwnChainType
<1>4. /\ Chain(c, k) = Started(c, k) /\ Len(Started(c, k)) \in Nat
      /\ Chain(c, "each") = Started(c, "each") /\ Len(Started(c, "each")) \in Nat
  BY <1>1, <1>2, ChainIsStarted, StartedType DEF Kinds, Chains
<1>5. ASSUME NEW n \in 0..Len(Started(c, k)), PassedAt(c, o, r, n), Idle(c, l) PROVE Passed(c, o, r)
  BY <1>2, <1>3, <1>5 DEF Passed
<1>6. CASE Phase(c) = "f"
  <2>1. \A m \in Chains : \A j : Ahead(c, m, j)
    BY <1>6 DEF Ahead
  <2>2. Idle(c, k) /\ Idle(c, l)
    BY <1>2, <1>3, <2>1, AheadIdle DEF Idle
  <2>3. r = o /\ p = Beyond(c, k, 0)
    BY <1>2, <1>6 DEF Result, StepAfter, OwnChain
  <2>4. CASE 0 < Len(Started(c, k))
    <3>1. p = <<k, 1>> /\ 1 \in 1..Len(Started(c, k))
      BY <1>4, <2>3, <2>4 DEF Beyond
    <3>2. EndedBelow(c, k, 1) /\ OkBelow(c, k, 1, o)
      BY DEF EndedBelow, OkBelow
    <3> QED
      BY <1>2, <1>3, <2>2, <3>1, <3>2
  <2>5. CASE ~ (0 < Len(Started(c, k)))
    <3>1. Len(Started(c, k)) = 0 /\ 0 \in 0..Len(Started(c, k))
      BY <1>4, <2>5
    <3>2. PassedAt(c, o, r, 0)
      BY <1>2, <2>3, <3>1 DEF PassedAt
    <3>3. Passed(c, o, r)
      BY <1>5, <2>2, <3>1, <3>2
    <3>4. \/ p = <<"each", 1>> /\ 1 \in 1..Len(Started(c, "each")) /\ EndedBelow(c, "each", 1)
          \/ p = <<"cb", 0>> /\ EachEnded(c)
      BY <1>4, <2>3, <2>5, BeyondOwn
    <3> QED
      BY <3>3, <3>4
  <2> QED
    BY <2>4, <2>5
<1>7. CASE Phase(c) \in {"all", "any"}
  <2>1. Within(c, o)
    <3>1. PICK r0 : r0 = ok[c]
      OBVIOUS
    <3>2. r0 \in BOOLEAN /\ own[c] = o
      BY <1>7, <3>1 DEF EngineInv, EngineTypes
    <3> QED
      BY <1>7, <3>1, <3>2 DEF Chained
  <2>2. PICK i \in 1..Len(Started(c, k)) : i = at[c][2]
    BY <1>1, <1>2, <1>7, <2>1 DEF InChain, Within
  <2>3. Phase(c) = k /\ Idle(c, l) /\ Behind(c, k) /\ i \in Nat
    BY <1>2, <1>3, <2>1 DEF Within, Chained
  <2>4. PICK x \in Cmds : x = Started(c, k)[i]
    BY <1>1, <1>2, StartedType
  <2>5. IsPlace(c, k, i, x) /\ r = ok[x] /\ \A y : IsPlace(c, k, i, y) => y = x
    BY <1>4, <1>7, <2>2, <2>3, <2>4 DEF IsPlace, Result
  <2>6. \A y \in Cmds, j \in 1..Len(Started(c, k)) : IsPlace(c, k, j, y) /\ j <= i => Ended(y)
    BY <2>2, <2>3 DEF Behind
  <2>7. OkBelow(c, k, i, o)
    BY <1>2, <2>1, <2>2 DEF Within, OkBelow
  <2>8. p = Beyond(c, k, IF r = o THEN i ELSE Len(Chain(c, k)))
    BY <1>2, <2>2, <2>3 DEF StepAfter, OwnChain
  <2>9. CASE r = o /\ i < Len(Started(c, k))
    <3>1. p = <<k, i + 1>> /\ i + 1 \in 1..Len(Started(c, k))
      BY <1>4, <2>3, <2>8, <2>9 DEF Beyond
    <3>2. EndedBelow(c, k, i + 1)
      BY <2>3, <2>6 DEF EndedBelow
    <3>3. ASSUME NEW y \in Cmds, NEW j \in 1..Len(Started(c, k)), IsPlace(c, k, j, y), j < i + 1
          PROVE  ok[y] = o
      <4>1. CASE j < i BY <2>7, <3>3, <4>1 DEF OkBelow
      <4>2. CASE j = i
        <5>1. y = x
          BY <2>5, <3>3, <4>2
        <5> QED
          BY <2>5, <2>9, <5>1
      <4> QED
        BY <2>3, <3>3, <4>1, <4>2
    <3>4. OkBelow(c, k, i + 1, o)
      BY <3>3 DEF OkBelow
    <3> QED
      BY <1>2, <1>3, <2>3, <3>1, <3>2, <3>4
  <2>10. CASE ~ (r = o /\ i < Len(Started(c, k)))
    <3>1. \A y \in Cmds, j \in 1..Len(Started(c, k)) : IsPlace(c, k, j, y) /\ j > i => ~ Begun(y)
      <4>1. \A j : j > i => Ahead(c, k, j)
        BY <1>2, <2>2, <2>3 DEF Ahead
      <4> QED
        BY <1>2, <4>1, AheadIdle
    <3>2. PassedAt(c, o, r, i)
      BY <1>2, <1>4, <2>3, <2>5, <2>6, <2>7, <2>10, <3>1 DEF PassedAt, OkBelow
    <3>3. Passed(c, o, r)
      BY <1>5, <2>3, <3>2
    <3>4. PICK e \in Nat : p = Beyond(c, k, e) /\ ~ (e < Len(Chain(c, k)))
      BY <1>4, <2>3, <2>8, <2>10
    <3>5. \/ p = <<"each", 1>> /\ 1 \in 1..Len(Started(c, "each")) /\ EndedBelow(c, "each", 1)
          \/ p = <<"cb", 0>> /\ EachEnded(c)
      BY <3>4, BeyondOwn
    <3> QED
      BY <3>3, <3>5
  <2> QED
    BY <2>9, <2>10
<1>8. CASE Phase(c) = "each"
  <2>1. r = ok[c] /\ own[c] = o
    BY <1>8 DEF Result
  <2>2. Passed(c, o, r) /\ Behind(c, "each")
    BY <1>8, <2>1 DEF Chained, Chains
  <2>3. PICK i \in 1..Len(Started(c, "each")) : i = at[c][2]
    BY <1>1, <1>8 DEF InChain, Chains
  <2>4. p = Beyond(c, "each", i)
    BY <1>8, <2>3 DEF StepAfter
  <2>5. \A y \in Cmds, j \in 1..Len(Started(c, "each")) :
          IsPlace(c, "each", j, y) /\ j <= i => Ended(y)
    BY <2>2, <2>3 DEF Behind
  <2>6. CASE i < Len(Started(c, "each"))
    <3>1. p = <<"each", i + 1>> /\ i + 1 \in 1..Len(Started(c, "each"))
      BY <1>4, <2>4, <2>6 DEF Beyond
    <3>2. EndedBelow(c, "each", i + 1)
      BY <2>5 DEF EndedBelow
    <3> QED
      BY <2>2, <3>1, <3>2
  <2>7. CASE ~ (i < Len(Started(c, "each")))
    <3>1. p = <<"cb", 0>>
      BY <1>4, <2>4, <2>7 DEF Beyond
    <3>2. EachEnded(c)
      BY <1>4, <2>5, <2>7 DEF EachEnded
    <3> QED
      BY <2>2, <3>1, <3>2
  <2> QED
    BY <2>6, <2>7
<1> QED
  BY <1>6, <1>7, <1>8 DEF Chains

\* c goes on to the next command of a chain.
LEMMA ContinueKeepsChains ==
  ASSUME EngineInv, ChainsInv, NEW c \in Cmds, ContinueChain(c), hooked' = hooked
  PROVE  ChainsInv'
<1>1. PICK x \in Cmds, k \in Chains, i \in Nat :
        /\ IsPlace(c, k, i, x) /\ Ahead(c, k, i) /\ LaunchedBy(c, x)
        /\ StepAfter(c) = <<k, i>> /\ at'[c] = <<k, i>> /\ ok'[c] = Result(c)
  BY ContinueChainInv
<1>2. /\ c \in Nexts /\ Phase(c) \in {"f"} \cup Chains /\ program' = program
      /\ own' = IF Phase(c) = "f" THEN [own EXCEPT ![c] = ok[c]] ELSE own
  BY StepTaken DEF ContinueChain
<1>3. program \in Programs /\ own \in [Cmds -> BOOLEAN] /\ ok \in [Cmds -> BOOLEAN]
  BY DEF EngineInv, EngineTypes
<1>4. Launched(x, {c}) /\ k \in Kinds /\ Coming(x)
  BY <1>1 DEF LaunchedBy, Kinds, IsPlace, Coming
<1>5. Begun(c) /\ ~ Ended(c)
  BY <1>2 DEF Begun, Ended, Chains
<1>6. \A d \in Cmds \ {c} : own'[d] = own[d]
  BY <1>2, <1>3
<1>7. EndedStay /\ \A d \in Cmds \ {c} : Chained(d)'
  <2>1. {c} \in SUBSET Cmds /\ \A d \in {c} : d \in Nexts /\ Begun(d) /\ ~ Ended(d)
    BY <1>2, <1>5
  <2> QED
    BY <1>2, <1>4, <1>6, <2>1, LaunchKeepsChains
<1>8. PICK o \in BOOLEAN : o = IF Phase(c) = "f" THEN ok[c] ELSE own[c]
  BY <1>3
<1>9. PICK r \in BOOLEAN : r = Result(c)
  BY ResultType
<1>10. own'[c] = o /\ ok'[c] = r /\ Phase(c)' = k /\ at'[c][2] = i
  BY <1>1, <1>2, <1>3, <1>8, <1>9 DEF Phase
<1>11. c \notin Nexts'
  BY <1>4 DEF Launched
<1>12. ASSUME NEW l \in Kinds, l # k PROVE Undisturbed(c, l)
  <2>1. \A y \in Cmds, j \in 1..Len(Started(c, l)) : IsPlace(c, l, j, y) => y # x
    <3>1. \A d \in Cmds, m \in Kinds : \A j \in 1..Len(Started(d, m)) :
            Started(d, m)[j] = x => d = c /\ m = k /\ j = i
      BY <1>1, <1>3, <1>4, OnePlace DEF IsPlace
    <3> QED
      BY <1>12, <3>1 DEF IsPlace
  <2>2. \A y \in Cmds \ {x} : Begun(y)' => Begun(y)
    BY <1>4, <1>5 DEF Launched, Begun, Phase
  <2> QED
    BY <2>1, <2>2 DEF Undisturbed
<1>13. ASSUME NEW l \in Chains, EndedBelow(c, l, i), l = k PROVE Behind(c, l)'
  <2>1. \A y \in Cmds, j \in 1..Len(Started(c, l)) : IsPlace(c, l, j, y) /\ j < i => Ended(y)'
    BY <1>7, <1>13 DEF EndedBelow, EndedStay
  <2>2. at'[c][2] = i /\ c \notin Nexts'
    BY <1>10, <1>11
  <2> QED
    BY <1>2, <2>1, <2>2, SamePlaces DEF Behind
<1>14. Chained(c)
  BY DEF ChainsInv
<1>15. PICK p : p = StepAfter(c)
  OBVIOUS
<1>16. CASE \E j \in 1..Len(Started(c, OwnChain(o))) :
              /\ p = <<OwnChain(o), j>> /\ Idle(c, OwnChain(~ o))
              /\ EndedBelow(c, OwnChain(o), j) /\ OkBelow(c, OwnChain(o), j, o)
  <2>1. /\ k = OwnChain(o) /\ Idle(c, OwnChain(~ o)) /\ EndedBelow(c, k, i) /\ OkBelow(c, k, i, o)
    BY <1>1, <1>15, <1>16
  <2>2. PICK l \in {"all", "any"} : l = OwnChain(~ o) /\ l \in Kinds
    BY OwnChainType
  <2>3. l # k
    BY <2>1, <2>2 DEF OwnChain
  <2>4. Idle(c, l)'
    <3>1. Idle(c, l) /\ Undisturbed(c, l)
      BY <1>12, <2>1, <2>2, <2>3
    <3> QED
      BY <1>2, <3>1, IdleKept
  <2>5. ASSUME NEW y \in Cmds, NEW j \in 1..Len(Started(c, k)), IsPlace(c, k, j, y), j < i
                 PROVE ok'[y] = o
    BY <1>7, <2>1, <2>5 DEF EndedBelow, OkBelow, EndedStay
  <2>6. Within(c, o)'
    BY <1>2, <1>10, <2>1, <2>2, <2>4, <2>5, SamePlaces DEF Within
  <2>7. Phase(c)' \in {"all", "any"} /\ ~ Ended(c)' /\ Behind(c, k)'
    BY <1>10, <1>13, <2>1, OwnChainType DEF Ended
  <2> QED
    BY <1>7, <1>10, <2>6, <2>7 DEF ChainsInv, Chained
<1>17. CASE Passed(c, o, r) /\ \E j \in 1..Len(Started(c, "each")) :
              p = <<"each", j>> /\ EndedBelow(c, "each", j)
  <2>1. k = "each" /\ EndedBelow(c, k, i)
    BY <1>1, <1>15, <1>17
  <2>2. Undisturbed(c, "all") /\ Undisturbed(c, "any")
    BY <1>12, <2>1 DEF Kinds, Chains
  <2>3. Passed(c, o, r)'
    BY <1>2, <1>7, <1>17, <2>2, PassedKept
  <2>4. Phase(c)' = "each" /\ ~ Ended(c)' /\ Behind(c, k)'
    BY <1>10, <1>13, <2>1 DEF Ended
  <2> QED
    BY <1>7, <1>10, <2>3, <2>4 DEF ChainsInv, Chained
<1>18. p # <<"cb", 0>>
  BY <1>1, <1>15 DEF Chains
<1> QED
  BY <1>2, <1>8, <1>9, <1>14, <1>15, <1>16, <1>17, <1>18, NextStage

\* The callback of c: what it has come to stays.
LEMMA CallbackKeepsChains ==
  ASSUME EngineInv, ChainsInv, NEW c \in Cmds, Callback(c), hooked' = hooked
  PROVE  ChainsInv'
<1>1. /\ c \in Nexts /\ Phase(c) \in {"f"} \cup Chains /\ program' = program
           /\ StepAfter(c)[1] = "cb"
      /\ at' = [at EXCEPT ![c] = <<"cb", 0>>]
      /\ own' = IF Phase(c) = "f" THEN [own EXCEPT ![c] = ok[c]] ELSE own
  BY StepTaken DEF Callback
<1>2. /\ program \in Programs /\ own \in [Cmds -> BOOLEAN] /\ ok \in [Cmds -> BOOLEAN]
      /\ at \in [Cmds -> Phases \X Nat]
  BY DEF EngineInv, EngineTypes
<1>3. Running(c)
  BY <1>1 DEF Running, Ended, Begun, Chains
<1>4. \A d \in Cmds : c \in Starts(d) => Current(d, c) /\ d # c
  <2>1. \A d \in Cmds : c \in Starts(d) => Current(d, c) /\ d \notin Nexts
    BY <1>3 DEF EngineInv, ResumeInv
  <2> QED
    BY <1>1, <2>1
<1>5. \A d \in Cmds : ok'[d] # ok[d] => d = c \/ (d # c /\ Phase(d) = "f")
  <2>1. CASE ~ Debugged(c)
    <3>1. ok' = [ok EXCEPT ![c] = Result(c)]
      BY <2>1 DEF Callback
    <3> QED
      BY <1>2, <3>1
  <2>2. CASE Debugged(c)
    <3>1. PICK d \in Cmds : Cmd(d).does = "debug" /\ c = Cmd(d).args[1]
      BY <2>2 DEF Debugged
    <3>2. Len(Started(d, "args")) = 1 /\ c = Started(d, "args")[1] /\ "args" \in Kinds
      BY <1>2, <3>1, DebugFacts DEF Kinds
    <3>3. c \in Starts(d)
      BY <1>2, <3>2, StartsFacts
    <3>4. ParentsOf(c) = {d} /\ Current(d, c) /\ d # c
      BY <1>2, <1>4, <3>3, OneParent
    <3>5. Phase(d) = "f"
      <4>1. \A e \in Cmds, l \in Kinds : \A j \in 1..Len(Started(e, l)) :
              Started(e, l)[j] = c => l = "args"
        BY <1>2, <3>2, OnePlace
      <4>2. ~ (Phase(d) \in Chains /\ c = Started(d, Phase(d))[at[d][2]])
        BY <4>1 DEF EngineInv, PlacesInv, InChain, Chains, Kinds
      <4> QED
        BY <3>4, <4>2 DEF Current
    <3>6. ok' = [ok EXCEPT ![c] = Result(c), ![d] = Result(c)]
      <4>1. (CHOOSE p \in ParentsOf(c) : TRUE) = d
        BY <3>4
      <4> QED
        BY <2>2, <4>1 DEF Callback
    <3> QED
      BY <1>2, <3>4, <3>5, <3>6
  <2> QED
    BY <2>1, <2>2
<1>6. /\ Phase(c)' = "cb" /\ Ended(c)' /\ ~ Ended(c) /\ Begun(c)
      /\ \A d \in Cmds \ {c} : at'[d] = at[d] /\ Phase(d)' = Phase(d)
  BY <1>1, <1>2 DEF Phase, Ended, Begun, Chains
<1>7. EndedStay
  BY <1>5, <1>6 DEF EndedStay, Ended
<1>8. \A y \in Cmds : Begun(y)' => Begun(y)
  BY <1>6 DEF Begun
<1>9. BegunInTurn
  BY <1>8 DEF BegunInTurn
<1>10. ASSUME NEW d \in Cmds, d # c PROVE Chained(d)'
  <2>1. at'[d] = at[d] /\ own'[d] = own[d] /\ Chained(d)
    BY <1>1, <1>2, <1>6, <1>10 DEF ChainsInv
  <2>2. Phase(d) \in {"all", "any", "each", "cb", "over"} => ok'[d] = ok[d]
    BY <1>5, <1>10
  <2>3. ASSUME NEW k \in Chains, NEW y \in Cmds, Phase(d) = k, d \in Nexts',
                 IsPlace(d, k, at[d][2], y)
        PROVE  d \in Nexts \/ Ended(y)'
    <3>1. Nexts' = Nexts \cup {e \in Cmds : c \in Starts(e)}
      BY CallbackQueue DEF Nexts
    <3>2. CASE c \in Starts(d)
      <4>1. y = c
        BY <1>4, <2>3, <3>2 DEF Current, IsPlace, Chains
      <4> QED
        BY <1>6, <4>1
    <3> QED
      BY <2>3, <3>1, <3>2
  <2> QED
    BY <1>1, <1>7, <1>9, <2>1, <2>2, <2>3, RestKeepsChain
<1>11. PICK o \in BOOLEAN : o = IF Phase(c) = "f" THEN ok[c] ELSE own[c]
  BY <1>2
<1>12. PICK r \in BOOLEAN : r = Result(c)
  BY ResultType
<1>13. own'[c] = o /\ ok'[c] = r
  <2>1. own'[c] = o
    BY <1>1, <1>2, <1>11
  <2>2. PICK d : d = CHOOSE p \in ParentsOf(c) : TRUE
    OBVIOUS
  <2>3. ok' = [ok EXCEPT ![c] = r, ![d] = r] \/ ok' = [ok EXCEPT ![c] = r]
    BY <1>12, <2>2 DEF Callback
  <2> QED
    BY <1>2, <2>1, <2>3
<1>14. PICK p : p = StepAfter(c)
  OBVIOUS
<1>15. Passed(c, o, r) /\ EachEnded(c)
  <2>1. Chained(c) /\ OwnChain(o) # "cb"
    BY OwnChainType DEF ChainsInv
  <2>2. p[1] = "cb"
    BY <1>1, <1>14
  <2> QED
    BY <1>1, <1>11, <1>12, <1>14, <2>1, <2>2, NextStage
<1>16. Passed(c, o, r)'
  <2>1. Undisturbed(c, "all") /\ Undisturbed(c, "any")
    BY <1>8 DEF Undisturbed
  <2> QED
    BY <1>1, <1>7, <1>15, <2>1, PassedKept
<1>17. EachEnded(c)'
  BY <1>1, <1>7, <1>15, SamePlaces DEF EachEnded, EndedStay
<1>18. Chained(c)'
  BY <1>6, <1>13, <1>16, <1>17 DEF Chained, Chains
<1> QED
  BY <1>10, <1>18 DEF ChainsInv

\* The other steps of a command.
LEMMA MovesKeepChains ==
  ASSUME EngineInv, ChainsInv, NEW c \in Cmds, hooked' = hooked,
         Begin(c) \/ StartTop(c) \/ Finish(c)
  PROVE  ChainsInv'
<1>1. program' = program /\ own' = own /\ program \in Programs
  BY DEF Begin, StartTop, Finish, EngineInv, EngineTypes
<1>2. CASE StartTop(c)
  <2>1. /\ {} \in SUBSET Cmds /\ Launched(c, {}) /\ c \in program.top
        /\ \A d \in {} : d \in Nexts /\ Begun(d) /\ ~ Ended(d)
        /\ \A d \in Cmds \ {} : own'[d] = own[d]
    BY <1>1, <1>2, StartTopInv
  <2>2. \A d \in Cmds \ {} : Chained(d)'
    BY <1>1, <2>1, LaunchKeepsChains
  <2> QED
    BY <2>2 DEF ChainsInv
<1>3. CASE Begin(c)
  <2>1. /\ Phase(c)' \in {"f", "dead"} /\ EngineInv'
        /\ \/ /\ HlsIn(doq') = HlsIn(doq) /\ seq' = seq /\ Nexts' \subseteq Nexts
              /\ \A d \in Cmds \ {c} : at'[d] = at[d] /\ ok'[d] = ok[d]
           \/ \E x \in Cmds : LaunchedBy(c, x) /\ Coming(x)
    BY <1>3, BeginInv
  <2>2. Phase(c) = "new" /\ Begun(c) /\ ~ Ended(c) /\ c \in Nexts
    BY <1>3, StepTaken DEF Begin, Begun, Ended
  <2>3. Chained(c)'
    BY <2>1 DEF Chained, Chains, Ended
  <2>4. CASE Nexts' \subseteq Nexts /\ \A d \in Cmds \ {c} : at'[d] = at[d] /\ ok'[d] = ok[d]
    <3>1. EndedStay /\ BegunInTurn
      BY <2>2, <2>4 DEF EndedStay, BegunInTurn, Ended, Begun, Phase
    <3>2. ASSUME NEW d \in Cmds, d # c PROVE Chained(d)'
      <4>1. at'[d] = at[d] /\ ok'[d] = ok[d] /\ own'[d] = own[d] /\ Chained(d)
        BY <1>1, <2>4, <3>2 DEF ChainsInv
      <4>2. d \in Nexts' => d \in Nexts
        BY <2>4
      <4> QED
        BY <1>1, <3>1, <4>1, <4>2, RestKeepsChain
    <3> QED
      BY <2>3, <3>2 DEF ChainsInv
  <2>5. ASSUME NEW x \in Cmds, LaunchedBy(c, x), Coming(x) PROVE ChainsInv'
    <3>1. /\ {c} \in SUBSET Cmds /\ Launched(x, {c})
          /\ \A d \in {c} : d \in Nexts /\ Begun(d) /\ ~ Ended(d)
          /\ \A d \in Cmds \ {c} : own'[d] = own[d]
      BY <1>1, <2>2, <2>5 DEF LaunchedBy
    <3>2. \A d \in Cmds \ {c} : Chained(d)'
      BY <1>1, <2>5, <3>1, LaunchKeepsChains
    <3> QED
      BY <2>3, <3>2 DEF ChainsInv
  <2> QED
    BY <2>1, <2>4, <2>5
<1>4. CASE Finish(c)
  <2>1. at' = [at EXCEPT ![c] = <<"over", 0>>] /\ ok' = ok /\ Phase(c) = "cb"
    BY <1>4 DEF Finish
  <2>2. at \in [Cmds -> Phases \X Nat]
    BY DEF EngineInv, EngineTypes
  <2>3. Phase(c)' = "over" /\ \A d \in Cmds \ {c} : at'[d] = at[d]
    BY <2>1, <2>2 DEF Phase
  <2>4. EndedStay /\ BegunInTurn
    BY <2>1, <2>3 DEF EndedStay, BegunInTurn, Ended, Begun, Phase
  <2>5. Chained(c)
    BY DEF ChainsInv
  <2>6. Chained(c)'
    <3>1. ASSUME NEW o \in BOOLEAN, NEW r \in BOOLEAN, own[c] = o, ok[c] = r PROVE Passed(c, o, r)'
      <4>1. Passed(c, o, r)
        BY <2>1, <2>5, <3>1 DEF Chained
      <4>2. Undisturbed(c, "all") /\ Undisturbed(c, "any")
        <5>1. \A k \in {"all", "any"} : k \in Kinds /\ \A j \in Nat : ~ Ahead(c, k, j)
          BY <2>1 DEF Kinds, Chains, Ahead
        <5> QED
          BY <1>1, <2>4, <5>1, NotBegunAgain
      <4> QED
        BY <1>1, <2>4, <4>1, <4>2, PassedKept
    <3>2. EachEnded(c)'
      <4>1. EachEnded(c)
        BY <2>1, <2>5 DEF Chained, Ended
      <4> QED
        BY <1>1, <2>4, <4>1, SamePlaces DEF EachEnded, EndedStay
    <3> QED
      BY <1>1, <2>1, <2>3, <3>1, <3>2 DEF Chained, Chains
  <2>7. ASSUME NEW d \in Cmds, d # c PROVE Chained(d)'
    <3>1. at'[d] = at[d] /\ ok'[d] = ok[d] /\ own'[d] = own[d] /\ Chained(d)
      BY <1>1, <2>1, <2>3, <2>7 DEF ChainsInv
    <3>2. d \in Nexts' => d \in Nexts
      BY <1>4, FinishInv
    <3> QED
      BY <1>1, <2>4, <3>1, <3>2, RestKeepsChain
  <2> QED
    BY <2>6, <2>7 DEF ChainsInv
<1> QED
  BY <1>2, <1>3, <1>4

\* A step that moves no command.
LEMMA StillKeepsChains ==
  ASSUME EngineInv, ChainsInv, program' = program, at' = at, own' = own,
         \A d \in Cmds : ok'[d] = ok[d] \/ Phase(d) = "f",
         \A d \in Nexts' : d \in Nexts \/ Phase(d) = "f"
  PROVE  ChainsInv'
<1>1. \A d : Phase(d)' = Phase(d) /\ (Ended(d)' <=> Ended(d)) /\ (Begun(d)' <=> Begun(d))
  BY DEF Phase, Ended, Begun
<1>2. EndedStay /\ BegunInTurn
  BY <1>1 DEF EndedStay, BegunInTurn, Ended
<1>3. ASSUME NEW d \in Cmds PROVE Chained(d)'
  <2>1. /\ at'[d] = at[d] /\ own'[d] = own[d] /\ Chained(d)
        /\ Phase(d) \in {"all", "any", "each", "cb", "over"} => ok'[d] = ok[d]
        /\ Phase(d) \in Chains /\ d \in Nexts' => d \in Nexts
    BY DEF ChainsInv, Chains
  <2> QED
    BY <1>2, <2>1, RestKeepsChain
<1> QED
  BY <1>3 DEF ChainsInv

LEMMA ChainsStep == EngineInv /\ ChainsInv /\ [EditorNext]_editorVars => ChainsInv'
<1> SUFFICES ASSUME EngineInv, ChainsInv, [EditorNext]_editorVars PROVE ChainsInv'
  OBVIOUS
<1>0. ok \in [Cmds -> BOOLEAN]
  BY DEF EngineInv, EngineTypes
<1>1. CASE UNCHANGED <<nineoVars, hooked>>
  <2>1. program' = program /\ at' = at /\ own' = own /\ ok' = ok /\ Nexts' = Nexts
    BY <1>1, RestInv DEF nineoVars, engineVars
  <2> QED
    BY <2>1, StillKeepsChains
<1>2. CASE Hook
  <2>1. PICK x \in Cmds : Launched(x, {}) /\ Coming(x)
    BY <1>2, HookInv
  <2>2. program' = program /\ own' = own
    BY <1>2 DEF Hook
  <2>3. /\ {} \in SUBSET Cmds /\ \A d \in {} : d \in Nexts /\ Begun(d) /\ ~ Ended(d)
        /\ \A d \in Cmds \ {} : own'[d] = own[d]
    BY <2>2
  <2>4. \A d \in Cmds \ {} : Chained(d)'
    BY <2>1, <2>2, <2>3, LaunchKeepsChains
  <2> QED
    BY <2>4 DEF ChainsInv
<1>3. ASSUME NEW s \in Sigs, FireHook(s) PROVE ChainsInv'
  <2>1. program' = program /\ at' = at /\ own' = own /\ ok' = ok /\ Nexts' = Nexts
    BY <1>3, FireHookInv DEF FireHook, engineVars
  <2> QED
    BY <2>1, StillKeepsChains
<1>4. ASSUME NEW c \in Cmds, EngineRuns(c) \/ UserRuns(c) \/ MargoSends(c) \/ MargoAnswers(c)
      PROVE  ChainsInv'
  <2>1. hooked' = hooked
    BY <1>4 DEF EngineRuns, UserRuns, MargoSends, MargoAnswers
  <2>2. CASE ContinueChain(c) BY <2>1, <2>2, ContinueKeepsChains
  <2>3. CASE Callback(c) BY <2>1, <2>3, CallbackKeepsChains
  <2>4. CASE Begin(c) \/ StartTop(c) \/ Finish(c) BY <2>1, <2>4, MovesKeepChains
  <2>5. CASE NoStep(c)
    <3>1. program' = program /\ at' = at /\ own' = own /\ ok' = ok /\ Nexts' \subseteq Nexts
      BY <2>1, <2>5, NoStepInv DEF NoStep, engineVars
    <3> QED
      BY <3>1, StillKeepsChains
  <2>6. CASE Chunk(c)
    <3>1. program' = program /\ at' = at /\ own' = own /\ ok' = ok /\ Nexts' = Nexts
      BY <2>1, <2>6, ChunkInv DEF Chunk, engineVars
    <3> QED
      BY <3>1, StillKeepsChains
  <2>7. CASE ExecAnswer(c)
    <3>1. program' = program /\ at' = at /\ own' = own /\ Nexts' = Nexts \cup {c} /\ Phase(c) = "f"
      BY <2>1, <2>7, ExecAnswerInv DEF ExecAnswer
    <3>2. \A d \in Cmds : ok'[d] = ok[d] \/ Phase(d) = "f"
      BY <1>0, <2>7, <3>1 DEF ExecAnswer
    <3> QED
      BY <3>1, <3>2, StillKeepsChains
  <2>8. ASSUME NEW m \in BOOLEAN, HlSkip(c, m) \/ HlReport(c, m) PROVE ChainsInv'
    <3>1. program' = program /\ at' = at /\ own' = own /\ ok' = ok /\ Nexts' = Nexts
      BY <2>1, <2>8, HlInvKept DEF HlSkip, HlReport, engineVars
    <3> QED
      BY <3>1, StillKeepsChains
  <2> QED
    BY <1>4, <2>2, <2>3, <2>4, <2>5, <2>6, <2>7, <2>8
       DEF EngineRuns, Engine, UserRuns, MargoSends, MargoAnswers
<1> QED
  BY <1>1, <1>2, <1>3, <1>4, EngineRests

LEMMA ChainsInit == EditorInit => ChainsInv
<1> SUFFICES ASSUME EditorInit PROVE ChainsInv
  OBVIOUS
<1>1. \A c \in Cmds : Phase(c) = "none"
  BY DEF EditorInit, NineoInit, Phase
<1> QED
  BY <1>1, NotChained DEF ChainsInv

LEMMA PlaceIn ==
  ASSUME program \in Programs, NEW c \in Cmds, NEW k \in Kinds, NEW j \in 1..Len(Started(c, k))
  PROVE  Started(c, k)[j] \in Cmds /\ IsPlace(c, k, j, Started(c, k)[j])
BY StartedType DEF IsPlace

\* The commands that c started, when it has ended, are those that its result called for.
LEMMA EndedAsDocumented ==
  ASSUME EngineInv, NEW c \in Cmds, Chained(c), Ended(c)
  PROVE  (\A x \in Children(c) : Begun(x) => Ended(x)) /\ Outcome(c)
<1>1. PICK o \in BOOLEAN, r \in BOOLEAN : o = own[c] /\ r = ok[c]
  BY DEF EngineInv, EngineTypes
<1>2. Passed(c, o, r) /\ EachEnded(c) /\ program \in Programs
  BY <1>1 DEF Chained, Ended, EngineInv, EngineTypes
<1>3. PICK k \in {"all", "any"}, l \in {"all", "any"} :
        k = OwnChain(o) /\ l = OwnChain(~ o) /\ k # l /\ Chains = {k, l, "each"}
              /\ k \in Kinds /\ l \in Kinds /\ "each" \in Kinds /\ k \in Chains /\ "each" \in Chains
  BY DEF OwnChain, Chains, Kinds
<1>4. PICK L : L = Chain(c, k)
  OBVIOUS
<1>5. /\ L = Started(c, k) /\ Len(L) \in Nat /\ Chain(c, "each") = Started(c, "each")
      /\ L \in Seq(Cmds) /\ L = Chain(c, IF own[c] THEN "all" ELSE "any")
  <2>1. L = Started(c, k) /\ Chain(c, "each") = Started(c, "each")
    BY <1>3, <1>4, ChainIsStarted
  <2>2. L \in Seq(Cmds) /\ Len(L) \in Nat
    BY <1>2, <1>3, <2>1, StartedType
  <2>3. L = Chain(c, IF own[c] THEN "all" ELSE "any")
    BY <1>1, <1>3, <1>4 DEF OwnChain
  <2> QED
    BY <2>1, <2>2, <2>3
<1>6. PICK n \in 0..Len(L) : PassedAt(c, o, r, n)
  BY <1>2, <1>3, <1>5 DEF Passed
<1>7. \A j \in 1..Len(L) : L[j] \in Cmds /\ IsPlace(c, k, j, L[j])
  BY <1>2, <1>3, <1>5, PlaceIn
<1>8. \A j \in 1..Len(L) :
        /\ j <= n => Ended(L[j])
        /\ j < n  => ok[L[j]] = o
        /\ j = n  => ok[L[j]] = r /\ (n < Len(L) => r # o)
        /\ j > n  => ~ Begun(L[j])
  BY <1>3, <1>5, <1>6, <1>7 DEF PassedAt
<1>9. n = 0 => Len(L) = 0 /\ r = o
  BY <1>3, <1>5, <1>6 DEF PassedAt
<1>10. ASSUME NEW x
       PROVE  /\ x \in Children(c) /\ Begun(x) <=>
               x \in {L[i] : i \in 1..n} \cup ToSet(Chain(c, "each"))
              /\ x \in Children(c) /\ Begun(x) => Ended(x)
  <2>1. x \in Children(c) <=> \E m \in Chains : \E j \in 1..Len(Started(c, m)) :
          x = Started(c, m)[j]
    <3>1. \A m \in Chains : Chain(c, m) = Started(c, m)
            /\ DOMAIN Started(c, m) = 1..Len(Started(c, m))
      BY <1>2, ChainIsStarted, StartedType DEF Kinds
    <3>2. \A m \in Chains : x \in ToSet(Chain(c, m)) <=> \E j \in 1..Len(Started(c, m)) :
            x = Started(c, m)[j]
      BY <3>1 DEF ToSet
    <3> QED
      BY <3>2 DEF Children
  <2>2. x \in ToSet(Chain(c, "each")) <=> \E j \in 1..Len(Started(c, "each")) :
          x = Started(c, "each")[j]
    <3>1. DOMAIN Started(c, "each") = 1..Len(Started(c, "each"))
      BY <1>2, <1>3, StartedType
    <3> QED
      BY <1>5, <3>1 DEF ToSet
  <2>3. ASSUME NEW j \in 1..Len(Started(c, "each")), x = Started(c, "each")[j]
        PROVE  Ended(x)
    <3>1. x \in Cmds /\ IsPlace(c, "each", j, x)
      BY <1>2, <1>3, <2>3, PlaceIn
    <3> QED
      BY <1>2, <3>1 DEF EachEnded
  <2>4. ASSUME NEW j \in 1..Len(Started(c, l)), x = Started(c, l)[j]
        PROVE  ~ Begun(x)
    <3>1. x \in Cmds /\ IsPlace(c, l, j, x)
      BY <1>2, <1>3, <2>4, PlaceIn
    <3> QED
      BY <1>2, <1>3, <3>1 DEF Passed, Idle
  <2>5. Ended(x) => Begun(x)
    BY DEF Ended, Begun
  <2>6. ASSUME NEW j \in 1..Len(L), x = L[j] PROVE Begun(x) => j \in 1..n /\ Ended(x)
    BY <1>8, <2>6
  <2>7. \A i \in 1..n : i \in 1..Len(L) /\ Ended(L[i])
    BY <1>5, <1>8
  <2>8. CASE x \in Children(c) /\ Begun(x)
    <3>1. PICK m \in Chains : \E j \in 1..Len(Started(c, m)) : x = Started(c, m)[j]
      BY <2>1, <2>8
    <3>2. m # l
      BY <2>4, <2>8, <3>1
    <3>3. CASE m = "each"
      BY <2>2, <2>3, <2>8, <3>1, <3>3
    <3>4. CASE m = k
      BY <1>5, <2>6, <2>8, <3>1, <3>4
    <3> QED
      BY <1>3, <3>2, <3>3, <3>4
  <2>9. CASE x \in {L[i] : i \in 1..n} \cup ToSet(Chain(c, "each"))
    <3>1. CASE x \in ToSet(Chain(c, "each"))
      BY <1>3, <2>1, <2>2, <2>3, <2>5, <2>9, <3>1
    <3>2. CASE x \in {L[i] : i \in 1..n}
      BY <1>3, <1>5, <2>1, <2>5, <2>7, <2>9, <3>2
    <3> QED
      BY <2>9, <3>1, <3>2
  <2> QED
    BY <2>8, <2>9
<1>11. {x \in Children(c) : Begun(x)} = {L[i] : i \in 1..n} \cup ToSet(Chain(c, "each"))
  BY <1>10
<1>12. /\ n = 0 => L = <<>>
       /\ \A i \in 1..n : i < n => ok[L[i]] = own[c]
       /\ n \in 1..(Len(L) - 1) => ok[L[n]] # own[c]
       /\ ok[c] = IF n = 0 THEN own[c] ELSE ok[L[n]]
  <2>1. n = 0 => L = <<>>
    BY <1>5, <1>9
  <2>2. \A i \in 1..n : i \in 1..Len(L)
    BY <1>5
  <2>3. \A i \in 1..n : i < n => ok[L[i]] = own[c]
    BY <1>1, <1>8, <2>2
  <2>4. n # 0 => n \in 1..Len(L) /\ ok[L[n]] = r
    BY <1>5, <1>8
  <2>5. n \in 1..(Len(L) - 1) => ok[L[n]] # own[c]
    BY <1>1, <1>5, <1>8
  <2>6. ok[c] = IF n = 0 THEN own[c] ELSE ok[L[n]]
    BY <1>1, <1>9, <2>4
  <2> QED
    BY <2>1, <2>3, <2>5, <2>6
<1>13. Outcome(c)
  BY <1>5, <1>11, <1>12 DEF Outcome
<1> QED
  BY <1>10, <1>13

LEMMA ChainsInvDocumented == EngineInv /\ ChainsInv => ChainsAsDocumented
<1> SUFFICES ASSUME EngineInv, ChainsInv, NEW c \in Cmds
             PROVE  /\ Phase(c) \in Chains => UpTo(Chain(c, Phase(c)), at[c][2])
                    /\ Ended(c) => /\ \A x \in Children(c) : Begun(x) => Ended(x)
                                   /\ Outcome(c)
  BY DEF ChainsAsDocumented
<1>1. Chained(c) /\ program \in Programs /\ at[c][2] \in Nat /\ InChain(c)
  BY PhaseTypes DEF ChainsInv, EngineInv, EngineTypes, PlacesInv
<1>2. ASSUME NEW k \in Chains, Phase(c) = k PROVE UpTo(Chain(c, k), at[c][2])
  <2>1. Chain(c, k) = Started(c, k) /\ k \in Kinds /\ Behind(c, k) /\ Len(Started(c, k)) \in Nat
    BY <1>1, <1>2, ChainIsStarted, StartedType DEF Chained, Kinds
  <2>2. at[c][2] \in 1..Len(Started(c, k))
    BY <1>1, <1>2 DEF InChain
  <2>3. ASSUME NEW j \in 1..at[c][2], j < at[c][2] PROVE Ended(Started(c, k)[j])
    <3>1. j \in 1..Len(Started(c, k))
      BY <2>1, <2>2
    <3> QED
      BY <1>1, <2>1, <2>3, <3>1, PlaceIn DEF Behind
  <2>4. ASSUME NEW j \in (at[c][2] + 1)..Len(Started(c, k)) PROVE ~ Begun(Started(c, k)[j])
    <3>1. j \in 1..Len(Started(c, k)) /\ j > at[c][2]
      BY <2>1, <2>2
    <3>2. Ahead(c, k, j)
      BY <1>2, <3>1 DEF Ahead
    <3> QED
      BY <1>1, <2>1, <3>1, <3>2, PlaceIn, AheadIdle
  <2> QED
    BY <2>1, <2>3, <2>4 DEF UpTo
<1> QED
  BY <1>1, <1>2, EndedAsDocumented

\* The chains do what the settings say, whatever the commands answer and however chains are
\* nested: `all` is `this && a && b`, `any` is `this || a || b`, `each` is `this ; a ; b`.
THEOREM ChainsDoAsDocumented == EditorSpec => []ChainsAsDocumented
<1>1. EditorSpec => []ChainsInv
  BY ChainsInit, ChainsStep, EngineIsConsistent, PTL DEF EditorSpec
<1> QED
  BY <1>1, EngineIsConsistent, ChainsInvDocumented, PTL

-----------------------------------------------------------------------------
(* Every chain goes on. *)

\* Someone is going to resume c: the queue, margo's answer, or the command that c has
\* started last, which has not ended.
Waited(c) == c \in Nexts \/ c \in asked \/ \E x \in Starts(c) : Running(x)

\* In a program without errors the generators go on until their last step.
LiveInv ==
  Sound => \A c \in Cmds :
    /\ Phase(c) # "dead" /\ (c \in Nexts => Phase(c) # "none")
    /\ Phase(c) \notin {"none", "over"} => Waited(c)

LEMMA StartsType ==
  ASSUME program \in Programs, NEW c \in Cmds
  PROVE  Starts(c) \subseteq Cmds
BY StartsFacts, StartedType

LEMMA SameSound == program' = program => (Sound' <=> Sound)
BY DEF Sound, Cmd

\* A step that moves no generator, and resumes none.
LEMMA RestKeepsLive ==
  ASSUME LiveInv, program' = program, at' = at, Nexts' = Nexts, asked' = asked
  PROVE  LiveInv'
<1>1. \A c : Starts(c)' = Starts(c) /\ Phase(c)' = Phase(c)
  BY SameProgram DEF Phase
<1>2. \A c : Running(c)' <=> Running(c)
  BY <1>1 DEF Running, Ended, Begun
<1>3. \A c : Waited(c)' <=> Waited(c)
  BY <1>1, <1>2 DEF Waited
<1> QED
  BY <1>1, <1>3, SameSound DEF LiveInv

\* A step of c, or an answer to it, that starts nothing: it goes on or is over, and whoever
\* has waited for it is resumed unless it goes on.
LEMMA MoveKeepsLive ==
  ASSUME EngineInv, LiveInv, program' = program, NEW c \in Cmds,
         \A d \in Cmds \ {c} : at'[d] = at[d],
         \A d \in Cmds \ {c} : d \in Nexts' => d \in Nexts \/ Phase(d) # "none",
         Nexts \ {c} \subseteq Nexts', asked \ {c} \subseteq asked',
         Phase(c)' \notin {"none", "dead"},
         Phase(c)' = "over" \/ c \in Nexts' \/ c \in asked',
         \A d \in Cmds : c \in Starts(d) /\ Running(c) => d \in Nexts' \/ Running(c)'
  PROVE  LiveInv'
<1> SUFFICES ASSUME Sound, NEW d \in Cmds
             PROVE  /\ Phase(d)' # "dead" /\ (d \in Nexts' => Phase(d)' # "none")
                    /\ Phase(d)' \notin {"none", "over"} => Waited(d)'
  BY SameSound DEF LiveInv
<1>1. CASE d = c
  BY <1>1 DEF Waited
<1>2. CASE d # c
  <2>1. Phase(d)' = Phase(d) /\ Starts(d)' = Starts(d) /\ Starts(d) \subseteq Cmds
    BY <1>2, SameProgram, StartsType DEF Phase, EngineInv, EngineTypes
  <2>2. Phase(d) # "dead" /\ (d \in Nexts => Phase(d) # "none")
    BY DEF LiveInv
  <2>3. ASSUME NEW x \in Starts(d), Running(x), x # c PROVE Running(x)'
    <3>1. x \in Cmds /\ Phase(x)' = Phase(x) /\ (x \in Nexts => x \in Nexts')
      BY <2>1, <2>3 DEF Phase
    <3> QED
      BY <2>3, <3>1 DEF Running, Ended, Begun
  <2>4. Waited(d) => Waited(d)'
    <3>1. CASE d \in Nexts \/ d \in asked
      BY <1>2, <3>1 DEF Waited
    <3>2. ASSUME NEW x \in Starts(d), Running(x) PROVE Waited(d)'
      <4>1. CASE x = c
        BY <2>1, <3>2, <4>1 DEF Waited
      <4>2. CASE x # c
        BY <2>1, <2>3, <3>2, <4>2 DEF Waited
      <4> QED
        BY <4>1, <4>2
    <3> QED
      BY <3>1, <3>2 DEF Waited
  <2>5. Phase(d) \notin {"none", "over"} => Waited(d)
    BY DEF LiveInv
  <2> QED
    BY <1>2, <2>1, <2>2, <2>4, <2>5
<1> QED
  BY <1>1, <1>2

\* x is started, by the step of c if C is {c}: c waits for it.
LEMMA LaunchKeepsLive ==
  ASSUME EngineInv, LiveInv, program' = program, asked' = asked, NEW x, NEW C \in SUBSET Cmds,
         Launched(x, C), \A c \in C : Phase(c)' \in {"f"} \cup Chains
  PROVE  LiveInv'
<1> SUFFICES ASSUME Sound, NEW d \in Cmds
             PROVE  /\ Phase(d)' # "dead" /\ (d \in Nexts' => Phase(d)' # "none")
                    /\ Phase(d)' \notin {"none", "over"} => Waited(d)'
  BY SameSound DEF LiveInv
<1>1. x \in Cmds /\ Phase(x)' = "new" /\ x \in Nexts' /\ Nexts' = (Nexts \ C) \cup {x}
  BY DEF Launched, Sound
<1>2. Phase(x) = "none" /\ x \notin Nexts
  BY DEF Launched, Fresh, EngineInv, PlacesInv
<1>3. \A e \in Cmds : Starts(e)' = Starts(e) /\ Starts(e) \subseteq Cmds
  BY SameProgram, StartsType DEF EngineInv, EngineTypes
<1>4. \A e \in Cmds \ (C \cup {x}) : Phase(e)' = Phase(e)
  BY DEF Launched, Phase
<1>5. \A e \in C \cup {x} : Running(e)'
  BY <1>1 DEF Running, Ended, Begun, Chains
<1>6. CASE d = x
  BY <1>1, <1>6 DEF Waited
<1>7. CASE d \in C
  <2>1. x \in Starts(d)
    BY <1>7 DEF Launched
  <2>2. Waited(d)'
    BY <1>3, <1>5, <2>1 DEF Waited
  <2> QED
    BY <1>7, <2>2 DEF Chains
<1>8. CASE d \notin C \cup {x}
  <2>1. /\ Phase(d)' = Phase(d) /\ Phase(d) # "dead" /\ (d \in Nexts => Phase(d) # "none")
        /\ d \in Nexts' <=> d \in Nexts
    BY <1>1, <1>4, <1>8 DEF LiveInv
  <2>2. ASSUME NEW y \in Starts(d), Running(y) PROVE Running(y)'
    <3>1. CASE y \in C \cup {x}
      BY <1>5, <3>1
    <3>2. CASE y \notin C \cup {x}
      <4>1. y \in Cmds /\ Phase(y)' = Phase(y) /\ (y \in Nexts => y \in Nexts')
        BY <1>1, <1>3, <1>4, <2>2, <3>2
      <4> QED
        BY <2>2, <4>1 DEF Running, Ended, Begun
    <3> QED
      BY <3>1, <3>2
  <2>3. Waited(d) => Waited(d)'
    BY <1>3, <2>1, <2>2 DEF Waited
  <2>4. Phase(d) \notin {"none", "over"} => Waited(d)
    BY DEF LiveInv
  <2> QED
    BY <2>1, <2>3, <2>4
<1> QED
  BY <1>6, <1>7, <1>8

\* What begins without starting a command is resumed by itself or by margo.
LEMMA BeginResumes ==
  ASSUME EngineInv, NEW c \in Cmds, Begin(c), Cmd(c).does \notin {"raise", "debug"}
  PROVE  /\ Nexts \ {c} \subseteq Nexts' /\ asked \subseteq asked'
         /\ c \in Nexts' \/ c \in asked'
<1>1. /\ Tail(doq) \in Seq(Queued) /\ OnceIn(Tail(doq)) /\ c \in Nexts
      /\ NextsIn(Tail(doq)) = Nexts \ {c}
  BY StepTaken DEF Begin
<1>2. CASE Cmd(c).does = "exec"
  <2>1. asked' = asked \cup {c} /\ doq' = Tail(doq)
    BY <1>2 DEF Begin
  <2> QED
    BY <1>1, <2>1 DEF Nexts
<1>3. CASE Cmd(c).does # "exec"
  <2>1. doq' = Append(Tail(doq), DoNext(c)) /\ asked' = asked
    BY <1>3 DEF Begin
  <2>2. NextsIn(doq') = (Nexts \ {c}) \cup {c}
    BY <1>1, <2>1, NextAppended
  <2> QED
    BY <1>1, <2>1, <2>2 DEF Nexts
<1> QED
  BY <1>2, <1>3

LEMMA StartsKeepLive ==
  ASSUME EngineInv, LiveInv, NEW c \in Cmds, hooked' = hooked,
         Begin(c) \/ ContinueChain(c) \/ StartTop(c)
  PROVE  LiveInv'
<1>1. program' = program
  BY DEF Begin, ContinueChain, StartTop
<1>2. CASE StartTop(c)
  <2>1. Launched(c, {}) /\ asked' = asked /\ {} \in SUBSET Cmds /\
        \A d \in {} : Phase(d)' \in {"f"} \cup Chains
    BY <1>2, StartTopInv DEF StartTop
  <2> QED
    BY <1>1, <2>1, LaunchKeepsLive
<1>3. CASE ContinueChain(c)
  <2>1. PICK x \in Cmds, k \in Chains, i \in Nat : LaunchedBy(c, x) /\ at'[c] = <<k, i>>
    BY <1>3, ContinueChainInv
  <2>2. Launched(x, {c}) /\ \A d \in {c} : Phase(d)' \in {"f"} \cup Chains
    BY <2>1 DEF LaunchedBy, Phase
  <2>3. {c} \in SUBSET Cmds /\ asked' = asked
    BY <1>3 DEF ContinueChain
  <2> QED
    BY <1>1, <2>2, <2>3, LaunchKeepsLive
<1>4. CASE Begin(c)
  <2>1. /\ EngineInv' /\ Phase(c)' \in {"f", "dead"}
        /\ Phase(c)' = "dead" => Cmd(c).does = "raise"
        /\ \/ /\ Nexts' \subseteq Nexts /\ \A d \in Cmds \ {c} : at'[d] = at[d]
              /\ Cmd(c).does # "debug"
           \/ (\E x \in Cmds : LaunchedBy(c, x)) /\ asked' = asked
    BY <1>4, BeginInv
  <2>2. CASE Cmd(c).does = "raise"
    BY <1>1, <2>2, SameSound DEF LiveInv, Sound
  <2>3. ASSUME NEW x \in Cmds, LaunchedBy(c, x), asked' = asked, Cmd(c).does # "raise"
        PROVE  LiveInv'
    <3>1. Launched(x, {c}) /\ {c} \in SUBSET Cmds /\ \A d \in {c} : Phase(d)' \in {"f"} \cup Chains
      BY <2>1, <2>3 DEF LaunchedBy
    <3> QED
      BY <1>1, <2>3, <3>1, LaunchKeepsLive
  <2>4. CASE /\ Nexts' \subseteq Nexts /\ \A d \in Cmds \ {c} : at'[d] = at[d]
             /\ Cmd(c).does # "debug" /\ Cmd(c).does # "raise"
    <3>1. /\ Nexts \ {c} \subseteq Nexts' /\ asked \subseteq asked'
          /\ c \in Nexts' \/ c \in asked'
      BY <1>4, <2>4, BeginResumes
    <3>2. Running(c)' /\ Phase(c)' \notin {"none", "dead"}
      BY <2>1, <2>4 DEF Running, Ended, Begun
    <3>3. /\ \A d \in Cmds \ {c} : d \in Nexts' => d \in Nexts \/ Phase(d) # "none"
          /\ asked \ {c} \subseteq asked'
          /\ \A d \in Cmds : c \in Starts(d) /\ Running(c) => d \in Nexts' \/ Running(c)'
      BY <2>4, <3>1, <3>2
    <3> QED
      BY <1>1, <2>4, <3>1, <3>2, <3>3, MoveKeepsLive
  <2> QED
    BY <2>1, <2>2, <2>3, <2>4
<1> QED
  BY <1>2, <1>3, <1>4

\* The callback resumes whoever has waited for it; what is resumed after its callback
\* is over.
LEMMA StepsKeepLive ==
  ASSUME EngineInv, LiveInv, NEW c \in Cmds, hooked' = hooked,
         NoStep(c) \/ Callback(c) \/ Finish(c) \/ ExecAnswer(c)
  PROVE  LiveInv'
<1>1. program' = program /\ at \in [Cmds -> Phases \X Nat]
  BY DEF NoStep, Callback, Finish, ExecAnswer, EngineInv, EngineTypes
<1>2. CASE NoStep(c)
  <2>1. c \in Nexts /\ Phase(c) # "over"
    BY <1>2, StepTaken DEF NoStep
  <2> QED
    BY <1>1, <1>2, <2>1, SameSound DEF LiveInv, NoStep
<1>3. CASE Callback(c)
  <2>1. Nexts' = Nexts \cup {d \in Cmds : c \in Starts(d)} /\ c \in Nexts
    BY <1>3, CallbackQueue, StepTaken DEF Nexts, Callback
  <2>2. /\ \A d \in Cmds \ {c} : at'[d] = at[d]
        /\ Phase(c)' = "cb" /\ asked' = asked /\ Running(c)
    BY <1>1, <1>3 DEF Callback, Phase, Running, Ended, Begun, Chains
  <2>3. \A d \in Cmds : c \in Starts(d) => Phase(d) # "none"
    BY <2>2 DEF EngineInv, ResumeInv, Current, Chains
  <2>4. /\ \A d \in Cmds \ {c} : d \in Nexts' => d \in Nexts \/ Phase(d) # "none"
        /\ Nexts \ {c} \subseteq Nexts' /\ asked \ {c} \subseteq asked'
        /\ Phase(c)' \notin {"none", "dead"} /\ c \in Nexts'
        /\ \A d \in Cmds : c \in Starts(d) /\ Running(c) => d \in Nexts' \/ Running(c)'
    BY <2>1, <2>2, <2>3
  <2> QED
    BY <1>1, <2>2, <2>4, MoveKeepsLive
<1>4. CASE Finish(c)
  <2>1. /\ \A d \in Cmds \ {c} : at'[d] = at[d]
        /\ Phase(c)' = "over" /\ asked' = asked /\ ~ Running(c)
    BY <1>1, <1>4 DEF Finish, Phase, Running, Ended
  <2>2. Nexts' = Nexts \ {c}
    BY <1>4, FinishInv
  <2>3. /\ \A d \in Cmds \ {c} : d \in Nexts' => d \in Nexts \/ Phase(d) # "none"
        /\ Nexts \ {c} \subseteq Nexts' /\ asked \ {c} \subseteq asked'
        /\ Phase(c)' \notin {"none", "dead"}
        /\ \A d \in Cmds : c \in Starts(d) /\ Running(c) => d \in Nexts' \/ Running(c)'
    BY <2>1, <2>2
  <2> QED
    BY <1>1, <2>1, <2>3, MoveKeepsLive
<1>5. CASE ExecAnswer(c)
  <2>1. /\ at' = at /\ asked' = asked \ {c} /\ Nexts' = Nexts \cup {c} /\ Phase(c) = "f"
    BY <1>5, ExecAnswerInv DEF ExecAnswer
  <2>2. /\ \A d \in Cmds \ {c} : at'[d] = at[d]
        /\ Phase(c)' = "f" /\ Running(c)'
    BY <2>1 DEF Phase, Running, Ended, Begun
  <2>3. /\ \A d \in Cmds \ {c} : d \in Nexts' => d \in Nexts \/ Phase(d) # "none"
        /\ Nexts \ {c} \subseteq Nexts' /\ asked \ {c} \subseteq asked'
        /\ Phase(c)' \notin {"none", "dead"} /\ c \in Nexts'
        /\ \A d \in Cmds : c \in Starts(d) /\ Running(c) => d \in Nexts' \/ Running(c)'
    BY <2>1, <2>2
  <2> QED
    BY <1>1, <2>2, <2>3, MoveKeepsLive
<1> QED
  BY <1>2, <1>3, <1>4, <1>5

LEMMA LiveStep == EngineInv /\ LiveInv /\ [EditorNext]_editorVars => LiveInv'
<1> SUFFICES ASSUME EngineInv, LiveInv, [EditorNext]_editorVars PROVE LiveInv'
  OBVIOUS
<1>1. CASE UNCHANGED <<nineoVars, hooked>>
  <2>1. program' = program /\ at' = at /\ asked' = asked /\ Nexts' = Nexts
    BY <1>1, RestInv DEF nineoVars, engineVars
  <2> QED
    BY <2>1, RestKeepsLive
<1>2. CASE Hook
  <2>1. PICK x \in Cmds : Launched(x, {})
    BY <1>2, HookInv
  <2>2. /\ program' = program /\ asked' = asked /\ {} \in SUBSET Cmds
        /\ \A d \in {} : Phase(d)' \in {"f"} \cup Chains
    BY <1>2 DEF Hook
  <2> QED
    BY <2>1, <2>2, LaunchKeepsLive
<1>3. ASSUME NEW s \in Sigs, FireHook(s) PROVE LiveInv'
  <2>1. program' = program /\ at' = at /\ asked' = asked /\ Nexts' = Nexts
    BY <1>3, FireHookInv DEF FireHook, engineVars
  <2> QED
    BY <2>1, RestKeepsLive
<1>4. ASSUME NEW c \in Cmds, EngineRuns(c) \/ UserRuns(c) \/ MargoSends(c) \/ MargoAnswers(c)
      PROVE  LiveInv'
  <2>1. hooked' = hooked
    BY <1>4 DEF EngineRuns, UserRuns, MargoSends, MargoAnswers
  <2>2. CASE Begin(c) \/ ContinueChain(c) \/ StartTop(c) BY <2>1, <2>2, StartsKeepLive
  <2>3. CASE NoStep(c) \/ Callback(c) \/ Finish(c) \/ ExecAnswer(c)
    BY <2>1, <2>3, StepsKeepLive
  <2>4. CASE Chunk(c)
    <3>1. program' = program /\ at' = at /\ asked' = asked /\ Nexts' = Nexts
      BY <2>1, <2>4, ChunkInv DEF Chunk, engineVars
    <3> QED
      BY <3>1, RestKeepsLive
  <2>5. ASSUME NEW m \in BOOLEAN, HlSkip(c, m) \/ HlReport(c, m) PROVE LiveInv'
    <3>1. program' = program /\ at' = at /\ asked' = asked /\ Nexts' = Nexts
      BY <2>1, <2>5, HlInvKept DEF HlSkip, HlReport, engineVars
    <3> QED
      BY <3>1, RestKeepsLive
  <2> QED
    BY <1>4, <2>2, <2>3, <2>4, <2>5 DEF EngineRuns, Engine, UserRuns, MargoSends, MargoAnswers
<1> QED
  BY <1>1, <1>2, <1>3, <1>4, EngineRests

LEMMA LiveInit == EditorInit => LiveInv
<1> SUFFICES ASSUME EditorInit PROVE LiveInv
  OBVIOUS
<1>1. \A c \in Cmds : Phase(c) = "none" /\ c \notin Nexts
  BY DEF EditorInit, NineoInit, Phase, Nexts, NextsIn, In
<1> QED
  BY <1>1 DEF LiveInv

-----------------------------------------------------------------------------
(* The commands are numbered as they start. *)

\* A command is newer than all before it, and than the one that has started it.
SeqInv ==
  /\ \A c \in Cmds : seq[c] < NextSeq
  /\ \A c, d \in Cmds : seq[c] = seq[d] /\ seq[c] # 0 => c = d
  /\ \A c, x \in Cmds : x \in Starts(c) /\ seq[x] # 0 => seq[c] # 0 /\ seq[c] < seq[x]

\* The steps that number a command, and those that do not.
LEMMA EngineLaunches ==
  ASSUME EngineInv, [EditorNext]_editorVars
  PROVE  /\ program' = program
         /\ \/ seq' = seq
            \/ \E x : \E C : Launched(x, C) /\ \A c \in C : c \in Cmds /\ seq[c] # 0
<1>1. CASE UNCHANGED <<nineoVars, hooked>>
  BY <1>1 DEF nineoVars, engineVars
<1>2. CASE Hook
  <2>1. PICK x \in Cmds : Launched(x, {})
    BY <1>2, HookInv
  <2> QED
    BY <1>2, <2>1 DEF Hook
<1>3. ASSUME NEW s \in Sigs, FireHook(s) PROVE program' = program /\ seq' = seq
  BY <1>3 DEF FireHook, engineVars
<1>4. ASSUME NEW c \in Cmds, EngineRuns(c) \/ UserRuns(c) \/ MargoSends(c) \/ MargoAnswers(c)
      PROVE  /\ program' = program
             /\ \/ seq' = seq
                \/ \E x : \E C : Launched(x, C) /\ \A d \in C : d \in Cmds /\ seq[d] # 0
  <2>1. hooked' = hooked
    BY <1>4 DEF EngineRuns, UserRuns, MargoSends, MargoAnswers
  <2>2. seq[c] # 0 \/ Phase(c) = "none"
    BY DEF EngineInv, PlacesInv
  <2>3. CASE StartTop(c)
    <3>1. Launched(c, {})
      BY <2>1, <2>3, StartTopInv
    <3> QED
      BY <2>3, <3>1 DEF StartTop
  <2>4. CASE ContinueChain(c)
    <3>1. PICK x \in Cmds : LaunchedBy(c, x)
      BY <2>1, <2>4, ContinueChainInv
    <3>2. seq[c] # 0
      BY <2>2, <2>4 DEF ContinueChain, Chains
    <3> QED
      BY <2>4, <3>1, <3>2 DEF ContinueChain, LaunchedBy
  <2>5. CASE Begin(c)
    <3>1. seq' = seq \/ \E x \in Cmds : LaunchedBy(c, x)
      BY <2>1, <2>5, BeginInv
    <3>2. seq[c] # 0
      BY <2>2, <2>5 DEF Begin
    <3> QED
      BY <2>5, <3>1, <3>2 DEF Begin, LaunchedBy
  <2>6. CASE NoStep(c) \/ Callback(c) \/ Finish(c) \/ ExecAnswer(c) \/ Chunk(c)
    BY <2>6 DEF NoStep, Callback, Finish, ExecAnswer, Chunk, engineVars
  <2>7. ASSUME NEW m \in BOOLEAN, HlSkip(c, m) \/ HlReport(c, m)
        PROVE  program' = program /\ seq' = seq
    BY <2>7 DEF HlSkip, HlReport, engineVars
  <2> QED
    BY <1>4, <2>3, <2>4, <2>5, <2>6, <2>7
    DEF EngineRuns, Engine, UserRuns, MargoSends, MargoAnswers
<1> QED
  BY <1>1, <1>2, <1>3, <1>4, EngineRests

\* The number that is free after x has taken one.
LEMMA NextSeqAfter ==
  ASSUME NEW x \in Cmds, seq[x] = 0, seq'[x] # 0, \A d \in Cmds \ {x} : seq'[d] = seq[d]
  PROVE  NextSeq' = NextSeq + 1
<1> DEFINE S == {c \in Cmds : seq[c] # 0}
<1>1. IsFiniteSet(S) /\ x \notin S
  BY NineoAssumption, FS_Subset
<1>2. {c \in Cmds : seq'[c] # 0} = S \cup {x}
  OBVIOUS
<1>3. Cardinality(S \cup {x}) = Cardinality(S) + 1 /\ Cardinality(S) \in Nat
  BY <1>1, FS_AddElement, FS_CardinalityType
<1> QED
  BY <1>2, <1>3 DEF NextSeq

LEMMA LaunchKeepsSeq ==
  ASSUME EngineInv, SeqInv, program' = program, NEW x, NEW C, Launched(x, C),
         \A c \in C : c \in Cmds /\ seq[c] # 0
  PROVE  SeqInv'
<1>1. /\ x \in Cmds /\ x \notin C /\ seq[x] = 0 /\ NextSeq \in Nat
      /\ \A c \in Cmds : seq[c] \in Nat /\ seq[c] < NextSeq
      /\ \A d \in Cmds \ {x} : seq'[d] = seq[d]
  BY NextSeqType DEF Launched, Fresh, SeqInv, EngineInv, EngineTypes
<1>2. \A c : Starts(c)' = Starts(c)
  BY SameProgram
<1>3. CASE seq'[x] = seq[x]
  <2>1. \A c \in Cmds : seq'[c] = seq[c]
    BY <1>1, <1>3
  <2>2. NextSeq' = NextSeq
    BY <2>1 DEF NextSeq
  <2> QED
    BY <1>2, <2>1, <2>2 DEF SeqInv
<1>4. CASE seq'[x] = NextSeq /\ seq'[x] # 0
  <2>1. NextSeq' = NextSeq + 1
    BY <1>1, <1>4, NextSeqAfter
  <2>2. \A c \in Cmds : seq'[c] < NextSeq'
    BY <1>1, <1>4, <2>1
  <2>3. ASSUME NEW c \in Cmds, NEW d \in Cmds, seq'[c] = seq'[d], seq'[c] # 0 PROVE c = d
    <3>1. c # x /\ d # x => c = d
      BY <1>1, <2>3 DEF SeqInv
    <3>2. \A e \in Cmds \ {x} : seq'[e] # seq'[x]
      BY <1>1, <1>4
    <3> QED
      BY <2>3, <3>1, <3>2
  <2>4. ASSUME NEW c \in Cmds, NEW y \in Cmds, y \in Starts(c), seq'[y] # 0
        PROVE  seq'[c] # 0 /\ seq'[c] < seq'[y]
    <3>1. CASE y = x
      <4>1. c \in C
        BY <2>4, <3>1 DEF Launched
      <4> QED
        BY <1>1, <1>4, <3>1, <4>1
    <3>2. CASE y # x
      <4>1. seq[c] # 0 /\ seq[c] < seq[y]
        BY <1>1, <2>4, <3>2 DEF SeqInv
      <4> QED
        BY <1>1, <3>2, <4>1
    <3> QED
      BY <3>1, <3>2
  <2> QED
    BY <1>2, <2>2, <2>3, <2>4 DEF SeqInv
<1> QED
  BY <1>3, <1>4 DEF Launched

LEMMA SeqStep == EngineInv /\ SeqInv /\ [EditorNext]_editorVars => SeqInv'
<1> SUFFICES ASSUME EngineInv, SeqInv, [EditorNext]_editorVars PROVE SeqInv'
  OBVIOUS
<1>1. CASE program' = program /\ seq' = seq
  <2>1. NextSeq' = NextSeq /\ \A c : Starts(c)' = Starts(c)
    BY <1>1, SameProgram DEF NextSeq
  <2> QED
    BY <1>1, <2>1 DEF SeqInv
<1>2. ASSUME NEW x, NEW C, Launched(x, C), \A c \in C : c \in Cmds /\ seq[c] # 0,
             program' = program
      PROVE  SeqInv'
  BY <1>2, LaunchKeepsSeq
<1> QED
  BY <1>1, <1>2, EngineLaunches

LEMMA SeqInit == EditorInit => SeqInv
<1> SUFFICES ASSUME EditorInit PROVE SeqInv
  OBVIOUS
<1>1. \A c \in Cmds : seq[c] = 0
  BY DEF EditorInit, NineoInit
<1> QED
  BY <1>1, NextSeqType DEF SeqInv

-----------------------------------------------------------------------------
(* No chain stalls. *)

\* Of finitely many, one has the greatest number.
LEMMA Greatest ==
  ASSUME NEW S, IsFiniteSet(S), S # {}, NEW f, \A x \in S : f[x] \in Nat
  PROVE  \E m \in S : \A y \in S : f[y] <= f[m]
<1> DEFINE Above(x) == {y \in S : f[y] > f[x]}
           T == {Above(x) : x \in S}
<1>1. IsWellFoundedOn(StrictSubsetOrdering(S), SUBSET S)
  <2>1. IsWellFoundedOn(StrictSubsetOrdering(S), FiniteSubsetsOf(S))
    BY FS_StrictSubsetOrderingWellFounded
  <2> QED
    BY <2>1, FS_FiniteSubsetsOfFinite
<1>2. T \subseteq SUBSET S /\ T # {}
  OBVIOUS
<1> HIDE DEF T
<1>3. PICK a \in T : \A b \in T : ~ (<<b, a>> \in StrictSubsetOrdering(S))
  BY <1>1, <1>2, WFMin
<1>4. PICK m \in S : a = Above(m)
  BY DEF T
<1>5. ASSUME NEW y \in S, ~ (f[y] <= f[m]) PROVE FALSE
  <2>1. Above(y) \in T /\ Above(y) \subseteq Above(m) /\ y \in Above(m) /\ y \notin Above(y)
    BY <1>5 DEF T
  <2>2. Above(y) \in SUBSET S /\ Above(m) \in SUBSET S
    OBVIOUS
  <2> HIDE DEF Above
  <2>3. <<Above(y), a>> \in StrictSubsetOrdering(S)
    BY <1>4, <2>1, <2>2 DEF StrictSubsetOrdering
  <2> QED
    BY <1>3, <2>1, <2>3
<1> QED
  BY <1>5

\* Among the commands that wait, the newest would wait for a newer one.
LEMMA LiveNoStalls == EngineInv /\ LiveInv /\ SeqInv => NoChainStalls
<1> SUFFICES ASSUME EngineInv, LiveInv, SeqInv, Sound, doq = <<>>, asked = {},
                    NEW e \in Cmds, Phase(e) \notin {"none", "over"}
             PROVE  FALSE
  BY DEF NoChainStalls
<1> DEFINE S == {c \in Cmds : Phase(c) \notin {"none", "over"}}
<1>1. IsFiniteSet(S) /\ S # {}
  BY NineoAssumption, FS_Subset
<1>2. \A c \in S : seq[c] \in Nat
  BY DEF EngineInv, EngineTypes
<1> HIDE DEF S
<1>3. PICK c \in S : \A d \in S : seq[d] <= seq[c]
  BY <1>1, <1>2, Greatest
<1>4. Nexts = {}
  BY DEF Nexts, NextsIn, In
<1>5. PICK x \in Starts(c) : Running(x)
  <2>1. c \in Cmds /\ Waited(c)
    BY <1>3 DEF LiveInv, S
  <2> QED
    BY <1>4, <2>1 DEF Waited
<1>6. c \in Cmds /\ x \in Cmds
  BY <1>3, <1>5, StartsType DEF S, EngineInv, EngineTypes
<1>7. Phase(x) \notin {"none", "over"}
  BY <1>4, <1>5 DEF Running, Ended, Begun
<1>8. x \in S /\ seq[x] # 0
  BY <1>6, <1>7 DEF S, EngineInv, PlacesInv
<1>9. seq[c] < seq[x] /\ seq[x] <= seq[c] /\ seq[c] \in Nat /\ seq[x] \in Nat
  BY <1>2, <1>3, <1>5, <1>6, <1>8 DEF SeqInv
<1> QED
  BY <1>9

\* In a program without errors, someone is going to resume every generator that has not
\* come to its end.
THEOREM GeneratorsGoOn == EditorSpec => []LiveInv
BY LiveInit, LiveStep, EngineIsConsistent, PTL DEF EditorSpec

\* A command has a greater number than those that have started before it.
THEOREM CommandsAreNumbered == EditorSpec => []SeqInv
BY SeqInit, SeqStep, EngineIsConsistent, PTL DEF EditorSpec

\* When no function is queued and margo owes no answer, no command of a program without
\* errors is left in the middle of its chains: all that was started has ended.
THEOREM ChainsDoNotStall == EditorSpec => []NoChainStalls
BY EngineIsConsistent, GeneratorsGoOn, CommandsAreNumbered, LiveNoStalls, PTL

-----------------------------------------------------------------------------
(* What is queued besides the steps of generators. *)

\* The queue has changed in the steps of generators only.
OnlyNexts(q, r) == \A f : (\A d : f # DoNext(d)) => (In(r, f) <=> In(q, f))

LEMMA NextAppendedOnly ==
  ASSUME NEW S, NEW q \in Seq(S), NEW x PROVE OnlyNexts(q, Append(q, DoNext(x)))
<1>1. PICK e : e = DoNext(x)
  OBVIOUS
<1>2. q \in Seq(S \cup {e}) /\ e \in S \cup {e}
  OBVIOUS
<1>3. \A f : In(Append(q, e), f) <=> In(q, f) \/ f = e
  BY <1>2, Appended
<1> QED
  BY <1>1, <1>3 DEF OnlyNexts

LEMMA NextTakenOnly ==
  ASSUME EngineInv, NEW c, NextOf(c) PROVE Tail(doq) \in Seq(Queued) /\ OnlyNexts(doq, Tail(doq))
<1>1. doq \in Seq(Queued) /\ doq # <<>> /\ Head(doq) = DoNext(c)
  BY DEF EngineInv, EngineTypes, NextOf
<1>2. Tail(doq) \in Seq(Queued) /\ \A f : f # Head(doq) => (In(Tail(doq), f) <=> In(doq, f))
  BY <1>1, Taken
<1> QED
  BY <1>1, <1>2 DEF OnlyNexts

LEMMA StepsQueueNexts ==
  ASSUME EngineInv, NEW c \in Cmds,
         NoStep(c) \/ Begin(c) \/ ContinueChain(c) \/ Callback(c) \/ StartTop(c) \/ ExecAnswer(c)
  PROVE  OnlyNexts(doq, doq')
<1>1. doq \in Seq(Queued)
  BY DEF EngineInv, EngineTypes
<1>2. CASE StartTop(c) \/ ExecAnswer(c)
  <2>1. doq' = Append(doq, DoNext(c))
    BY <1>2 DEF StartTop, ExecAnswer, Start
  <2> QED
    BY <1>1, <2>1, NextAppendedOnly
<1>3. CASE NoStep(c) \/ Begin(c) \/ ContinueChain(c) \/ Callback(c)
  <2>1. NextOf(c)
    BY <1>3 DEF NoStep, Begin, ContinueChain, Callback
  <2>2. Tail(doq) \in Seq(Queued) /\ OnlyNexts(doq, Tail(doq))
    BY <2>1, NextTakenOnly
  <2>3. \/ doq' = Tail(doq)
        \/ \E x : doq' = Append(Tail(doq), DoNext(x))
        \/ \E d \in Cmds : doq' = Append(Append(Tail(doq), DoNext(c)), DoNext(d))
    <3>1. CASE Callback(c) BY <3>1, CallbackQueue
    <3>2. CASE NoStep(c) BY <3>2 DEF NoStep
    <3>3. CASE Begin(c) BY <3>3 DEF Begin, Start
    <3>4. CASE ContinueChain(c) BY <3>4 DEF ContinueChain, Start
    <3> QED
      BY <1>3, <3>1, <3>2, <3>3, <3>4
  <2>4. ASSUME NEW x, doq' = Append(Tail(doq), DoNext(x)) PROVE OnlyNexts(doq, doq')
    <3>1. OnlyNexts(Tail(doq), Append(Tail(doq), DoNext(x)))
      BY <2>2, NextAppendedOnly
    <3> QED
      BY <2>2, <2>4, <3>1 DEF OnlyNexts
  <2>5. ASSUME NEW d \in Cmds, doq' = Append(Append(Tail(doq), DoNext(c)), DoNext(d))
        PROVE  OnlyNexts(doq, doq')
    <3>1. DoNext(c) \in Queued
      BY DoFacts
    <3>2. PICK q : q = Append(Tail(doq), DoNext(c))
      OBVIOUS
    <3>3. q \in Seq(Queued)
      BY <2>2, <3>1, <3>2
    <3>4. OnlyNexts(Tail(doq), q)
      BY <2>2, <3>2, NextAppendedOnly
    <3>5. OnlyNexts(q, Append(q, DoNext(d)))
      BY <3>3, NextAppendedOnly
    <3> QED
      BY <2>2, <2>5, <3>2, <3>4, <3>5 DEF OnlyNexts
  <2> QED
    BY <2>2, <2>3, <2>4, <2>5
<1> QED
  BY <1>2, <1>3

\* A hook that is queued stays so until it runs.
HookQueued(q) == In(q, Do("hook", HookCmd))

\* A command reports when it has ended, or streams.
Reports(c, m) ==
  \/ Finish(c) /\ Cmd(c).hl /\ m = (c \in attrs)
  \/ Chunk(c)

LEMMA EngineQueue ==
  ASSUME EngineInv, [EditorNext]_editorVars
  PROVE  /\ HookQueued(doq) => Hook \/ HookQueued(doq')
         /\ \A c, m : In(doq', DoHl(c, m)) => In(doq, DoHl(c, m)) \/ Reports(c, m)
<1> DEFINE Goal == /\ HookQueued(doq) => HookQueued(doq')
                   /\ \A c, m : In(doq', DoHl(c, m)) => In(doq, DoHl(c, m)) \/ Reports(c, m)
<1>1. doq \in Seq(Queued)
  BY DEF EngineInv, EngineTypes
<1>2. ASSUME OnlyNexts(doq, doq') PROVE Goal
  BY <1>2, DoFacts DEF OnlyNexts, HookQueued
<1>3. CASE UNCHANGED <<nineoVars, hooked>>
  BY <1>3 DEF nineoVars
<1>4. CASE Hook
  <2>1. /\ doq # <<>> /\ Head(doq).does = "hook"
        /\ \E x : doq' = Append(Tail(doq), DoNext(x))
    BY <1>4 DEF Hook, Start
  <2>2. PICK x : doq' = Append(Tail(doq), DoNext(x))
    BY <2>1
  <2>3. Tail(doq) \in Seq(Queued) /\ \A f : In(Tail(doq), f) => In(doq, f)
    BY <1>1, <2>1, Taken
  <2>4. OnlyNexts(Tail(doq), Append(Tail(doq), DoNext(x)))
    BY <2>3, NextAppendedOnly
  <2>5. \A c, m : In(doq', DoHl(c, m)) => In(Tail(doq), DoHl(c, m))
    BY <2>2, <2>4, DoFacts DEF OnlyNexts
  <2> QED
    BY <1>4, <2>3, <2>5
<1>5. ASSUME NEW s \in Sigs, FireHook(s) PROVE Goal
  <2>1. doq' = Append(doq, Do("hook", HookCmd)) /\ Do("hook", HookCmd) \in Queued
    BY <1>5, DoFacts DEF FireHook
  <2>2. \A f : In(doq', f) <=> In(doq, f) \/ f = Do("hook", HookCmd)
    BY <1>1, <2>1, Appended
  <2> QED
    BY <2>2, DoFacts DEF HookQueued
<1>6. ASSUME NEW c \in Cmds, EngineRuns(c) \/ UserRuns(c) \/ MargoSends(c) \/ MargoAnswers(c)
      PROVE  Goal
  <2>1. CASE \/ NoStep(c) \/ Begin(c) \/ ContinueChain(c) \/ Callback(c)
             \/ StartTop(c) \/ ExecAnswer(c)
    BY <1>2, <2>1, StepsQueueNexts
  <2>2. CASE Finish(c)
    <3>1. Tail(doq) \in Seq(Queued) /\ OnlyNexts(doq, Tail(doq))
      BY <2>2, NextTakenOnly DEF Finish
    <3>2. CASE ~ Cmd(c).hl
      <4>1. doq' = Tail(doq)
        BY <2>2, <3>1, <3>2 DEF Finish
      <4> QED
        BY <1>2, <3>1, <4>1
    <3>3. CASE Cmd(c).hl
      <4>1. PICK n1 \in BOOLEAN : n1 = (c \in attrs)
        <5>1. (c \in attrs) \in BOOLEAN
          <6>1. CASE c \in attrs
            BY <6>1
          <6>2. CASE c \notin attrs
            BY <6>2
          <6> QED
            BY <6>1, <6>2
        <5> QED
          BY <5>1, Zenon
      <4>2. doq' = Append(Tail(doq), DoHl(c, n1)) /\ DoHl(c, n1) \in Queued
        <5>1. doq' = Tail(doq) \o <<DoHl(c, c \in attrs)>>
          BY <2>2, <3>3 DEF Finish
        <5>2. DoHl(c, c \in attrs) = DoHl(c, n1)
          BY <4>1, Zenon
        <5>3. DoHl(c, n1) \in Queued
          BY DoFacts
        <5>4. doq' = Tail(doq) \o <<DoHl(c, n1)>>
          BY <5>1, <5>2, Zenon
        <5> QED
          BY <3>1, <5>3, <5>4
      <4>3. \A f : In(doq', f) <=> In(Tail(doq), f) \/ f = DoHl(c, n1)
        BY <3>1, <4>2, Appended
      <4>4. HookQueued(doq) => HookQueued(doq')
        BY <3>1, <4>3, DoFacts DEF OnlyNexts, HookQueued
      <4>5. ASSUME NEW d, NEW m, In(doq', DoHl(d, m)) PROVE In(doq, DoHl(d, m)) \/ Reports(d, m)
        <5>1. CASE In(Tail(doq), DoHl(d, m))
          BY <3>1, <5>1, DoFacts DEF OnlyNexts
        <5>2. CASE DoHl(d, m) = DoHl(c, n1)
          <6>1. d = c /\ m = n1
            BY <5>2 DEF DoHl
          <6> QED
            BY <2>2, <3>3, <4>1, <6>1, Zenon DEF Reports
        <5> QED
          BY <4>3, <4>5, <5>1, <5>2
      <4> QED
        BY <4>4, <4>5
    <3> QED
      BY <3>2, <3>3
  <2>3. CASE Chunk(c)
    <3>1. PICK n1 \in BOOLEAN : doq' = Append(doq, DoHl(c, n1)) /\ DoHl(c, n1) \in Queued
      BY <2>3, DoFacts DEF Chunk
    <3>2. \A f : In(doq', f) <=> In(doq, f) \/ f = DoHl(c, n1)
      BY <1>1, <3>1, Appended
    <3>3. \A d, m : DoHl(d, m) = DoHl(c, n1) => d = c
      BY DoFacts
    <3> QED
      BY <2>3, <3>2, <3>3 DEF HookQueued, Reports
  <2>4. ASSUME NEW m \in BOOLEAN, HlSkip(c, m) \/ HlReport(c, m) PROVE Goal
    <3>1. doq # <<>> /\ Head(doq) = DoHl(c, m) /\ doq' = Tail(doq)
      BY <2>4 DEF HlSkip, HlReport, HlOf
    <3>2. /\ \A f : In(Tail(doq), f) => In(doq, f)
          /\ \A f : f # Head(doq) => (In(Tail(doq), f) <=> In(doq, f))
      BY <1>1, <3>1, Taken
    <3>3. Head(doq) # Do("hook", HookCmd)
      BY <3>1, DoFacts
    <3> QED
      BY <3>1, <3>2, <3>3 DEF HookQueued
  <2> QED
    BY <1>6, <2>1, <2>2, <2>3, <2>4
    DEF EngineRuns, Engine, UserRuns, MargoSends, MargoAnswers
<1> QED
  BY <1>3, <1>4, <1>5, <1>6, EngineRests

-----------------------------------------------------------------------------
(* The hooks see the edits. *)

LEMMA EditsSame == calls' = calls => Edits' = Edits
BY DEF Edits

LEMMA HookAlone == [EditorNext]_editorVars => Hook \/ (hooked' = hooked /\ saw' = saw)
BY DEF EditorNext, AsyncThread, Edit, EditCalls, TimeGoesBy, SignalTimedOut, FireHook,
       EngineRuns, UserRuns, MargoSends, MargoAnswers, editorVars

\* Only a call makes an edit, and when the listener has heard of it, the hook is queued.
LEMMA EditsHeard ==
  ASSUME SignalInv, [EditorNext]_editorVars
  PROVE  \/ calls' = calls /\ heard' = heard
         \/ \E s \in Sigs : heard'[s] < calls'[s]
         \/ calls' = calls /\ (\E s \in Sigs : FireHook(s))
<1>1. ASSUME NEW t \in Callers, Edit(t) PROVE calls' = calls /\ heard' = heard
  BY <1>1 DEF Edit, Lookup, tellVars
<1>2. ASSUME NEW t \in Callers, EditCalls(t)
      PROVE  \/ calls' = calls /\ heard' = heard
             \/ \E s \in Sigs : heard'[s] < calls'[s]
  <2>1. CASE Store(t) \/ CallReturns(t)
    BY <2>1 DEF Store, CallReturns, tellVars
  <2>2. CASE Stamp(t)
    <3>1. PICK s : s = held[t]
      OBVIOUS
    <3>2. /\ s \in Sigs /\ calls \in [Sigs -> Nat] /\ heard \in [Sigs -> Nat]
          /\ heard[s] <= calls[s] /\ calls' = [calls EXCEPT ![s] = @ + 1] /\ heard' = heard
      BY <2>2, <3>1 DEF Stamp, SignalInv, SignalTypeOK, DeadlinesAreCalls
    <3>3. heard'[s] < calls'[s]
      BY <3>2
    <3> QED
      BY <3>2, <3>3
  <2> QED
    BY <1>2, <2>1, <2>2 DEF EditCalls, Calling
<1>3. ASSUME NEW s \in Sigs, TimeGoesBy(s) \/ SignalTimedOut(s)
      PROVE  calls' = calls /\ heard' = heard
  BY <1>3 DEF TimeGoesBy, SignalTimedOut, Elapse, TimedOut, Ring, NotYet, Again, tellVars
<1>4. ASSUME NEW s \in Sigs, FireHook(s) PROVE calls' = calls
  BY <1>4 DEF FireHook, Fire
<1>5. CASE Hook \/ UNCHANGED editorVars
  BY <1>5 DEF Hook, editorVars, signalVars, tellVars
<1>6. ASSUME NEW c \in Cmds, UserRuns(c) \/ EngineRuns(c) \/ MargoSends(c) \/ MargoAnswers(c)
      PROVE  calls' = calls /\ heard' = heard
  BY <1>6 DEF UserRuns, EngineRuns, MargoSends, MargoAnswers, signalVars, tellVars
<1> QED
  BY <1>1, <1>2, <1>3, <1>4, <1>5, <1>6 DEF EditorNext, AsyncThread

\* Of an edit, the listener is going to hear, or a hook is queued, or else the hook that
\* was started last has seen it.
EditInv ==
  /\ DOMAIN saw = Cmds
  /\ \/ \E s \in Sigs : heard[s] < calls[s]
     \/ HookQueued(doq)
     \/ hooked > 0 /\ saw[program.hooks[hooked]] = Edits
     \/ hooked = 0 /\ ~ Edited

LEMMA EditStep == EngineInv /\ SignalInv /\ EditInv /\ [EditorNext]_editorVars => EditInv'
<1> SUFFICES ASSUME EngineInv, SignalInv, EditInv, [EditorNext]_editorVars PROVE EditInv'
  OBVIOUS
<1>1. program' = program /\ DOMAIN saw = Cmds /\ hooked \in Nat
  <2>1. hooked \in 0..Len(program.hooks) /\ program \in Programs
    BY DEF EngineInv, EngineTypes
  <2> QED
    BY <2>1, EngineLaunches, ProgramTypes DEF EditInv
<1>2. CASE Hook
  <2>1. PICK x \in Cmds : x = program.hooks[hooked + 1]
    BY <1>2, HookInv
  <2>2. /\ hooked' = hooked + 1 /\ saw' = [saw EXCEPT ![x] = Edits] /\ calls' = calls
    BY <1>2, <2>1 DEF Hook, signalVars, tellVars
  <2>3. DOMAIN saw' = Cmds /\ saw'[x] = Edits
    BY <1>1, <2>2
  <2>4. hooked' > 0 /\ saw'[program'.hooks[hooked']] = Edits'
    BY <1>1, <2>1, <2>2, <2>3, EditsSame
  <2> QED
    BY <2>3, <2>4 DEF EditInv
<1>3. CASE ~ Hook
  <2>1. hooked' = hooked /\ saw' = saw /\ (HookQueued(doq) => HookQueued(doq)')
    BY <1>3, HookAlone, EngineQueue DEF HookQueued, In, Do
  <2>2. CASE calls' = calls /\ heard' = heard
    <3>1. Edits' = Edits /\ (Edited' <=> Edited)
      BY <2>2, EditsSame DEF Edited
    <3> QED
      BY <1>1, <2>1, <2>2, <3>1 DEF EditInv
  <2>3. CASE \E s \in Sigs : heard'[s] < calls'[s]
    BY <1>1, <2>1, <2>3 DEF EditInv
  <2>4. ASSUME NEW s \in Sigs, FireHook(s) PROVE EditInv'
    <3>1. doq' = Append(doq, Do("hook", HookCmd)) /\ doq \in Seq(Queued)
      BY <2>4 DEF FireHook, EngineInv, EngineTypes
    <3>2. In(doq', Do("hook", HookCmd))
      BY <3>1, DoFacts, Appended
    <3>3. HookQueued(doq)'
      BY <3>2 DEF HookQueued, In, Do
    <3> QED
      BY <1>1, <2>1, <3>3 DEF EditInv
  <2> QED
    BY <2>2, <2>3, <2>4, EditsHeard
<1> QED
  BY <1>2, <1>3

LEMMA EditStarts == EditorInit => EditInv
BY DEF EditorInit, SignalInit, EditInv, Edited

\* The hook that was started last is the newest of those that have started.
HooksInv ==
  Sound => \A i \in 1..hooked :
    /\ seq[program.hooks[i]] # 0
    /\ seq[program.hooks[i]] <= seq[program.hooks[hooked]]

LEMMA HooksStep == EngineInv /\ SeqInv /\ HooksInv /\ [EditorNext]_editorVars => HooksInv'
<1> SUFFICES ASSUME EngineInv, SeqInv, HooksInv, [EditorNext]_editorVars, Sound
             PROVE  \A i \in 1..hooked' :
                      /\ seq'[program'.hooks[i]] # 0
                      /\ seq'[program'.hooks[i]] <= seq'[program'.hooks[hooked']]
  BY EngineLaunches, SameSound DEF HooksInv
<1>1. /\ program' = program /\ hooked \in Nat /\ seq \in [Cmds -> Nat]
      /\ \A i \in 1..hooked : program.hooks[i] \in Cmds
      /\ \A d \in Cmds : seq[d] # 0 => seq'[d] = seq[d]
  <2>1. hooked \in 0..Len(program.hooks) /\ program \in Programs /\ seq \in [Cmds -> Nat]
    BY DEF EngineInv, EngineTypes
  <2>2. program.hooks \in Seq(Cmds)
    BY <2>1, ProgramTypes
  <2>3. \A i \in 1..hooked : program.hooks[i] \in Cmds
    BY <2>1, <2>2
  <2>4. \A d \in Cmds : seq[d] # 0 => seq'[d] = seq[d]
    BY EngineLaunches DEF Launched, Fresh
  <2> QED
    BY <2>1, <2>2, <2>3, <2>4, EngineLaunches
<1>2. CASE Hook
  <2>1. PICK x \in Cmds : Launched(x, {}) /\ x = program.hooks[hooked + 1]
    BY <1>2, HookInv
  <2>2. hooked' = hooked + 1
    BY <1>2 DEF Hook
  <2>3. seq'[x] = NextSeq /\ NextSeq \in Nat /\ NextSeq # 0
    BY <2>1, NextSeqType DEF Launched, Sound
  <2>4. ASSUME NEW i \in 1..hooked
        PROVE  seq'[program.hooks[i]] # 0 /\ seq'[program.hooks[i]] <= seq'[x]
    <3>1. seq[program.hooks[i]] # 0 /\ seq[program.hooks[i]] < NextSeq
      BY <1>1 DEF HooksInv, SeqInv
    <3> QED
      BY <1>1, <2>3, <3>1
  <2> QED
    BY <1>1, <2>1, <2>2, <2>3, <2>4
<1>3. CASE ~ Hook
  <2>1. hooked' = hooked
    BY <1>3, HookAlone
  <2>2. ASSUME NEW i \in 1..hooked
        PROVE  /\ seq'[program.hooks[i]] # 0
               /\ seq'[program.hooks[i]] <= seq'[program.hooks[hooked]]
    <3>1. hooked \in 1..hooked
      BY <1>1
    <3>2. /\ seq[program.hooks[i]] # 0 /\ seq[program.hooks[hooked]] # 0
          /\ seq[program.hooks[i]] <= seq[program.hooks[hooked]]
      BY <3>1 DEF HooksInv
    <3> QED
      BY <1>1, <3>1, <3>2
  <2> QED
    BY <1>1, <2>1, <2>2
<1> QED
  BY <1>2, <1>3

LEMMA HooksStart == EditorInit => HooksInv
BY DEF EditorInit, HooksInv

-----------------------------------------------------------------------------
(* What is shown in the end. *)

\* A command that does not stream reports what it has found when it has ended; who has
\* cleared the highlights last shows the matches that it has.
ReportInv ==
  /\ \A c \in Cmds, m \in BOOLEAN :
       In(doq, DoHl(c, m)) /\ ~ Cmd(c).stream => Phase(c) = "over" /\ (m <=> c \in attrs)
  /\ clr # 0 =>
       \E c \in Cmds : /\ Cmd(c).hl /\ clr = seq[c]
                       /\ Cmd(c).stream \/ (Phase(c) = "over" /\ shown = {c} \cap attrs)

\* What has ended stays as it is.
LEMMA OverStays ==
  ASSUME EngineInv, [EditorNext]_editorVars, NEW d \in Cmds, Phase(d) = "over"
  PROVE  Phase(d)' = "over" /\ (d \in attrs' <=> d \in attrs)
<1>1. at \in [Cmds -> Phases \X Nat] /\ seq[d] # 0
  BY DEF EngineInv, EngineTypes, PlacesInv
<1>2. CASE UNCHANGED <<nineoVars, hooked>>
  BY <1>2 DEF nineoVars, engineVars, Phase
<1>3. CASE Hook
  <2>1. PICK x \in Cmds : Launched(x, {})
    BY <1>3, HookInv
  <2> QED
    BY <1>1, <1>3, <2>1 DEF Launched, Fresh, Phase, Hook
<1>4. ASSUME NEW s \in Sigs, FireHook(s) PROVE Phase(d)' = "over" /\ (d \in attrs' <=> d \in attrs)
  BY <1>4 DEF FireHook, engineVars, Phase
<1>5. ASSUME NEW c \in Cmds, EngineRuns(c) \/ UserRuns(c) \/ MargoSends(c) \/ MargoAnswers(c)
      PROVE  Phase(d)' = "over" /\ (d \in attrs' <=> d \in attrs)
  <2>1. hooked' = hooked
    BY <1>5 DEF EngineRuns, UserRuns, MargoSends, MargoAnswers
  <2>2. CASE StartTop(c)
    <3>1. Launched(c, {})
      BY <2>1, <2>2, StartTopInv
    <3> QED
      BY <1>1, <2>2, <3>1 DEF StartTop, Launched, Fresh, Phase
  <2>3. CASE ContinueChain(c)
    <3>1. PICK x \in Cmds : LaunchedBy(c, x)
      BY <2>1, <2>3, ContinueChainInv
    <3>2. d # c
      BY <2>3 DEF ContinueChain, Chains
    <3> QED
      BY <1>1, <2>3, <3>1, <3>2 DEF ContinueChain, LaunchedBy, Launched, Fresh, Phase
  <2>4. CASE Begin(c)
    <3>1. d # c /\ attrs' = attrs
      BY <2>4 DEF Begin
    <3>2. (\A e \in Cmds \ {c} : at'[e] = at[e]) \/ \E x \in Cmds : LaunchedBy(c, x)
      BY <2>1, <2>4, BeginInv
    <3> QED
      BY <1>1, <3>1, <3>2 DEF LaunchedBy, Launched, Fresh, Phase
  <2>5. CASE NoStep(c) \/ Callback(c) \/ Finish(c) \/ Chunk(c)
    <3>1. attrs' = attrs
      BY <2>5 DEF NoStep, Callback, Finish, Chunk, engineVars
    <3>2. at' = at \/ (d # c /\ \A e \in Cmds \ {c} : at'[e] = at[e])
      BY <1>1, <2>5 DEF NoStep, Callback, Finish, Chunk, engineVars, Chains, Phase
    <3> QED
      BY <3>1, <3>2 DEF Phase
  <2>6. CASE ExecAnswer(c)
    <3>1. at' = at /\ attrs' \subseteq attrs \cup {c} /\ attrs \subseteq attrs' /\ d # c
      BY <2>1, <2>6, ExecAnswerInv DEF ExecAnswer
    <3> QED
      BY <3>1 DEF Phase
  <2>7. ASSUME NEW m \in BOOLEAN, HlSkip(c, m) \/ HlReport(c, m)
        PROVE  Phase(d)' = "over" /\ (d \in attrs' <=> d \in attrs)
    BY <2>7 DEF HlSkip, HlReport, engineVars, Phase
  <2> QED
    BY <1>5, <2>2, <2>3, <2>4, <2>5, <2>6, <2>7
    DEF EngineRuns, Engine, UserRuns, MargoSends, MargoAnswers
<1> QED
  BY <1>2, <1>3, <1>4, <1>5, EngineRests

\* The steps that show something.
LEMMA HlAlone ==
  ASSUME [EditorNext]_editorVars
  PROVE  \/ clr' = clr /\ shown' = shown
         \/ \E c \in Cmds, m \in BOOLEAN : HlReport(c, m)
BY DEF EditorNext, AsyncThread, Edit, EditCalls, TimeGoesBy, SignalTimedOut, FireHook,
       EngineRuns, UserRuns, MargoSends, MargoAnswers, editorVars, Hook, nineoVars, hlVars,
       Engine, NoStep, Begin, ContinueChain, Callback, Finish, StartTop, Chunk, ExecAnswer, HlSkip

LEMMA ReportedMatches ==
  ASSUME EngineInv, ReportInv, [EditorNext]_editorVars, NEW c \in Cmds, NEW m \in BOOLEAN,
         In(doq', DoHl(c, m)), ~ Cmd(c).stream
  PROVE  Phase(c)' = "over" /\ (m <=> c \in attrs')
<1>1. CASE In(doq, DoHl(c, m))
  <2>1. Phase(c) = "over" /\ (m <=> c \in attrs)
    BY <1>1 DEF ReportInv
  <2> QED
    BY <2>1, OverStays
<1>2. CASE Reports(c, m)
  <2>1. Finish(c) /\ m = (c \in attrs)
    BY <1>2 DEF Reports, Chunk
  <2>2. at \in [Cmds -> Phases \X Nat]
    BY DEF EngineInv, EngineTypes
  <2>3. attrs' = attrs /\ Phase(c)' = "over"
    BY <2>1, <2>2 DEF Finish, Phase
  <2> QED
    BY <2>1, <2>3
<1> QED
  BY <1>1, <1>2, EngineQueue

LEMMA ReportStep ==
  EngineInv /\ HlInv /\ SeqInv /\ ReportInv /\ [EditorNext]_editorVars => ReportInv'
<1> SUFFICES ASSUME EngineInv, HlInv, SeqInv, ReportInv, [EditorNext]_editorVars
             PROVE  ReportInv'
  OBVIOUS
<1>1. /\ \A c : Cmd(c)' = Cmd(c)
      /\ \A d \in Cmds : seq[d] # 0 => seq'[d] = seq[d]
  BY EngineLaunches, SameProgram DEF Launched, Fresh
<1>2. ASSUME NEW c \in Cmds, NEW m \in BOOLEAN, In(doq, DoHl(c, m))', ~ Cmd(c)'.stream
      PROVE  Phase(c)' = "over" /\ (m <=> c \in attrs')
  <2>1. In(doq', DoHl(c, m)) /\ ~ Cmd(c).stream
    BY <1>1, <1>2 DEF In, DoHl
  <2> QED
    BY <2>1, ReportedMatches
<1>3. ASSUME clr' # 0
      PROVE  \E c \in Cmds : /\ Cmd(c)'.hl /\ clr' = seq'[c]
                             /\ \/ Cmd(c)'.stream
                                \/ Phase(c)' = "over" /\ shown' = {c} \cap attrs'
  <2>1. CASE clr' = clr /\ shown' = shown
    <3>1. PICK c \in Cmds : /\ Cmd(c).hl /\ clr = seq[c]
                            /\ Cmd(c).stream \/ (Phase(c) = "over" /\ shown = {c} \cap attrs)
      BY <1>3, <2>1 DEF ReportInv
    <3>2. seq'[c] = clr'
      BY <1>1, <1>3, <2>1, <3>1
    <3> QED
      BY <1>1, <2>1, <3>1, <3>2, OverStays
  <2>2. ASSUME NEW c \in Cmds, NEW m \in BOOLEAN, HlReport(c, m)
        PROVE  /\ Cmd(c)'.hl /\ clr' = seq'[c]
               /\ Cmd(c)'.stream \/ (Phase(c)' = "over" /\ shown' = {c} \cap attrs')
    <3>1. /\ doq # <<>> /\ Head(doq) = DoHl(c, m) /\ Cmd(c).hl /\ clr' = seq[c]
          /\ shown' = (IF clr = seq[c] THEN shown ELSE {}) \cup (IF m THEN {c} ELSE {})
          /\ attrs' = attrs /\ seq' = seq /\ at' = at
      BY <2>2 DEF HlReport, HlOf, engineVars
    <3>2. In(doq, DoHl(c, m))
      BY <3>1, Taken DEF EngineInv, EngineTypes
    <3>3. c \in HlsIn(doq) /\ seq[c] # 0
      BY <3>2 DEF HlsIn, HlInv
    <3>4. CASE Cmd(c).stream
      BY <1>1, <3>1, <3>4
    <3>5. CASE ~ Cmd(c).stream
      <4>1. Phase(c) = "over" /\ (m <=> c \in attrs)
        BY <3>2, <3>5 DEF ReportInv
      <4>2. clr = seq[c] => shown = {c} \cap attrs
        <5>1. ASSUME clr = seq[c] PROVE shown = {c} \cap attrs
          <6>1. PICK d \in Cmds : /\ clr = seq[d]
                                  /\ Cmd(d).stream \/ (Phase(d) = "over" /\ shown = {d} \cap attrs)
            BY <3>3, <5>1 DEF ReportInv
          <6>2. d = c
            BY <3>3, <5>1, <6>1 DEF SeqInv
          <6> QED
            BY <3>5, <6>1, <6>2
        <5> QED
          BY <5>1
      <4>3. shown' = {c} \cap attrs
        BY <3>1, <4>1, <4>2
      <4>4. Phase(c)' = "over"
        BY <3>1, <4>1 DEF Phase
      <4> QED
        BY <1>1, <3>1, <4>3, <4>4
    <3> QED
      BY <3>4, <3>5
  <2> QED
    BY <2>1, <2>2, HlAlone
<1> QED
  BY <1>2, <1>3 DEF ReportInv

LEMMA ReportStarts == EditorInit => ReportInv
BY DEF EditorInit, NineoInit, ReportInv, In

-----------------------------------------------------------------------------

\* When nothing is on its way, the hook that was started last has seen every edit.
LEMMA QuietShowsEdits ==
  EngineInv /\ SignalInv /\ HlInv /\ LiveInv /\ SeqInv /\ EditInv /\ HooksInv /\ ReportInv
    => NotesSeeEveryEdit
<1> SUFFICES ASSUME EngineInv, SignalInv, HlInv, LiveInv, SeqInv, EditInv, HooksInv, ReportInv,
                    Quiet, Edited, Sound, HooksLint
             PROVE  \E h \in ToSet(program.hooks) :
                      /\ saw[h] = Edits /\ Phase(h) = "over"
                      /\ \/ clr = seq[h] /\ shown = {h} \cap attrs
                         \/ \E c \in Cmds \ ToSet(program.hooks) :
                              Cmd(c).hl /\ clr = seq[c] /\ clr > seq[h]
  BY DEF NotesSeeEveryEdit
<1>1. doq = <<>> /\ asked = {} /\ \A e : ~ In(doq, e)
  BY DEF Quiet, In
<1>2. \A s \in Sigs : ~ (heard[s] < calls[s])
  BY DEF SignalInv, NothingForgotten, Quiet
<1>3. hooked > 0 /\ saw[program.hooks[hooked]] = Edits
  BY <1>1, <1>2 DEF EditInv, HookQueued
<1>4. /\ hooked \in 0..Len(program.hooks) /\ program.hooks \in Seq(Cmds)
      /\ Len(program.hooks) \in Nat /\ seq \in [Cmds -> Nat] /\ clr \in Nat
  BY ProgramTypes DEF EngineInv, EngineTypes
<1>5. /\ hooked \in 1..hooked /\ hooked \in 1..Len(program.hooks)
      /\ \A i \in 1..Len(program.hooks) : program.hooks[i] \in Cmds
      /\ \A c : c \in ToSet(program.hooks) <=> In(program.hooks, c)
  BY <1>3, <1>4, InToSet
<1>6. PICK h \in Cmds : h = program.hooks[hooked]
  BY <1>5
<1>7. h \in ToSet(program.hooks) /\ seq[h] # 0
  BY <1>5, <1>6 DEF In, HooksInv
<1>8. Phase(h) = "over"
  <2>1. Phase(h) # "none"
    BY <1>7 DEF EngineInv, PlacesInv
  <2> QED
    BY <1>1, <2>1, LiveNoStalls DEF NoChainStalls
<1>9. Cmd(h).hl /\ ~ Cmd(h).stream /\ seq[h] <= clr
  <2>1. h \notin HlsIn(doq)
    BY <1>1 DEF HlsIn
  <2> QED
    BY <1>7, <1>8, <2>1 DEF HooksLint, HlInv
<1>10. PICK c \in Cmds : /\ Cmd(c).hl /\ clr = seq[c]
                         /\ Cmd(c).stream \/ (Phase(c) = "over" /\ shown = {c} \cap attrs)
  <2>1. clr # 0
    BY <1>4, <1>7, <1>9
  <2> QED
    BY <2>1 DEF ReportInv
<1>11. CASE c = h
  BY <1>3, <1>6, <1>7, <1>8, <1>9, <1>10, <1>11
<1>12. CASE c # h
  <2>1. seq[c] # seq[h] /\ clr > seq[h]
    BY <1>4, <1>7, <1>9, <1>10, <1>12 DEF SeqInv
  <2>2. ASSUME c \in ToSet(program.hooks) PROVE FALSE
    <3>1. PICK j \in 1..Len(program.hooks) : program.hooks[j] = c
      BY <1>5, <2>2 DEF In
    <3>2. CASE j > hooked
      <4>1. Fresh(c)
        BY <3>1, <3>2 DEF EngineInv, PlacesInv, Coming
      <4> QED
        BY <1>4, <1>10, <2>1, <4>1 DEF Fresh
    <3>3. CASE j <= hooked
      <4>1. j \in 1..hooked
        BY <1>4, <3>3
      <4>2. seq[c] <= seq[h]
        BY <1>6, <3>1, <4>1 DEF HooksInv
      <4> QED
        BY <1>4, <1>10, <2>1, <4>2
    <3> QED
      BY <1>4, <3>2, <3>3
  <2> QED
    BY <1>3, <1>6, <1>7, <1>8, <1>10, <2>1, <2>2
<1> QED
  BY <1>11, <1>12

\* However the edits, the timers, the threads that look up the signal and margo's answers
\* are ordered, the notes that are left are those of a hook that has seen every edit, or
\* of a newer command of the user's.
THEOREM NotesAreOfTheLastEdit == EditorSpec => []NotesSeeEveryEdit
<1>1. EditorSpec => []SignalInv
  BY EditorImplementsSignal, SignalInvariant, PTL
<1>2. EditorSpec => []HlInv
  BY HlInit, HlStep, EngineIsConsistent, PTL DEF EditorSpec
<1>3. EditorSpec => []EditInv
  BY <1>1, EditStarts, EditStep, EngineIsConsistent, PTL DEF EditorSpec
<1>4. EditorSpec => []HooksInv
  BY HooksStart, HooksStep, EngineIsConsistent, CommandsAreNumbered, PTL DEF EditorSpec
<1>5. EditorSpec => []ReportInv
  BY <1>2, ReportStarts, ReportStep, EngineIsConsistent, CommandsAreNumbered, PTL DEF EditorSpec
<1> QED
  BY <1>1, <1>2, <1>3, <1>4, <1>5, EngineIsConsistent, GeneratorsGoOn, CommandsAreNumbered,
     QuietShowsEdits, PTL
=============================================================================
