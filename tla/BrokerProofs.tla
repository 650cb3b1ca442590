---------------------------- MODULE BrokerProofs ----------------------------
(***************************************************************************)
(* Theorems about Broker, for any set of requests, any capacity of the     *)
(* channel and any bounds: the WaitGroup counts the calls in flight, what  *)
(* is written to stdout is whole lines, what a call streams and what is    *)
(* posted keep their order, the good bye comes last when the calls are     *)
(* waited for, no call with a token finishes without an answer, and the    *)
(* broker implements Responder.                                            *)
(***************************************************************************)
EXTENDS Broker, FiniteSetTheorems, TLAPS

\* The lines the client writes: a request's, or the one that asks margo to stop.
Lines  == [req : Reqs, kind : Kinds] \cup {Line("nobody", "bye-ni")}
States == {"none", "written", "dropped", "refused", "spawned", "running",
           "returned", "done"}

\* A request on its way is on one line, and has not been accepted.
OnItsWay ==
  /\ \A i \in 1..Len(input) :
       input[i].req \in Reqs => call[input[i].req] = "written"
  /\ \A i, k \in 1..Len(input) :
       input[i].req \in Reqs /\ input[i].req = input[k].req => i = k

\* The first inductive invariant: a call is counted when it is accepted and not
\* before, and counted off once.
CountInv ==
  /\ input \in Seq(Lines)
  /\ call \in [Reqs -> States]
  /\ OnItsWay
  /\ IsFiniteSet(InFlight)
  /\ WaitGroupCounts

\* What a sender may be sending, or have posted: no newline of its own.
Bodies == {m \in Messages : IsBody(m)}

\* Between two sends the lines are complete, and during one the last has no
\* newline yet.
MutexGuardsLines == (lock = "free") <=> (Len(wire) % 2 = 0)

\* The second inductive invariant: bodies and newlines alternate because the
\* mutex is held from the one to the other.
LinesInv ==
  /\ tokened \in [Reqs -> BOOLEAN]
  /\ {served, posts, polls} \subseteq Nat /\ streamed \in [Reqs -> Nat]
  /\ sendCh \in Seq(Bodies)
  /\ outbox \in [Senders -> Bodies]
  /\ wire \in Seq(Messages)
  /\ MutexGuardsLines
  /\ WholeLines

-----------------------------------------------------------------------------
(* Sequences, messages and lines. *)

LEMMA AppendFacts ==
  ASSUME NEW S, NEW s \in Seq(S), NEW e \in S
  PROVE  /\ Append(s, e) \in Seq(S)
         /\ Len(s) \in Nat
         /\ Len(Append(s, e)) = Len(s) + 1
         /\ \A i \in 1..Len(s) : Append(s, e)[i] = s[i]
         /\ Append(s, e)[Len(s) + 1] = e
OBVIOUS

LEMMA SeqSubset == ASSUME NEW S, NEW T, S \subseteq T PROVE Seq(S) \subseteq Seq(T)
OBVIOUS

LEMMA TailFacts ==
  ASSUME NEW S, NEW s \in Seq(S), s # <<>>
  PROVE  /\ Head(s) \in S /\ Head(s) = s[1]
         /\ Tail(s) \in Seq(S)
         /\ Len(s) \in Nat /\ Len(s) > 0
         /\ Len(Tail(s)) = Len(s) - 1
         /\ \A i \in 1..Len(Tail(s)) : Tail(s)[i] = s[i + 1]
OBVIOUS

LEMMA ExceptFacts ==
  ASSUME NEW S, NEW s \in Seq(S), s # <<>>, NEW e \in S
  PROVE  /\ [s EXCEPT ![1] = e] \in Seq(S)
         /\ Len(s) \in Nat /\ Len(s) > 0
         /\ Len([s EXCEPT ![1] = e]) = Len(s)
         /\ [s EXCEPT ![1] = e][1] = e
         /\ \A i \in 1..Len(s) : i # 1 => [s EXCEPT ![1] = e][i] = s[i]
OBVIOUS

LEMMA SenderNames ==
  /\ {"main", "hello", "poll", "poster"} \subseteq Senders
  /\ Reqs \subseteq Senders
  /\ "free" \notin Senders
BY BrokerAssumption DEF Senders

LEMMA LineTypes ==
  /\ \A r \in Reqs, kind \in Kinds :
       /\ Line(r, kind) \in Lines
       /\ Line(r, kind).req = r /\ Line(r, kind).kind = kind
  /\ Line("nobody", "bye-ni") \in Lines
  /\ Line("nobody", "bye-ni").req = "nobody"
  /\ \A l \in Lines : l.kind # "bye-ni" => l.req \in Reqs /\ l.kind \in Kinds
  /\ \A l \in Lines : l.req \in Reqs => [l EXCEPT !.kind = "blank"] \in Lines
  /\ \A l \in Lines : [l EXCEPT !.kind = "blank"].req = l.req
BY DEF Line, Lines, Kinds

LEMMA BodyType ==
  ASSUME NEW to \in Senders \cup {"nobody", "bye", "post"},
         NEW says \in Says \ {"newline"}, NEW token \in BOOLEAN, NEW seq \in Nat
  PROVE  Message(to, says, token, seq) \in Bodies
BY DEF Message, Messages, Bodies, IsBody

LEMMA NoneType == None \in Bodies
<1>1. "nothing" \in Says \ {"newline"}
  BY DEF Says
<1> QED
  BY <1>1, BodyType DEF None

\* What is written for a body is a body, and a newline is none.
LEMMA WrittenTypes ==
  /\ \A m \in Bodies : Encoded(m) \in Messages /\ IsBody(Encoded(m))
  /\ \A s \in Senders : /\ Message(s, "newline", FALSE, 0) \in Messages
                        /\ ~IsBody(Message(s, "newline", FALSE, 0))
BY ZenonT(60) DEF Encoded, Message, Messages, Says, Bodies, IsBody

-----------------------------------------------------------------------------
(* The WaitGroup. *)

LEMMA CountInit == Init => CountInv
<1> SUFFICES ASSUME Init PROVE CountInv
  OBVIOUS
<1>1. input \in Seq(Lines) /\ call \in [Reqs -> States]
  BY DEF Init, States
<1>2. OnItsWay
  BY DEF Init, OnItsWay
<1>3. InFlight = {}
  BY DEF Init, InFlight
<1>4. IsFiniteSet(InFlight) /\ WaitGroupCounts
  BY <1>3, FS_EmptySet DEF Init, WaitGroupCounts
<1> QED
  BY <1>1, <1>2, <1>4 DEF CountInv

\* A step that no call notices.
LEMMA CountSame ==
  ASSUME CountInv, UNCHANGED <<input, call, wg>>
  PROVE  CountInv'
BY DEF CountInv, OnItsWay, WaitGroupCounts, InFlight

\* A step of one call that is not counted before and after it, or both times.
LEMMA FlightSame ==
  ASSUME CountInv, InFlight' = InFlight, wg' = wg
  PROVE  IsFiniteSet(InFlight)' /\ WaitGroupCounts'
BY DEF CountInv, WaitGroupCounts

\* A call takes off: it is counted.
LEMMA FlightStarts ==
  ASSUME CountInv, NEW r \in Reqs, r \notin InFlight,
         InFlight' = InFlight \cup {r}, wg' = wg + 1
  PROVE  IsFiniteSet(InFlight)' /\ WaitGroupCounts'
<1>1. IsFiniteSet(InFlight) /\ wg = Cardinality(InFlight)
  BY DEF CountInv, WaitGroupCounts
<1>2. /\ IsFiniteSet(InFlight \cup {r})
      /\ Cardinality(InFlight \cup {r}) = Cardinality(InFlight) + 1
  BY <1>1, FS_AddElement
<1> QED
  BY <1>1, <1>2 DEF WaitGroupCounts

\* A call lands: it is counted off.
LEMMA FlightEnds ==
  ASSUME CountInv, NEW r \in InFlight,
         InFlight' = InFlight \ {r}, wg' = wg - 1
  PROVE  IsFiniteSet(InFlight)' /\ WaitGroupCounts'
<1>1. IsFiniteSet(InFlight) /\ wg = Cardinality(InFlight)
  BY DEF CountInv, WaitGroupCounts
<1>2. /\ IsFiniteSet(InFlight \ {r})
      /\ Cardinality(InFlight \ {r}) = Cardinality(InFlight) - 1
  BY <1>1, FS_RemoveElement
<1> QED
  BY <1>1, <1>2 DEF WaitGroupCounts

LEMMA WritesCount == ASSUME CountInv, NEW r \in Reqs, ClientWrites(r) PROVE CountInv'
<1>1. PICK kind \in Kinds : input' = Append(input, Line(r, kind))
  BY DEF ClientWrites
<1>2. /\ call[r] = "none" /\ call' = [call EXCEPT ![r] = "written"] /\ wg' = wg
      /\ input \in Seq(Lines) /\ call \in [Reqs -> States]
  BY DEF ClientWrites, CountInv
<1>3. /\ input' \in Seq(Lines) /\ Len(input) \in Nat
      /\ Len(input') = Len(input) + 1
      /\ \A i \in 1..Len(input) : input'[i] = input[i]
      /\ input'[Len(input) + 1].req = r
  BY <1>1, <1>2, LineTypes, AppendFacts
<1>4. call' \in [Reqs -> States]
  BY <1>2 DEF States
<1>5. OnItsWay'
  <2>1. \A i \in 1..Len(input') : i \in 1..Len(input) \/ i = Len(input) + 1
    BY <1>3
  <2>2. \A i \in 1..Len(input) : input[i].req # r
    BY <1>2 DEF CountInv, OnItsWay
  <2>3. call'[r] = "written" /\ \A q \in Reqs \ {r} : call'[q] = call[q]
    BY <1>2
  <2>4. \A i \in 1..Len(input') :
          input'[i].req \in Reqs => call'[input'[i].req] = "written"
    BY <1>3, <2>1, <2>2, <2>3 DEF CountInv, OnItsWay
  <2>5. \A i, k \in 1..Len(input') :
          input'[i].req \in Reqs /\ input'[i].req = input'[k].req => i = k
    BY <1>3, <2>1, <2>2 DEF CountInv, OnItsWay
  <2> QED
    BY <2>4, <2>5 DEF OnItsWay
<1>6. InFlight' = InFlight
  BY <1>2 DEF InFlight
<1> QED
  BY <1>2, <1>3, <1>4, <1>5, <1>6, FlightSame DEF CountInv

LEMMA LeavesCount == ASSUME CountInv, ClientLeaves PROVE CountInv'
<1>1. /\ UNCHANGED <<call, wg>>
      /\ input \in Seq(Lines) /\ call \in [Reqs -> States]
  BY DEF ClientLeaves, callVars, CountInv
<1>2. CASE UNCHANGED input
  BY <1>1, <1>2, CountSame
<1>3. CASE input' = Append(input, Line("nobody", "bye-ni"))
  <2>1. /\ input' \in Seq(Lines) /\ Len(input) \in Nat
        /\ Len(input') = Len(input) + 1
        /\ \A i \in 1..Len(input) : input'[i] = input[i]
        /\ input'[Len(input) + 1].req = "nobody"
    BY <1>1, <1>3, LineTypes, AppendFacts
  <2>2. "nobody" \notin Reqs
    BY BrokerAssumption
  <2>3. \A i \in 1..Len(input') : i \in 1..Len(input) \/ i = Len(input) + 1
    BY <2>1
  <2>4. OnItsWay'
    BY <1>1, <2>1, <2>2, <2>3 DEF CountInv, OnItsWay
  <2>5. InFlight' = InFlight
    BY <1>1 DEF InFlight
  <2> QED
    BY <1>1, <2>1, <2>4, <2>5, FlightSame DEF CountInv
<1> QED
  BY <1>2, <1>3 DEF ClientLeaves

LEMMA AcceptCount == ASSUME CountInv, AcceptLine PROVE CountInv'
<1> DEFINE r == Head(input).req
           kind == Head(input).kind
<1>1. /\ input # <<>> /\ input' = Tail(input)
      /\ input \in Seq(Lines) /\ call \in [Reqs -> States]
  BY DEF AcceptLine, CountInv
<1>2. \/ /\ kind = "blank"
         /\ call' = [call EXCEPT ![r] = "dropped"]
         /\ wg' = wg
      \/ /\ kind \in {"unknown", "badarg"}
         /\ call' = [call EXCEPT ![r] = "refused"]
         /\ wg' = wg
      \/ /\ kind = "call"
         /\ call' = [call EXCEPT ![r] = "spawned"]
         /\ wg' = wg + 1
      \/ kind = "bye-ni" /\ UNCHANGED <<call, wg>>
  BY DEF AcceptLine, Refuse, Spawn
<1>3. /\ Head(input) \in Lines /\ Head(input) = input[1]
      /\ input' \in Seq(Lines)
      /\ Len(input) \in Nat /\ Len(input) > 0
      /\ Len(input') = Len(input) - 1
      /\ \A i \in 1..Len(input') : input'[i] = input[i + 1]
  BY <1>1, TailFacts
<1>4. \A i \in 1..Len(input') : i + 1 \in 1..Len(input) /\ i + 1 # 1
  BY <1>3
<1>5. 1 \in 1..Len(input)
  BY <1>3
<1>6. /\ r \in Reqs => call[r] = "written"
      /\ \A i \in 1..Len(input') : r \in Reqs => input'[i].req # r
  BY <1>3, <1>4, <1>5 DEF CountInv, OnItsWay
<1>7. \A i \in 1..Len(input') :
        input'[i].req \in Reqs => call[input'[i].req] = "written"
  BY <1>3, <1>4, SMTT(30) DEF CountInv, OnItsWay
<1>8. \A i, k \in 1..Len(input') :
        input'[i].req \in Reqs /\ input'[i].req = input'[k].req => i = k
  <2> SUFFICES ASSUME NEW i \in 1..Len(input'), NEW k \in 1..Len(input'),
                      input'[i].req \in Reqs, input'[i].req = input'[k].req
               PROVE  i = k
    OBVIOUS
  <2>1. i + 1 = k + 1
    BY <1>3, <1>4, SMTT(30) DEF CountInv, OnItsWay
  <2> QED
    BY <1>3, <2>1
<1>9. CASE kind = "bye-ni" /\ UNCHANGED <<call, wg>>
  <2>1. OnItsWay'
    BY <1>7, <1>8, <1>9 DEF OnItsWay
  <2>2. InFlight' = InFlight
    BY <1>9 DEF InFlight
  <2> QED
    BY <1>1, <1>3, <1>9, <2>1, <2>2, FlightSame DEF CountInv
<1>10. CASE kind # "bye-ni"
  <2> DEFINE to == IF kind = "blank" THEN "dropped"
                   ELSE IF kind = "call" THEN "spawned" ELSE "refused"
  <2>1. /\ r \in Reqs
        /\ call' = [call EXCEPT ![r] = to]
        /\ wg' = IF kind = "call" THEN wg + 1 ELSE wg
    BY <1>2, <1>3, <1>10, LineTypes
  <2>2. /\ call' \in [Reqs -> States]
        /\ call'[r] = to /\ \A q \in Reqs \ {r} : call'[q] = call[q]
    BY <1>1, <2>1 DEF States
  <2>3. OnItsWay'
    BY <1>6, <1>7, <1>8, <2>1, <2>2 DEF OnItsWay
  <2>4. r \notin InFlight
    BY <1>6, <2>1 DEF InFlight
  <2>5. CASE kind = "call"
    <3>1. InFlight' = InFlight \cup {r}
      BY <2>1, <2>2, <2>5 DEF InFlight
    <3> QED
      BY <1>3, <2>1, <2>2, <2>3, <2>4, <2>5, <3>1, FlightStarts DEF CountInv
  <2>6. CASE kind # "call"
    <3>1. InFlight' = InFlight
      BY <2>1, <2>2, <2>4, <2>6 DEF InFlight
    <3> QED
      BY <1>3, <2>1, <2>2, <2>3, <2>6, <3>1, FlightSame DEF CountInv
  <2> QED
    BY <2>5, <2>6
<1> QED
  BY <1>2, <1>9, <1>10

\* What was read of a line is lost, and the request stays where it was.
LEMMA ReadErrorCount == ASSUME CountInv, ReadError PROVE CountInv'
<1>1. /\ UNCHANGED <<call, wg>> /\ input \in Seq(Lines)
  BY DEF ReadError, callVars, CountInv
<1>2. CASE UNCHANGED input
  BY <1>1, <1>2, CountSame
<1>3. CASE /\ input # <<>> /\ Head(input).req \in Reqs
           /\ input' = [input EXCEPT ![1].kind = "blank"]
  <2> DEFINE line == [input[1] EXCEPT !.kind = "blank"]
  <2>1. /\ Head(input) \in Lines /\ Head(input) = input[1]
        /\ Len(input) \in Nat /\ Len(input) > 0
    BY <1>1, <1>3, TailFacts
  <2>2. line \in Lines /\ line.req = input[1].req
    BY <1>3, <2>1, LineTypes
  <2>3. input' = [input EXCEPT ![1] = line]
    BY <1>3
  <2> HIDE DEF line
  <2>4. /\ input' \in Seq(Lines) /\ Len(input') = Len(input)
        /\ input'[1] = line
        /\ \A i \in 1..Len(input) : i # 1 => input'[i] = input[i]
    BY <1>1, <1>3, <2>2, <2>3, ExceptFacts
  <2>5. \A i \in 1..Len(input') : input'[i].req = input[i].req
    BY <2>2, <2>4
  <2>6. OnItsWay'
    BY <1>1, <2>4, <2>5 DEF CountInv, OnItsWay
  <2>7. InFlight' = InFlight
    BY <1>1 DEF InFlight
  <2> QED
    BY <1>1, <2>4, <2>6, <2>7, FlightSame DEF CountInv
<1> QED
  BY <1>2, <1>3 DEF ReadError

\* A call that has been accepted moves on.
LEMMA MovesCount ==
  ASSUME CountInv, NEW r \in Reqs, NEW from \in {"spawned", "running", "returned"},
         NEW to \in {"running", "returned", "done"}, Moves(r, from, to),
         UNCHANGED input, wg' = IF to = "done" THEN wg - 1 ELSE wg
  PROVE  CountInv'
<1>1. /\ call[r] = from /\ call' = [call EXCEPT ![r] = to]
      /\ input \in Seq(Lines) /\ call \in [Reqs -> States]
  BY DEF Moves, CountInv
<1>2. /\ call' \in [Reqs -> States]
      /\ call'[r] = to /\ \A q \in Reqs \ {r} : call'[q] = call[q]
  BY <1>1 DEF States
<1>3. \A i \in 1..Len(input) : input[i].req # r
  BY <1>1 DEF CountInv, OnItsWay
<1>4. OnItsWay'
  BY <1>2, <1>3 DEF CountInv, OnItsWay
<1>5. r \in InFlight
  BY <1>1 DEF InFlight
<1>6. CASE to = "done"
  <2>1. InFlight' = InFlight \ {r}
    BY <1>2, <1>6 DEF InFlight
  <2> QED
    BY <1>1, <1>2, <1>4, <1>5, <1>6, <2>1, FlightEnds DEF CountInv
<1>7. CASE to # "done"
  <2>1. InFlight' = InFlight
    BY <1>2, <1>5, <1>7 DEF InFlight
  <2> QED
    BY <1>1, <1>2, <1>4, <1>7, <2>1, FlightSame DEF CountInv
<1> QED
  BY <1>6, <1>7

LEMMA CountStep == CountInv /\ [Next]_vars => CountInv'
<1> SUFFICES ASSUME CountInv, [Next]_vars PROVE CountInv'
  OBVIOUS
<1>1. ASSUME NEW r \in Reqs, ClientWrites(r) PROVE CountInv'
  BY <1>1, WritesCount
<1>2. ASSUME NEW r \in Reqs, Calling(r) \/ StreamOut(r) PROVE CountInv'
  <2>1. CASE Serve(r)
    BY <2>1, MovesCount DEF Serve, clientVars
  <2>2. CASE Return(r)
    BY <2>2, MovesCount DEF Return, clientVars
  <2>3. CASE Done(r)
    BY <2>3, MovesCount DEF Done, clientVars
  <2>4. CASE StreamOut(r)
    BY <2>4, MovesCount DEF StreamOut, clientVars
  <2> QED
    BY <1>2, <2>1, <2>2, <2>3, <2>4 DEF Calling
<1>3. ASSUME NEW s \in Senders, Sending(s) PROVE CountInv'
  BY <1>3, CountSame DEF Sending, WriteBody, WriteNewline, SendGivesUp, clientVars, callVars
<1>4. CASE ClientLeaves
  BY <1>4, LeavesCount
<1>5. CASE Reading \/ OutOfMemory
  <2>1. CASE AcceptLine
    BY <2>1, AcceptCount
  <2>2. CASE AcceptEof \/ SayBye
    BY <2>2, CountSame DEF AcceptEof, SayBye, clientVars, callVars
  <2>3. CASE Quit \/ OutOfMemory
    BY <2>3, CountSame DEF Quit, OutOfMemory, Exit, clientVars, callVars
  <2> QED
    BY <1>5, <2>1, <2>2, <2>3 DEF Reading
<1>6. CASE ReadError
  BY <1>6, ReadErrorCount
<1>7. CASE Post \/ TakePost \/ Poll
  BY <1>7, CountSame DEF Post, TakePost, Poll, clientVars, callVars
<1>8. CASE UNCHANGED vars
  BY <1>8, CountSame DEF vars, clientVars, callVars
<1> QED
  BY <1>1, <1>2, <1>3, <1>4, <1>5, <1>6, <1>7, <1>8 DEF Next

\* wg counts the calls between Add(1) in accept and the deferred Done of call, so
\* that Wait returns when there is none.
THEOREM CallsAreCounted == Spec => []WaitGroupCounts
<1>1. CountInv => WaitGroupCounts
  BY DEF CountInv
<1> QED
  BY <1>1, CountInit, CountStep, PTL DEF Spec

-----------------------------------------------------------------------------
(* The lines on stdout. *)

LEMMA LinesInit == Init => LinesInv
<1> SUFFICES ASSUME Init PROVE LinesInv
  OBVIOUS
<1>1. /\ tokened \in [Reqs -> BOOLEAN]
      /\ {served, posts, polls} \subseteq Nat /\ streamed \in [Reqs -> Nat]
      /\ sendCh \in Seq(Bodies) /\ wire \in Seq(Messages)
  BY DEF Init
<1>2. Message("hello", "hello", TRUE, 0) \in Bodies
  <2>1. "hello" \in Says \ {"newline"} /\ "hello" \in Senders
    BY SenderNames DEF Says
  <2> QED
    BY <2>1, BodyType
<1>3. outbox \in [Senders -> Bodies]
  BY <1>2, NoneType DEF Init
<1>4. MutexGuardsLines /\ WholeLines
  BY DEF Init, MutexGuardsLines, WholeLines
<1> QED
  BY <1>1, <1>3, <1>4 DEF LinesInv

\* A step that does not touch the pipe, but may change what the next message says.
LEMMA LinesSame ==
  ASSUME LinesInv, UNCHANGED <<tokened, sendCh, pipeVars>>,
         {served', posts', polls'} \subseteq Nat, streamed' \in [Reqs -> Nat]
  PROVE  LinesInv'
BY DEF LinesInv, pipeVars, MutexGuardsLines, WholeLines

\* A sender gets something to send, and waits for the mutex.
LEMMA SendLines ==
  ASSUME LinesInv, NEW s \in Senders, NEW m \in Bodies, Send(s, m),
         UNCHANGED <<tokened, lock, wire>>, sendCh' \in Seq(Bodies),
         {served', posts', polls'} \subseteq Nat, streamed' \in [Reqs -> Nat]
  PROVE  LinesInv'
<1>1. outbox' \in [Senders -> Bodies]
  BY DEF LinesInv, Send
<1>2. MutexGuardsLines' /\ WholeLines'
  BY DEF LinesInv, MutexGuardsLines, WholeLines
<1> QED
  BY <1>1, <1>2 DEF LinesInv

LEMMA WriteBodyLines == ASSUME LinesInv, NEW s \in Senders, WriteBody(s) PROVE LinesInv'
<1>1. /\ lock = "free" /\ lock' = s /\ s # "free"
      /\ wire' = Append(wire, Encoded(outbox[s]))
      /\ wire \in Seq(Messages) /\ outbox[s] \in Bodies
      /\ UNCHANGED <<tokened, served, streamed, posts, polls, sendCh, outbox>>
  BY SenderNames DEF WriteBody, LockFree, LinesInv, clientVars, callVars, chanVars
<1>2. /\ wire' \in Seq(Messages) /\ Len(wire) \in Nat
      /\ Len(wire') = Len(wire) + 1
      /\ \A i \in 1..Len(wire) : wire'[i] = wire[i]
      /\ IsBody(wire'[Len(wire) + 1])
  BY <1>1, WrittenTypes, AppendFacts
<1>3. Len(wire) % 2 = 0
  BY <1>1 DEF LinesInv, MutexGuardsLines
<1>4. (Len(wire) + 1) % 2 = 1
  BY <1>2, <1>3
<1>5. MutexGuardsLines'
  BY <1>1, <1>2, <1>4 DEF MutexGuardsLines
<1>6. WholeLines'
  <2> SUFFICES ASSUME NEW i \in 1..Len(wire') PROVE IsBody(wire'[i]) <=> (i % 2 = 1)
    BY DEF WholeLines, IsBody
  <2>1. i \in 1..Len(wire) \/ i = Len(wire) + 1
    BY <1>2
  <2>2. CASE i \in 1..Len(wire)
    BY <1>2, <2>2 DEF LinesInv, WholeLines
  <2>3. CASE i = Len(wire) + 1
    BY <1>2, <1>4, <2>3
  <2> QED
    BY <2>1, <2>2, <2>3
<1> QED
  BY <1>1, <1>2, <1>5, <1>6 DEF LinesInv

LEMMA WriteNewlineLines ==
  ASSUME LinesInv, NEW s \in Senders, WriteNewline(s) PROVE LinesInv'
<1>1. /\ lock = s /\ lock' = "free" /\ s # "free"
      /\ wire' = Append(wire, Message(s, "newline", FALSE, 0))
      /\ wire \in Seq(Messages)
      /\ UNCHANGED <<tokened, served, streamed, posts, polls, sendCh>>
  BY SenderNames DEF WriteNewline, LinesInv, clientVars, callVars, chanVars
<1>2. /\ wire' \in Seq(Messages) /\ Len(wire) \in Nat
      /\ Len(wire') = Len(wire) + 1
      /\ \A i \in 1..Len(wire) : wire'[i] = wire[i]
      /\ ~IsBody(wire'[Len(wire) + 1])
  <2> DEFINE newline == Message(s, "newline", FALSE, 0)
  <2>1. newline \in Messages /\ ~IsBody(newline)
    BY WrittenTypes
  <2>2. wire' = Append(wire, newline) /\ wire \in Seq(Messages)
    BY <1>1
  <2> HIDE DEF newline
  <2> QED
    BY <2>1, <2>2, AppendFacts
<1>3. Len(wire) % 2 # 0
  BY <1>1 DEF LinesInv, MutexGuardsLines
<1>4. (Len(wire) + 1) % 2 = 0
  BY <1>2, <1>3
<1>5. MutexGuardsLines'
  BY <1>1, <1>2, <1>4 DEF MutexGuardsLines
<1>6. WholeLines'
  <2> SUFFICES ASSUME NEW i \in 1..Len(wire') PROVE IsBody(wire'[i]) <=> (i % 2 = 1)
    BY DEF WholeLines, IsBody
  <2>1. i \in 1..Len(wire) \/ i = Len(wire) + 1
    BY <1>2
  <2>2. CASE i \in 1..Len(wire)
    BY <1>2, <2>2 DEF LinesInv, WholeLines
  <2>3. CASE i = Len(wire) + 1
    BY <1>2, <1>4, <2>3
  <2> QED
    BY <2>1, <2>2, <2>3
<1>7. outbox' \in [Senders -> Bodies]
  BY NoneType DEF WriteNewline, Send, LinesInv
<1> QED
  BY <1>1, <1>2, <1>5, <1>6, <1>7 DEF LinesInv

LEMMA SendingLines == ASSUME LinesInv, NEW s \in Senders, Sending(s) PROVE LinesInv'
<1>1. CASE WriteBody(s)
  BY <1>1, WriteBodyLines
<1>2. CASE WriteNewline(s)
  BY <1>2, WriteNewlineLines
<1>3. CASE SendGivesUp(s)
  <2>1. /\ Send(s, None)
        /\ lock = "free" /\ UNCHANGED <<tokened, wire, served, streamed, chanVars>>
        /\ lock' = lock
    BY <1>3 DEF SendGivesUp, LockFree, LockAfterGivingUp, clientVars, callVars
  <2> QED
    BY <2>1, NoneType, SendLines DEF LinesInv, chanVars
<1> QED
  BY <1>1, <1>2, <1>3 DEF Sending

LEMMA AcceptLines == ASSUME CountInv, LinesInv, AcceptLine PROVE LinesInv'
<1> DEFINE r == Head(input).req
           kind == Head(input).kind
<1>1. /\ input # <<>> /\ Head(input) \in Lines
      /\ UNCHANGED <<tokened, served, streamed, chanVars, lock, wire>>
  BY TailFacts DEF AcceptLine, CountInv
<1>2. CASE UNCHANGED outbox
  BY <1>1, <1>2, LinesSame DEF LinesInv, chanVars, pipeVars
<1>3. CASE kind \in {"unknown", "badarg"} /\ Refuse(r)
  <2>1. r \in Reqs
    BY <1>1, <1>3, LineTypes
  <2>2. "error" \in Says \ {"newline"}
    BY DEF Says
  <2>3. tokened[r] \in BOOLEAN /\ r \in Senders
    BY <2>1, SenderNames DEF LinesInv
  <2>4. Message(r, "error", tokened[r], 0) \in Bodies
    BY <2>2, <2>3, BodyType
  <2>5. Send("main", Message(r, "error", tokened[r], 0))
    BY <1>3 DEF Refuse
  <2> QED
    BY <1>1, <2>4, <2>5, SenderNames, SendLines DEF LinesInv, chanVars
<1> QED
  BY <1>2, <1>3 DEF AcceptLine, Spawn

\* What the loop itself says: that it could not read, and good bye.
LEMMA LoopLines ==
  ASSUME LinesInv, ReadError \/ SayBye PROVE LinesInv'
<1>1. UNCHANGED <<tokened, served, streamed, chanVars, lock, wire>>
  BY DEF ReadError, SayBye, clientVars, callVars
<1>2. Message("nobody", "read error", FALSE, 0) \in Bodies
  <2>1. "read error" \in Says \ {"newline"}
    BY DEF Says
  <2> QED
    BY <2>1, BodyType
<1>3. Message("bye", "bye", TRUE, served) \in Bodies
  <2>1. "bye" \in Says \ {"newline"} /\ served \in Nat
    BY DEF Says, LinesInv
  <2> QED
    BY <2>1, BodyType
<1>4. \E m \in Bodies : Send("main", m)
  BY <1>2, <1>3 DEF ReadError, SayBye
<1> QED
  BY <1>1, <1>4, SenderNames, SendLines DEF LinesInv, chanVars

LEMMA CallLines ==
  ASSUME LinesInv, NEW r \in Reqs, Calling(r) \/ StreamOut(r) PROVE LinesInv'
<1>1. CASE Serve(r)
  <2>1. served' \in Nat
    BY <1>1 DEF Serve, LinesInv
  <2> QED
    BY <1>1, <2>1, LinesSame DEF Serve, LinesInv, clientVars, chanVars
<1>2. CASE Return(r)
  <2>1. PICK says \in {"result", "unencodable", "PANIC"} :
          Send(r, Message(r, says, tokened[r], 0))
    BY <1>2 DEF Return
  <2>2. says \in Says \ {"newline"} /\ tokened[r] \in BOOLEAN /\ r \in Senders
    BY SenderNames DEF Says, LinesInv
  <2>3. Message(r, says, tokened[r], 0) \in Bodies
    BY <2>2, BodyType
  <2>4. UNCHANGED <<tokened, served, streamed, chanVars, lock, wire>>
    BY <1>2 DEF Return, clientVars
  <2> QED
    BY <2>1, <2>2, <2>3, <2>4, SendLines DEF LinesInv, chanVars
<1>3. CASE Done(r)
  BY <1>3, LinesSame DEF Done, LinesInv, clientVars, chanVars
<1>4. CASE StreamOut(r)
  <2>1. "stream" \in Says \ {"newline"} /\ r \in Senders /\ streamed[r] + 1 \in Nat
    BY SenderNames DEF Says, LinesInv
  <2>2. Message(r, "stream", TRUE, streamed[r] + 1) \in Bodies
    BY <2>1, BodyType
  <2>3. streamed' \in [Reqs -> Nat]
    BY <1>4, <2>1 DEF StreamOut, LinesInv
  <2>4. /\ Send(r, Message(r, "stream", TRUE, streamed[r] + 1))
        /\ UNCHANGED <<tokened, served, chanVars, lock, wire>>
    BY <1>4 DEF StreamOut, clientVars
  <2> QED
    BY <2>1, <2>2, <2>3, <2>4, SendLines DEF LinesInv, chanVars
<1> QED
  BY <1>1, <1>2, <1>3, <1>4 DEF Calling

LEMMA PostLines == ASSUME LinesInv, Post \/ TakePost \/ Poll PROVE LinesInv'
<1>1. "post" \in Says \ {"newline"} /\ "poll" \in Says \ {"newline"} /\ "poll" \in Senders
  BY SenderNames DEF Says
<1>2. posts + 1 \in Nat /\ polls + 1 \in Nat
  BY DEF LinesInv
<1>3. CASE Post
  <2>1. Message("post", "post", TRUE, posts + 1) \in Bodies
    BY <1>1, <1>2, BodyType
  <2>2. sendCh' \in Seq(Bodies)
    BY <1>3, <2>1, AppendFacts DEF Post, Queued, LinesInv
  <2>3. /\ posts' = posts + 1
        /\ UNCHANGED <<tokened, served, streamed, polls, outbox, lock, wire>>
    BY <1>3 DEF Post, clientVars, callVars, pipeVars
  <2>4. MutexGuardsLines' /\ WholeLines'
    BY <2>3 DEF LinesInv, MutexGuardsLines, WholeLines
  <2> QED
    BY <1>2, <2>2, <2>3, <2>4 DEF LinesInv
<1>4. CASE TakePost
  <2>1. /\ Head(sendCh) \in Bodies /\ sendCh' \in Seq(Bodies)
        /\ Send("poster", Head(sendCh))
        /\ UNCHANGED <<tokened, served, streamed, posts, polls, lock, wire>>
    BY <1>4, TailFacts DEF TakePost, LinesInv, clientVars, callVars
  <2> QED
    BY <2>1, SenderNames, SendLines DEF LinesInv
<1>5. CASE Poll
  <2>1. Message("poll", "poll", TRUE, polls + 1) \in Bodies
    BY <1>1, <1>2, BodyType
  <2>2. /\ Send("poll", Message("poll", "poll", TRUE, polls + 1))
        /\ polls' = polls + 1
        /\ UNCHANGED <<tokened, served, streamed, posts, sendCh, lock, wire>>
    BY <1>5 DEF Poll, clientVars, callVars
  <2> QED
    BY <1>2, <2>1, <2>2, SenderNames, SendLines DEF LinesInv
<1> QED
  BY <1>3, <1>4, <1>5

LEMMA LinesStep == CountInv /\ LinesInv /\ [Next]_vars => LinesInv'
<1> SUFFICES ASSUME CountInv, LinesInv, [Next]_vars PROVE LinesInv'
  OBVIOUS
<1> USE DEF clientVars, callVars, chanVars
<1>1. ASSUME NEW r \in Reqs, ClientWrites(r) PROVE LinesInv'
  BY <1>1, LinesSame DEF ClientWrites, LinesInv
<1>2. ASSUME NEW r \in Reqs, Calling(r) \/ StreamOut(r) PROVE LinesInv'
  BY <1>2, CallLines
<1>3. ASSUME NEW s \in Senders, Sending(s) PROVE LinesInv'
  BY <1>3, SendingLines
<1>4. CASE ClientLeaves
  BY <1>4, LinesSame DEF ClientLeaves, LinesInv
<1>5. CASE Reading \/ OutOfMemory
  <2>1. CASE AcceptLine
    BY <2>1, AcceptLines
  <2>2. CASE AcceptEof
    BY <2>2, LinesSame DEF AcceptEof, LinesInv
  <2>3. CASE SayBye
    BY <2>3, LoopLines
  <2>4. CASE Quit \/ OutOfMemory
    BY <2>4, LinesSame DEF Quit, OutOfMemory, Exit, LinesInv
  <2> QED
    BY <1>5, <2>1, <2>2, <2>3, <2>4 DEF Reading
<1>6. CASE ReadError
  BY <1>6, LoopLines
<1>7. CASE Post \/ TakePost \/ Poll
  BY <1>7, PostLines
<1>8. CASE UNCHANGED vars
  BY <1>8, LinesSame DEF vars, LinesInv
<1> QED
  BY <1>1, <1>2, <1>3, <1>4, <1>5, <1>6, <1>7, <1>8 DEF Next

\* However many goroutines respond at once, stdout is a sequence of whole lines:
\* SendNoLog holds the mutex from the body of a response to its newline.
THEOREM StdoutIsWholeLines == Spec => []WholeLines
<1>1. CountInv /\ LinesInv => WholeLines
  BY DEF LinesInv
<1>2. Init => CountInv /\ LinesInv
  BY CountInit, LinesInit
<1>3. CountInv /\ LinesInv /\ [Next]_vars => CountInv' /\ LinesInv'
  BY CountStep, LinesStep
<1> QED
  BY <1>1, <1>2, <1>3, PTL DEF Spec

-----------------------------------------------------------------------------
(* The types: what the two invariants do not say already. *)

Bounded ==
  /\ closed \in BOOLEAN /\ up \in BOOLEAN
  /\ reader \in {"reading", "stopped", "bye"} /\ readErrors \in 0..MaxReadErrors
  /\ streamed \in [Reqs -> 0..MaxStream] /\ served \in Nat
  /\ posts \in 0..MaxPosts /\ polls \in 0..MaxPolls
  /\ lock \in Senders \cup {"free"}

LEMMA BoundsAreNat ==
  /\ MaxPosts \in Nat /\ MaxPolls \in Nat /\ MaxStream \in Nat
  /\ MaxReadErrors \in Nat
BY BrokerAssumption

LEMMA BoundedInit == Init => Bounded
<1> SUFFICES ASSUME Init PROVE Bounded
  OBVIOUS
<1>1. /\ streamed \in [Reqs -> 0..MaxStream] /\ readErrors \in 0..MaxReadErrors
      /\ posts \in 0..MaxPosts /\ polls \in 0..MaxPolls
  BY BoundsAreNat DEF Init
<1>2. /\ closed \in BOOLEAN /\ up \in BOOLEAN
      /\ reader \in {"reading", "stopped", "bye"} /\ served \in Nat
      /\ lock \in Senders \cup {"free"}
  BY DEF Init
<1> QED
  BY <1>1, <1>2 DEF Bounded

LEMMA BoundedStep == Bounded /\ [Next]_vars => Bounded'
<1> SUFFICES ASSUME Bounded, [Next]_vars PROVE Bounded'
  OBVIOUS
<1> USE BoundsAreNat DEF Bounded, clientVars, loopVars, callVars, chanVars, pipeVars
<1>1. ASSUME NEW r \in Reqs, ClientWrites(r) \/ Calling(r) \/ StreamOut(r)
      PROVE  Bounded'
  <2>1. CASE StreamOut(r)
    <3>1. streamed[r] + 1 \in 0..MaxStream
      BY <2>1 DEF StreamOut
    <3> QED
      BY <2>1, <3>1 DEF StreamOut
  <2>2. CASE ClientWrites(r) \/ Calling(r)
    BY <2>2, SMTT(30) DEF ClientWrites, Calling, Serve, Return, Done
  <2> QED
    BY <1>1, <2>1, <2>2
<1>2. ASSUME NEW s \in Senders, Sending(s) PROVE Bounded'
  BY <1>2 DEF Sending, WriteBody, WriteNewline, SendGivesUp, LockAfterGivingUp
<1>3. CASE ClientLeaves \/ AcceptEof \/ SayBye \/ Quit \/ OutOfMemory
  BY <1>3 DEF ClientLeaves, AcceptEof, SayBye, Quit, OutOfMemory, Exit
<1>4. CASE AcceptLine
  <2>1. /\ reader' \in {"stopped", "reading"}
        /\ UNCHANGED <<closed, readErrors, streamed, served, chanVars, lock, up>>
    BY <1>4 DEF AcceptLine
  <2> QED
    BY <2>1
<1>5. CASE ReadError
  <2>1. readErrors < MaxReadErrors /\ readErrors' = readErrors + 1
    BY <1>5 DEF ReadError
  <2>2. UNCHANGED <<closed, reader, streamed, served, chanVars, lock, up>>
    BY <1>5 DEF ReadError
  <2> QED
    BY <2>1, <2>2
<1>6. CASE Post
  <2>1. posts' \in 0..MaxPosts
    BY <1>6 DEF Post
  <2>2. UNCHANGED <<closed, reader, readErrors, streamed, served, polls, lock, up>>
    BY <1>6 DEF Post
  <2> QED
    BY <2>1, <2>2
<1>7. CASE TakePost
  BY <1>7 DEF TakePost
<1>8. CASE Poll
  BY <1>8 DEF Poll
<1>9. CASE UNCHANGED vars
  BY <1>9 DEF vars
<1> QED
  BY <1>1, <1>2, <1>3, <1>4, <1>5, <1>6, <1>7, <1>8, <1>9 DEF Next, Reading

\* Every variable keeps its type: in particular the WaitGroup's counter is never
\* negative (Done would panic).
THEOREM TypesAreKept == Spec => []TypeOK
<1>1. CountInv /\ LinesInv /\ Bounded => TypeOK
  <2> SUFFICES ASSUME CountInv, LinesInv, Bounded PROVE TypeOK
    OBVIOUS
  <2>1. Lines \subseteq [req : Reqs \cup {"nobody"}, kind : Kinds \cup {"bye-ni"}]
    BY DEF Lines, Line
  <2>2. input \in Seq([req : Reqs \cup {"nobody"}, kind : Kinds \cup {"bye-ni"}])
    BY <2>1, SeqSubset DEF CountInv
  <2>3. wg \in Nat
    BY FS_CardinalityType DEF CountInv, WaitGroupCounts
  <2>4. Bodies \subseteq Messages
    BY DEF Bodies
  <2>5. outbox \in [Senders -> Messages] /\ sendCh \in Seq(Messages)
    BY <2>4 DEF LinesInv
  <2> QED
    BY <2>2, <2>3, <2>5 DEF CountInv, LinesInv, Bounded, TypeOK, States
<1>2. Init => CountInv /\ LinesInv /\ Bounded
  BY CountInit, LinesInit, BoundedInit
<1>3. CountInv /\ LinesInv /\ Bounded /\ [Next]_vars => CountInv' /\ LinesInv' /\ Bounded'
  BY CountStep, LinesStep, BoundedStep
<1> QED
  BY <1>1, <1>2, <1>3, PTL DEF Spec

-----------------------------------------------------------------------------
(* Who sends what, and what has been written of it. *)

\* What each goroutine may be sending, by the one that sends it.
SentByCall(r, m) ==
  /\ m.to = r
  /\ \/ m.says = "stream" /\ call[r] = "running" /\ m.seq = streamed[r]
     \/ /\ m.says \in {"result", "unencodable", "PANIC"}
        /\ call[r] = "returned" /\ m.token = tokened[r]

SentByLoop(m) ==
  \/ m.says = "error" /\ m.to \in Reqs /\ call[m.to] = "refused"
  \/ m.says = "read error" /\ m.to = "nobody"
  \/ m.says = "bye" /\ m.to = "bye" /\ reader = "bye"

SentBy(s, m) ==
  \/ s \in Reqs /\ SentByCall(s, m)
  \/ s = "main" /\ SentByLoop(m)
  \/ s = "hello" /\ m.says = "hello" /\ m.to = "hello"
  \/ s = "poll" /\ m.says = "poll" /\ m.to = "poll"
  \/ s = "poster" /\ m.says = "post" /\ m.to = "post"

\* The mutex is held by a sender that has something to send.
SendersSay ==
  /\ \A s \in Senders : ~Idle(s) => SentBy(s, outbox[s])
  /\ \A k \in 1..Len(sendCh) : sendCh[k].says = "post" /\ sendCh[k].to = "post"
  /\ lock # "free" => lock \in Senders /\ ~Idle(lock)

\* A sender waits for the mutex: what it says has not been written.
Pending(s) == ~Idle(s) /\ lock # s

\* Posts are numbered from the wire to the end of the channel.
PostsWritten == Cardinality(PostsUpTo(Len(wire)))
PostsTaken   == IF Pending("poster") THEN PostsWritten + 1 ELSE PostsWritten

PostInv ==
  /\ PostsInOrder
  /\ Pending("poster") => outbox["poster"].seq = PostsTaken
  /\ posts = PostsTaken + Len(sendCh)
  /\ \A k \in 1..Len(sendCh) : sendCh[k].seq = PostsTaken + k

\* What is written to r is what its call has streamed, and then its answer.
Answered(r) == \E i \in 1..Len(wire) : wire[i].to = r /\ IsAnswer(wire[i])
Written(r)  == Cardinality(BodiesTo(r, Len(wire)))
Streaming(r) == Pending(r) /\ outbox[r].says = "stream"
Refusing(r)  == Pending("main") /\ outbox["main"].to = r

AnswerInv(r) ==
  /\ Answered(r) => /\ call[r] \in {"refused", "returned", "done"}
                    /\ ~Pending(r) /\ ~Refusing(r)
                    /\ Written(r) = streamed[r] + 1
  /\ ~Answered(r) => streamed[r] = Written(r) + (IF Streaming(r) THEN 1 ELSE 0)
  /\ call[r] \notin {"running", "returned", "done"} => streamed[r] = 0
  /\ call[r] = "refused" => Answered(r) \/ Refusing(r)
  /\ call[r] = "returned" => Answered(r) \/ Pending(r) \/ (Idle(r) /\ ~tokened[r])
  /\ call[r] = "done" => Answered(r) \/ ~tokened[r]

SentInv ==
  /\ SendersSay /\ PostInv /\ StreamBeforeAnswer
  /\ \A r \in Reqs : AnswerInv(r)

LEMMA Names ==
  {"main", "hello", "poll", "poster", "free", "nobody", "bye", "post"} \cap Reqs = {}
BY BrokerAssumption

LEMMA NoneIsNothing == None.says = "nothing" /\ None.to = "nobody"
BY DEF None, Message

\* The sets that are counted.
LEMMA UpToFacts ==
  ASSUME NEW n \in Nat, NEW P \in SUBSET (1..n)
  PROVE  /\ IsFiniteSet(P) /\ Cardinality(P) \in Nat
         /\ n + 1 \notin P
         /\ Cardinality(P \cup {n + 1}) = Cardinality(P) + 1
<1>1. IsFiniteSet(1..n)
  BY FS_Interval
<1>2. IsFiniteSet(P)
  BY <1>1, FS_Subset
<1>3. n + 1 \notin P
  OBVIOUS
<1> QED
  BY <1>2, <1>3, FS_CardinalityType, FS_AddElement

LEMMA CountsAreNat ==
  ASSUME wire \in Seq(Messages)
  PROVE  PostsWritten \in Nat /\ \A r : Written(r) \in Nat
<1>1. /\ Len(wire) \in Nat /\ PostsUpTo(Len(wire)) \in SUBSET (1..Len(wire))
      /\ \A r : BodiesTo(r, Len(wire)) \in SUBSET (1..Len(wire))
  BY DEF PostsUpTo, BodiesTo
<1> QED
  BY <1>1, UpToFacts DEF PostsWritten, Written

\* What a write to stdout adds.
LEMMA WireGrows ==
  ASSUME wire \in Seq(Messages), NEW m \in Messages, wire' = Append(wire, m)
  PROVE  /\ Len(wire) \in Nat /\ Len(wire') = Len(wire) + 1
         /\ wire'[Len(wire')] = m
         /\ \A i \in 1..Len(wire) : wire'[i] = wire[i] /\ i # Len(wire')
         /\ 1..Len(wire') = (1..Len(wire)) \cup {Len(wire')}
         /\ \A i \in 1..Len(wire) :
              PostsUpTo(i)' = PostsUpTo(i) /\ \A r : BodiesTo(r, i)' = BodiesTo(r, i)
         /\ PostsWritten \in Nat /\ \A r : Written(r) \in Nat
         /\ PostsUpTo(Len(wire))' = IF m.says = "post" THEN PostsUpTo(Len(wire)) \cup {Len(wire')}
                                    ELSE PostsUpTo(Len(wire))
         /\ PostsWritten' = IF m.says = "post" THEN PostsWritten + 1 ELSE PostsWritten
         /\ \A r : BodiesTo(r, Len(wire))' =
                     IF m.to = r /\ IsBody(m) THEN BodiesTo(r, Len(wire)) \cup {Len(wire')}
                     ELSE BodiesTo(r, Len(wire))
         /\ \A r : Written(r)' = IF m.to = r /\ IsBody(m) THEN Written(r) + 1 ELSE Written(r)
         /\ \A r : Answered(r)' <=> Answered(r) \/ (m.to = r /\ IsAnswer(m))
<1> DEFINE n == Len(wire)
<1>1. /\ n \in Nat /\ Len(wire') = n + 1 /\ wire'[n + 1] = m
      /\ \A i \in 1..n : wire'[i] = wire[i]
  BY AppendFacts
<1>2. /\ 1..(n + 1) = (1..n) \cup {n + 1}
      /\ \A i \in 1..n : i # n + 1 /\ 1..i \subseteq 1..n
  BY <1>1
<1>3. \A i \in 1..n :
        PostsUpTo(i)' = PostsUpTo(i) /\ \A r : BodiesTo(r, i)' = BodiesTo(r, i)
  BY <1>1, <1>2 DEF PostsUpTo, BodiesTo, IsBody
<1>4. PostsUpTo(n)' = IF m.says = "post" THEN PostsUpTo(n) \cup {n + 1} ELSE PostsUpTo(n)
  BY <1>1, <1>2 DEF PostsUpTo
<1>5. \A r : BodiesTo(r, n)' = IF m.to = r /\ IsBody(m) THEN BodiesTo(r, n) \cup {n + 1}
                               ELSE BodiesTo(r, n)
  BY <1>1, <1>2 DEF BodiesTo, IsBody
<1>6. PostsUpTo(n) \in SUBSET (1..n) /\ \A r : BodiesTo(r, n) \in SUBSET (1..n)
  BY DEF PostsUpTo, BodiesTo
<1>7. /\ PostsWritten \in Nat
      /\ PostsWritten' = IF m.says = "post" THEN PostsWritten + 1 ELSE PostsWritten
  BY <1>1, <1>4, <1>6, UpToFacts DEF PostsWritten
<1>8. \A r : /\ Written(r) \in Nat
             /\ Written(r)' = IF m.to = r /\ IsBody(m) THEN Written(r) + 1 ELSE Written(r)
  BY <1>1, <1>5, <1>6, UpToFacts, ZenonT(30) DEF Written
<1>9. \A r : Answered(r)' <=> Answered(r) \/ (m.to = r /\ IsAnswer(m))
  BY <1>1, <1>2 DEF Answered, IsAnswer
<1> QED
  BY <1>1, <1>2, <1>3, <1>4, <1>5, <1>7, <1>8, <1>9

LEMMA SendFacts ==
  ASSUME outbox \in [Senders -> Bodies], NEW s \in Senders, NEW m \in Bodies, Send(s, m)
  PROVE  /\ outbox'[s] = m /\ (Idle(s)' <=> m = None)
         /\ m.says # "nothing" => ~Idle(s)'
         /\ \A t \in Senders \ {s} : outbox'[t] = outbox[t] /\ (Idle(t)' <=> Idle(t))
BY NoneIsNothing DEF Send, Idle

LEMMA WireSame ==
  ASSUME wire' = wire
  PROVE  /\ PostsInOrder' = PostsInOrder /\ PostsWritten' = PostsWritten
         /\ \A r : /\ Answered(r)' <=> Answered(r)
                   /\ Written(r)' = Written(r)
                   /\ \A i : BodiesTo(r, i)' = BodiesTo(r, i)
BY DEF PostsInOrder, PostsWritten, PostsUpTo, Answered, Written, BodiesTo, IsAnswer, IsBody

\* While nothing is written, only an answered call must not stream.
LEMMA OrderSame ==
  ASSUME StreamBeforeAnswer, wire' = wire,
         \A r \in Reqs : Answered(r) => streamed'[r] = streamed[r]
  PROVE  StreamBeforeAnswer'
<1> SUFFICES ASSUME NEW r \in Reqs, NEW i \in BodiesTo(r, Len(wire))
             PROVE  IF IsAnswer(wire[i])
                    THEN /\ BodiesTo(r, Len(wire)) = BodiesTo(r, i)
                         /\ Cardinality(BodiesTo(r, i)) = streamed'[r] + 1
                    ELSE wire[i].seq = Cardinality(BodiesTo(r, i))
  <2>1. \A i : IsAnswer(wire[i])' <=> IsAnswer(wire[i])
    BY DEF IsAnswer
  <2>2. \A r, i : BodiesTo(r, i)' = BodiesTo(r, i)
    BY WireSame
  <2>3. \A r : BodiesTo(r, Len(wire))' = BodiesTo(r, Len(wire))
    BY DEF BodiesTo, IsBody
  <2> QED
    BY <2>1, <2>2, <2>3 DEF StreamBeforeAnswer
<1>1. IsAnswer(wire[i]) => Answered(r)
  BY DEF BodiesTo, Answered
<1> QED
  BY <1>1 DEF StreamBeforeAnswer

LEMMA PostSame ==
  ASSUME PostInv, UNCHANGED <<wire, posts, sendCh, outbox["poster"]>>,
         Pending("poster")' <=> Pending("poster")
  PROVE  PostInv'
BY WireSame DEF PostInv, PostsTaken

\* What concerns another request.
LEMMA AnswerSame ==
  ASSUME NEW r, AnswerInv(r), wire' = wire, lock' = lock,
         UNCHANGED <<call[r], streamed[r], tokened[r], outbox[r]>>, Refusing(r)' <=> Refusing(r)
  PROVE  AnswerInv(r)'
BY WireSame DEF AnswerInv, Streaming, Pending, Idle

\* A sender other than s goes on with what it says, whatever call r does, if r is not
\* one that it sends for.
LEMMA SendersSame ==
  ASSUME SendersSay, NEW r, NEW s,
         UNCHANGED <<tokened, lock, sendCh>>,
         \A t \in Senders \ {s} : outbox'[t] = outbox[t],
         \A q \in Reqs \ {r} : call'[q] = call[q] /\ streamed'[q] = streamed[q],
         r \in Reqs => /\ r = s \/ Idle(r)
                       /\ call[r] = "refused" => call'[r] = "refused",
         reader = "bye" => reader' = "bye",
         ~Idle(s)' /\ s \in Senders => SentBy(s, outbox[s])',
         s = lock => ~Idle(s)'
  PROVE  SendersSay'
<1>1. ASSUME NEW t \in Senders \ {s}, ~Idle(t) PROVE SentBy(t, outbox[t])'
  <2>1. SentBy(t, outbox[t])
    BY <1>1 DEF SendersSay
  <2>2. t \in Reqs => call'[t] = call[t] /\ streamed'[t] = streamed[t] /\ tokened'[t] = tokened[t]
    BY <1>1
  <2>3. \A q \in Reqs : call[q] = "refused" => call'[q] = "refused"
    OBVIOUS
  <2>4. outbox'[t] = outbox[t]
    BY <1>1
  <2>5. CASE t \in Reqs /\ SentByCall(t, outbox[t])
    BY <2>2, <2>4, <2>5 DEF SentBy, SentByCall
  <2>6. CASE t = "main" /\ SentByLoop(outbox[t])
    BY <2>3, <2>4, <2>6 DEF SentBy, SentByLoop
  <2> QED
    BY <2>1, <2>4, <2>5, <2>6 DEF SentBy
<1>2. \A t \in Senders : ~Idle(t)' => SentBy(t, outbox[t])'
  BY <1>1 DEF Idle
<1>3. lock' # "free" => lock' \in Senders /\ ~Idle(lock)'
  <2> SUFFICES ASSUME lock # "free" PROVE lock \in Senders /\ ~Idle(lock)'
    OBVIOUS
  <2>3. lock \in Senders /\ ~Idle(lock)
    BY DEF SendersSay
  <2>1. CASE lock \in Senders \ {s}
    BY <2>1, <2>3 DEF Idle
  <2>2. CASE lock = s
    BY <2>2, <2>3 DEF Idle
  <2> QED
    BY <2>1, <2>2, <2>3
<1> QED
  BY <1>2, <1>3 DEF SendersSay

LEMMA CallIsIdle ==
  ASSUME SendersSay, NEW r \in Reqs, call[r] \notin {"running", "returned"}
  PROVE  Idle(r)
<1> SUFFICES ASSUME ~Idle(r) PROVE FALSE
  OBVIOUS
<1>1. r \in Senders /\ r \notin {"main", "hello", "poll", "poster"}
  BY SenderNames, Names
<1>2. SentByCall(r, outbox[r])
  BY <1>1 DEF SendersSay, SentBy
<1> QED
  BY <1>2 DEF SentByCall

\* The loop refuses a request once.
LEMMA RefusedIsRefused ==
  ASSUME SendersSay, NEW r \in Reqs, call[r] # "refused"
  PROVE  ~Refusing(r)
<1> SUFFICES ASSUME Refusing(r) PROVE FALSE
  OBVIOUS
<1>1. "main" \in Senders /\ "main" \notin Reqs /\ r # "nobody" /\ r # "bye"
  BY SenderNames, Names
<1>2. SentByLoop(outbox["main"]) /\ outbox["main"].to = r
  BY <1>1 DEF Refusing, Pending, SendersSay, SentBy
<1> QED
  BY <1>1, <1>2 DEF SentByLoop

\* A step that neither a sender nor a call notices.
LEMMA SentSame ==
  ASSUME SentInv, UNCHANGED <<tokened, call, streamed, posts, sendCh, outbox, lock, wire>>,
         reader = "bye" => reader' = "bye"
  PROVE  SentInv'
<1>1. "nobody" \notin Senders /\ "nobody" \notin Reqs /\ "nobody" # "free"
  BY Names DEF Senders
<1>2. lock # "nobody"
  BY <1>1 DEF SentInv, SendersSay
<1>3. SendersSay'
  BY <1>1, <1>2, SendersSame DEF SentInv
<1>4. PostInv'
  BY PostSame DEF SentInv, Pending, Idle
<1>5. StreamBeforeAnswer'
  BY OrderSame DEF SentInv
<1>6. \A r \in Reqs : AnswerInv(r)'
  BY AnswerSame DEF SentInv, Refusing, Pending, Idle
<1> QED
  BY <1>3, <1>4, <1>5, <1>6 DEF SentInv

\* A call moves on, and sends nothing.
LEMMA CallMoves ==
  ASSUME SentInv, NEW r \in Reqs, Idle(r), call \in [Reqs -> States],
         call' = [call EXCEPT ![r] = call'[r]], call[r] # "refused", AnswerInv(r)',
         UNCHANGED <<tokened, streamed, posts, sendCh, outbox, lock, wire>>,
         reader = "bye" => reader' = "bye"
  PROVE  SentInv'
<1>1. "nobody" \notin Senders /\ "nobody" \notin Reqs /\ "nobody" # "free"
  BY Names DEF Senders
<1>2. lock # "nobody"
  BY <1>1 DEF SentInv, SendersSay
<1>3. \A q \in Reqs \ {r} : call'[q] = call[q]
  OBVIOUS
<1>4. SendersSay'
  BY <1>1, <1>2, <1>3, SendersSame DEF SentInv
<1>5. PostInv'
  BY PostSame DEF SentInv, Pending, Idle
<1>6. StreamBeforeAnswer'
  BY OrderSame DEF SentInv
<1>7. \A q \in Reqs \ {r} : AnswerInv(q)'
  BY <1>3, AnswerSame DEF SentInv, Refusing, Pending, Idle
<1> QED
  BY <1>4, <1>5, <1>6, <1>7 DEF SentInv

\* A call, or the loop for it, has something to send.
LEMMA CallSends ==
  ASSUME SentInv, LinesInv, NEW r \in Reqs, NEW s \in {r, "main"}, NEW m \in Bodies,
         Idle(r), Idle(s), Send(s, m), m.to = r, SentBy(s, m)', AnswerInv(r)',
         ~Answered(r), call[r] # "refused",
         \A q \in Reqs \ {r} : call'[q] = call[q] /\ streamed'[q] = streamed[q],
         UNCHANGED <<tokened, posts, sendCh, lock, wire>>, reader = "bye" => reader' = "bye"
  PROVE  SentInv'
<1>1. /\ outbox \in [Senders -> Bodies] /\ s \in Senders /\ r \in Senders
      /\ "main" \in Senders /\ "poster" \in Senders
      /\ s # "poster" /\ lock # s /\ "main" \notin Reqs
  <2>1. lock # s
    BY SenderNames DEF SentInv, SendersSay
  <2> QED
    BY <2>1, SenderNames, Names DEF LinesInv
<1>2. /\ outbox'[s] = m
      /\ \A t \in Senders \ {s} : outbox'[t] = outbox[t] /\ (Idle(t)' <=> Idle(t))
  BY <1>1, SendFacts
<1>3. SentBy(s, outbox[s])'
  BY <1>2
<1>4. SendersSay'
  BY <1>1, <1>2, <1>3, SendersSame DEF SentInv
<1>5. PostInv'
  BY <1>1, <1>2, PostSame DEF SentInv, Pending
<1>6. StreamBeforeAnswer'
  BY OrderSame DEF SentInv
<1>7. ASSUME NEW q \in Reqs \ {r} PROVE AnswerInv(q)'
  <2>1. Refusing(q)' <=> Refusing(q)
    <3>1. CASE s = "main"
      BY <1>2, <3>1 DEF Refusing, Pending
    <3>2. CASE s # "main"
      BY <1>1, <1>2, <3>2 DEF Refusing, Pending
    <3> QED
      BY <3>1, <3>2
  <2>2. outbox'[q] = outbox[q]
    BY <1>1, <1>2, SenderNames
  <2>3. AnswerInv(q)
    BY DEF SentInv
  <2> QED
    BY <2>1, <2>2, <2>3, AnswerSame
<1> QED
  BY <1>4, <1>5, <1>6, <1>7 DEF SentInv

\* One who answers nobody has something to send.
LEMMA OtherSends ==
  ASSUME SentInv, LinesInv, NEW s \in Senders \ (Reqs \cup {"poster"}), NEW m \in Bodies,
         Idle(s), Send(s, m), m.to \notin Reqs, SentBy(s, m)',
         UNCHANGED <<tokened, call, streamed, posts, sendCh, lock, wire>>,
         reader = "bye" => reader' = "bye"
  PROVE  SentInv'
<1>1. /\ outbox \in [Senders -> Bodies] /\ "main" \in Senders /\ "poster" \in Senders
      /\ lock # s /\ Reqs \subseteq Senders
  BY SenderNames DEF SentInv, SendersSay, LinesInv
<1>2. /\ outbox'[s] = m
      /\ \A t \in Senders \ {s} : outbox'[t] = outbox[t] /\ (Idle(t)' <=> Idle(t))
  BY <1>1, SendFacts
<1>3. SentBy(s, outbox[s])'
  BY <1>2
<1>4. "nobody" \notin Reqs
  BY Names
<1>5. SendersSay'
  BY <1>1, <1>2, <1>3, <1>4, SendersSame DEF SentInv
<1>6. PostInv'
  BY <1>1, <1>2, PostSame DEF SentInv, Pending
<1>7. StreamBeforeAnswer'
  BY OrderSame DEF SentInv
<1>8. ASSUME NEW q \in Reqs PROVE AnswerInv(q)'
  <2>1. Refusing(q)' <=> Refusing(q)
    BY <1>1, <1>2 DEF Refusing, Pending
  <2>2. outbox'[q] = outbox[q]
    BY <1>1, <1>2
  <2>3. AnswerInv(q)
    BY DEF SentInv
  <2> QED
    BY <2>1, <2>2, <2>3, AnswerSame
<1> QED
  BY <1>5, <1>6, <1>7, <1>8 DEF SentInv

LEMMA AcceptSent == ASSUME CountInv, LinesInv, SentInv, AcceptLine PROVE SentInv'
<1> DEFINE from == Head(input).req
           kind == Head(input).kind
<1>1. /\ input # <<>> /\ Head(input) \in Lines /\ Head(input) = input[1]
      /\ 1 \in 1..Len(input) /\ Idle("main") /\ reader # "bye"
      /\ UNCHANGED <<tokened, streamed, chanVars, lock, wire>>
      /\ call \in [Reqs -> States]
  BY TailFacts DEF AcceptLine, AtAccept, CountInv
<1>2. \/ kind \in {"unknown", "badarg"} /\ Refuse(from)
      \/ kind = "blank" /\ call' = [call EXCEPT ![from] = "dropped"] /\ UNCHANGED outbox
      \/ kind = "call" /\ call' = [call EXCEPT ![from] = "spawned"] /\ UNCHANGED outbox
      \/ kind = "bye-ni" /\ UNCHANGED <<call, outbox>>
  BY DEF AcceptLine, Spawn
<1>3. CASE kind = "bye-ni" /\ UNCHANGED <<call, outbox>>
  BY <1>1, <1>3, SentSame DEF chanVars
<1>4. CASE kind # "bye-ni"
  <2>1. PICK r \in Reqs : r = from
    BY <1>1, <1>4, LineTypes
  <2>2. call[r] = "written" /\ r \in Senders
    BY <1>1, <2>1, SenderNames DEF CountInv, OnItsWay
  <2>7. \/ Refuse(r)
        \/ UNCHANGED outbox /\ \E to \in {"dropped", "spawned"} : call' = [call EXCEPT ![r] = to]
    BY <1>2, <1>4, <2>1
  <2>3. Idle(r) /\ ~Refusing(r)
    BY <2>1, <2>2, CallIsIdle, RefusedIsRefused DEF SentInv
  <2>4. /\ AnswerInv(r) /\ ~Answered(r) /\ streamed[r] = 0
    BY <2>1, <2>2 DEF SentInv, AnswerInv
  <2> HIDE DEF from, kind
  <2>5. CASE UNCHANGED outbox /\ \E to \in {"dropped", "spawned"} : call' = [call EXCEPT ![r] = to]
    <3>1. PICK to \in {"dropped", "spawned"} : call' = [call EXCEPT ![r] = to]
      BY <2>5
    <3>2. call'[r] = to
      BY <1>1, <2>1, <3>1
    <3>3. ~Answered(r)' /\ Written(r)' = Written(r) /\ (Streaming(r)' <=> Streaming(r))
      BY <1>1, <2>4, <2>5, WireSame DEF Streaming, Pending, Idle
    <3>4. AnswerInv(r)'
      BY <1>1, <2>4, <3>2, <3>3 DEF AnswerInv
    <3>5. call' = [call EXCEPT ![r] = call'[r]]
      BY <3>1, <3>2
    <3> QED
      BY <1>1, <2>1, <2>2, <2>3, <2>5, <3>4, <3>5, CallMoves DEF chanVars
  <2>6. CASE Refuse(r)
    <3>1. "error" \in Says \ {"newline"} /\ tokened[r] \in BOOLEAN
      BY <2>1 DEF Says, LinesInv
    <3>2. PICK m \in Bodies : /\ m.to = r /\ m.says = "error" /\ m.says # "nothing"
                              /\ Send("main", m)
      <4> DEFINE m == Message(r, "error", tokened[r], 0)
      <4>1. m \in Bodies /\ m.to = r /\ m.says = "error"
        BY <2>2, <3>1, BodyType DEF Message
      <4>2. Send("main", m)
        BY <2>6 DEF Refuse
      <4> HIDE DEF m
      <4> QED
        BY <4>1, <4>2
    <3>3. call'[r] = "refused" /\ \A q \in Reqs \ {r} : call'[q] = call[q]
      BY <1>1, <2>1, <2>6 DEF Refuse
    <3>4. /\ outbox'["main"] = m /\ ~Idle("main")' /\ outbox'[r] = outbox[r]
          /\ lock # "main" /\ "main" \notin Reqs /\ "main" \in Senders
      <4>1. lock # "main" /\ "main" \notin Reqs /\ "main" \in Senders
        BY <1>1, SenderNames, Names DEF SentInv, SendersSay
      <4> QED
        BY <2>1, <2>2, <3>2, <4>1, SendFacts DEF LinesInv
    <3>5. SentBy("main", m)'
      BY <2>1, <3>2, <3>3 DEF SentBy, SentByLoop
    <3>6. Refusing(r)'
      BY <1>1, <3>2, <3>4 DEF Refusing, Pending
    <3>7. ~Answered(r)' /\ Written(r)' = Written(r) /\ (Streaming(r)' <=> Streaming(r))
      BY <1>1, <2>4, <3>4, WireSame DEF Streaming, Pending, Idle
    <3>8. AnswerInv(r)'
      BY <1>1, <2>4, <3>3, <3>6, <3>7 DEF AnswerInv
    <3> QED
      BY <1>1, <2>1, <2>2, <2>3, <2>4, <3>2, <3>3, <3>5, <3>8, CallSends DEF chanVars
  <2> QED
    BY <2>5, <2>6, <2>7
<1> QED
  BY <1>2, <1>3, <1>4

\* The client writes a request, or its goroutine starts, or ends.
LEMMA MovesSent ==
  ASSUME CountInv, SentInv, NEW r \in Reqs, ClientWrites(r) \/ Serve(r) \/ Done(r)
  PROVE  SentInv'
<1>1. PICK to \in {"written", "running", "done"} :
        /\ call' = [call EXCEPT ![r] = to]
        /\ to = "written" => call[r] = "none"
        /\ to = "running" => call[r] = "spawned"
        /\ to = "done" => call[r] = "returned" /\ Idle(r)
  BY DEF ClientWrites, Serve, Done, Moves
<1>2. UNCHANGED <<tokened, reader, streamed, posts, sendCh, outbox, lock, wire>>
  BY DEF ClientWrites, Serve, Done, clientVars, loopVars, chanVars, pipeVars
<1>3. Idle(r)
  BY <1>1, CallIsIdle DEF SentInv
<1>4. call \in [Reqs -> States] /\ call'[r] = to
  BY <1>1 DEF CountInv
<1>5. /\ Answered(r)' <=> Answered(r)
      /\ Written(r)' = Written(r) /\ (Streaming(r)' <=> Streaming(r))
      /\ (Refusing(r)' <=> Refusing(r)) /\ ~Pending(r)' /\ ~Pending(r)
  BY <1>2, <1>3, WireSame DEF Streaming, Refusing, Pending, Idle
<1>6. AnswerInv(r)
  BY DEF SentInv
<1>7. AnswerInv(r)'
  <2>1. CASE to = "done"
    BY <1>1, <1>2, <1>4, <1>5, <1>6, <2>1 DEF AnswerInv
  <2>2. CASE to # "done"
    <3>1. ~Answered(r) /\ streamed[r] = 0
      BY <1>1, <1>6, <2>2 DEF AnswerInv
    <3> QED
      BY <1>1, <1>2, <1>4, <1>5, <1>6, <2>2, <3>1 DEF AnswerInv
  <2> QED
    BY <2>1, <2>2
<1>8. call' = [call EXCEPT ![r] = call'[r]] /\ call[r] # "refused"
  BY <1>1, <1>4
<1> QED
  BY <1>2, <1>3, <1>4, <1>7, <1>8, CallMoves

\* A call that runs sends some output, or its answer.
LEMMA CallSent ==
  ASSUME CountInv, LinesInv, SentInv, NEW r \in Reqs, StreamOut(r) \/ Return(r)
  PROVE  SentInv'
<1>1. /\ call[r] = "running" /\ Idle(r) /\ r \in Senders
      /\ call \in [Reqs -> States] /\ streamed \in [Reqs -> Nat]
      /\ tokened[r] \in BOOLEAN
      /\ UNCHANGED <<tokened, reader, posts, sendCh, lock, wire>>
  BY SenderNames DEF StreamOut, Return, Moves, CountInv, LinesInv, clientVars, loopVars, chanVars
<1>2. lock # r
  BY <1>1, SenderNames DEF SentInv, SendersSay
<1>3. AnswerInv(r) /\ ~Answered(r) /\ Written(r) = streamed[r]
  <2>1. AnswerInv(r) /\ ~Streaming(r)
    BY <1>1 DEF SentInv, Streaming, Pending
  <2>2. Written(r) \in Nat
    BY CountsAreNat DEF LinesInv
  <2> QED
    BY <1>1, <2>1, <2>2 DEF AnswerInv
<1>4. \A q \in Reqs \ {r} : call'[q] = call[q] /\ streamed'[q] = streamed[q]
  BY <1>1 DEF StreamOut, Return, Moves
<1>5. PICK m \in Bodies :
        /\ Send(r, m) /\ m.to = r /\ m.says # "nothing"
        /\ \/ /\ m.says = "stream" /\ m.seq = streamed[r] + 1
              /\ call'[r] = "running" /\ streamed'[r] = streamed[r] + 1
           \/ /\ m.says \in {"result", "unencodable", "PANIC"} /\ m.token = tokened[r]
              /\ call'[r] = "returned" /\ streamed'[r] = streamed[r]
  <2>1. CASE StreamOut(r)
    <3> DEFINE m == Message(r, "stream", TRUE, streamed[r] + 1)
    <3>1. "stream" \in Says \ {"newline"} /\ streamed[r] + 1 \in Nat
      BY <1>1 DEF Says
    <3>2. m \in Bodies /\ m.to = r /\ m.says = "stream" /\ m.seq = streamed[r] + 1
      BY <1>1, <3>1, BodyType DEF Message
    <3>3. Send(r, m) /\ call'[r] = "running" /\ streamed'[r] = streamed[r] + 1
      BY <1>1, <2>1 DEF StreamOut, Moves
    <3> HIDE DEF m
    <3> QED
      BY <3>2, <3>3
  <2>2. CASE Return(r)
    <3>1. PICK says \in {"result", "unencodable", "PANIC"} :
            Send(r, Message(r, says, tokened[r], 0))
      BY <2>2 DEF Return
    <3> DEFINE m == Message(r, says, tokened[r], 0)
    <3>2. says \in Says \ {"newline"}
      BY DEF Says
    <3>3. m \in Bodies /\ m.to = r /\ m.says = says /\ m.token = tokened[r]
      BY <1>1, <3>2, BodyType DEF Message
    <3>4. Send(r, m) /\ call'[r] = "returned" /\ streamed'[r] = streamed[r]
      BY <1>1, <2>2, <3>1 DEF Return, Moves
    <3> HIDE DEF m
    <3> QED
      BY <3>3, <3>4
  <2> QED
    BY <2>1, <2>2
<1>6. outbox'[r] = m /\ ~Idle(r)' /\ (Refusing(r)' <=> Refusing(r))
  <2>1. outbox'[r] = m /\ ~Idle(r)' /\ "main" \in Senders \ {r}
    BY <1>1, <1>5, SenderNames, Names, SendFacts DEF LinesInv
  <2> QED
    BY <1>1, <1>5, <2>1, SendFacts DEF Refusing, Pending, LinesInv
<1>7. Pending(r)' /\ ~Answered(r)' /\ Written(r)' = Written(r)
  BY <1>1, <1>2, <1>3, <1>6, WireSame DEF Pending
<1>8. AnswerInv(r)'
  BY <1>1, <1>3, <1>5, <1>6, <1>7 DEF AnswerInv, Streaming
<1>9. SentBy(r, m)'
  BY <1>1, <1>5 DEF SentBy, SentByCall
<1> QED
  BY <1>1, <1>3, <1>4, <1>5, <1>8, <1>9, CallSends

LEMMA EncodedSays ==
  ASSUME NEW m \in Bodies
  PROVE  /\ Encoded(m) \in Messages /\ IsBody(Encoded(m)) /\ Encoded(m).to = m.to
         /\ m.says = "unencodable" => Encoded(m).says = "cannot encode"
         /\ m.says # "unencodable" => Encoded(m) = m
<1>1. CASE m.says = "unencodable"
  BY <1>1, WrittenTypes DEF Encoded, Message
<1>2. CASE m.says # "unencodable"
  BY <1>2, WrittenTypes DEF Encoded
<1> QED
  BY <1>1, <1>2

\* Who says something to a request: its call, or the loop that refuses it.
LEMMA SaysToRequest ==
  ASSUME SendersSay, NEW s \in Senders, ~Idle(s)
  PROVE  /\ s \in Reqs => outbox[s].to = s /\ SentByCall(s, outbox[s])
         /\ outbox[s].to \in Reqs /\ s \notin Reqs =>
              s = "main" /\ outbox[s].says = "error" /\ call[outbox[s].to] = "refused"
         /\ outbox[s].says = "post" <=> s = "poster"
         /\ outbox[s].says = "unencodable" => s \in Reqs
<1>1. SentBy(s, outbox[s])
  BY DEF SendersSay
<1>2. CASE s \in Reqs
  <2>1. s \notin {"main", "hello", "poll", "poster"}
    BY <1>2, Names
  <2> QED
    BY <1>1, <1>2, <2>1 DEF SentBy, SentByCall
<1>3. CASE s \notin Reqs
  <2>1. "nobody" \notin Reqs /\ "bye" \notin Reqs /\ "post" \notin Reqs
        /\ "hello" \notin Reqs /\ "poll" \notin Reqs
    BY Names
  <2> QED
    BY <1>1, <1>3, <2>1 DEF SentBy, SentByLoop
<1> QED
  BY <1>2, <1>3

\* A body is written: the sender has waited for the mutex and has it now.
LEMMA BodySent ==
  ASSUME CountInv, LinesInv, SentInv, NEW s \in Senders, WriteBody(s)
  PROVE  SentInv'
<1>1. /\ lock = "free" /\ lock' = s /\ ~Idle(s)
      /\ UNCHANGED <<tokened, reader, call, streamed, posts, sendCh, outbox>>
      /\ wire' = Append(wire, Encoded(outbox[s]))
  BY DEF WriteBody, LockFree, clientVars, loopVars, callVars, chanVars
<1>2. SendersSay /\ PostInv /\ StreamBeforeAnswer /\ wire \in Seq(Messages)
      /\ sendCh \in Seq(Bodies) /\ Len(sendCh) \in Nat
  BY DEF SentInv, LinesInv
<1>3. PICK m \in Bodies, e \in Messages :
        /\ m = outbox[s] /\ e = Encoded(m) /\ wire' = Append(wire, e)
        /\ IsBody(e) /\ e.to = m.to
        /\ m.says = "unencodable" => e.says = "cannot encode"
        /\ m.says # "unencodable" => e = m
  BY <1>1, EncodedSays DEF LinesInv
<1>4. /\ Pending(s) /\ ~Pending(s)'
      /\ \A t : Idle(t)' <=> Idle(t)
      /\ \A t \in Senders \ {s} : Pending(t)' <=> Pending(t)
      /\ "poster" \in Senders /\ "main" \in Senders /\ Reqs \subseteq Senders
      /\ lock # s
  BY <1>1, SenderNames DEF Pending, Idle
<1>5. /\ s \in Reqs => m.to = s /\ SentByCall(s, m)
      /\ m.to \in Reqs /\ s \notin Reqs => s = "main" /\ m.says = "error" /\ call[m.to] = "refused"
      /\ m.says = "post" <=> s = "poster"
      /\ m.says = "unencodable" => s \in Reqs
  BY <1>1, <1>2, <1>3, SaysToRequest
<1> DEFINE n == Len(wire)
<1>6. /\ n \in Nat /\ Len(wire') = n + 1 /\ wire'[n + 1] = e
      /\ \A i \in 1..n : wire'[i] = wire[i] /\ i # n + 1
      /\ 1..(n + 1) = (1..n) \cup {n + 1}
      /\ \A i \in 1..n : PostsUpTo(i)' = PostsUpTo(i) /\ \A r : BodiesTo(r, i)' = BodiesTo(r, i)
  <2>1. wire \in Seq(Messages) /\ wire' = Append(wire, e)
    BY <1>2, <1>3
  <2>2. /\ Len(wire) \in Nat /\ Len(wire') = Len(wire) + 1
        /\ wire'[Len(wire')] = e
        /\ \A i \in 1..Len(wire) : wire'[i] = wire[i] /\ i # Len(wire')
        /\ 1..Len(wire') = (1..Len(wire)) \cup {Len(wire')}
        /\ \A i \in 1..Len(wire) :
             PostsUpTo(i)' = PostsUpTo(i) /\ \A r : BodiesTo(r, i)' = BodiesTo(r, i)
    BY <2>1, WireGrows
  <2> QED
    BY <2>2
<1>12. /\ PostsWritten \in Nat
       /\ PostsUpTo(n)' = IF e.says = "post" THEN PostsUpTo(n) \cup {n + 1} ELSE PostsUpTo(n)
       /\ PostsWritten' = IF e.says = "post" THEN PostsWritten + 1 ELSE PostsWritten
  <2>1. wire \in Seq(Messages) /\ wire' = Append(wire, e)
    BY <1>2, <1>3
  <2> QED
    BY <1>6, <2>1, WireGrows
<1>13. ASSUME NEW r
       PROVE  /\ Written(r) \in Nat
              /\ BodiesTo(r, n)' = IF e.to = r THEN BodiesTo(r, n) \cup {n + 1} ELSE BodiesTo(r, n)
              /\ Written(r)' = IF e.to = r THEN Written(r) + 1 ELSE Written(r)
              /\ Answered(r)' <=> Answered(r) \/ (e.to = r /\ IsAnswer(e))
  <2>1. wire \in Seq(Messages) /\ wire' = Append(wire, e)
    BY <1>2, <1>3
  <2>2. /\ Written(r) \in Nat
        /\ BodiesTo(r, Len(wire))' = IF e.to = r /\ IsBody(e)
                                     THEN BodiesTo(r, Len(wire)) \cup {Len(wire')}
                                     ELSE BodiesTo(r, Len(wire))
        /\ Written(r)' = IF e.to = r /\ IsBody(e) THEN Written(r) + 1 ELSE Written(r)
        /\ Answered(r)' <=> Answered(r) \/ (e.to = r /\ IsAnswer(e))
    BY <2>1, WireGrows
  <2> QED
    BY <1>3, <1>6, <2>2
<1>7. SendersSay'
  <2>1. \A t \in Senders : SentBy(t, outbox[t]) => SentBy(t, outbox[t])'
    BY <1>1 DEF SentBy, SentByCall, SentByLoop
  <2> QED
    BY <1>1, <1>2, <1>4, <2>1 DEF SendersSay
<1>8. PostInv'
  <2>1. e.says = "post" <=> s = "poster"
    BY <1>3, <1>5, Names
  <2>2. s = "poster" => m.seq = PostsWritten + 1 /\ e = m
    BY <1>2, <1>3, <1>4, <1>5 DEF PostInv, PostsTaken
  <2>3. PostsTaken' = PostsTaken /\ (Pending("poster")' => Pending("poster"))
    BY <1>4, <1>12, <2>1 DEF PostsTaken
  <2>4. PostsInOrder'
    <3> SUFFICES ASSUME NEW i \in PostsUpTo(n)'
                 PROVE  wire'[i].seq = Cardinality(PostsUpTo(i)')
      BY DEF PostsInOrder
    <3>1. i \in PostsUpTo(n) \/ (i = n + 1 /\ s = "poster")
      BY <1>6, <1>12, <2>1
    <3>2. CASE i \in PostsUpTo(n)
      <4>1. i \in 1..n
        BY <3>2 DEF PostsUpTo
      <4>2. wire[i].seq = Cardinality(PostsUpTo(i))
        BY <1>2, <3>2 DEF PostInv, PostsInOrder
      <4> QED
        BY <1>6, <4>1, <4>2
    <3>3. CASE i = n + 1 /\ s = "poster"
      <4>1. wire'[i].seq = PostsWritten + 1 /\ PostsWritten' = PostsWritten + 1
        BY <1>6, <1>12, <2>1, <2>2, <3>3
      <4>2. PostsUpTo(i)' = PostsUpTo(n)'
        BY <1>6, <3>3 DEF PostsUpTo
      <4> QED
        BY <4>1, <4>2 DEF PostsWritten
    <3> QED
      BY <3>1, <3>2, <3>3
  <2>5. outbox'["poster"] = outbox["poster"] /\ posts' = posts /\ sendCh' = sendCh
    BY <1>1
  <2> QED
    BY <1>2, <2>3, <2>4, <2>5 DEF PostInv
<1>9. ASSUME NEW r \in Reqs, m.to # r
      PROVE  /\ AnswerInv(r)'
             /\ \A i \in BodiesTo(r, n)' :
                  /\ i \in BodiesTo(r, n) /\ wire'[i] = wire[i]
                  /\ BodiesTo(r, i)' = BodiesTo(r, i) /\ BodiesTo(r, n)' = BodiesTo(r, n)
  <2>1. s # r /\ r \in Senders
    BY <1>4, <1>5, <1>9
  <2>2. Pending(r)' <=> Pending(r)
    BY <1>4, <2>1
  <2>3. Refusing(r)' <=> Refusing(r)
    BY <1>1, <1>3, <1>4, <1>9 DEF Refusing
  <2>4. Streaming(r)' <=> Streaming(r)
    BY <1>1, <2>2 DEF Streaming
  <2>5. (Answered(r)' <=> Answered(r)) /\ Written(r)' = Written(r)
    BY <1>3, <1>9, <1>13
  <2>6. AnswerInv(r)
    BY DEF SentInv
  <2>7. AnswerInv(r)'
    BY <1>1, <1>4, <2>2, <2>3, <2>4, <2>5, <2>6 DEF AnswerInv
  <2>8. BodiesTo(r, n)' = BodiesTo(r, n) /\ \A i \in BodiesTo(r, n) : i \in 1..n
    BY <1>3, <1>9, <1>13 DEF BodiesTo
  <2> QED
    BY <1>6, <2>7, <2>8
<1>10. ASSUME NEW r \in Reqs, m.to = r
       PROVE  /\ AnswerInv(r)' /\ ~Answered(r)
              /\ IF IsAnswer(e) THEN Written(r)' = streamed[r] + 1 ELSE e.seq = Written(r)'
  <2>1. s = r \/ (s = "main" /\ m.says = "error" /\ call[r] = "refused")
    BY <1>5, <1>10
  <2>2. AnswerInv(r) /\ Written(r) \in Nat /\ Written(r)' = Written(r) + 1
    BY <1>3, <1>10, <1>13 DEF SentInv
  <2>3. ~Answered(r) /\ streamed[r] = Written(r) + (IF Streaming(r) THEN 1 ELSE 0)
    BY <1>3, <1>4, <1>10, <2>1, <2>2 DEF AnswerInv, Refusing
  <2>4. CASE s = r /\ m.says = "stream"
    <3>1. SentByCall(r, m)
      BY <1>5, <2>4
    <3>2. call[r] = "running" /\ m.seq = streamed[r] /\ e = m /\ ~IsAnswer(e)
      BY <1>3, <2>4, <3>1 DEF SentByCall, IsAnswer
    <3>3. streamed[r] = Written(r)' /\ ~Answered(r)' /\ ~Streaming(r)' /\ Streaming(r)
      BY <1>3, <1>4, <1>13, <2>2, <2>3, <2>4, <3>2 DEF Streaming
    <3>4. AnswerInv(r)'
      BY <1>1, <2>2, <3>2, <3>3 DEF AnswerInv
    <3> QED
      BY <2>3, <3>2, <3>3, <3>4
  <2>5. CASE s # r \/ m.says # "stream"
    <3>1. call[r] \in {"returned", "refused"} /\ IsAnswer(e) /\ ~Streaming(r)
      <4>1. CASE s = r
        <5>1. SentByCall(r, m) /\ ~Streaming(r)
          BY <1>3, <1>5, <2>5, <4>1 DEF Streaming
        <5> QED
          BY <1>3, <2>5, <4>1, <5>1 DEF SentByCall, IsAnswer
      <4>2. CASE s # r
        <5>1. Idle(r) /\ e.says = "error"
          BY <1>2, <1>3, <2>1, <4>2, CallIsIdle
        <5> QED
          BY <2>1, <4>2, <5>1 DEF IsAnswer, Streaming, Pending
      <4> QED
        BY <4>1, <4>2
    <3>2. Answered(r)' /\ Written(r)' = streamed[r] + 1
      <4>1. Answered(r)'
        BY <1>3, <1>10, <1>13, <3>1
      <4>2. streamed[r] = Written(r)
        BY <2>2, <2>3, <3>1
      <4> QED
        BY <2>2, <4>1, <4>2
    <3>3. ~Pending(r)' /\ ~Refusing(r)'
      <4>1. CASE s = r
        <5>1. call[r] # "refused"
          BY <1>3, <1>5, <4>1 DEF SentByCall
        <5>2. ~Refusing(r)
          BY <1>2, <5>1, RefusedIsRefused
        <5> QED
          BY <1>1, <1>4, <4>1, <5>2, Names DEF Refusing
      <4>2. CASE s # r
        <5>1. Idle(r)'
          BY <1>2, <1>4, <2>1, <4>2, CallIsIdle
        <5> QED
          BY <1>4, <2>1, <4>2, <5>1 DEF Refusing, Pending
      <4> QED
        BY <4>1, <4>2
    <3>4. AnswerInv(r)'
      <4>1. call[r] # "running" /\ call[r] # "done"
        BY <3>1
      <4> QED
        BY <1>1, <2>2, <3>1, <3>2, <3>3, <4>1 DEF AnswerInv
    <3> QED
      BY <2>3, <3>1, <3>2, <3>4
  <2> QED
    BY <2>1, <2>4, <2>5
<1>11. StreamBeforeAnswer'
  <2> SUFFICES ASSUME NEW r \in Reqs, NEW i \in BodiesTo(r, n)'
               PROVE  IF IsAnswer(wire'[i])
                      THEN /\ BodiesTo(r, n)' = BodiesTo(r, i)'
                           /\ Cardinality(BodiesTo(r, i)') = streamed[r] + 1
                      ELSE wire'[i].seq = Cardinality(BodiesTo(r, i)')
    BY <1>1 DEF StreamBeforeAnswer, IsAnswer
  <2>1. CASE m.to # r
    BY <1>2, <1>9, <2>1 DEF StreamBeforeAnswer
  <2>2. CASE m.to = r /\ i \in BodiesTo(r, n)
    <3>1. i \in 1..n /\ wire[i].to = r
      BY <2>2 DEF BodiesTo
    <3>2. ~IsAnswer(wire[i])
      BY <1>10, <2>2, <3>1 DEF Answered
    <3> QED
      BY <1>2, <1>6, <2>2, <3>1, <3>2 DEF StreamBeforeAnswer
  <2>3. CASE m.to = r /\ i = n + 1
    <3>1. BodiesTo(r, i)' = BodiesTo(r, n)' /\ wire'[i] = e
      BY <1>6, <2>3 DEF BodiesTo, IsBody
    <3> QED
      BY <1>10, <2>3, <3>1 DEF Written
  <2>4. m.to = r => i \in BodiesTo(r, n) \/ i = n + 1
    BY <1>3, <1>13
  <2> QED
    BY <2>1, <2>2, <2>3, <2>4
<1> QED
  BY <1>7, <1>8, <1>9, <1>10, <1>11 DEF SentInv

\* A newline says nothing to anyone.
LEMMA NewlineSame ==
  ASSUME wire \in Seq(Messages), NEW s \in Senders,
         wire' = Append(wire, Message(s, "newline", FALSE, 0)),
         StreamBeforeAnswer, PostsInOrder, streamed' = streamed
  PROVE  /\ StreamBeforeAnswer' /\ PostsInOrder' /\ PostsWritten' = PostsWritten
         /\ \A r : (Answered(r)' <=> Answered(r)) /\ Written(r)' = Written(r)
<1>1. PICK m \in Messages : wire' = Append(wire, m) /\ m.says = "newline"
  <2> DEFINE m == Message(s, "newline", FALSE, 0)
  <2>1. m \in Messages /\ m.says = "newline"
    BY WrittenTypes DEF Message
  <2> HIDE DEF m
  <2>2. wire' = Append(wire, m)
    BY DEF m
  <2> QED
    BY <2>1, <2>2
<1>2. ~IsBody(m) /\ ~IsAnswer(m) /\ m.says # "post"
  BY <1>1 DEF IsBody, IsAnswer
<1>3. /\ \A i \in 1..Len(wire) : wire'[i] = wire[i]
      /\ \A i \in 1..Len(wire) :
           PostsUpTo(i)' = PostsUpTo(i) /\ \A r : BodiesTo(r, i)' = BodiesTo(r, i)
  BY <1>1, WireGrows
<1>4. PostsUpTo(Len(wire))' = PostsUpTo(Len(wire)) /\ PostsWritten' = PostsWritten
  BY <1>1, <1>2, WireGrows
<1>5. \A r : BodiesTo(r, Len(wire))' = BodiesTo(r, Len(wire))
  BY <1>1, <1>2, WireGrows
<1>6. \A r : Written(r)' = Written(r)
  BY <1>1, <1>2, WireGrows
<1>7. \A r : Answered(r)' <=> Answered(r)
  BY <1>1, <1>2, WireGrows
<1>8. StreamBeforeAnswer'
  <2> SUFFICES ASSUME NEW r \in Reqs, NEW i \in BodiesTo(r, Len(wire))'
               PROVE  IF IsAnswer(wire'[i])
                      THEN /\ BodiesTo(r, Len(wire))' = BodiesTo(r, i)'
                           /\ Cardinality(BodiesTo(r, i)') = streamed[r] + 1
                      ELSE wire'[i].seq = Cardinality(BodiesTo(r, i)')
    BY DEF StreamBeforeAnswer, IsAnswer
  <2>1. i \in BodiesTo(r, Len(wire))
    BY <1>5
  <2>2. i \in 1..Len(wire)
    BY <2>1 DEF BodiesTo
  <2>3. wire'[i] = wire[i] /\ BodiesTo(r, i)' = BodiesTo(r, i)
    BY <1>3, <2>2
  <2>4. IF IsAnswer(wire[i])
        THEN /\ BodiesTo(r, Len(wire)) = BodiesTo(r, i)
             /\ Cardinality(BodiesTo(r, i)) = streamed[r] + 1
        ELSE wire[i].seq = Cardinality(BodiesTo(r, i))
    BY <2>1 DEF StreamBeforeAnswer
  <2> QED
    BY <1>5, <2>3, <2>4
<1>9. PostsInOrder'
  <2> SUFFICES ASSUME NEW i \in PostsUpTo(Len(wire))'
               PROVE  wire'[i].seq = Cardinality(PostsUpTo(i)')
    BY DEF PostsInOrder
  <2>1. i \in PostsUpTo(Len(wire))
    BY <1>4
  <2>2. i \in 1..Len(wire)
    BY <2>1 DEF PostsUpTo
  <2>3. wire'[i] = wire[i] /\ PostsUpTo(i)' = PostsUpTo(i)
    BY <1>3, <2>2
  <2>4. wire[i].seq = Cardinality(PostsUpTo(i))
    BY <2>1 DEF PostsInOrder
  <2> QED
    BY <2>3, <2>4
<1> QED
  BY <1>4, <1>6, <1>7, <1>8, <1>9

\* A sender is done with what it said: it has written it, or given up, which only a
\* call without a token does.
LEMMA SendEnds ==
  ASSUME SentInv, LinesInv, NEW s \in Senders, ~Idle(s), Send(s, None), lock' = "free",
         lock = s \/ (lock = "free" /\ GivesUp(outbox[s])),
         StreamBeforeAnswer', PostsInOrder', PostsWritten' = PostsWritten,
         \A r : (Answered(r)' <=> Answered(r)) /\ Written(r)' = Written(r),
         UNCHANGED <<tokened, reader, call, streamed, posts, sendCh>>
  PROVE  SentInv'
<1>1. /\ Idle(s)' /\ \A t \in Senders \ {s} : outbox'[t] = outbox[t] /\ (Idle(t)' <=> Idle(t))
      /\ "poster" \in Senders /\ "main" \in Senders /\ Reqs \subseteq Senders
      /\ "free" \notin Senders
  BY NoneType, SendFacts, SenderNames DEF LinesInv
<1>2. /\ ~Pending(s)'
      /\ \A t \in Senders \ {s} : Pending(t)' <=> Pending(t)
  BY <1>1 DEF Pending
<1>3. lock # s => /\ s \in Reqs /\ s \notin {"main", "poster"}
                  /\ outbox[s].says = "unencodable" /\ call[s] = "returned" /\ ~tokened[s]
  <2> SUFFICES ASSUME GivesUp(outbox[s])
               PROVE  /\ s \in Reqs /\ s \notin {"main", "poster"}
                      /\ outbox[s].says = "unencodable" /\ call[s] = "returned" /\ ~tokened[s]
    OBVIOUS
  <2>1. outbox[s].says = "unencodable" /\ ~outbox[s].token
    BY DEF GivesUp
  <2>2. s \in Reqs
    BY <2>1, SaysToRequest DEF SentInv
  <2>3. SentByCall(s, outbox[s])
    BY <2>2, SaysToRequest DEF SentInv
  <2> QED
    BY <2>1, <2>2, <2>3, Names DEF SentByCall
<1>4. lock = s => ~Pending(s)
  BY DEF Pending
<1>5. SendersSay'
  <2>1. \A t \in Senders : SentBy(t, outbox[t]) => SentBy(t, outbox[t])' \/ t = s
    BY <1>1 DEF SentBy, SentByCall, SentByLoop
  <2>2. SendersSay
    BY DEF SentInv
  <2> QED
    BY <1>1, <2>1, <2>2 DEF SendersSay
<1>6. PostInv'
  <2>1. Pending("poster")' <=> Pending("poster")
    BY <1>1, <1>2, <1>3, <1>4
  <2>2. Pending("poster") => outbox'["poster"] = outbox["poster"]
    BY <1>1, <1>2, <2>1
  <2>3. PostsTaken' = PostsTaken
    BY <2>1 DEF PostsTaken
  <2> QED
    BY <2>1, <2>2, <2>3 DEF SentInv, PostInv
<1>7. ASSUME NEW r \in Reqs PROVE AnswerInv(r)'
  <2>1. Refusing(r)' <=> Refusing(r)
    <3>1. CASE s = "main"
      BY <1>2, <1>3, <1>4, <3>1 DEF Refusing
    <3>2. CASE s # "main"
      BY <1>1, <1>2, <3>2 DEF Refusing
    <3> QED
      BY <3>1, <3>2
  <2>2. AnswerInv(r)
    BY DEF SentInv
  <2>3. CASE r # s
    <3>1. /\ Pending(r)' <=> Pending(r)
          /\ outbox'[r] = outbox[r] /\ (Idle(r)' <=> Idle(r))
      BY <1>1, <1>2, <2>3
    <3>2. Streaming(r)' <=> Streaming(r)
      BY <3>1 DEF Streaming
    <3> QED
      BY <2>1, <2>2, <3>1, <3>2 DEF AnswerInv
  <2>4. CASE r = s
    <3>1. ~Pending(r)' /\ Idle(r)' /\ ~Idle(r) /\ ~Streaming(r)'
      BY <1>1, <1>2, <2>4 DEF Streaming
    <3>2. ~Streaming(r)
      BY <1>3, <1>4, <2>4 DEF Streaming
    <3>3. Pending(r) => call[r] = "returned" /\ ~tokened[r]
      BY <1>3, <1>4, <2>4
    <3> QED
      BY <2>1, <2>2, <3>1, <3>2, <3>3 DEF AnswerInv
  <2> QED
    BY <2>3, <2>4
<1> QED
  BY <1>5, <1>6, <1>7 DEF SentInv

LEMMA SendingSent ==
  ASSUME CountInv, LinesInv, SentInv, NEW s \in Senders, Sending(s)
  PROVE  SentInv'
<1>1. CASE WriteBody(s)
  BY <1>1, BodySent
<1>2. CASE WriteNewline(s)
  <2>1. /\ lock = s /\ ~Idle(s) /\ Send(s, None) /\ lock' = "free"
        /\ wire' = Append(wire, Message(s, "newline", FALSE, 0))
        /\ UNCHANGED <<tokened, reader, call, streamed, posts, sendCh>>
    BY <1>2 DEF WriteNewline, clientVars, loopVars, callVars, chanVars
  <2>2. wire \in Seq(Messages) /\ StreamBeforeAnswer /\ PostsInOrder /\ streamed' = streamed
    BY <2>1 DEF LinesInv, SentInv, PostInv
  <2>3. /\ StreamBeforeAnswer' /\ PostsInOrder' /\ PostsWritten' = PostsWritten
        /\ \A r : (Answered(r)' <=> Answered(r)) /\ Written(r)' = Written(r)
    BY <2>1, <2>2, NewlineSame
  <2> QED
    BY <2>1, <2>3, SendEnds
<1>3. CASE SendGivesUp(s)
  <2>1. /\ lock = "free" /\ GivesUp(outbox[s]) /\ ~Idle(s) /\ Send(s, None) /\ lock' = "free"
        /\ UNCHANGED <<tokened, reader, call, streamed, posts, sendCh, wire>>
    BY <1>3 DEF SendGivesUp, LockFree, LockAfterGivingUp, clientVars, loopVars, callVars, chanVars
  <2>2. StreamBeforeAnswer'
    BY <2>1, OrderSame DEF SentInv
  <2>3. /\ PostsInOrder' /\ PostsWritten' = PostsWritten
        /\ \A r : (Answered(r)' <=> Answered(r)) /\ Written(r)' = Written(r)
    BY <2>1, WireSame DEF SentInv, PostInv
  <2> QED
    BY <2>1, <2>2, <2>3, SendEnds
<1> QED
  BY <1>1, <1>2, <1>3 DEF Sending

\* A message is posted: it takes the next number.
LEMMA PostSent == ASSUME LinesInv, SentInv, Post PROVE SentInv'
<1>1. /\ posts \in Nat /\ sendCh \in Seq(Bodies)
      /\ posts' = posts + 1
      /\ sendCh' = Append(sendCh, Message("post", "post", TRUE, posts + 1))
      /\ UNCHANGED <<tokened, reader, call, streamed, outbox, lock, wire>>
  BY DEF Post, Queued, LinesInv, clientVars, loopVars, callVars, pipeVars
<1>2. PICK m \in Bodies : /\ m.to = "post" /\ m.says = "post" /\ m.seq = posts + 1
                          /\ sendCh' = Append(sendCh, m)
  <2> DEFINE m == Message("post", "post", TRUE, posts + 1)
  <2>1. "post" \in Says \ {"newline"}
    BY DEF Says
  <2>2. posts + 1 \in Nat /\ m.to = "post" /\ m.says = "post" /\ m.seq = posts + 1
    BY <1>1 DEF Message
  <2>4. m \in Bodies
    BY <2>1, <2>2, BodyType
  <2>3. sendCh' = Append(sendCh, m)
    BY <1>1
  <2> HIDE DEF m
  <2> QED
    BY <2>2, <2>3, <2>4
<1>3. /\ Len(sendCh) \in Nat /\ Len(sendCh') = Len(sendCh) + 1
      /\ \A k \in 1..Len(sendCh) : sendCh'[k] = sendCh[k]
      /\ sendCh'[Len(sendCh) + 1] = m
  <2>1. sendCh \in Seq(Bodies)
    BY <1>1
  <2>2. sendCh' = Append(sendCh, m)
    BY <1>2
  <2> QED
    BY <2>1, <2>2, AppendFacts
<1>4. SendersSay'
  <2>1. \A s \in Senders : /\ Idle(s)' <=> Idle(s)
                           /\ SentBy(s, outbox[s]) => SentBy(s, outbox[s])'
    BY <1>1 DEF Idle, SentBy, SentByCall, SentByLoop
  <2>2. \A k \in 1..Len(sendCh') : sendCh'[k].says = "post" /\ sendCh'[k].to = "post"
    BY <1>2, <1>3 DEF SentInv, SendersSay
  <2>3. lock' # "free" => lock' \in Senders /\ ~Idle(lock)'
    BY <1>1 DEF SentInv, SendersSay, Idle
  <2> QED
    BY <1>1, <2>1, <2>2, <2>3 DEF SentInv, SendersSay
<1>5. PostInv'
  <2>1. /\ PostsInOrder' /\ (Pending("poster")' <=> Pending("poster"))
        /\ PostsTaken' = PostsTaken /\ PostsTaken \in Nat
    BY <1>1, WireSame, CountsAreNat DEF SentInv, PostInv, PostsTaken, Pending, Idle, LinesInv
  <2>2. posts = PostsTaken + Len(sendCh)
    BY DEF SentInv, PostInv
  <2>3. ASSUME NEW k \in 1..Len(sendCh') PROVE sendCh'[k].seq = PostsTaken' + k
    <3>1. CASE k \in 1..Len(sendCh)
      BY <1>3, <2>1, <3>1 DEF SentInv, PostInv
    <3>2. CASE k = Len(sendCh) + 1
      BY <1>2, <1>3, <2>1, <2>2, <3>2
    <3> QED
      BY <1>3, <3>1, <3>2
  <2>4. posts' = PostsTaken' + Len(sendCh')
    BY <1>1, <1>3, <2>1, <2>2
  <2>5. Pending("poster") => outbox'["poster"].seq = PostsTaken
    BY <1>1 DEF SentInv, PostInv
  <2> QED
    BY <2>1, <2>3, <2>4, <2>5 DEF PostInv
<1>6. StreamBeforeAnswer'
  BY <1>1, OrderSame DEF SentInv
<1>7. \A r \in Reqs : AnswerInv(r)'
  BY <1>1, AnswerSame DEF SentInv, Refusing, Pending, Idle
<1> QED
  BY <1>4, <1>5, <1>6, <1>7 DEF SentInv

\* The poster takes the oldest message of the channel.
LEMMA TakePostSent == ASSUME LinesInv, SentInv, TakePost PROVE SentInv'
<1>1. /\ sendCh \in Seq(Bodies) /\ sendCh # <<>> /\ Idle("poster")
      /\ sendCh' = Tail(sendCh) /\ Send("poster", Head(sendCh))
      /\ outbox \in [Senders -> Bodies]
      /\ UNCHANGED <<tokened, reader, call, streamed, posts, lock, wire>>
  BY DEF TakePost, LinesInv, clientVars, loopVars, callVars
<1>2. PICK m \in Bodies : m = sendCh[1] /\ Send("poster", m)
  BY <1>1, TailFacts
<1>3. /\ Len(sendCh) \in Nat /\ Len(sendCh) >= 1 /\ Len(sendCh') = Len(sendCh) - 1
      /\ \A k \in 1..Len(sendCh') : sendCh'[k] = sendCh[k + 1] /\ k + 1 \in 1..Len(sendCh)
  BY <1>1
<1>4. /\ "poster" \in Senders /\ "main" \in Senders /\ Reqs \subseteq Senders
      /\ lock # "poster" /\ "poster" \notin Reqs
  BY <1>1, SenderNames, Names DEF SentInv, SendersSay
<1>5. m.says = "post" /\ m.to = "post" /\ m.seq = PostsTaken + 1
  <2>1. 1 \in 1..Len(sendCh)
    BY <1>3
  <2> QED
    BY <1>2, <2>1 DEF SentInv, SendersSay, PostInv
<1>6. /\ outbox'["poster"] = m /\ ~Idle("poster")'
      /\ \A t \in Senders \ {"poster"} : outbox'[t] = outbox[t] /\ (Idle(t)' <=> Idle(t))
  BY <1>1, <1>2, <1>4, <1>5, SendFacts
<1>7. \A t \in Senders \ {"poster"} : Pending(t)' <=> Pending(t)
  BY <1>1, <1>6 DEF Pending
<1>8. SendersSay'
  <2>1. \A t \in Senders \ {"poster"} : SentBy(t, outbox[t]) => SentBy(t, outbox[t])'
    BY <1>1, <1>6 DEF SentBy, SentByCall, SentByLoop
  <2>2. SentBy("poster", outbox["poster"])'
    BY <1>5, <1>6 DEF SentBy
  <2>3. \A k \in 1..Len(sendCh') : sendCh'[k].says = "post" /\ sendCh'[k].to = "post"
    BY <1>3 DEF SentInv, SendersSay
  <2>4. lock' # "free" => lock' \in Senders /\ ~Idle(lock)'
    BY <1>1, <1>4, <1>6 DEF SentInv, SendersSay, Idle
  <2> QED
    BY <1>6, <2>1, <2>2, <2>3, <2>4 DEF SentInv, SendersSay
<1>9. PostInv'
  <2>1. /\ PostsInOrder' /\ PostsWritten' = PostsWritten /\ PostsWritten \in Nat
    BY <1>1, WireSame, CountsAreNat DEF SentInv, PostInv, LinesInv
  <2>2. ~Pending("poster") /\ Pending("poster")'
    BY <1>1, <1>4, <1>6 DEF Pending
  <2>3. PostsTaken = PostsWritten /\ PostsTaken' = PostsWritten + 1
    BY <2>1, <2>2 DEF PostsTaken
  <2>4. posts = PostsTaken + Len(sendCh)
    BY DEF SentInv, PostInv
  <2>5. posts' = PostsTaken' + Len(sendCh')
    BY <1>1, <1>3, <2>1, <2>3, <2>4
  <2>6. ASSUME NEW k \in 1..Len(sendCh') PROVE sendCh'[k].seq = PostsTaken' + k
    <3>1. sendCh[k + 1].seq = PostsTaken + (k + 1)
      BY <1>3 DEF SentInv, PostInv
    <3> QED
      BY <1>3, <2>1, <2>3, <3>1
  <2>7. outbox'["poster"].seq = PostsTaken'
    BY <1>5, <1>6, <2>1, <2>3
  <2> QED
    BY <2>1, <2>5, <2>6, <2>7 DEF PostInv
<1>10. StreamBeforeAnswer'
  BY <1>1, OrderSame DEF SentInv
<1>11. ASSUME NEW r \in Reqs PROVE AnswerInv(r)'
  <2>1. UNCHANGED <<call[r], streamed[r], tokened[r], outbox[r]>>
    BY <1>1, <1>4, <1>6
  <2>2. Refusing(r)' <=> Refusing(r)
    BY <1>4, <1>6, <1>7 DEF Refusing
  <2>3. AnswerInv(r) /\ wire' = wire /\ lock' = lock
    BY <1>1 DEF SentInv
  <2> QED
    BY <2>1, <2>2, <2>3, AnswerSame
<1> QED
  BY <1>8, <1>9, <1>10, <1>11 DEF SentInv

\* What the loop and the poll say is for nobody in particular.
LEMMA LoopSent == ASSUME LinesInv, SentInv, ReadError \/ SayBye \/ Poll PROVE SentInv'
<1>1. /\ UNCHANGED <<tokened, call, streamed, posts, sendCh, lock, wire>>
      /\ reader = "bye" => reader' = "bye"
  <2>1. CASE ReadError
    BY <2>1 DEF ReadError, callVars, chanVars
  <2>2. CASE SayBye
    BY <2>2 DEF SayBye, clientVars, callVars, chanVars
  <2>3. CASE Poll
    BY <2>3 DEF Poll, clientVars, loopVars, callVars
  <2> QED
    BY <2>1, <2>2, <2>3
<1>2. /\ {"main", "poll"} \subseteq Senders \ (Reqs \cup {"poster"})
      /\ {"nobody", "bye", "poll"} \cap Reqs = {}
      /\ {"read error", "bye", "poll"} \subseteq Says \ {"newline"}
  BY SenderNames, Names DEF Says
<1>3. served \in Nat /\ polls + 1 \in Nat
  BY DEF LinesInv
<1>4. PICK s \in {"main", "poll"}, m \in Bodies :
        /\ Idle(s) /\ Send(s, m) /\ SentBy(s, m)' /\ m.to \notin Reqs
  <2>1. CASE ReadError
    <3> DEFINE m == Message("nobody", "read error", FALSE, 0)
    <3>1. m \in Bodies /\ m.to = "nobody" /\ m.says = "read error"
      BY <1>2, BodyType DEF Message
    <3>2. Idle("main") /\ Send("main", m)
      BY <2>1 DEF ReadError, AtAccept
    <3> HIDE DEF m
    <3>3. SentBy("main", m)'
      BY <3>1 DEF SentBy, SentByLoop
    <3> QED
      BY <1>2, <3>1, <3>2, <3>3
  <2>2. CASE SayBye
    <3> DEFINE m == Message("bye", "bye", TRUE, served)
    <3>1. "bye" \in Says \ {"newline"} /\ "bye" \in Senders \cup {"nobody", "bye", "post"}
      BY <1>2
    <3>2. m \in Bodies
      BY <1>3, <3>1, BodyType
    <3>3. m.to = "bye" /\ m.says = "bye"
      BY DEF Message
    <3>4. Idle("main") /\ Send("main", m) /\ reader' = "bye"
      BY <2>2 DEF SayBye
    <3>5. \E x \in Bodies : /\ x.to = "bye" /\ x.says = "bye"
                            /\ Send("main", x)
      BY <3>2, <3>3, <3>4
    <3>6. PICK x \in Bodies : x.to = "bye" /\ x.says = "bye" /\ Send("main", x)
      BY <3>5
    <3>7. SentBy("main", x)'
      BY <3>4, <3>6 DEF SentBy, SentByLoop
    <3> QED
      BY <1>2, <3>4, <3>6, <3>7
  <2>3. CASE Poll
    <3> DEFINE m == Message("poll", "poll", TRUE, polls + 1)
    <3>1. "poll" \in Says \ {"newline"} /\ "poll" \in Senders \cup {"nobody", "bye", "post"}
      BY <1>2
    <3>2. m \in Bodies
      BY <1>3, <3>1, BodyType
    <3>3. m.to = "poll" /\ m.says = "poll"
      BY DEF Message
    <3>4. Idle("poll") /\ Send("poll", m)
      BY <2>3 DEF Poll
    <3>5. PICK x \in Bodies : x.to = "poll" /\ x.says = "poll" /\ Send("poll", x)
      BY <3>2, <3>3, <3>4
    <3>6. SentBy("poll", x)'
      BY <3>5 DEF SentBy
    <3> QED
      BY <1>2, <3>4, <3>5, <3>6
  <2> QED
    BY <2>1, <2>2, <2>3
<1>5. s \in Senders \ (Reqs \cup {"poster"})
  BY <1>2
<1> QED
  BY <1>1, <1>4, <1>5, OtherSends

LEMMA SentInit == Init => SentInv
<1> SUFFICES ASSUME Init PROVE SentInv
  OBVIOUS
<1>1. /\ wire = <<>> /\ Len(wire) = 0 /\ 1..Len(wire) = {}
      /\ sendCh = <<>> /\ Len(sendCh) = 0 /\ 1..Len(sendCh) = {}
      /\ lock = "free" /\ posts = 0
      /\ outbox = [s \in Senders |->
                     IF s = "hello" THEN Message("hello", "hello", TRUE, 0) ELSE None]
      /\ \A r \in Reqs : call[r] = "none" /\ streamed[r] = 0
  BY DEF Init
<1>2. "hello" \in Senders /\ "hello" \notin Reqs /\ "poster" \in Senders /\ "main" \in Senders
  BY SenderNames, Names
<1>3. \A s \in Senders \ {"hello"} : Idle(s)
  BY <1>1 DEF Idle
<1>4. outbox["hello"].says = "hello" /\ outbox["hello"].to = "hello"
  BY <1>1, <1>2 DEF Message
<1>5. SendersSay
  <2>1. SentBy("hello", outbox["hello"])
    BY <1>4 DEF SentBy
  <2> QED
    BY <1>1, <1>3, <2>1 DEF SendersSay
<1>6. PostsUpTo(Len(wire)) = {} /\ \A r : BodiesTo(r, Len(wire)) = {}
  BY <1>1 DEF PostsUpTo, BodiesTo
<1>7. PostsWritten = 0 /\ \A r : Written(r) = 0
  BY <1>6, FS_EmptySet DEF PostsWritten, Written
<1>8. ~Pending("poster") /\ ~Pending("main") /\ \A r \in Reqs : ~Pending(r)
  BY <1>2, <1>3, SenderNames DEF Pending
<1>9. PostInv
  <2>1. PostsTaken = 0
    BY <1>7, <1>8 DEF PostsTaken
  <2>2. PostsInOrder
    BY <1>6 DEF PostsInOrder
  <2> QED
    BY <1>1, <1>8, <2>1, <2>2 DEF PostInv
<1>10. StreamBeforeAnswer
  BY <1>6 DEF StreamBeforeAnswer
<1>11. ASSUME NEW r \in Reqs PROVE AnswerInv(r)
  <2>1. ~Answered(r) /\ ~Streaming(r)
    BY <1>1, <1>8 DEF Answered, Streaming
  <2> QED
    BY <1>1, <1>7, <2>1 DEF AnswerInv
<1> QED
  BY <1>5, <1>9, <1>10, <1>11 DEF SentInv

LEMMA SentStep == CountInv /\ LinesInv /\ SentInv /\ [Next]_vars => SentInv'
<1> SUFFICES ASSUME CountInv, LinesInv, SentInv, [Next]_vars PROVE SentInv'
  OBVIOUS
<1>1. ASSUME NEW r \in Reqs, ClientWrites(r) PROVE SentInv'
  BY <1>1, MovesSent
<1>2. ASSUME NEW r \in Reqs, Calling(r) \/ StreamOut(r) PROVE SentInv'
  BY <1>2, MovesSent, CallSent DEF Calling
<1>3. ASSUME NEW s \in Senders, Sending(s) PROVE SentInv'
  BY <1>3, SendingSent
<1>4. CASE ClientLeaves \/ AcceptEof \/ Quit \/ OutOfMemory
  <2>1. /\ UNCHANGED <<tokened, call, streamed, posts, sendCh, outbox, lock, wire>>
        /\ reader = "bye" => reader' = "bye"
    BY <1>4 DEF ClientLeaves, AcceptEof, AtAccept, Quit, OutOfMemory, Exit,
                clientVars, loopVars, callVars, chanVars, pipeVars
  <2> QED
    BY <2>1, SentSame
<1>5. CASE Reading
  BY <1>4, <1>5, AcceptSent, LoopSent DEF Reading
<1>6. CASE ReadError \/ Poll
  BY <1>6, LoopSent
<1>7. CASE Post \/ TakePost
  BY <1>7, PostSent, TakePostSent
<1>8. CASE UNCHANGED vars
  <2>1. UNCHANGED <<tokened, call, streamed, posts, sendCh, outbox, lock, wire, reader>>
    BY <1>8 DEF vars, clientVars, loopVars, callVars, chanVars, pipeVars
  <2> QED
    BY <2>1, SentSame
<1> QED
  BY <1>1, <1>2, <1>3, <1>4, <1>5, <1>6, <1>7, <1>8 DEF Next

\* What the three invariants amount to.
LEMMA Sends == Spec => [](CountInv /\ LinesInv /\ SentInv)
<1>1. Init => CountInv /\ LinesInv /\ SentInv
  BY CountInit, LinesInit, SentInit
<1>2. CountInv /\ LinesInv /\ SentInv /\ [Next]_vars => CountInv' /\ LinesInv' /\ SentInv'
  BY CountStep, LinesStep, SentStep
<1> QED
  BY <1>1, <1>2, PTL DEF Spec

\* A call's output reaches the client complete, in order and before its response: the
\* goroutine of the call waits for the mutex before it goes on.
THEOREM OutputPrecedesAnswer == Spec => []StreamBeforeAnswer
<1>1. SentInv => StreamBeforeAnswer
  BY DEF SentInv
<1> QED
  BY <1>1, Sends, PTL

\* Posted messages reach the client in the order they were posted: sendCh is a queue
\* with one reader, and that one waits for the mutex before it takes another.
THEOREM PostsAreOrdered == Spec => []PostsInOrder
<1>1. SentInv => PostsInOrder
  BY DEF SentInv, PostInv
<1> QED
  BY <1>1, Sends, PTL

-----------------------------------------------------------------------------
(* The good bye of a margo that waits for its calls. *)

Served   == {r \in Reqs : call[r] \in {"running", "returned", "done"}}
Finished == {r \in Reqs : call[r] = "done"}

\* The counter of the broker counts the calls whose goroutine has started.
ServedInv == IsFiniteSet(Served) /\ served = Cardinality(Served)

\* The fourth inductive invariant: from the end of the wait for the calls on there
\* are none, so that the number in the good bye stays right.
DrainInv ==
  /\ \A i \in 1..Len(wire) : wire[i].says = "bye" => reader = "bye"
  /\ Wait /\ reader = "bye" =>
       InFlight = {} /\ (outbox["main"].says = "bye" => outbox["main"].seq = served)
  /\ WaitDrains

LEMMA ServedSame == ASSUME ServedInv, call' = call, served' = served PROVE ServedInv'
BY DEF ServedInv, Served

\* What a step does to a call.
LEMMA CallMoved ==
  ASSUME call \in [Reqs -> States], NEW r \in Reqs, NEW to, call' = [call EXCEPT ![r] = to]
  PROVE  call'[r] = to /\ \A q \in Reqs \ {r} : call'[q] = call[q]
OBVIOUS

\* A call is neither counted before nor after, or both times.
LEMMA ServedMoves ==
  ASSUME CountInv, ServedInv, NEW r \in Reqs, NEW to, call' = [call EXCEPT ![r] = to],
         served' = served,
         \/ /\ call[r] \in {"running", "returned"}
            /\ to \in {"running", "returned", "done"}
         \/ /\ call[r] \in {"none", "written"}
            /\ to \in {"written", "dropped", "refused", "spawned"}
  PROVE  ServedInv'
<1>1. call'[r] = to /\ \A q \in Reqs \ {r} : call'[q] = call[q]
  BY CallMoved DEF CountInv
<1>2. Served' = Served
  BY <1>1 DEF Served
<1> QED
  BY <1>2 DEF ServedInv

LEMMA ServeServed == ASSUME CountInv, ServedInv, NEW r \in Reqs, Serve(r) PROVE ServedInv'
<1>1. call[r] = "spawned" /\ call' = [call EXCEPT ![r] = "running"] /\ served' = served + 1
  BY DEF Serve, Moves
<1>2. call'[r] = "running" /\ \A q \in Reqs \ {r} : call'[q] = call[q]
  BY <1>1, CallMoved DEF CountInv
<1>3. Served' = Served \cup {r} /\ r \notin Served
  BY <1>1, <1>2 DEF Served
<1>4. IsFiniteSet(Served) /\ served = Cardinality(Served)
  BY DEF ServedInv
<1>5. /\ IsFiniteSet(Served \cup {r})
      /\ Cardinality(Served \cup {r}) = Cardinality(Served) + 1
  BY <1>3, <1>4, FS_AddElement
<1> QED
  BY <1>1, <1>3, <1>4, <1>5 DEF ServedInv

\* The request of a line has been written, and no more.
LEMMA LineIsWritten ==
  ASSUME CountInv, input # <<>>, Head(input).kind # "bye-ni"
  PROVE  Head(input).req \in Reqs /\ call[Head(input).req] = "written"
<1>1. Head(input) \in Lines /\ Head(input) = input[1] /\ 1 \in 1..Len(input)
  BY TailFacts DEF CountInv
<1>2. Head(input).req \in Reqs
  BY <1>1, LineTypes
<1> QED
  BY <1>1, <1>2 DEF CountInv, OnItsWay

\* What accept does to the calls.
LEMMA AcceptMoves ==
  ASSUME CountInv, AcceptLine
  PROVE  \/ call' = call
         \/ \E r \in Reqs, to \in {"dropped", "refused", "spawned"} :
              call[r] = "written" /\ call' = [call EXCEPT ![r] = to]
<1> DEFINE r == Head(input).req
           kind == Head(input).kind
<1>1. CASE kind = "bye-ni"
  BY <1>1 DEF AcceptLine
<1>2. CASE kind # "bye-ni"
  <2>1. r \in Reqs /\ call[r] = "written"
    BY <1>2, LineIsWritten DEF AcceptLine
  <2>2. \E to \in {"dropped", "refused", "spawned"} : call' = [call EXCEPT ![r] = to]
    BY <1>2 DEF AcceptLine, Refuse, Spawn
  <2> QED
    BY <2>1, <2>2
<1> QED
  BY <1>1, <1>2

LEMMA ServedStep == CountInv /\ ServedInv /\ [Next]_vars => ServedInv'
<1> SUFFICES ASSUME CountInv, ServedInv, [Next]_vars PROVE ServedInv'
  OBVIOUS
<1>1. ASSUME NEW r \in Reqs, ClientWrites(r) PROVE ServedInv'
  <2>1. call[r] = "none" /\ call' = [call EXCEPT ![r] = "written"] /\ served' = served
    BY <1>1 DEF ClientWrites
  <2> QED
    BY <2>1, ServedMoves
<1>2. ASSUME NEW r \in Reqs, Return(r) \/ StreamOut(r) \/ Done(r) PROVE ServedInv'
  <2>1. /\ call[r] \in {"running", "returned"} /\ served' = served
        /\ \E to \in {"running", "returned", "done"} : call' = [call EXCEPT ![r] = to]
    BY <1>2 DEF Return, StreamOut, Done, Moves
  <2> QED
    BY <2>1, ServedMoves
<1>3. ASSUME NEW r \in Reqs, Serve(r) PROVE ServedInv'
  BY <1>3, ServeServed
<1>4. CASE AcceptLine
  <2>1. served' = served
    BY <1>4 DEF AcceptLine
  <2> QED
    BY <1>4, <2>1, AcceptMoves, ServedSame, ServedMoves
<1>5. ASSUME NEW s \in Senders, Sending(s) PROVE ServedInv'
  BY <1>5, ServedSame DEF Sending, WriteBody, WriteNewline, SendGivesUp, callVars
<1>6. CASE ClientLeaves \/ AcceptEof \/ SayBye \/ Quit \/ OutOfMemory \/ ReadError
  BY <1>6, ServedSame DEF ClientLeaves, AcceptEof, SayBye, Quit, OutOfMemory, Exit, ReadError, callVars
<1>7. CASE Post \/ TakePost \/ Poll
  BY <1>7, ServedSame DEF Post, TakePost, Poll, callVars
<1>8. CASE UNCHANGED vars
  BY <1>8, ServedSame DEF vars, callVars
<1> QED
  BY <1>1, <1>2, <1>3, <1>4, <1>5, <1>6, <1>7, <1>8 DEF Next, Reading, Calling

\* A step that does not write, nor says good bye.
LEMMA DrainSame ==
  ASSUME DrainInv, wire' = wire, tokened' = tokened,
         reader' = "bye" <=> reader = "bye",
         outbox'["main"].says = "bye" => outbox'["main"] = outbox["main"],
         Wait /\ reader = "bye" /\ InFlight = {} =>
           InFlight' = {} /\ Finished' = Finished /\ served' = served
  PROVE  DrainInv'
<1>1. ASSUME Wait, NEW i \in 1..Len(wire), wire[i].says = "bye"
      PROVE  /\ wire[i].seq = Cardinality(Finished')
             /\ \A r \in Reqs : call'[r] \in {"spawned", "running", "returned", "done"} =>
                  \/ \E k \in 1..i : wire[k].to = r /\ IsAnswer(wire[k])
                  \/ ~tokened[r]
  <2>1. InFlight = {} /\ InFlight' = {} /\ Finished' = Finished
    BY <1>1 DEF DrainInv
  <2>2. /\ wire[i].seq = Cardinality(Finished)
        /\ \A r \in Reqs : call[r] \in {"spawned", "running", "returned", "done"} =>
             \/ \E k \in 1..i : wire[k].to = r /\ IsAnswer(wire[k])
             \/ ~tokened[r]
    BY <1>1 DEF DrainInv, WaitDrains, Finished
  <2>3. \A r \in Reqs : call'[r] \in {"spawned", "running", "returned", "done"} =>
                        call[r] = "done"
    BY <2>1 DEF InFlight, Finished
  <2> QED
    BY <2>1, <2>2, <2>3
<1>2. WaitDrains'
  BY <1>1 DEF WaitDrains, Finished, IsAnswer
<1> QED
  BY <1>2 DEF DrainInv

\* Once nothing is in flight, the calls move no more.
LEMMA CallsRest ==
  ASSUME CountInv, InFlight = {}, NEW r \in Reqs, NEW to,
         call[r] \in {"none", "written"}, to \in {"written", "dropped", "refused"},
         call' = [call EXCEPT ![r] = to]
  PROVE  InFlight' = {} /\ Finished' = Finished
<1>1. call'[r] = to /\ \A q \in Reqs \ {r} : call'[q] = call[q]
  BY CallMoved DEF CountInv
<1> QED
  BY <1>1 DEF InFlight, Finished

\* A write to stdout: the good bye is right when it is written, and stays it.
LEMMA DrainGrows ==
  ASSUME SentInv, ServedInv, DrainInv, wire \in Seq(Messages), NEW e \in Messages,
         wire' = Append(wire, e), UNCHANGED <<tokened, reader, call, served>>,
         e.says = "bye" => reader = "bye" /\ outbox["main"].says = "bye" /\ e = outbox["main"],
         outbox'["main"].says = "bye" => outbox'["main"] = outbox["main"]
  PROVE  DrainInv'
<1> DEFINE n == Len(wire)
<1>1. /\ n \in Nat /\ Len(wire') = n + 1 /\ wire'[n + 1] = e
      /\ \A i \in 1..n : wire'[i] = wire[i]
      /\ 1..(n + 1) = (1..n) \cup {n + 1} /\ \A i \in 1..n : 1..i \subseteq 1..n
  BY AppendFacts
<1>2. \A i \in 1..Len(wire') : wire'[i].says = "bye" => reader' = "bye"
  BY <1>1 DEF DrainInv
<1>3. InFlight' = InFlight
  BY DEF InFlight
<1>4. Wait /\ reader' = "bye" =>
        InFlight' = {} /\ (outbox'["main"].says = "bye" => outbox'["main"].seq = served')
  BY <1>3 DEF DrainInv
<1>5. ASSUME Wait, NEW i \in 1..(n + 1), wire'[i].says = "bye"
      PROVE  /\ wire'[i].seq = Cardinality(Finished)
             /\ \A r \in Reqs : call[r] \in {"spawned", "running", "returned", "done"} =>
                  \/ \E k \in 1..i : wire'[k].to = r /\ IsAnswer(wire'[k])
                  \/ ~tokened[r]
  <2>1. CASE i \in 1..n
    <3>1. /\ wire[i].seq = Cardinality(Finished)
          /\ \A r \in Reqs : call[r] \in {"spawned", "running", "returned", "done"} =>
               \/ \E k \in 1..i : wire[k].to = r /\ IsAnswer(wire[k])
               \/ ~tokened[r]
      BY <1>1, <1>5, <2>1 DEF DrainInv, WaitDrains, Finished
    <3> QED
      BY <1>1, <2>1, <3>1
  <2>2. CASE i = n + 1
    <3>1. e.says = "bye" /\ reader = "bye" /\ e = outbox["main"]
      BY <1>1, <1>5, <2>2
    <3>2. InFlight = {} /\ e.seq = Cardinality(Served)
      BY <1>5, <3>1 DEF DrainInv, ServedInv
    <3>3. Served = Finished
      BY <3>2 DEF InFlight, Served, Finished
    <3>4. ASSUME NEW r \in Reqs, call[r] \in {"spawned", "running", "returned", "done"}
          PROVE  \/ \E k \in 1..i : wire'[k].to = r /\ IsAnswer(wire'[k])
                 \/ ~tokened[r]
      <4>1. call[r] = "done"
        BY <3>2, <3>4 DEF InFlight
      <4>2. Answered(r) \/ ~tokened[r]
        BY <4>1 DEF SentInv, AnswerInv
      <4>3. ASSUME Answered(r) PROVE \E k \in 1..i : wire'[k].to = r /\ IsAnswer(wire'[k])
        <5>1. PICK k \in 1..n : wire[k].to = r /\ IsAnswer(wire[k])
          BY <4>3 DEF Answered
        <5> QED
          BY <1>1, <2>2, <5>1
      <4> QED
        BY <4>2, <4>3
    <3> QED
      BY <1>1, <2>2, <3>2, <3>3, <3>4
  <2> QED
    BY <1>1, <2>1, <2>2
<1>6. WaitDrains'
  BY <1>1, <1>5 DEF WaitDrains, Finished, IsAnswer
<1> QED
  BY <1>2, <1>4, <1>6 DEF DrainInv

LEMMA DrainWrites ==
  ASSUME LinesInv, SentInv, ServedInv, DrainInv, NEW s \in Senders,
         WriteBody(s) \/ WriteNewline(s)
  PROVE  DrainInv'
<1>1. /\ wire \in Seq(Messages) /\ outbox \in [Senders -> Bodies] /\ "main" \in Senders
      /\ UNCHANGED <<tokened, reader, call, served>> /\ ~Idle(s)
  BY SenderNames DEF LinesInv, WriteBody, WriteNewline, clientVars, loopVars, callVars
<1>2. outbox'["main"].says = "bye" => outbox'["main"] = outbox["main"]
  <2>1. CASE WriteBody(s)
    BY <2>1 DEF WriteBody
  <2>2. CASE WriteNewline(s)
    <3>1. Send(s, None)
      BY <2>2 DEF WriteNewline
    <3>2. CASE s = "main"
      BY <1>1, <3>1, <3>2, NoneType, SendFacts, NoneIsNothing
    <3>3. CASE s # "main"
      BY <1>1, <3>1, <3>3, NoneType, SendFacts
    <3> QED
      BY <3>2, <3>3
  <2> QED
    BY <2>1, <2>2
<1>3. \E e \in Messages :
        /\ wire' = Append(wire, e)
        /\ e.says = "bye" => reader = "bye" /\ outbox["main"].says = "bye" /\ e = outbox["main"]
  <2>1. CASE WriteBody(s)
    <3>1. wire' = Append(wire, Encoded(outbox[s])) /\ SendersSay
      BY <2>1 DEF WriteBody, SentInv
    <3>2. PICK m \in Bodies, e \in Messages :
            /\ m = outbox[s] /\ wire' = Append(wire, e)
            /\ m.says = "unencodable" => e.says = "cannot encode"
            /\ m.says # "unencodable" => e = m
      BY <1>1, <3>1, EncodedSays
    <3>3. m.says = "bye" => s = "main" /\ reader = "bye"
      <4>1. SentBy(s, m)
        BY <1>1, <3>1, <3>2 DEF SendersSay
      <4> QED
        BY <4>1 DEF SentBy, SentByCall, SentByLoop
    <3> QED
      BY <3>2, <3>3
  <2>2. CASE WriteNewline(s)
    <3> DEFINE e == Message(s, "newline", FALSE, 0)
    <3>1. e \in Messages /\ e.says = "newline"
      BY WrittenTypes DEF Message
    <3>2. wire' = Append(wire, e)
      BY <2>2 DEF WriteNewline
    <3> HIDE DEF e
    <3> QED
      BY <3>1, <3>2
  <2> QED
    BY <2>1, <2>2
<1> QED
  BY <1>1, <1>2, <1>3, DrainGrows

\* The loop says good bye once the WaitGroup is at zero.
LEMMA ByeDrains ==
  ASSUME CountInv, LinesInv, DrainInv, SayBye PROVE DrainInv'
<1>1. /\ reader = "stopped" /\ (Wait => wg = 0) /\ reader' = "bye"
      /\ Send("main", Message("bye", "bye", TRUE, served))
      /\ UNCHANGED <<wire, call, served>>
  BY DEF SayBye, callVars
<1>2. \A i \in 1..Len(wire') : wire'[i].says # "bye"
  BY <1>1 DEF DrainInv
<1>3. outbox'["main"].seq = served'
  BY <1>1, SenderNames DEF Send, Message, LinesInv
<1>4. Wait => InFlight' = {}
  <2>1. InFlight' = InFlight
    BY <1>1 DEF InFlight
  <2>2. wg = 0 => InFlight = {}
    BY FS_EmptySet DEF CountInv, WaitGroupCounts
  <2> QED
    BY <1>1, <2>1, <2>2
<1>5. WaitDrains'
  BY <1>2 DEF WaitDrains
<1> QED
  BY <1>1, <1>2, <1>3, <1>4, <1>5 DEF DrainInv

LEMMA DrainStep ==
  ASSUME CountInv, LinesInv, SentInv, ServedInv, DrainInv, [Next]_vars PROVE DrainInv'
<1>1. outbox \in [Senders -> Bodies] /\ "main" \in Senders
  BY SenderNames DEF LinesInv
<1>2. ASSUME NEW s \in Senders \ {"main"}, NEW m, Send(s, m)
      PROVE  outbox'["main"] = outbox["main"]
  BY <1>1, <1>2 DEF Send
<1>3. ASSUME NEW m, Send("main", m), m.says # "bye" PROVE outbox'["main"].says # "bye"
  BY <1>1, <1>3 DEF Send
<1>4. ASSUME NEW r \in Reqs, ClientWrites(r) PROVE DrainInv'
  <2>1. /\ call[r] = "none" /\ call' = [call EXCEPT ![r] = "written"]
        /\ UNCHANGED <<wire, tokened, reader, outbox, served>>
    BY <1>4 DEF ClientWrites, loopVars, pipeVars
  <2>2. InFlight = {} => InFlight' = {} /\ Finished' = Finished
    BY <2>1, CallsRest
  <2> QED
    BY <2>1, <2>2, DrainSame
<1>5. ASSUME NEW r \in Reqs, Calling(r) \/ StreamOut(r) PROVE DrainInv'
  <2>1. /\ UNCHANGED <<wire, tokened, reader>>
        /\ call[r] \in {"spawned", "running", "returned"}
        /\ UNCHANGED outbox \/ \E m : Send(r, m)
    BY <1>5 DEF Calling, Serve, Return, Done, StreamOut, Moves, clientVars, loopVars, pipeVars
  <2>2. InFlight # {}
    BY <2>1 DEF InFlight
  <2>3. r \in Senders \ {"main"}
    BY SenderNames, Names
  <2> QED
    BY <1>2, <2>1, <2>2, <2>3, DrainSame
<1>6. ASSUME NEW s \in Senders, Sending(s) PROVE DrainInv'
  <2>1. CASE WriteBody(s) \/ WriteNewline(s)
    BY <2>1, DrainWrites
  <2>2. CASE SendGivesUp(s)
    <3>1. UNCHANGED <<wire, tokened, reader, call, served>> /\ Send(s, None)
      BY <2>2 DEF SendGivesUp, clientVars, loopVars, callVars
    <3>2. outbox'["main"].says = "bye" => outbox'["main"] = outbox["main"]
      BY <1>2, <1>3, <3>1, NoneIsNothing
    <3>3. InFlight' = InFlight /\ Finished' = Finished
      BY <3>1 DEF InFlight, Finished
    <3> QED
      BY <3>1, <3>2, <3>3, DrainSame
  <2> QED
    BY <1>6, <2>1, <2>2 DEF Sending
<1>7. CASE AcceptLine
  <2>1. UNCHANGED <<wire, tokened>> /\ reader # "bye" /\ reader' # "bye"
    BY <1>7 DEF AcceptLine, AtAccept
  <2>2. outbox'["main"].says = "bye" => outbox'["main"] = outbox["main"]
    <3>1. ASSUME NEW r, Refuse(r) PROVE outbox'["main"].says # "bye"
      <4>1. Send("main", Message(r, "error", tokened[r], 0))
        BY <3>1 DEF Refuse
      <4>2. Message(r, "error", tokened[r], 0).says = "error"
        BY DEF Message
      <4> QED
        BY <1>3, <4>1, <4>2
    <3>2. UNCHANGED outbox \/ \E r : Refuse(r)
      BY <1>7 DEF AcceptLine, Spawn
    <3> QED
      BY <3>1, <3>2
  <2> QED
    BY <2>1, <2>2, DrainSame
<1>8. CASE ReadError
  <2>1. /\ UNCHANGED <<wire, tokened, reader, call, served>> /\ reader # "bye"
        /\ Send("main", Message("nobody", "read error", FALSE, 0))
    BY <1>8 DEF ReadError, AtAccept, callVars
  <2>2. Message("nobody", "read error", FALSE, 0).says = "read error"
    BY DEF Message
  <2>3. outbox'["main"].says # "bye"
    BY <1>3, <2>1, <2>2
  <2> QED
    BY <2>1, <2>3, DrainSame
<1>9. CASE SayBye
  BY <1>9, ByeDrains
<1>10. CASE Post \/ TakePost \/ Poll
  <2>1. /\ UNCHANGED <<wire, tokened, reader, call, served>>
        /\ UNCHANGED outbox \/ \E m : Send("poster", m) \/ Send("poll", m)
    BY <1>10 DEF Post, TakePost, Poll, clientVars, loopVars, callVars, pipeVars
  <2>2. {"poster", "poll"} \subseteq Senders \ {"main"}
    BY SenderNames
  <2>3. outbox'["main"] = outbox["main"]
    BY <1>2, <2>1, <2>2
  <2>4. InFlight' = InFlight /\ Finished' = Finished
    BY <2>1 DEF InFlight, Finished
  <2> QED
    BY <2>1, <2>3, <2>4, DrainSame
<1>11. CASE ClientLeaves \/ AcceptEof \/ Quit \/ OutOfMemory \/ UNCHANGED vars
  <2>1. /\ UNCHANGED <<wire, tokened, call, served, outbox>>
        /\ reader' = "bye" <=> reader = "bye"
    BY <1>11 DEF ClientLeaves, AcceptEof, AtAccept, Quit, OutOfMemory, Exit, vars,
                 clientVars, loopVars, callVars, pipeVars
  <2>2. InFlight' = InFlight /\ Finished' = Finished
    BY <2>1 DEF InFlight, Finished
  <2> QED
    BY <2>1, <2>2, DrainSame
<1> QED
  BY <1>4, <1>5, <1>6, <1>7, <1>8, <1>9, <1>10, <1>11 DEF Next, Reading

LEMMA DrainInit == Init => ServedInv /\ DrainInv
<1> SUFFICES ASSUME Init PROVE ServedInv /\ DrainInv
  OBVIOUS
<1>1. served = 0 /\ reader = "reading" /\ 1..Len(wire) = {} /\ Served = {}
  BY DEF Init, Served
<1>2. ServedInv
  BY <1>1, FS_EmptySet DEF ServedInv
<1> QED
  BY <1>1, <1>2 DEF DrainInv, WaitDrains

\* With -wait, margo's good bye comes after the answer to every call it has accepted
\* and says how many they were: Loop waits for the WaitGroup before it sends it.
THEOREM GoodByeIsLast == Spec => []WaitDrains
<1>1. Init => ServedInv /\ DrainInv
  BY DrainInit
<1>2. CountInv /\ LinesInv /\ SentInv /\ ServedInv /\ DrainInv /\ [Next]_vars =>
        ServedInv' /\ DrainInv'
  BY ServedStep, DrainStep
<1>3. DrainInv => WaitDrains
  BY DEF DrainInv
<1> QED
  BY <1>1, <1>2, <1>3, Sends, PTL DEF Spec

-----------------------------------------------------------------------------
(* Who waits: what CallsFinish relies on, and what it means to have finished. *)

\* Only a goroutine that is inside SendNoLog holds the mutex, so that all others are
\* held up no longer than it takes to write a newline; and a call that carries a
\* token has been answered once its goroutine is done, or once it has been refused
\* and the loop reads on.
CallersHear ==
  /\ lock # "free" => lock \in Senders /\ ~Idle(lock)
  /\ \A r \in Reqs :
       /\ call[r] = "done" /\ tokened[r] => Answered(r)
       /\ call[r] = "refused" /\ Idle("main") => Answered(r)

\* The mutex is never kept by a goroutine that has nothing to write, and no call that
\* the client waits for finishes without a response: SendNoLog replaces one that it
\* cannot encode (broker.go:86-101), though the one that replaces it has no token.
THEOREM CallersAreAnswered == Spec => []CallersHear
<1>1. SentInv => CallersHear
  BY DEF SentInv, SendersSay, AnswerInv, Refusing, Pending, CallersHear
<1> QED
  BY <1>1, Sends, PTL

-----------------------------------------------------------------------------
(* The broker implements Responder. *)

Accepted == {r \in Reqs : call[r] \notin {"none", "written", "dropped"}}

AnswersTo(r) == {i \in 1..Len(wire) : wire[i].to = r /\ IsAnswer(wire[i])}

LEMMA Unanswered == ASSUME NEW r, ~Answered(r) PROVE Answers(r) = 0 /\ AnswersTo(r) = {}
<1>1. AnswersTo(r) = {}
  BY DEF Answered, AnswersTo
<1> QED
  BY <1>1, FS_EmptySet DEF Answers, AnswersTo

\* What a write to stdout adds to the answers.
LEMMA AnswersGrow ==
  ASSUME wire \in Seq(Messages), NEW e \in Messages, wire' = Append(wire, e), NEW r
  PROVE  /\ ~(e.to = r /\ IsAnswer(e)) => Answers(r)' = Answers(r)
         /\ e.to = r /\ IsAnswer(e) /\ ~Answered(r) => Answers(r)' = 1
<1>1. /\ Len(wire) \in Nat /\ Len(wire') = Len(wire) + 1 /\ wire'[Len(wire) + 1] = e
      /\ \A i \in 1..Len(wire) : wire'[i] = wire[i]
      /\ 1..(Len(wire) + 1) = (1..Len(wire)) \cup {Len(wire) + 1}
  BY AppendFacts
<1>2. ~(e.to = r /\ IsAnswer(e)) => AnswersTo(r)' = AnswersTo(r)
  BY <1>1 DEF AnswersTo, IsAnswer
<1>3. e.to = r /\ IsAnswer(e) => AnswersTo(r)' = AnswersTo(r) \cup {Len(wire) + 1}
  BY <1>1 DEF AnswersTo, IsAnswer
<1>4. ~Answered(r) => AnswersTo(r) = {}
  BY Unanswered
<1>5. Cardinality({Len(wire) + 1}) = 1
  BY FS_Singleton
<1>6. e.to = r /\ IsAnswer(e) /\ ~Answered(r) => Cardinality(AnswersTo(r)') = 1
  BY <1>3, <1>4, <1>5
<1> QED
  BY <1>2, <1>6 DEF Answers, AnswersTo

\* The answer of a call is the first: it has been accepted and nothing answers it yet.
LEMMA AnswerIsFirst ==
  ASSUME CountInv, LinesInv, SentInv, NEW s \in Senders, WriteBody(s),
         NEW e, e = Encoded(outbox[s]), IsAnswer(e)
  PROVE  e.to \in Reqs /\ e.to \in Accepted /\ ~Answered(e.to)
<1>1. /\ lock = "free" /\ ~Idle(s) /\ outbox[s] \in Bodies
      /\ SendersSay /\ s # "free" /\ "main" \in Senders
  BY SenderNames DEF WriteBody, LockFree, LinesInv, SentInv
<1>2. PICK m \in Bodies : /\ m = outbox[s] /\ e.to = m.to
                          /\ m.says \in {"error", "result", "unencodable", "cannot encode", "PANIC"}
  BY <1>1, EncodedSays DEF IsAnswer
<1>3. SentBy(s, m) /\ Pending(s)
  BY <1>1, <1>2 DEF SendersSay, Pending
<1>4. CASE s \in Reqs
  <2>1. SentByCall(s, m)
    BY <1>1, <1>2, <1>4, SaysToRequest
  <2>2. m.to = s /\ call[s] = "returned"
    BY <1>2, <2>1 DEF SentByCall
  <2>3. ~Answered(s)
    BY <1>3, <1>4 DEF SentInv, AnswerInv
  <2> QED
    BY <1>2, <1>4, <2>2, <2>3 DEF Accepted
<1>5. CASE s \notin Reqs
  <2>1. s = "main" /\ m.to \in Reqs /\ call[m.to] = "refused"
    BY <1>2, <1>3, <1>5 DEF SentBy, SentByLoop
  <2>2. Refusing(m.to)
    BY <1>2, <1>3, <2>1 DEF Refusing
  <2>3. ~Answered(m.to)
    BY <2>1, <2>2 DEF SentInv, AnswerInv
  <2> QED
    BY <1>2, <2>1, <2>3 DEF Accepted
<1> QED
  BY <1>4, <1>5

LEMMA AbstractSame ==
  ASSUME wire' = wire, Accepted' = Accepted, up' = up
  PROVE  UNCHANGED Abstract!vars
BY DEF Abstract!vars, Accepted, Answers, IsAnswer

\* Two cases that are not a stutter: a line is accepted, or a body written.
LEMMA AcceptRefines ==
  ASSUME CountInv, AcceptLine PROVE [Abstract!Next]_(Abstract!vars)
<1>1. up /\ up' = up /\ wire' = wire /\ call \in [Reqs -> States]
  BY DEF AcceptLine, AtAccept, CountInv
<1>2. CASE call' = call
  BY <1>1, <1>2, AbstractSame DEF Accepted
<1>3. ASSUME NEW r \in Reqs, NEW to \in {"dropped", "refused", "spawned"},
             call[r] = "written", call' = [call EXCEPT ![r] = to]
      PROVE  [Abstract!Next]_(Abstract!vars)
  <2>1. call'[r] = to /\ \A q \in Reqs \ {r} : call'[q] = call[q]
    BY <1>1, <1>3, CallMoved
  <2>2. CASE to = "dropped"
    <3>1. Accepted' = Accepted
      BY <1>3, <2>1, <2>2 DEF Accepted
    <3> QED
      BY <1>1, <3>1, AbstractSame
  <2>3. CASE to # "dropped"
    <3>1. Accepted' = Accepted \cup {r}
      BY <1>3, <2>1, <2>3 DEF Accepted
    <3>2. [q \in Reqs |-> Answers(q)]' = [q \in Reqs |-> Answers(q)]
      BY <1>1 DEF Answers, IsAnswer
    <3>3. Abstract!Accept(r)
      BY <1>1, <3>1, <3>2 DEF Abstract!Accept, Accepted
    <3> QED
      BY <3>3 DEF Abstract!Next
  <2> QED
    BY <2>2, <2>3
<1> QED
  BY <1>2, <1>3, AcceptMoves

LEMMA BodyRefines ==
  ASSUME CountInv, LinesInv, SentInv, NEW s \in Senders, WriteBody(s)
  PROVE  [Abstract!Next]_(Abstract!vars)
<1>1. /\ up /\ up' = up /\ call' = call /\ wire \in Seq(Messages)
      /\ wire' = Append(wire, Encoded(outbox[s])) /\ outbox[s] \in Bodies
  BY DEF WriteBody, callVars, LinesInv
<1>2. PICK e \in Messages : e = Encoded(outbox[s]) /\ wire' = Append(wire, e)
  BY <1>1, EncodedSays
<1>3. Accepted' = Accepted
  BY <1>1 DEF Accepted
<1>4. CASE ~IsAnswer(e)
  <2>1. \A r \in Reqs : Answers(r)' = Answers(r)
    BY <1>1, <1>2, <1>4, AnswersGrow
  <2> QED
    BY <1>1, <1>3, <2>1 DEF Abstract!vars, Accepted
<1>5. CASE IsAnswer(e)
  <2>1. PICK r \in Reqs : r = e.to /\ r \in Accepted /\ ~Answered(r)
    BY <1>2, <1>5, AnswerIsFirst
  <2>2. Answers(r) = 0 /\ Answers(r)' = 1
    BY <1>1, <1>2, <1>5, <2>1, Unanswered, AnswersGrow
  <2>3. \A q \in Reqs \ {r} : Answers(q)' = Answers(q)
    BY <1>1, <1>2, <2>1, AnswersGrow
  <2>4. [q \in Reqs |-> Answers(q)]' = [[q \in Reqs |-> Answers(q)] EXCEPT ![r] = 1]
    BY <2>2, <2>3
  <2>5. Abstract!Answer(r)
    BY <1>1, <1>3, <2>1, <2>2, <2>4 DEF Abstract!Answer, Accepted
  <2> QED
    BY <2>5 DEF Abstract!Next
<1> QED
  BY <1>4, <1>5

LEMMA NewlineRefines ==
  ASSUME LinesInv, NEW s \in Senders, WriteNewline(s)
  PROVE  [Abstract!Next]_(Abstract!vars)
<1>1. /\ up' = up /\ call' = call /\ wire \in Seq(Messages)
      /\ wire' = Append(wire, Message(s, "newline", FALSE, 0))
  BY DEF WriteNewline, callVars, LinesInv
<1>2. PICK e \in Messages : wire' = Append(wire, e) /\ ~IsAnswer(e)
  <2> DEFINE e == Message(s, "newline", FALSE, 0)
  <2>1. e \in Messages /\ e.says = "newline"
    BY WrittenTypes DEF Message
  <2>2. ~IsAnswer(e)
    BY <2>1 DEF IsAnswer
  <2>3. wire' = Append(wire, e)
    BY <1>1
  <2> HIDE DEF e
  <2> QED
    BY <2>1, <2>2, <2>3
<1>3. \A r \in Reqs : Answers(r)' = Answers(r)
  BY <1>1, <1>2, AnswersGrow
<1> QED
  BY <1>1, <1>3 DEF Abstract!vars

LEMMA StepRefines ==
  ASSUME CountInv, LinesInv, SentInv, [Next]_vars PROVE [Abstract!Next]_(Abstract!vars)
<1>1. ASSUME NEW r \in Reqs, ClientWrites(r) \/ Calling(r) \/ StreamOut(r)
      PROVE  [Abstract!Next]_(Abstract!vars)
  <2>1. /\ wire' = wire /\ up' = up
        /\ \E to \in {"written", "running", "returned", "done"} :
             call' = [call EXCEPT ![r] = to] /\ (to = "written" <=> call[r] = "none")
        /\ call[r] \in {"none", "spawned", "running", "returned"}
    BY <1>1 DEF ClientWrites, Calling, Serve, Return, Done, StreamOut, Moves, pipeVars
  <2>2. PICK to \in {"written", "running", "returned", "done"} :
          call' = [call EXCEPT ![r] = to] /\ (to = "written" <=> call[r] = "none")
    BY <2>1
  <2>3. call'[r] = to /\ \A q \in Reqs \ {r} : call'[q] = call[q]
    BY <2>2, CallMoved DEF CountInv
  <2>4. Accepted' = Accepted
    BY <2>1, <2>2, <2>3 DEF Accepted
  <2> QED
    BY <2>1, <2>4, AbstractSame
<1>2. ASSUME NEW s \in Senders, Sending(s) PROVE [Abstract!Next]_(Abstract!vars)
  <2>1. CASE SendGivesUp(s)
    BY <2>1, AbstractSame DEF SendGivesUp, callVars, Accepted
  <2> QED
    BY <1>2, <2>1, BodyRefines, NewlineRefines DEF Sending
<1>3. CASE AcceptLine
  BY <1>3, AcceptRefines
<1>4. CASE Quit \/ OutOfMemory
  <2>1. wire' = wire /\ call' = call /\ up' = FALSE
    BY <1>4 DEF Quit, OutOfMemory, Exit, callVars, pipeVars
  <2>2. [r \in Reqs |-> Answers(r)]' = [r \in Reqs |-> Answers(r)] /\ Accepted' = Accepted
    BY <2>1 DEF Answers, IsAnswer, Accepted
  <2>3. Abstract!Quit
    BY <2>1, <2>2 DEF Abstract!Quit, Accepted
  <2> QED
    BY <2>3 DEF Abstract!Next
<1>5. CASE ClientLeaves \/ AcceptEof \/ SayBye \/ ReadError
  BY <1>5, AbstractSame DEF ClientLeaves, AcceptEof, SayBye, ReadError, callVars, pipeVars, Accepted
<1>6. CASE Post \/ TakePost \/ Poll
  BY <1>6, AbstractSame DEF Post, TakePost, Poll, callVars, pipeVars, Accepted
<1>7. CASE UNCHANGED vars
  BY <1>7, AbstractSame DEF vars, callVars, pipeVars, Accepted
<1> QED
  BY <1>1, <1>2, <1>3, <1>4, <1>5, <1>6, <1>7 DEF Next, Reading

\* The broker keeps what Responder promises: it answers a request that it has accepted,
\* once, and no other, and nothing after it has exited.
THEOREM BrokerImplementsResponder == Spec => AnswersOnce
<1>1. Init => Abstract!Init
  <2> SUFFICES ASSUME Init PROVE Abstract!Init
    OBVIOUS
  <2>1. ASSUME NEW r \in Reqs PROVE Answers(r) = 0
    <3>1. ~Answered(r)
      BY DEF Init, Answered
    <3> QED
      BY <3>1, Unanswered
  <2>2. Accepted = {}
    BY DEF Init, Accepted
  <2> QED
    BY <2>1, <2>2 DEF Abstract!Init, Accepted, Init
<1>2. CountInv /\ LinesInv /\ SentInv /\ [Next]_vars => [Abstract!Next]_(Abstract!vars)
  BY StepRefines
<1> QED
  BY <1>1, <1>2, Sends, PTL DEF Spec, AnswersOnce, Abstract!Spec
=============================================================================
