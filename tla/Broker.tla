------------------------------- MODULE Broker -------------------------------
(***************************************************************************)
(* margo's request broker (broker.go, main.go).  One goroutine reads lines *)
(* and starts a goroutine per call; all responses go to one pipe behind    *)
(* the broker's mutex.  Other goroutines write to the same pipe: the hello *)
(* message, the poll, and one that drains the channel of posted messages.  *)
(*                                                                         *)
(* A line is abstracted to what accept() makes of it, a response to whom   *)
(* it answers, what it says and whether it carries a token.  Where the     *)
(* data of a response is written (OOB) makes no difference here.           *)
(***************************************************************************)
EXTENDS Naturals, Sequences, FiniteSets

CONSTANTS
  Reqs,         \* the requests the client writes, each on a line of its own
  Wait,         \* the -wait flag
  ChCap,        \* the capacity of sendCh
  MaxPosts,     \* bound: messages posted through sendCh
  MaxPolls,     \* bound: poll messages
  MaxStream,    \* bound: stream messages a call sends before it returns
  MaxReadErrors \* bound: errors reading stdin

ASSUME BrokerAssumption ==
  /\ Wait \in BOOLEAN
  /\ ChCap \in Nat \ {0}
  /\ {MaxPosts, MaxPolls, MaxStream, MaxReadErrors} \subseteq Nat
  /\ Reqs \cap {"main", "hello", "poll", "poster", "free",
               "nobody", "bye", "post"} = {}

VARIABLES
  input,      \* lines written by the client and not read yet
  closed,     \* the client has closed our stdin
  reader,     \* where Loop is
  readErrors, \* how many reads have failed
  call,       \* where each request is: on its way to, or in, its goroutine
  tokened,    \* whether each request carries a token
  streamed,   \* stream messages sent by each call
  wg,         \* the broker's WaitGroup
  served,     \* the broker's counter
  posts,      \* messages posted so far
  sendCh,     \* messages posted and not taken by the poster
  polls,      \* poll messages sent so far
  outbox,     \* the response each sender is in SendNoLog with, or None
  lock,       \* who holds the broker's mutex, or "free"
  wire,       \* what has been written to stdout: bodies and newlines
  up          \* the process has not exited

clientVars == <<input, closed, tokened>>
loopVars   == <<reader, readErrors>>
callVars   == <<call, streamed, wg, served>>
chanVars   == <<posts, sendCh, polls>>
pipeVars   == <<outbox, lock, wire>>
vars       == <<clientVars, loopVars, callVars, chanVars, pipeVars, up>>

\* The goroutines that send.
Senders == Reqs \cup {"main", "hello", "poll", "poster"}

Message(to, says, token, seq) ==
  [to |-> to, says |-> says, token |-> token, seq |-> seq]

None == Message("nobody", "nothing", FALSE, 0)

\* A line of input.  "blank" stands for everything that has no method: empty and
\* undecodable lines; "unknown" for a method that is not registered; "badarg"
\* for an argument that does not decode.
Line(r, kind) == [req |-> r, kind |-> kind]
Kinds == {"blank", "unknown", "badarg", "call"}

-----------------------------------------------------------------------------

\* Loop has just started the goroutine that sends the hello message.
Init ==
  /\ input = <<>> /\ closed = FALSE /\ tokened \in [Reqs -> BOOLEAN]
  /\ reader = "reading" /\ readErrors = 0
  /\ call = [r \in Reqs |-> "none"] /\ streamed = [r \in Reqs |-> 0]
  /\ wg = 0 /\ served = 0
  /\ posts = 0 /\ sendCh = <<>> /\ polls = 0
  /\ outbox = [s \in Senders |->
                 IF s = "hello" THEN Message("hello", "hello", TRUE, 0) ELSE None]
  /\ lock = "free" /\ wire = <<>>
  /\ up = TRUE

-----------------------------------------------------------------------------
(* The client's end of stdin. *)

ClientWrites(r) ==
  /\ ~closed
  /\ call[r] = "none"
  /\ \E kind \in Kinds : input' = Append(input, Line(r, kind))
  /\ call' = [call EXCEPT ![r] = "written"]
  /\ UNCHANGED <<closed, tokened, loopVars, streamed, wg, served, chanVars,
                 pipeVars, up>>

\* The client asks margo to stop before it goes away, or just goes away.
ClientLeaves ==
  /\ ~closed
  /\ closed' = TRUE
  /\ \/ input' = Append(input, Line("nobody", "bye-ni"))
     \/ UNCHANGED input
  /\ UNCHANGED <<tokened, loopVars, callVars, chanVars, pipeVars, up>>

-----------------------------------------------------------------------------
(* SendNoLog: the whole of it under the broker's mutex. *)

Idle(s)    == outbox[s] = None
Send(s, m) == outbox' = [outbox EXCEPT ![s] = m]

\* A mistake: SendNoLog does not take the mutex.
LockIgnored == TRUE

LockFree == lock = "free"

\* What json.Marshal makes of a response.  Result data that cannot be encoded is
\* replaced by an error that carries neither the token nor the tag.
Encoded(m) ==
  IF m.says = "unencodable" THEN Message(m.to, "cannot encode", FALSE, 0) ELSE m

\* Without a token nobody waits for a response that cannot be encoded.
GivesUp(m) == m.says = "unencodable" /\ ~m.token

WriteBody(s) ==
  /\ up
  /\ LockFree
  /\ lock # s  \* s is not writing its body already
  /\ ~Idle(s) /\ ~GivesUp(outbox[s])
  /\ lock' = s
  /\ wire' = Append(wire, Encoded(outbox[s]))
  /\ UNCHANGED <<clientVars, loopVars, callVars, chanVars, outbox, up>>

WriteNewline(s) ==
  /\ up
  /\ lock = s /\ ~Idle(s)
  /\ wire' = Append(wire, Message(s, "newline", FALSE, 0))
  /\ lock' = "free"
  /\ Send(s, None)
  /\ UNCHANGED <<clientVars, loopVars, callVars, chanVars, up>>

\* A mistake: the early return of SendNoLog keeps the mutex.
LockKept(s) == s

\* The deferred Unlock runs on the early return, too.
LockAfterGivingUp(s) == "free"

SendGivesUp(s) ==
  /\ up
  /\ LockFree
  /\ ~Idle(s) /\ GivesUp(outbox[s])
  /\ lock' = LockAfterGivingUp(s)
  /\ Send(s, None)
  /\ UNCHANGED <<clientVars, loopVars, callVars, chanVars, wire, up>>

-----------------------------------------------------------------------------
(* accept and Loop. *)

\* The reader goroutine is at the top of accept, and not in a Send.
AtAccept == up /\ reader = "reading" /\ Idle("main")

\* A mistake: no return after the error response.
RefuseAndSpawn(r) ==
  /\ Send("main", Message(r, "error", tokened[r], 0))
  /\ call' = [call EXCEPT ![r] = "spawned"]
  /\ wg' = wg + 1

\* An error response from accept itself.
Refuse(r) ==
  /\ Send("main", Message(r, "error", tokened[r], 0))
  /\ call' = [call EXCEPT ![r] = "refused"]
  /\ UNCHANGED wg

\* A mistake: the WaitGroup is not told of the call.
SpawnUncounted(r) ==
  /\ call' = [call EXCEPT ![r] = "spawned"]
  /\ UNCHANGED <<outbox, wg>>

Spawn(r) ==
  /\ call' = [call EXCEPT ![r] = "spawned"]
  /\ wg' = wg + 1
  /\ UNCHANGED outbox

\* A line is read, together with io.EOF if it is the last and has no newline.
AcceptLine ==
  /\ AtAccept
  /\ input # <<>>
  /\ LET r == Head(input).req  kind == Head(input).kind IN
       /\ \/ /\ kind = "blank"
             /\ call' = [call EXCEPT ![r] = "dropped"]
             /\ UNCHANGED <<wg, outbox>>
          \/ kind \in {"unknown", "badarg"} /\ Refuse(r)
          \/ kind = "call" /\ Spawn(r)
          \/ kind = "bye-ni" /\ UNCHANGED <<call, wg, outbox>>
       /\ \/ reader' = "stopped" /\ (kind = "bye-ni" \/ (closed /\ Len(input) = 1))
          \/ reader' = "reading" /\ kind # "bye-ni"
  /\ input' = Tail(input)
  /\ UNCHANGED <<closed, tokened, readErrors, streamed, served, chanVars, lock,
                 wire, up>>

\* io.EOF with nothing before it.
AcceptEof ==
  /\ AtAccept
  /\ input = <<>> /\ closed
  /\ reader' = "stopped"
  /\ UNCHANGED <<clientVars, readErrors, callVars, chanVars, pipeVars, up>>

\* Any other error: reported without a token, and the loop goes on.  What had
\* been read of the line is lost, so that the rest of it does not decode.
ReadError ==
  /\ AtAccept
  /\ readErrors < MaxReadErrors
  /\ readErrors' = readErrors + 1
  /\ Send("main", Message("nobody", "read error", FALSE, 0))
  /\ \/ UNCHANGED input
     \/ /\ input # <<>> /\ Head(input).req \in Reqs
        /\ input' = [input EXCEPT ![1].kind = "blank"]
  /\ UNCHANGED <<closed, tokened, reader, callVars, chanVars, lock, wire, up>>

\* Loop after its loop: it waits for the calls if asked to, then says how many
\* it has served.
SayBye ==
  /\ up
  /\ reader = "stopped" /\ Idle("main")
  /\ Wait => wg = 0
  /\ reader' = "bye"
  /\ Send("main", Message("bye", "bye", TRUE, served))
  /\ UNCHANGED <<clientVars, readErrors, callVars, chanVars, lock, wire, up>>

\* The process ends: after the exit hooks (module ProcTable) at the end of Run,
\* or wherever its goroutines are when its memory limit is reached.
Exit ==
  /\ up
  /\ up' = FALSE
  /\ UNCHANGED <<clientVars, loopVars, callVars, chanVars, pipeVars>>

Quit == reader = "bye" /\ Idle("main") /\ Exit
OutOfMemory == Exit

-----------------------------------------------------------------------------
(* The goroutine of a call. *)

Moves(r, from, to) ==
  /\ up
  /\ call[r] = from
  /\ call' = [call EXCEPT ![r] = to]

Serve(r) ==
  /\ Moves(r, "spawned", "running")
  /\ served' = served + 1
  /\ UNCHANGED <<clientVars, loopVars, streamed, wg, chanVars, pipeVars, up>>

\* exec sends the output of its command while it runs (module Stream).
StreamOut(r) ==
  /\ Moves(r, "running", "running") /\ Idle(r)
  /\ streamed[r] < MaxStream
  /\ streamed' = [streamed EXCEPT ![r] = @ + 1]
  /\ Send(r, Message(r, "stream", TRUE, streamed[r] + 1))
  /\ UNCHANGED <<clientVars, loopVars, wg, served, chanVars, lock, wire, up>>

\* A mistake: the output is sent by a goroutine of its own.
ReturnUnordered(r) ==
  /\ Moves(r, "running", "returned")
  /\ \E says \in {"result", "unencodable", "PANIC"} :
       Send(r, Message(r, says, tokened[r], 0))
  /\ UNCHANGED <<clientVars, loopVars, streamed, wg, served, chanVars, lock, wire, up>>

\* The method returns data, returns data that json cannot encode, or panics; the
\* deferred function of a call that panics answers in its stead.
Return(r) ==
  /\ Moves(r, "running", "returned") /\ Idle(r)
  /\ \E says \in {"result", "unencodable", "PANIC"} :
       Send(r, Message(r, says, tokened[r], 0))
  /\ UNCHANGED <<clientVars, loopVars, streamed, wg, served, chanVars, lock, wire, up>>

\* A mistake: wg.Done before the response has been sent.
DoneEarly(r) ==
  /\ Moves(r, "returned", "done")
  /\ wg' = wg - 1
  /\ UNCHANGED <<clientVars, loopVars, streamed, served, chanVars, pipeVars, up>>

\* The deferred wg.Done, after the response has been sent.
Done(r) ==
  /\ Moves(r, "returned", "done") /\ Idle(r)
  /\ wg' = wg - 1
  /\ UNCHANGED <<clientVars, loopVars, streamed, served, chanVars, pipeVars, up>>

-----------------------------------------------------------------------------
(* The goroutines of Run. *)

\* PostMessage and Chan.Send block while the channel is full.
Room == Len(sendCh) < ChCap

\* A mistake: a stack instead of a queue.
Stacked(q, m) == <<m>> \o q

Queued(q, m) == Append(q, m)

Post ==
  /\ up
  /\ posts < MaxPosts
  /\ Room
  /\ posts' = posts + 1
  /\ sendCh' = Queued(sendCh, Message("post", "post", TRUE, posts + 1))
  /\ UNCHANGED <<clientVars, loopVars, callVars, polls, pipeVars, up>>

TakePost ==
  /\ up
  /\ Idle("poster") /\ sendCh # <<>>
  /\ Send("poster", Head(sendCh))
  /\ sendCh' = Tail(sendCh)
  /\ UNCHANGED <<clientVars, loopVars, callVars, posts, polls, lock, wire, up>>

Poll ==
  /\ up
  /\ Idle("poll") /\ polls < MaxPolls
  /\ polls' = polls + 1
  /\ Send("poll", Message("poll", "poll", TRUE, polls + 1))
  /\ UNCHANGED <<clientVars, loopVars, callVars, posts, sendCh, lock, wire, up>>

-----------------------------------------------------------------------------

Sending(s) == WriteBody(s) \/ WriteNewline(s) \/ SendGivesUp(s)
Reading    == AcceptLine \/ AcceptEof \/ SayBye \/ Quit
Calling(r) == Serve(r) \/ Return(r) \/ Done(r)

Next ==
  \/ \E r \in Reqs : ClientWrites(r) \/ Calling(r) \/ StreamOut(r)
  \/ \E s \in Senders : Sending(s)
  \/ ClientLeaves
  \/ Reading \/ ReadError \/ OutOfMemory
  \/ Post \/ TakePost \/ Poll

Spec == Init /\ [][Next]_vars

\* The Go scheduler lets every goroutine that can go on go on, and the methods
\* return.  Nothing obliges the client, a poll or a post.
Fairness ==
  /\ WF_vars(Reading)
  /\ WF_vars(TakePost)
  /\ \A r \in Reqs : WF_vars(Calling(r))
  /\ \A s \in Senders : WF_vars(Sending(s))

FairSpec == Spec /\ Fairness

-----------------------------------------------------------------------------

Says == {"nothing", "hello", "error", "read error", "result", "unencodable",
         "cannot encode", "PANIC", "stream", "bye", "post", "poll", "newline"}

Messages ==
  [to : Senders \cup {"nobody", "bye", "post"}, says : Says, token : BOOLEAN, seq : Nat]

\* Every variable stays within its type: the WaitGroup's counter is never negative.
TypeOK ==
  /\ input \in Seq([req : Reqs \cup {"nobody"}, kind : Kinds \cup {"bye-ni"}])
  /\ closed \in BOOLEAN /\ tokened \in [Reqs -> BOOLEAN]
  /\ reader \in {"reading", "stopped", "bye"} /\ readErrors \in 0..MaxReadErrors
  /\ call \in [Reqs -> {"none", "written", "dropped", "refused", "spawned",
                        "running", "returned", "done"}]
  /\ streamed \in [Reqs -> 0..MaxStream] /\ wg \in Nat /\ served \in Nat
  /\ posts \in 0..MaxPosts /\ polls \in 0..MaxPolls
  /\ sendCh \in Seq(Messages)
  /\ outbox \in [Senders -> Messages]
  /\ lock \in Senders \cup {"free"}
  /\ wire \in Seq(Messages)
  /\ up \in BOOLEAN

IsBody(m)   == m.says # "newline"
IsAnswer(m) == m.says \in {"error", "result", "cannot encode", "PANIC"}

\* The protocol is line-oriented (USAGE.md): on stdout a body is followed by its
\* newline and nothing else, however many goroutines respond at once.
WholeLines ==
  \A i \in 1..Len(wire) : IsBody(wire[i]) <=> (i % 2 = 1)

\* The WaitGroup counts the calls whose goroutine has not finished.
InFlight == {r \in Reqs : call[r] \in {"spawned", "running", "returned"}}
WaitGroupCounts == wg = Cardinality(InFlight)

\* Which of the first i writes to stdout say something to r.
BodiesTo(r, i) == {k \in 1..i : wire[k].to = r /\ IsBody(wire[k])}

\* What a call streams reaches the client complete, in order and before the
\* response of the call, although every message takes the mutex anew.
StreamBeforeAnswer ==
  \A r \in Reqs : \A i \in BodiesTo(r, Len(wire)) :
    LET n == Cardinality(BodiesTo(r, i)) IN
    IF IsAnswer(wire[i]) THEN BodiesTo(r, Len(wire)) = BodiesTo(r, i) /\ n = streamed[r] + 1
    ELSE wire[i].seq = n

\* Posted messages reach the client in the order they were posted.
PostsUpTo(i) == {k \in 1..i : wire[k].says = "post"}
PostsInOrder ==
  \A i \in PostsUpTo(Len(wire)) : wire[i].seq = Cardinality(PostsUpTo(i))

\* The -wait flag ("wait for outstanding requests when exiting"): when margo
\* says goodbye every call it accepted has been answered, and counted.
WaitDrains ==
  Wait => \A i \in 1..Len(wire) :
            wire[i].says = "bye" =>
              /\ wire[i].seq = Cardinality({r \in Reqs : call[r] = "done"})
              /\ \A r \in Reqs :
                   call[r] \in {"spawned", "running", "returned", "done"} =>
                     \/ \E k \in 1..i : wire[k].to = r /\ IsAnswer(wire[k])
                     \/ ~tokened[r]

\* Every accepted call is eventually answered if it has a token; its goroutine
\* finishes unless the process ends first.
CallsFinish ==
  \A r \in Reqs : (call[r] = "spawned") ~> (call[r] = "done" \/ ~up)

\* The broker answers each request it accepted once, and no other.
Answers(r) == Cardinality({i \in 1..Len(wire) : wire[i].to = r /\ IsAnswer(wire[i])})

Abstract == INSTANCE Responder WITH
              accepted <- {r \in Reqs : call[r] \notin {"none", "written", "dropped"}},
              answers  <- [r \in Reqs |-> Answers(r)],
              gone     <- ~up

AnswersOnce == Abstract!Spec

\* USAGE.md:22: "`token` is the original `token` passed in the corresponding
\* request (if any)".
TokenReturned ==
  \A i \in 1..Len(wire) : IsAnswer(wire[i]) => wire[i].token = tokened[wire[i].to]
=============================================================================
