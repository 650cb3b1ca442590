-------------------------------- MODULE Mg9 --------------------------------
(***************************************************************************)
(* The editor's end of margo's pipes (mg9.py).  One thread takes requests  *)
(* off a queue, starts margo when there is none and writes the requests;   *)
(* one thread per margo process reads its lines; one thread calls the      *)
(* callbacks.  A thread started at load time installs margo, and the       *)
(* sender installs it too if it comes first.  They share, through gs.py's  *)
(* attributes, the state of the installation, the current process and the  *)
(* table of callbacks.                                                     *)
(*                                                                         *)
(* A margo process does what module Responder promises: it answers what it *)
(* has read, in any order.  It ends when its stdin is closed, or dies.     *)
(***************************************************************************)
EXTENDS Naturals, Sequences

CONSTANTS
  Reqs,       \* the requests the editor makes, each by a call of its own
  Blocking,   \* those that may be made by bcall, whose caller waits
  MaxProcs,   \* bound: margo processes started
  MaxCrashes, \* bound: margo processes that die by themselves
  MaxRebuilds \* bound: times the user rebuilds margo

ASSUME Mg9Assumption ==
  /\ {MaxProcs, MaxCrashes, MaxRebuilds} \subseteq Nat
  /\ "no request" \notin Reqs /\ Blocking \subseteq Reqs

NoProc == 0
NoReq  == "no request"
Procs  == 1..MaxProcs

\* The threads that may run _install.
Installers == {"installer", "sender"}

VARIABLES
  sendq,    \* gs.mg9_send_q
  recvq,    \* gs.mg9_recv_q: the requests that lines read from margo answer
  inst,     \* the attribute _inst_name(): "" or "busy" or "done"
  install,  \* where each installer is in _install
  sender,   \* where the thread of _send is
  req,      \* the request it has taken
  sproc,    \* its variable proc, which the readers' closures share
  attr,     \* the attribute mg9.proc
  handlers, \* the attributes mg9.rqst.*: requests whose callback is registered
  started,  \* how many processes have been started
  alive,    \* the processes that run
  open,     \* the processes whose stdin and stdout we have not closed
  inbox,    \* the lines in each process's stdin
  working,  \* what each process has read and not answered
  outbox,   \* the lines in each process's stdout
  reader,   \* where the thread that was started to read each process is
  reads,    \* the process that it does read
  calls,    \* how often each request's callback was called, and with what
  sentTo,   \* the process each request was written to
  unheard,  \* requests whose answer had no token, or was garbled
  bcalls,   \* where the caller of each bcall is
  crashes,  \* how many processes have died by themselves
  rebuilds  \* how often the user has rebuilt margo

queueVars  == <<sendq, recvq>>
instVars   == <<inst, install>>
senderVars == <<sender, req, sproc>>
procVars   == <<alive, open, inbox, working, outbox>>
readVars   == <<reader, reads>>
callVars   == <<handlers, calls, sentTo, unheard>>
userVars   == <<bcalls, crashes, rebuilds>>
vars == <<queueVars, instVars, senderVars, attr, started, procVars, readVars,
          callVars, userVars>>

\* The plugin has been loaded: the installer's thread and the ipc threads start.
Init ==
  /\ sendq = <<>> /\ recvq = <<>>
  /\ inst = "" /\ install = [i \in Installers |-> IF i = "installer" THEN "called" ELSE "no"]
  /\ sender = "idle" /\ req = NoReq /\ sproc = NoProc
  /\ attr = NoProc /\ handlers = {}
  /\ started = 0 /\ alive = {} /\ open = {}
  /\ inbox = [p \in Procs |-> <<>>] /\ outbox = [p \in Procs |-> <<>>]
  /\ working = [p \in Procs |-> {}]
  /\ reader = [p \in Procs |-> "no"] /\ reads = [p \in Procs |-> NoProc]
  /\ calls = [r \in Reqs |-> <<>>] /\ sentTo = [r \in Reqs |-> NoProc]
  /\ unheard = {}
  /\ bcalls = [r \in Blocking |-> "no"]
  /\ crashes = 0 /\ rebuilds = 0

-----------------------------------------------------------------------------

\* A mistake: the pipes are left to the garbage collector.
KillSrvLeavesPipes == attr' = NoProc /\ open' = open

\* A mistake: the attribute keeps a process that has been given up.
KillSrvKeepsAttr == attr' = attr /\ open' = open \ {attr}

\* killSrv, in whatever thread: del_attr makes sure that one of them closes the
\* pipes of a process.
KillSrv == attr' = NoProc /\ open' = open \ {attr}

Callback(r, with) == calls' = [calls EXCEPT ![r] = Append(@, with)]

Unasked(r) ==
  /\ calls[r] = <<>> /\ sentTo[r] = NoProc /\ r # req
  /\ \A k \in 1..Len(sendq) : sendq[k] # r
  /\ r \in Blocking => bcalls[r] = "no"

\* acall, in any thread.
Acall(r) ==
  /\ Unasked(r)
  /\ sendq' = Append(sendq, r)
  /\ UNCHANGED <<recvq, instVars, senderVars, attr, started, procVars, readVars,
                 callVars, userVars>>

\* bcall: the caller waits, unless margo is not installed.
Bcall(r) ==
  /\ Unasked(r)
  /\ IF inst = "done"
     THEN sendq' = Append(sendq, r) /\ bcalls' = [bcalls EXCEPT ![r] = "waits"]
     ELSE bcalls' = [bcalls EXCEPT ![r] = "aborted"] /\ UNCHANGED sendq
  /\ UNCHANGED <<recvq, instVars, senderVars, attr, started, procVars, readVars,
                 callVars, crashes, rebuilds>>

\* A mistake: the caller waits until it is called back.
WaitsForCallback(r) == calls[r] # <<>>

\* The caller gets what the callback has put into its queue, or gives up after a second,
\* though its request goes on.
GivesUp(r) == TRUE

BcallReturns(r) ==
  /\ bcalls[r] = "waits" /\ GivesUp(r)
  /\ bcalls' = [bcalls EXCEPT ![r] = IF calls[r] # <<>> THEN calls[r][1] ELSE "timeout"]
  /\ UNCHANGED <<queueVars, instVars, senderVars, attr, started, procVars, readVars,
                 callVars, crashes, rebuilds>>

-----------------------------------------------------------------------------
(* _install.  The state is tested and set without a lock around both. *)

\* How the sender goes on when its _install returns.
Returns(i) ==
  /\ install' = [install EXCEPT ![i] = "no"]
  /\ sender' = IF i = "sender" THEN "waiting" ELSE sender

InstallLook(i) ==
  /\ install[i] = "called"
  /\ IF inst # "" THEN Returns(i)
     ELSE install' = [install EXCEPT ![i] = "claiming"] /\ UNCHANGED sender
  /\ UNCHANGED <<queueVars, inst, req, sproc, attr, started, procVars, readVars,
                 callVars, userVars>>

InstallClaim(i) ==
  /\ install[i] = "claiming"
  /\ inst' = "busy"
  /\ install' = [install EXCEPT ![i] = "building"]
  /\ UNCHANGED <<queueVars, senderVars, attr, started, procVars, readVars,
                 callVars, userVars>>

\* margo was there, or has been built, or cannot be.  The sender's _install(True)
\* is then over, unless the build has failed.
InstallBuilt(i) ==
  /\ install[i] = "building"
  /\ inst' = "done"
  /\ \/ i = "sender" /\ Returns(i)
     \/ install' = [install EXCEPT ![i] = "checking"] /\ UNCHANGED sender
  /\ UNCHANGED <<queueVars, req, sproc, attr, started, procVars, readVars,
                 callVars, userVars>>

\* After the sanity checks any running margo is killed, to be replaced by the one
\* that has been installed.
InstallKill(i) ==
  /\ install[i] = "checking"
  /\ KillSrv
  /\ Returns(i)
  /\ UNCHANGED <<queueVars, inst, req, sproc, started, alive, inbox, working,
                 outbox, readVars, callVars, userVars>>

-----------------------------------------------------------------------------
(* _send *)

\* There is a process, and poll() finds it running.
Running == attr # NoProc /\ attr \in alive

\* Nobody but the sender sets mg9.proc, so that what is killed is what it looked
\* at, or has been killed by another thread.
SendTake ==
  /\ sender = "idle" /\ sendq # <<>>
  /\ req' = Head(sendq) /\ sendq' = Tail(sendq)
  /\ sproc' = attr
  /\ \/ /\ Running
        /\ sender' = "registering"
        /\ UNCHANGED <<attr, open, install>>
     \/ /\ ~Running
        /\ KillSrv
        /\ sender' = "installing"
        /\ install' = [install EXCEPT !["sender"] = "called"]
  /\ UNCHANGED <<recvq, inst, started, alive, inbox, working, outbox, readVars,
                 callVars, userVars>>

\* The end of the loop that waits while another thread installs: margo is started.
SendStart ==
  /\ sender = "waiting" /\ inst # "busy"
  /\ started < MaxProcs
  /\ started' = started + 1
  /\ alive' = alive \cup {started + 1} /\ open' = open \cup {started + 1}
  /\ sproc' = started + 1
  /\ sender' = "started"
  /\ UNCHANGED <<queueVars, instVars, req, attr, inbox, working, outbox,
                 readVars, callVars, userVars>>

\* A mistake: the loop goes on without an answer to who asked.
AbortSilently == UNCHANGED calls

Abort == Callback(req, "error")

\* margo cannot be started, or was and is gone already.
SendCannotStart ==
  /\ \/ /\ sender = "waiting" /\ inst # "busy"
        /\ sproc' = NoProc
     \/ /\ sender = "started" /\ sproc \notin alive
        /\ UNCHANGED sproc
  /\ KillSrv
  /\ Abort
  /\ sender' = "idle" /\ req' = NoReq
  /\ UNCHANGED <<queueVars, instVars, started, alive, inbox, working, outbox,
                 readVars, handlers, sentTo, unheard, userVars>>

SendStarted ==
  /\ sender = "started" /\ sproc \in alive
  /\ attr' = sproc
  /\ reader' = [reader EXCEPT ![sproc] = "launched"]
  /\ sender' = "registering"
  /\ UNCHANGED <<queueVars, instVars, req, sproc, started, procVars, reads,
                 callVars, userVars>>

\* The request is registered before it is encoded, and stays so when it cannot be.
SendRegister ==
  /\ sender = "registering"
  /\ handlers' = handlers \cup {req}
  /\ \/ /\ sender' = "writing"
        /\ UNCHANGED <<req, calls>>
     \/ /\ Callback(req, "error")
        /\ sender' = "idle" /\ req' = NoReq
  /\ UNCHANGED <<queueVars, instVars, sproc, attr, started, procVars, readVars,
                 sentTo, unheard, userVars>>

\* A mistake: what could not be written is tried again.
SendqAfterErrorRetried == <<req>> \o sendq

\* The loop goes on with the next request.
SendqAfterError == sendq

\* Another thread may have closed the pipe since proc was read, or margo may be
\* gone: then the write raises.
SendWrite ==
  /\ sender = "writing"
  /\ IF sproc \in alive \cap open
     THEN /\ inbox' = [inbox EXCEPT ![sproc] = Append(@, req)]
          /\ sentTo' = [sentTo EXCEPT ![req] = sproc]
          /\ UNCHANGED <<attr, open, calls, sendq>>
     ELSE /\ Callback(req, "error")
          /\ KillSrv
          /\ sendq' = SendqAfterError
          /\ UNCHANGED <<inbox, sentTo>>
  /\ sender' = "idle" /\ req' = NoReq
  /\ UNCHANGED <<recvq, instVars, sproc, started, alive, working, outbox,
                 readVars, handlers, unheard, userVars>>

-----------------------------------------------------------------------------
(* _read_stdout and _recv *)

\* The closure's variable proc, when the thread of the reader gets to run.
Bound(p) == sproc

ReaderStarts(p) ==
  /\ reader[p] = "launched"
  /\ reads' = [reads EXCEPT ![p] = Bound(p)]
  /\ reader' = [reader EXCEPT ![p] = IF Bound(p) = NoProc THEN "gone" ELSE "reading"]
  /\ UNCHANGED <<queueVars, instVars, senderVars, attr, started, procVars,
                 callVars, userVars>>

\* Two threads that read one pipe byte by byte garble each other's lines.
Shared(p) == \E q \in Procs \ {p} : reader[q] = "reading" /\ reads[q] = reads[p]

ReaderReads(p) ==
  /\ reader[p] = "reading" /\ reads[p] \in open
  /\ outbox[reads[p]] # <<>>
  /\ LET r == Head(outbox[reads[p]]) IN
       \/ recvq' = Append(recvq, r) /\ UNCHANGED unheard
       \/ /\ Shared(p)
          /\ unheard' = unheard \cup ({r} \ {NoReq})
          /\ UNCHANGED recvq
  /\ outbox' = [outbox EXCEPT ![reads[p]] = Tail(@)]
  /\ UNCHANGED <<sendq, instVars, senderVars, attr, started, alive, open, inbox,
                 working, readVars, handlers, calls, sentTo, userVars>>

\* The end of the output, or a read from what killSrv has closed.
ReaderStops(p) ==
  /\ reader[p] = "reading"
  /\ \/ reads[p] \notin open
     \/ reads[p] \notin alive /\ outbox[reads[p]] = <<>>
  /\ reader' = [reader EXCEPT ![p] = "gone"]
  /\ UNCHANGED <<queueVars, instVars, senderVars, attr, started, procVars, reads,
                 callVars, userVars>>

HandlersAfter(r) == handlers \ {r}

\* A line without a token, or with one that is not registered, is ignored.
Recv ==
  /\ recvq # <<>>
  /\ recvq' = Tail(recvq)
  /\ handlers' = HandlersAfter(Head(recvq))
  /\ IF Head(recvq) \in handlers THEN Callback(Head(recvq), "answer")
     ELSE UNCHANGED calls
  /\ UNCHANGED <<sendq, instVars, senderVars, attr, started, procVars, readVars,
                 sentTo, unheard, userVars>>

\* gs: build margo, in a thread of its own.
Rebuild ==
  /\ rebuilds < MaxRebuilds
  /\ rebuilds' = rebuilds + 1
  /\ KillSrv
  /\ UNCHANGED <<queueVars, instVars, senderVars, started, alive, inbox, working,
                 outbox, readVars, callVars, bcalls, crashes>>

-----------------------------------------------------------------------------
(* margo, as module Broker describes it. *)

MargoReads(p) ==
  /\ p \in alive /\ inbox[p] # <<>>
  /\ working' = [working EXCEPT ![p] = @ \cup {Head(inbox[p])}]
  /\ inbox' = [inbox EXCEPT ![p] = Tail(@)]
  /\ UNCHANGED <<queueVars, instVars, senderVars, attr, started, alive, open,
                 outbox, readVars, callVars, userVars>>

\* An answer whose data cannot be encoded has no token.
MargoAnswers(p) ==
  /\ p \in alive
  /\ \E r \in working[p] :
       /\ working' = [working EXCEPT ![p] = @ \ {r}]
       /\ \/ outbox' = [outbox EXCEPT ![p] = Append(@, r)] /\ UNCHANGED unheard
          \/ /\ outbox' = [outbox EXCEPT ![p] = Append(@, NoReq)]
             /\ unheard' = unheard \cup {r}
  /\ UNCHANGED <<queueVars, instVars, senderVars, attr, started, alive, open,
                 inbox, readVars, handlers, calls, sentTo, userVars>>

\* Its stdin has ended, or it has written to a pipe that is closed.
MargoExits(p) ==
  /\ p \in alive \ open
  /\ inbox[p] = <<>>
  /\ alive' = alive \ {p}
  /\ UNCHANGED <<queueVars, instVars, senderVars, attr, started, open, inbox,
                 working, outbox, readVars, callVars, userVars>>

MargoDies(p) ==
  /\ p \in alive
  /\ crashes < MaxCrashes
  /\ crashes' = crashes + 1
  /\ alive' = alive \ {p}
  /\ UNCHANGED <<queueVars, instVars, senderVars, attr, started, open, inbox,
                 working, outbox, readVars, callVars, bcalls, rebuilds>>

-----------------------------------------------------------------------------

Install(i) == InstallLook(i) \/ InstallClaim(i) \/ InstallBuilt(i) \/ InstallKill(i)
SendLoop   == SendTake \/ SendStart \/ SendCannotStart \/ SendStarted
                \/ SendRegister \/ SendWrite
Read(p)    == ReaderStarts(p) \/ ReaderReads(p) \/ ReaderStops(p)
Margo(p)   == MargoReads(p) \/ MargoAnswers(p) \/ MargoExits(p)

Next ==
  \/ \E r \in Reqs : Acall(r)
  \/ \E r \in Blocking : Bcall(r) \/ BcallReturns(r)
  \/ \E i \in Installers : Install(i)
  \/ \E p \in Procs : Read(p) \/ Margo(p) \/ MargoDies(p)
  \/ SendLoop \/ Recv \/ Rebuild

Spec == Init /\ [][Next]_vars

\* Threads and processes that can go on do.  Nothing obliges the user.
Fairness ==
  /\ WF_vars(SendLoop) /\ WF_vars(Recv)
  /\ \A i \in Installers : WF_vars(Install(i))
  /\ \A r \in Blocking : WF_vars(BcallReturns(r))
  /\ \A p \in Procs : WF_vars(Read(p)) /\ WF_vars(Margo(p))

FairSpec == Spec /\ Fairness

-----------------------------------------------------------------------------

\* A callback is called once, although a request that could not be written stays
\* registered, and although its process may be killed while it answers.
CallbackOnce == \A r \in Reqs : Len(calls[r]) <= 1

\* Who is told of an error can try again: margo has not got the request.
ErrorMeansUnsent == \A r \in Reqs : calls[r] = <<"error">> => sentTo[r] = NoProc

\* No margo is left behind: one that runs with its pipes open is the current one,
\* or is about to be.  Three threads may kill the server while the sender starts
\* one.
OneServer ==
  \A p \in alive \cap open : p = attr \/ (p = sproc /\ sender = "started")

\* The reader of the current process reads it, although its closure may be run
\* when the sender's variable has changed.
CurrentIsRead ==
  attr # NoProc => \/ reader[attr] = "launched" /\ sproc = attr
                   \/ reader[attr] = "reading" /\ reads[attr] = attr
                   \/ reader[attr] = "gone" /\ attr \notin alive

\* Every request is answered in the end, with an error if need be, unless margo
\* has got it and has died, or was killed, or has answered without a token.
Unanswerable(r) ==
  /\ sentTo[r] # NoProc
  /\ sentTo[r] \notin alive \cap open \/ r \in unheard

AcallsAnswered ==
  \A r \in Reqs : (\E k \in 1..Len(sendq) : sendq[k] = r) ~> (calls[r] # <<>> \/ Unanswerable(r))

\* Who waits for margo, the main thread as often as not, waits no longer than a second,
\* although margo may die, be killed or answer without a token, and is given nothing
\* but the answer to its own request.
BcallsReturn ==
  \A r \in Blocking :
    bcalls[r] = "waits" ~> \/ bcalls[r] \in {"answer", "error"} /\ calls[r] = <<bcalls[r]>>
                           \/ bcalls[r] = "timeout"

\* CHANGELOG.md:392: "wait for mg9.install to finish before attempting to send any
\* request to margo".  An installer that has only been called may find that
\* there is nothing left to do; one that has begun will kill the server.
Installing(i) == install[i] \in {"building", "checking"}

InstallIsAwaited ==
  [][\A r \in Reqs :
       sentTo[r] # sentTo'[r] => \A i \in Installers : ~Installing(i)]_vars
=============================================================================
