----------------------------- MODULE Mg9Proofs -----------------------------
(***************************************************************************)
(* Theorems about Mg9, for any set of requests and any bounds on processes *)
(* started, crashes and rebuilds: there is one margo at a time and it is   *)
(* read, a callback is called once, an error means that nothing has been   *)
(* sent, no request is dropped on its way, a blocking caller gets its own  *)
(* answer, and the sender waits only while somebody builds margo.          *)
(***************************************************************************)
EXTENDS Mg9, SequenceTheorems, TLAPS

-----------------------------------------------------------------------------
(* The server: the process, the attribute that names it, and its reader. *)

SenderStates  == {"idle", "installing", "waiting", "started", "registering", "writing"}
InstallStates == {"no", "called", "claiming", "building", "checking"}
ReaderStates  == {"no", "launched", "reading", "gone"}

ServerTypes ==
  /\ sender \in SenderStates
  /\ install \in [Installers -> InstallStates]
  /\ reader \in [Procs -> ReaderStates]
  /\ reads \in [Procs -> Procs \cup {NoProc}]
  /\ started \in 0..MaxProcs
  /\ alive \subseteq 1..started /\ open \subseteq 1..started
  /\ attr \in 0..started /\ sproc \in 0..started

\* The sender is in _install exactly while it says so.
SenderInstalls == (install["sender"] # "no") <=> (sender = "installing")

\* From killing the server to naming the next one, the attribute names none: no
\* other thread sets it.
NoneWhileStarting == sender \in {"installing", "waiting", "started"} => attr = NoProc

\* Whoever closes the pipes of a process takes it out of the attribute first, and
\* one that is only being started is in nobody's reach.
NamedAreOpen ==
  /\ attr # NoProc => attr \in open
  /\ sender = "started" => sproc \in open

ServerInv ==
  ServerTypes /\ SenderInstalls /\ NoneWhileStarting /\ NamedAreOpen /\ OneServer
    /\ CurrentIsRead

LEMMA BoundsAreNat == MaxProcs \in Nat /\ MaxCrashes \in Nat /\ MaxRebuilds \in Nat
BY Mg9Assumption, Zenon

LEMMA NoReqIsNone == NoReq \notin Reqs
BY Mg9Assumption DEF NoReq

LEMMA ServerInit == Init => ServerInv
<1> SUFFICES ASSUME Init PROVE ServerInv
  OBVIOUS
<1>1. 0 \in 0..MaxProcs
  BY BoundsAreNat
<1>2. ServerTypes
  <2>1. install \in [Installers -> InstallStates]
    BY DEF Init, InstallStates
  <2>2. reader \in [Procs -> ReaderStates] /\ reads \in [Procs -> Procs \cup {NoProc}]
    <3>1. reader = [p \in Procs |-> "no"] /\ reads = [p \in Procs |-> NoProc]
      BY DEF Init
    <3> QED
      BY <3>1 DEF ReaderStates
  <2>3. sender = "idle" /\ started = 0 /\ attr = 0 /\ sproc = 0 /\ alive = {} /\ open = {}
    BY DEF Init, NoProc
  <2> QED
    BY <1>1, <2>1, <2>2, <2>3 DEF ServerTypes, SenderStates
<1>3. SenderInstalls /\ NoneWhileStarting /\ NamedAreOpen
  BY DEF Init, SenderInstalls, NoneWhileStarting, NamedAreOpen, Installers
<1>4. OneServer /\ CurrentIsRead
  BY DEF Init, OneServer, CurrentIsRead
<1> QED
  BY <1>2, <1>3, <1>4 DEF ServerInv

\* The processes that have been started are some of those the bound allows.
LEMMA StartedAreProcs ==
  ASSUME ServerTypes
  PROVE  /\ started \in Nat /\ alive \subseteq Procs /\ open \subseteq Procs
         /\ attr \in Procs \cup {NoProc} /\ sproc \in Procs \cup {NoProc}
<1>1. started \in Nat /\ started <= MaxProcs
  BY BoundsAreNat DEF ServerTypes
<1>2. 1..started \subseteq Procs /\ 0..started \subseteq Procs \cup {NoProc}
  BY <1>1, BoundsAreNat DEF Procs, NoProc
<1> QED
  BY <1>1, <1>2 DEF ServerTypes

\* What only the requests are concerned with.
LEMMA ServerSame ==
  ASSUME ServerInv,
         UNCHANGED <<install, sender, sproc, attr, started, alive, open, readVars>>
  PROVE  ServerInv'
BY DEF ServerInv, ServerTypes, SenderInstalls, NoneWhileStarting, NamedAreOpen, OneServer,
       CurrentIsRead, readVars

\* killSrv, in a thread that goes on as `sender' says: the process that is being
\* started is not the one that is killed.
LEMMA KillSrvServer ==
  ASSUME ServerInv, KillSrv, UNCHANGED <<started, alive, readVars>>,
         sproc' \in 0..started, sender' \in SenderStates,
         install' \in [Installers -> InstallStates], SenderInstalls',
         \/ UNCHANGED <<sender, sproc>>
         \/ sender' # "started" /\ (sender = "started" => sproc \notin alive)
  PROVE  ServerInv'
<1>1. /\ attr' = NoProc /\ open' = open \ {attr} /\ ServerTypes
      /\ NoneWhileStarting /\ NamedAreOpen
  BY DEF KillSrv, ServerInv
<1>2. ServerTypes'
  BY <1>1 DEF ServerTypes, readVars, NoProc
<1>3. NoneWhileStarting' /\ CurrentIsRead'
  BY <1>1 DEF NoneWhileStarting, CurrentIsRead
<1>4. NamedAreOpen'
  <2> SUFFICES ASSUME sender' = "started" PROVE sproc \in open \ {attr}
    BY <1>1 DEF NamedAreOpen
  <2>1. sender = "started" /\ attr = NoProc /\ sproc \in open
    BY <1>1 DEF NoneWhileStarting, NamedAreOpen
  <2> QED
    BY <1>1, <2>1 DEF ServerTypes, NoProc
<1>5. OneServer'
  <2> SUFFICES ASSUME NEW p \in alive \cap open, p # attr
               PROVE  p = sproc' /\ sender' = "started"
    BY <1>1 DEF OneServer
  <2>1. p = sproc /\ sender = "started"
    BY DEF ServerInv, OneServer
  <2> QED
    BY <2>1
<1> QED
  BY <1>2, <1>3, <1>4, <1>5 DEF ServerInv

LEMMA InstallServer ==
  ASSUME ServerInv, NEW i \in Installers, Install(i) PROVE ServerInv'
<1> USE DEF queueVars, instVars, senderVars, procVars, callVars, userVars
<1>1. /\ ServerTypes /\ SenderInstalls /\ Installers = {"installer", "sender"}
      /\ install[i] # "no"
  BY DEF ServerInv, Installers, Install, InstallLook, InstallClaim, InstallBuilt, InstallKill
<1>2. ASSUME Returns(i)
      PROVE  /\ install' \in [Installers -> InstallStates] /\ sender' \in SenderStates
             /\ SenderInstalls'
             /\ \/ sender' = sender
                \/ sender = "installing" /\ sender' = "waiting"
  <2>1. install' = [install EXCEPT ![i] = "no"]
    BY <1>2 DEF Returns
  <2>2. install' \in [Installers -> InstallStates]
    BY <1>1, <2>1 DEF ServerTypes, InstallStates
  <2>3. CASE i = "sender"
    <3>1. sender = "installing" /\ sender' = "waiting"
      BY <1>1, <1>2, <2>3 DEF Returns, SenderInstalls
    <3>2. install'["sender"] = "no"
      BY <1>1, <2>1, <2>3 DEF ServerTypes
    <3> QED
      BY <2>2, <3>1, <3>2 DEF SenderInstalls, SenderStates
  <2>4. CASE i # "sender"
    <3>1. sender' = sender /\ install'["sender"] = install["sender"]
      BY <1>1, <1>2, <2>1, <2>4 DEF Returns, ServerTypes
    <3> QED
      BY <1>1, <2>2, <3>1 DEF SenderInstalls, ServerTypes
  <2> QED
    BY <2>3, <2>4
<1>3. ASSUME NEW to \in InstallStates \ {"no"}, install' = [install EXCEPT ![i] = to],
             sender' = sender
      PROVE  install' \in [Installers -> InstallStates] /\ SenderInstalls'
             /\ sender' \in SenderStates
  BY <1>1, <1>3 DEF ServerTypes, SenderInstalls, InstallStates
<1>4. ASSUME install' \in [Installers -> InstallStates], sender' \in SenderStates,
             SenderInstalls',
             \/ sender' = sender
             \/ sender = "installing" /\ sender' = "waiting",
             UNCHANGED <<sproc, attr, started, alive, open, readVars>>
      PROVE  ServerInv'
  BY <1>4 DEF ServerInv, ServerTypes, NoneWhileStarting, NamedAreOpen, OneServer,
              CurrentIsRead, readVars
<1>9. {"claiming", "building", "checking"} \subseteq InstallStates \ {"no"}
  BY DEF InstallStates
<1>5. CASE InstallLook(i)
  <2>1. UNCHANGED <<sproc, attr, started, alive, open, readVars>>
    BY <1>5 DEF InstallLook
  <2>2. CASE Returns(i)
    BY <1>2, <1>4, <2>1, <2>2
  <2>3. CASE install' = [install EXCEPT ![i] = "claiming"] /\ UNCHANGED sender
    BY <1>3, <1>4, <1>9, <2>1, <2>3
  <2> QED
    BY <1>5, <2>2, <2>3 DEF InstallLook
<1>6. CASE InstallClaim(i)
  <2>1. /\ UNCHANGED <<sproc, attr, started, alive, open, readVars>>
        /\ install' = [install EXCEPT ![i] = "building"] /\ sender' = sender
    BY <1>6 DEF InstallClaim
  <2> QED
    BY <1>3, <1>4, <1>9, <2>1
<1>7. CASE InstallBuilt(i)
  <2>1. UNCHANGED <<sproc, attr, started, alive, open, readVars>>
    BY <1>7 DEF InstallBuilt
  <2>2. CASE Returns(i)
    BY <1>2, <1>4, <2>1, <2>2
  <2>3. CASE install' = [install EXCEPT ![i] = "checking"] /\ UNCHANGED sender
    BY <1>3, <1>4, <1>9, <2>1, <2>3
  <2> QED
    BY <1>7, <2>2, <2>3 DEF InstallBuilt
<1>8. CASE InstallKill(i)
  <2>1. Returns(i) /\ KillSrv /\ UNCHANGED <<sproc, started, alive, readVars>>
    BY <1>8 DEF InstallKill
  <2>2. sproc' \in 0..started
    BY <1>1, <2>1 DEF ServerTypes
  <2>3. \/ UNCHANGED <<sender, sproc>>
        \/ sender' # "started" /\ (sender = "started" => sproc \notin alive)
    BY <1>2, <2>1
  <2> QED
    BY <1>2, <2>1, <2>2, <2>3, KillSrvServer
<1> QED
  BY <1>5, <1>6, <1>7, <1>8 DEF Install

LEMMA SendServer == ASSUME ServerInv, SendLoop PROVE ServerInv'
<1> USE DEF queueVars, instVars, senderVars, procVars, callVars, userVars
<1>1. ServerTypes /\ SenderInstalls /\ NoneWhileStarting /\ NamedAreOpen /\ OneServer
  BY DEF ServerInv
<1>2. CASE SendTake
  <2>1. /\ sender = "idle" /\ sproc' = attr
        /\ UNCHANGED <<started, alive, readVars>>
    BY <1>2 DEF SendTake
  <2>2. CASE Running /\ sender' = "registering" /\ UNCHANGED <<attr, open, install>>
    BY <1>1, <2>1, <2>2
       DEF Running, ServerInv, ServerTypes, SenderInstalls, NoneWhileStarting, NamedAreOpen,
           OneServer, CurrentIsRead, SenderStates, readVars
  <2>3. CASE /\ KillSrv /\ sender' = "installing"
             /\ install' = [install EXCEPT !["sender"] = "called"]
    <3>1. install' \in [Installers -> InstallStates] /\ SenderInstalls'
      BY <1>1, <2>3 DEF ServerTypes, SenderInstalls, InstallStates, Installers
    <3> QED
      <4>1. sproc' \in 0..started /\ sender' \in SenderStates
        BY <1>1, <2>1, <2>3 DEF ServerTypes, SenderStates
      <4>2. sender' # "started" /\ (sender = "started" => sproc \notin alive)
        BY <2>1, <2>3
      <4> QED
        BY <2>1, <2>3, <3>1, <4>1, <4>2, KillSrvServer
  <2> QED
    BY <1>2, <2>2, <2>3 DEF SendTake
<1>3. CASE SendStart
  <2>1. /\ sender = "waiting" /\ started < MaxProcs /\ started' = started + 1
        /\ alive' = alive \cup {started + 1} /\ open' = open \cup {started + 1}
        /\ sproc' = started + 1 /\ sender' = "started"
        /\ UNCHANGED <<install, attr, readVars>>
    BY <1>3 DEF SendStart
  <2>2. attr = NoProc
    BY <1>1, <2>1 DEF NoneWhileStarting
  <2>3. ServerTypes'
    <3>1. started \in Nat /\ started + 1 \in 0..MaxProcs
      BY <1>1, <2>1, StartedAreProcs, BoundsAreNat
    <3>2. 1..started \subseteq 1..(started + 1) /\ 0..started \subseteq 0..(started + 1)
      BY <3>1
    <3> QED
      BY <1>1, <2>1, <3>1, <3>2 DEF ServerTypes, readVars, SenderStates
  <2>4. SenderInstalls' /\ NoneWhileStarting' /\ NamedAreOpen' /\ CurrentIsRead'
    BY <1>1, <2>1, <2>2
       DEF SenderInstalls, NoneWhileStarting, NamedAreOpen, CurrentIsRead
  <2>5. OneServer'
    <3> SUFFICES ASSUME NEW p \in alive' \cap open' PROVE p = sproc'
      BY <2>1 DEF OneServer
    <3>1. CASE p \in alive \cap open
      BY <1>1, <2>1, <2>2, <3>1 DEF OneServer, ServerTypes, NoProc
    <3>2. CASE p = started + 1
      BY <2>1, <3>2
    <3>3. started + 1 \notin alive /\ started + 1 \notin open
      BY <1>1 DEF ServerTypes
    <3> QED
      BY <2>1, <3>1, <3>2, <3>3
  <2> QED
    BY <2>3, <2>4, <2>5 DEF ServerInv
<1>4. CASE SendCannotStart
  <2>1. /\ KillSrv /\ sender' = "idle" /\ UNCHANGED <<install, started, alive, readVars>>
        /\ sproc' \in 0..started
        /\ \/ sender = "waiting" /\ sproc' = NoProc
           \/ sender = "started" /\ sproc \notin alive /\ UNCHANGED sproc
    BY <1>1, <1>4 DEF SendCannotStart, ServerTypes, NoProc
  <2>2. /\ SenderInstalls' /\ sender' \in SenderStates
        /\ install' \in [Installers -> InstallStates]
        /\ sender' # "started" /\ (sender = "started" => sproc \notin alive)
    BY <1>1, <2>1 DEF SenderInstalls, ServerTypes, SenderStates
  <2> QED
    BY <2>1, <2>2, KillSrvServer
<1>5. CASE SendStarted
  <2>1. /\ sender = "started" /\ sproc \in alive /\ attr' = sproc
        /\ reader' = [reader EXCEPT ![sproc] = "launched"]
        /\ sender' = "registering"
        /\ UNCHANGED <<install, sproc, started, alive, open, reads>>
    BY <1>5 DEF SendStarted
  <2>2. sproc \in Procs /\ sproc \in open /\ attr = NoProc
    BY <1>1, <2>1, StartedAreProcs DEF NamedAreOpen, NoneWhileStarting
  <2>3. ServerTypes'
    BY <1>1, <2>1, <2>2 DEF ServerTypes, ReaderStates, SenderStates
  <2>4. SenderInstalls' /\ NoneWhileStarting' /\ NamedAreOpen' /\ CurrentIsRead'
    BY <1>1, <2>1, <2>2
       DEF ServerTypes, SenderInstalls, NoneWhileStarting, NamedAreOpen, CurrentIsRead
  <2>5. OneServer'
    BY <1>1, <2>1, <2>2 DEF OneServer, ServerTypes, NoProc
  <2> QED
    BY <2>3, <2>4, <2>5 DEF ServerInv
<1>6. CASE SendRegister
  <2>1. /\ sender = "registering" /\ sender' \in {"writing", "idle"}
        /\ UNCHANGED <<install, sproc, attr, started, alive, open, readVars>>
    BY <1>6 DEF SendRegister
  <2> QED
    BY <1>1, <2>1 DEF ServerInv, ServerTypes, SenderInstalls, NoneWhileStarting,
       NamedAreOpen, OneServer, CurrentIsRead, SenderStates, readVars
<1>7. CASE SendWrite
  <2>1. /\ sender = "writing" /\ sender' = "idle"
        /\ UNCHANGED <<install, sproc, started, alive, readVars>>
    BY <1>7 DEF SendWrite
  <2>2. CASE UNCHANGED <<attr, open>>
    BY <1>1, <2>1, <2>2 DEF ServerInv, ServerTypes, SenderInstalls, NoneWhileStarting,
       NamedAreOpen, OneServer, CurrentIsRead, SenderStates, readVars
  <2>3. CASE KillSrv
    <3>1. /\ SenderInstalls' /\ sender' \in SenderStates /\ sproc' \in 0..started
          /\ install' \in [Installers -> InstallStates]
          /\ sender' # "started" /\ (sender = "started" => sproc \notin alive)
      BY <1>1, <2>1 DEF SenderInstalls, ServerTypes, SenderStates
    <3> QED
      BY <2>1, <2>3, <3>1, KillSrvServer
  <2> QED
    BY <1>7, <2>2, <2>3 DEF SendWrite
<1> QED
  BY <1>2, <1>3, <1>4, <1>5, <1>6, <1>7 DEF SendLoop

\* A reader that starts reads what the sender's variable names by then, which is the
\* current process if its own is; it stops only when that has died.
LEMMA ReadServer == ASSUME ServerInv, NEW p \in Procs, Read(p) PROVE ServerInv'
<1> USE DEF queueVars, instVars, senderVars, procVars, callVars, userVars
<1>1. ServerTypes /\ NamedAreOpen /\ CurrentIsRead
  BY DEF ServerInv
<1>2. ASSUME UNCHANGED <<install, sender, sproc, attr, started, alive, open>>,
             reader' \in [Procs -> ReaderStates], reads' \in [Procs -> Procs \cup {NoProc}],
             CurrentIsRead'
      PROVE  ServerInv'
  BY <1>2 DEF ServerInv, ServerTypes, SenderInstalls, NoneWhileStarting, NamedAreOpen, OneServer
<1>3. CASE ReaderStarts(p)
  <2>1. /\ reader[p] = "launched" /\ reads' = [reads EXCEPT ![p] = sproc]
        /\ reader' = [reader EXCEPT ![p] = IF sproc = NoProc THEN "gone" ELSE "reading"]
        /\ UNCHANGED <<install, sender, sproc, attr, started, alive, open>>
    BY <1>3 DEF ReaderStarts, Bound
  <2>2. sproc \in Procs \cup {NoProc}
    BY <1>1, StartedAreProcs
  <2>3. reader' \in [Procs -> ReaderStates] /\ reads' \in [Procs -> Procs \cup {NoProc}]
    BY <1>1, <2>1, <2>2 DEF ServerTypes, ReaderStates
  <2>4. CurrentIsRead'
    BY <1>1, <2>1 DEF ServerTypes, CurrentIsRead
  <2> QED
    BY <1>2, <2>1, <2>3, <2>4
<1>4. CASE ReaderReads(p)
  BY <1>4, ServerSame DEF ReaderReads
<1>5. CASE ReaderStops(p)
  <2>1. /\ reader[p] = "reading" /\ (reads[p] \notin open \/ reads[p] \notin alive)
        /\ reader' = [reader EXCEPT ![p] = "gone"]
        /\ UNCHANGED <<install, sender, sproc, attr, started, alive, open, reads>>
    BY <1>5 DEF ReaderStops
  <2>2. reader' \in [Procs -> ReaderStates]
    BY <1>1, <2>1 DEF ServerTypes, ReaderStates
  <2>3. CurrentIsRead'
    BY <1>1, <2>1 DEF ServerTypes, CurrentIsRead, NamedAreOpen
  <2> QED
    BY <1>1, <1>2, <2>1, <2>2, <2>3 DEF ServerTypes
<1> QED
  BY <1>3, <1>4, <1>5 DEF Read

\* A process that ends takes nothing with it.
LEMMA MargoServer ==
  ASSUME ServerInv, NEW p \in Procs, Margo(p) \/ MargoDies(p) PROVE ServerInv'
<1> USE DEF queueVars, instVars, senderVars, procVars, callVars, userVars
<1>1. CASE MargoReads(p) \/ MargoAnswers(p)
  BY <1>1, ServerSame DEF MargoReads, MargoAnswers
<1>2. CASE MargoExits(p) \/ MargoDies(p)
  <2>1. /\ alive' = alive \ {p}
        /\ UNCHANGED <<install, sender, sproc, attr, started, open, readVars>>
    BY <1>2 DEF MargoExits, MargoDies
  <2> QED
    BY <2>1 DEF ServerInv, ServerTypes, SenderInstalls, NoneWhileStarting, NamedAreOpen,
       OneServer, CurrentIsRead, readVars
<1> QED
  BY <1>1, <1>2 DEF Margo

LEMMA ServerStep == ServerInv /\ [Next]_vars => ServerInv'
<1> SUFFICES ASSUME ServerInv, [Next]_vars PROVE ServerInv'
  OBVIOUS
<1> USE DEF queueVars, instVars, senderVars, procVars, callVars, userVars
<1>1. ASSUME NEW r \in Reqs, Acall(r) PROVE ServerInv'
  BY <1>1, ServerSame DEF Acall
<1>2. ASSUME NEW r \in Blocking, Bcall(r) \/ BcallReturns(r) PROVE ServerInv'
  BY <1>2, ServerSame DEF Bcall, BcallReturns
<1>3. ASSUME NEW i \in Installers, Install(i) PROVE ServerInv'
  BY <1>3, InstallServer
<1>4. ASSUME NEW p \in Procs, Read(p) \/ Margo(p) \/ MargoDies(p) PROVE ServerInv'
  BY <1>4, ReadServer, MargoServer
<1>5. CASE SendLoop
  BY <1>5, SendServer
<1>6. CASE Recv
  BY <1>6, ServerSame DEF Recv
<1>7. CASE Rebuild
  <2>1. KillSrv /\ UNCHANGED <<install, sender, sproc, started, alive, readVars>>
    BY <1>7 DEF Rebuild
  <2>2. /\ SenderInstalls' /\ sender' \in SenderStates /\ sproc' \in 0..started
        /\ install' \in [Installers -> InstallStates]
    BY <2>1 DEF ServerInv, ServerTypes, SenderInstalls
  <2> QED
    BY <2>1, <2>2, KillSrvServer
<1>8. CASE UNCHANGED vars
  BY <1>8, ServerSame DEF vars
<1> QED
  BY <1>1, <1>2, <1>3, <1>4, <1>5, <1>6, <1>7, <1>8 DEF Next

\* No margo is left behind, however installers, the sender and rebuilds kill and start
\* them: killSrv is given every process but the one that is being started.
THEOREM OneMargo == Spec => []OneServer
<1>1. ServerInv => OneServer
  BY DEF ServerInv
<1> QED
  BY <1>1, ServerInit, ServerStep, PTL DEF Spec

\* The current margo is read although its reader's closure names a variable that the
\* sender goes on using: it changes only when the attribute does.
THEOREM CurrentMargoIsRead == Spec => []CurrentIsRead
<1>1. ServerInv => CurrentIsRead
  BY DEF ServerInv
<1> QED
  BY <1>1, ServerInit, ServerStep, PTL DEF Spec

-----------------------------------------------------------------------------
(* The requests: each is in one place at a time. *)

Line == Seq(Reqs \cup {NoReq})

Held(q, r) == \E k \in 1..Len(q) : q[k] = r

\* No request is twice in q.
Once(q) == \A j, k \in 1..Len(q) : q[j] = q[k] /\ q[j] # NoReq => j = k

LEMMA AppendHeld ==
  ASSUME NEW q \in Line, NEW x \in Reqs \cup {NoReq}
  PROVE  /\ Append(q, x) \in Line
         /\ \A r : Held(Append(q, x), r) <=> Held(q, r) \/ r = x
         /\ Once(q) /\ (x # NoReq => ~Held(q, x)) => Once(Append(q, x))
<1>1. /\ Append(q, x) \in Line /\ Len(q) \in Nat /\ Len(Append(q, x)) = Len(q) + 1
      /\ \A k \in 1..Len(q) : Append(q, x)[k] = q[k]
      /\ Append(q, x)[Len(q) + 1] = x
  BY AppendProperties, LenProperties DEF Line
<1>2. 1..(Len(q) + 1) = (1..Len(q)) \cup {Len(q) + 1} /\ Len(q) + 1 \notin 1..Len(q)
  BY <1>1
<1>3. \A r : Held(Append(q, x), r) <=> Held(q, r) \/ r = x
  BY <1>1, <1>2 DEF Held
<1>4. Once(q) /\ (x # NoReq => ~Held(q, x)) => Once(Append(q, x))
  BY <1>1, <1>2 DEF Held, Once
<1> QED
  BY <1>1, <1>3, <1>4

LEMMA TailHeld ==
  ASSUME NEW q \in Line, q # <<>>, Once(q)
  PROVE  /\ Head(q) \in Reqs \cup {NoReq} /\ Tail(q) \in Line
         /\ Held(q, Head(q)) /\ Once(Tail(q))
         /\ \A r : Held(Tail(q), r) => Held(q, r) /\ (r = Head(q) => r = NoReq)
<1>1. /\ Len(q) \in Nat /\ Len(q) > 0 /\ Len(Tail(q)) = Len(q) - 1 /\ Head(q) = q[1]
      /\ \A k \in 1..Len(Tail(q)) : Tail(q)[k] = q[k + 1]
      /\ Head(q) \in Reqs \cup {NoReq} /\ Tail(q) \in Line
  BY HeadTailProperties, EmptySeq, LenProperties DEF Line
<1>2. \A k \in 1..Len(Tail(q)) : k + 1 \in 1..Len(q) /\ k + 1 # 1
  BY <1>1
<1>3. Held(q, Head(q))
  BY <1>1 DEF Held
<1>4. \A r : Held(Tail(q), r) => Held(q, r) /\ (r = Head(q) => r = NoReq)
  BY <1>1, <1>2 DEF Held, Once
<1>5. Once(Tail(q))
  <2> SUFFICES ASSUME NEW j \in 1..Len(Tail(q)), NEW k \in 1..Len(Tail(q)),
                      Tail(q)[j] = Tail(q)[k], Tail(q)[j] # NoReq
               PROVE  j = k
    BY DEF Once
  <2>1. j + 1 = k + 1
    BY <1>1, <1>2 DEF Once
  <2> QED
    BY <1>1, <2>1
<1> QED
  BY <1>1, <1>3, <1>4, <1>5

\* How often a callback has been called, and with what.
Outcomes == {<<>>, <<"answer">>, <<"error">>}

RequestTypes ==
  /\ req \in Reqs \cup {NoReq}
  /\ sendq \in Line /\ recvq \in Line
  /\ inbox \in [Procs -> Line] /\ outbox \in [Procs -> Line]
  /\ working \in [Procs -> SUBSET Reqs]
  /\ calls \in [Reqs -> Outcomes]
  /\ sentTo \in [Reqs -> Procs \cup {NoProc}]

\* Only a process makes lines that answer nothing.
LinesAsk == \A p \in Procs : ~Held(inbox[p], NoReq)

NoneTwice ==
  /\ Once(sendq) /\ Once(recvq)
  /\ \A p \in Procs : Once(inbox[p]) /\ Once(outbox[p])

\* Whose callback has not been called.
Uncalled(r) == calls[r] = <<>>

\* The sender has a request in hand exactly while it is at work, and has not sent
\* what it has in hand or before it.
SenderHas ==
  /\ (req = NoReq) <=> (sender = "idle")
  /\ ~Held(sendq, NoReq) /\ ~Held(sendq, req)
  /\ \A r \in Reqs :
       r = req \/ Held(sendq, r) => Uncalled(r) /\ sentTo[r] = NoProc

\* A request that a process has was written to it, and the process has it once.
AtMargo(r, p) == Held(inbox[p], r) \/ r \in working[p] \/ Held(outbox[p], r)

MargoHas ==
  \A p \in Procs : \A r \in Reqs :
    /\ AtMargo(r, p) => Uncalled(r) /\ sentTo[r] = p
    /\ ~(Held(inbox[p], r) /\ r \in working[p])
    /\ ~(Held(inbox[p], r) /\ Held(outbox[p], r))
    /\ ~(r \in working[p] /\ Held(outbox[p], r))

\* What has been read from a process was written to one, and none has it any more.
ReceiverHas ==
  \A r \in Reqs :
    Held(recvq, r) => /\ Uncalled(r) /\ sentTo[r] # NoProc
                      /\ \A p \in Procs : ~AtMargo(r, p)

RequestInv ==
  RequestTypes /\ LinesAsk /\ NoneTwice /\ SenderHas /\ MargoHas /\ ReceiverHas
    /\ ErrorMeansUnsent

LEMMA RequestInit == Init => RequestInv
<1> SUFFICES ASSUME Init PROVE RequestInv
  OBVIOUS
<1>1. /\ req = NoReq /\ sender = "idle" /\ sendq = <<>> /\ recvq = <<>>
      /\ inbox = [p \in Procs |-> <<>>] /\ outbox = [p \in Procs |-> <<>>]
      /\ working = [p \in Procs |-> {}]
      /\ calls = [r \in Reqs |-> <<>>] /\ sentTo = [r \in Reqs |-> NoProc]
  BY DEF Init
<1>2. <<>> \in Line /\ Once(<<>>) /\ \A r : ~Held(<<>>, r)
  BY EmptySeq DEF Line, Once, Held
<1>3. RequestTypes /\ LinesAsk
  BY <1>1, <1>2, NoReqIsNone DEF RequestTypes, LinesAsk, Outcomes
<1>4. NoneTwice /\ SenderHas
  BY <1>1, <1>2 DEF NoneTwice, SenderHas, Uncalled
<1>5. MargoHas /\ ReceiverHas
  BY <1>1, <1>2 DEF MargoHas, ReceiverHas, AtMargo
<1>6. ErrorMeansUnsent
  BY <1>1 DEF ErrorMeansUnsent
<1> QED
  BY <1>3, <1>4, <1>5, <1>6 DEF RequestInv

\* What only the server is concerned with.
LEMMA RequestSame ==
  ASSUME RequestInv,
         UNCHANGED <<sendq, recvq, req, inbox, working, outbox, calls, sentTo>>,
         sender' = sender \/ (sender # "idle" /\ sender' # "idle")
  PROVE  RequestInv'
<1>1. RequestTypes' /\ LinesAsk' /\ NoneTwice' /\ ErrorMeansUnsent'
  BY DEF RequestInv, RequestTypes, LinesAsk, NoneTwice, ErrorMeansUnsent
<1>2. SenderHas'
  BY DEF RequestInv, SenderHas, Uncalled
<1>3. MargoHas' /\ ReceiverHas'
  BY DEF RequestInv, MargoHas, ReceiverHas, AtMargo, Uncalled
<1> QED
  BY <1>1, <1>2, <1>3 DEF RequestInv

\* acall and bcall: the request is nowhere yet.
LEMMA AskRequest ==
  ASSUME RequestInv, NEW r \in Reqs, Unasked(r), sendq' = Append(sendq, r),
         UNCHANGED <<recvq, sender, req, inbox, working, outbox, calls, sentTo>>
  PROVE  RequestInv'
<1>1. RequestTypes /\ LinesAsk /\ NoneTwice /\ SenderHas /\ ~Held(sendq, r) /\ r # NoReq /\ r # req
      /\ Uncalled(r) /\ sentTo[r] = NoProc
  BY NoReqIsNone DEF RequestInv, Unasked, Held, NoReq, Uncalled
<1>2. /\ sendq' \in Line /\ Once(sendq')
      /\ \A s : Held(sendq', s) <=> Held(sendq, s) \/ s = r
  BY <1>1, AppendHeld DEF RequestTypes, LinesAsk, NoneTwice
<1>3. RequestTypes' /\ LinesAsk' /\ NoneTwice' /\ ErrorMeansUnsent'
  BY <1>1, <1>2 DEF RequestInv, RequestTypes, LinesAsk, NoneTwice, ErrorMeansUnsent
<1>4. SenderHas'
  BY <1>1, <1>2 DEF SenderHas, Uncalled
<1>5. MargoHas' /\ ReceiverHas'
  BY DEF RequestInv, MargoHas, ReceiverHas, AtMargo, Uncalled
<1> QED
  BY <1>3, <1>4, <1>5 DEF RequestInv

\* The sender calls back with an error what it has not sent.
LEMMA ErrorRequest ==
  ASSUME RequestInv, sender # "idle", Callback(req, "error"),
         sender' = "idle", req' = NoReq,
         UNCHANGED <<sendq, recvq, inbox, working, outbox, sentTo>>
  PROVE  RequestInv'
<1>1. /\ RequestTypes /\ LinesAsk /\ NoneTwice /\ SenderHas /\ MargoHas /\ ReceiverHas
      /\ ErrorMeansUnsent
  BY DEF RequestInv
<1>2. req \in Reqs /\ calls[req] = <<>> /\ sentTo[req] = NoProc
  BY <1>1 DEF SenderHas, RequestTypes, Uncalled
<1>3. calls' = [calls EXCEPT ![req] = <<"error">>]
  BY <1>2 DEF Callback
<1>4. calls' \in [Reqs -> Outcomes]
      /\ calls'[req] = <<"error">> /\ \A r \in Reqs \ {req} : calls'[r] = calls[r]
  BY <1>1, <1>2, <1>3 DEF RequestTypes, Outcomes
<1>5. RequestTypes' /\ LinesAsk' /\ NoneTwice'
  BY <1>1, <1>4 DEF RequestTypes, LinesAsk, NoneTwice
<1>6. ErrorMeansUnsent'
  BY <1>1, <1>2, <1>4 DEF ErrorMeansUnsent
<1>7. SenderHas'
  BY <1>1, <1>2, <1>4, NoReqIsNone DEF SenderHas, Uncalled
<1>8. \A p \in Procs : NoProc # p
  BY DEF Procs, NoProc
<1>9. MargoHas' /\ ReceiverHas'
  BY <1>1, <1>2, <1>4, <1>8 DEF MargoHas, ReceiverHas, AtMargo, Uncalled
<1> QED
  BY <1>5, <1>6, <1>7, <1>9 DEF RequestInv

\* The sender takes the request at the head of its queue.
LEMMA TakeRequest == ASSUME RequestInv, SendTake PROVE RequestInv'
<1>1. /\ RequestTypes /\ LinesAsk /\ NoneTwice /\ SenderHas /\ MargoHas /\ ReceiverHas
      /\ sender = "idle" /\ sender' # "idle" /\ sendq # <<>>
      /\ req' = Head(sendq) /\ sendq' = Tail(sendq)
      /\ UNCHANGED <<recvq, inbox, working, outbox, calls, sentTo>>
  BY DEF RequestInv, SendTake, callVars
<1>2. /\ sendq' \in Line /\ Once(sendq') /\ req' \in Reqs \cup {NoReq} /\ Held(sendq, req')
      /\ \A r : Held(sendq', r) => Held(sendq, r) /\ (r = req' => r = NoReq)
  BY <1>1, TailHeld DEF RequestTypes, LinesAsk, NoneTwice
<1>3. RequestTypes' /\ LinesAsk' /\ NoneTwice' /\ ErrorMeansUnsent'
  BY <1>1, <1>2 DEF RequestInv, RequestTypes, LinesAsk, NoneTwice, ErrorMeansUnsent
<1>4. SenderHas'
  BY <1>1, <1>2 DEF SenderHas, Uncalled
<1>5. MargoHas' /\ ReceiverHas'
  BY <1>1 DEF MargoHas, ReceiverHas, AtMargo, Uncalled
<1> QED
  BY <1>3, <1>4, <1>5 DEF RequestInv

\* The request is written to a process that has not got it, nor has another.
LEMMA WriteRequest ==
  ASSUME RequestInv, NEW p \in Procs, sender # "idle", sender' = "idle", req' = NoReq,
         inbox' = [inbox EXCEPT ![p] = Append(@, req)],
         sentTo' = [sentTo EXCEPT ![req] = p],
         UNCHANGED <<sendq, recvq, working, outbox, calls>>
  PROVE  RequestInv'
<1>1. /\ RequestTypes /\ LinesAsk /\ NoneTwice /\ SenderHas /\ MargoHas /\ ReceiverHas
      /\ ErrorMeansUnsent
  BY DEF RequestInv
<1>2. req \in Reqs /\ Uncalled(req) /\ sentTo[req] = NoProc /\ req # NoReq
  BY <1>1 DEF SenderHas, RequestTypes
<1>3. \A q \in Procs : NoProc # q
  BY DEF Procs, NoProc
<1>4. (\A q \in Procs : ~AtMargo(req, q)) /\ ~Held(recvq, req)
  BY <1>1, <1>2, <1>3 DEF MargoHas, ReceiverHas
<1>5. /\ inbox' \in [Procs -> Line] /\ Once(inbox'[p])
      /\ \A r : Held(inbox'[p], r) <=> Held(inbox[p], r) \/ r = req
      /\ \A q \in Procs \ {p} : inbox'[q] = inbox[q]
  BY <1>1, <1>2, <1>4, AppendHeld DEF RequestTypes, NoneTwice, AtMargo
<1>6. /\ sentTo' \in [Reqs -> Procs \cup {NoProc}] /\ sentTo'[req] = p
      /\ \A r \in Reqs \ {req} : sentTo'[r] = sentTo[r]
  BY <1>1, <1>2 DEF RequestTypes
<1>7. RequestTypes' /\ LinesAsk' /\ NoneTwice'
  BY <1>1, <1>2, <1>5, <1>6 DEF RequestTypes, LinesAsk, NoneTwice
<1>8. ErrorMeansUnsent'
  BY <1>1, <1>2, <1>6 DEF ErrorMeansUnsent, Uncalled
<1>9. SenderHas'
  BY <1>1, <1>2, <1>6, NoReqIsNone DEF SenderHas, Uncalled
<1>10. MargoHas'
  <2> SUFFICES ASSUME NEW q \in Procs, NEW r \in Reqs
               PROVE  /\ AtMargo(r, q)' => Uncalled(r)' /\ sentTo'[r] = q
                      /\ ~(Held(inbox'[q], r) /\ r \in working'[q])
                      /\ ~(Held(inbox'[q], r) /\ Held(outbox'[q], r))
                      /\ ~(r \in working'[q] /\ Held(outbox'[q], r))
    BY DEF MargoHas
  <2> QED
    BY <1>1, <1>2, <1>4, <1>5, <1>6 DEF MargoHas, AtMargo, Uncalled
<1>11. ReceiverHas'
  BY <1>1, <1>3, <1>4, <1>5, <1>6 DEF ReceiverHas, AtMargo, Uncalled
<1> QED
  BY <1>7, <1>8, <1>9, <1>10, <1>11 DEF RequestInv

\* A reader takes a line from a process: it is given to the receiver, or lost.
LEMMA ReadRequest ==
  ASSUME RequestInv, NEW p \in Procs, outbox[p] # <<>>,
         outbox' = [outbox EXCEPT ![p] = Tail(@)],
         recvq' \in {recvq, Append(recvq, Head(outbox[p]))},
         UNCHANGED <<sendq, sender, req, inbox, working, calls, sentTo>>
  PROVE  RequestInv'
<1> DEFINE x == Head(outbox[p])
<1>1. /\ RequestTypes /\ LinesAsk /\ NoneTwice /\ SenderHas /\ MargoHas /\ ReceiverHas
  BY DEF RequestInv
<1>2. /\ x \in Reqs \cup {NoReq} /\ Tail(outbox[p]) \in Line /\ Held(outbox[p], x)
      /\ Once(Tail(outbox[p]))
      /\ \A r : Held(Tail(outbox[p]), r) => Held(outbox[p], r) /\ (r = x => r = NoReq)
  BY <1>1, TailHeld DEF RequestTypes, LinesAsk, NoneTwice
<1> HIDE DEF x
<1>3. /\ outbox' \in [Procs -> Line] /\ outbox'[p] = Tail(outbox[p])
      /\ \A q \in Procs \ {p} : outbox'[q] = outbox[q]
  BY <1>1, <1>2 DEF RequestTypes
<1>4. x \in Reqs => /\ Uncalled(x) /\ sentTo[x] = p /\ ~Held(recvq, x)
                    /\ x \notin working[p] /\ ~Held(inbox[p], x) /\ ~Held(outbox'[p], x)
                    /\ x # NoReq
  BY <1>1, <1>2, <1>3, NoReqIsNone DEF MargoHas, ReceiverHas, AtMargo
<1>5. /\ recvq' \in Line /\ Once(recvq')
      /\ \A r : Held(recvq', r) => Held(recvq, r) \/ r = x
  <2>1. CASE recvq' = recvq
    BY <1>1, <2>1 DEF RequestTypes, LinesAsk, NoneTwice
  <2>2. CASE recvq' = Append(recvq, x)
    BY <1>1, <1>2, <1>4, <2>2, AppendHeld DEF RequestTypes, LinesAsk, NoneTwice
  <2> QED
    BY <2>1, <2>2 DEF x
<1>6. \A r : \A q \in Procs : AtMargo(r, q)' => AtMargo(r, q)
  BY <1>2, <1>3 DEF AtMargo
<1>7. RequestTypes' /\ LinesAsk' /\ NoneTwice' /\ ErrorMeansUnsent'
  BY <1>1, <1>2, <1>3, <1>5 DEF RequestInv, RequestTypes, LinesAsk, NoneTwice, ErrorMeansUnsent
<1>8. SenderHas'
  BY <1>1 DEF SenderHas, Uncalled
<1>9. MargoHas'
  BY <1>1, <1>2, <1>3, <1>6 DEF MargoHas, Uncalled
<1>10. ReceiverHas'
  <2> SUFFICES ASSUME NEW r \in Reqs, Held(recvq', r)
               PROVE  /\ Uncalled(r)' /\ sentTo'[r] # NoProc
                      /\ \A q \in Procs : ~AtMargo(r, q)'
    BY DEF ReceiverHas
  <2>1. CASE Held(recvq, r)
    BY <1>1, <1>6, <2>1 DEF ReceiverHas, Uncalled
  <2>2. CASE r = x
    <3>1. Uncalled(r)' /\ sentTo'[r] = p /\ p # NoProc
      BY <1>4, <2>2 DEF Uncalled, Procs, NoProc
    <3>2. ~AtMargo(r, p)'
      BY <1>4, <2>2 DEF AtMargo
    <3>3. \A q \in Procs : AtMargo(r, q) => sentTo[r] = q
      BY <1>1 DEF MargoHas
    <3> QED
      BY <1>6, <3>1, <3>2, <3>3
  <2> QED
    BY <1>5, <2>1, <2>2
<1> QED
  BY <1>7, <1>8, <1>9, <1>10 DEF RequestInv

\* The receiver answers a request that is registered: it has not been called back.
LEMMA ReceiveRequest == ASSUME RequestInv, Recv PROVE RequestInv'
<1> DEFINE x == Head(recvq)
<1>1. /\ RequestTypes /\ LinesAsk /\ NoneTwice /\ SenderHas /\ MargoHas /\ ReceiverHas
      /\ ErrorMeansUnsent /\ recvq # <<>> /\ recvq' = Tail(recvq)
      /\ UNCHANGED <<sendq, sender, req, inbox, working, outbox, sentTo>>
      /\ \/ UNCHANGED calls
         \/ x \in handlers /\ Callback(x, "answer")
  BY DEF RequestInv, Recv, senderVars, procVars
<1>2. /\ x \in Reqs \cup {NoReq} /\ recvq' \in Line /\ Held(recvq, x) /\ Once(recvq')
      /\ \A r : Held(recvq', r) => Held(recvq, r) /\ (r = x => r = NoReq)
  BY <1>1, TailHeld DEF RequestTypes, LinesAsk, NoneTwice
<1> HIDE DEF x
<1>3. /\ calls' \in [Reqs -> Outcomes]
      /\ \A r \in Reqs : \/ calls'[r] = calls[r]
                         \/ r = x /\ calls'[r] = <<"answer">>
  <2>1. CASE UNCHANGED calls
    BY <1>1, <2>1 DEF RequestTypes
  <2>2. CASE Callback(x, "answer") /\ x \in Reqs
    <3>1. calls[x] = <<>>
      BY <1>1, <1>2, <2>2 DEF ReceiverHas, Uncalled
    <3>2. calls' = [calls EXCEPT ![x] = <<"answer">>]
      BY <2>2, <3>1 DEF Callback
    <3> QED
      BY <1>1, <2>2, <3>2 DEF RequestTypes, Outcomes
  <2>3. CASE Callback(x, "answer") /\ x \notin Reqs
    <3>1. calls' = calls
      BY <1>1, <2>3 DEF Callback, RequestTypes
    <3> QED
      BY <1>1, <3>1 DEF RequestTypes
  <2> QED
    BY <1>1, <2>1, <2>2, <2>3
<1>4. x \in Reqs => /\ sentTo[x] # NoProc /\ ~Held(recvq', x) /\ Held(recvq, x)
                    /\ \A p \in Procs : ~AtMargo(x, p)
  BY <1>1, <1>2, NoReqIsNone DEF ReceiverHas
<1>5. RequestTypes' /\ LinesAsk' /\ NoneTwice'
  BY <1>1, <1>2, <1>3 DEF RequestTypes, LinesAsk, NoneTwice
<1>6. ErrorMeansUnsent'
  BY <1>1, <1>3 DEF ErrorMeansUnsent
<1>7. SenderHas'
  BY <1>1, <1>3, <1>4 DEF SenderHas, Uncalled
<1>8. MargoHas' /\ ReceiverHas'
  BY <1>1, <1>2, <1>3, <1>4, NoReqIsNone DEF MargoHas, ReceiverHas, AtMargo, Uncalled
<1> QED
  BY <1>5, <1>6, <1>7, <1>8 DEF RequestInv

\* A process hands a request on, from its input to its work and from there to its output.
LEMMA MargoRequest ==
  ASSUME RequestInv, NEW p \in Procs, MargoReads(p) \/ MargoAnswers(p)
  PROVE  RequestInv'
<1>1. /\ RequestTypes /\ LinesAsk /\ NoneTwice /\ SenderHas /\ MargoHas /\ ReceiverHas
      /\ UNCHANGED <<sendq, recvq, sender, req, calls, sentTo>>
  BY DEF RequestInv, MargoReads, MargoAnswers, queueVars, senderVars, callVars
<1>2. SUFFICES
        /\ inbox' \in [Procs -> Line] /\ outbox' \in [Procs -> Line]
        /\ working' \in [Procs -> SUBSET Reqs]
        /\ ~Held(inbox'[p], NoReq) /\ Once(inbox'[p]) /\ Once(outbox'[p])
        /\ \A q \in Procs \ {p} : /\ inbox'[q] = inbox[q] /\ outbox'[q] = outbox[q]
                                  /\ working'[q] = working[q]
        /\ \A r \in Reqs :
             /\ AtMargo(r, p)' => AtMargo(r, p)
             /\ ~(Held(inbox'[p], r) /\ r \in working'[p])
             /\ ~(Held(inbox'[p], r) /\ Held(outbox'[p], r))
             /\ ~(r \in working'[p] /\ Held(outbox'[p], r))
  <2>1. RequestTypes' /\ LinesAsk' /\ NoneTwice'
    BY <1>1, <1>2 DEF RequestTypes, LinesAsk, NoneTwice
  <2>2. ErrorMeansUnsent' /\ SenderHas'
    BY <1>1 DEF RequestInv, ErrorMeansUnsent, SenderHas, Uncalled
  <2>3. \A r \in Reqs : \A q \in Procs : AtMargo(r, q)' => AtMargo(r, q)
    BY <1>2 DEF AtMargo
  <2>4. MargoHas'
    BY <1>1, <1>2, <2>3 DEF MargoHas, Uncalled
  <2>5. ReceiverHas'
    BY <1>1, <2>3 DEF ReceiverHas, Uncalled
  <2> QED
    BY <2>1, <2>2, <2>4, <2>5 DEF RequestInv
<1>3. CASE MargoReads(p)
  <2> DEFINE x == Head(inbox[p])
  <2>1. /\ inbox[p] # <<>> /\ inbox' = [inbox EXCEPT ![p] = Tail(@)]
        /\ working' = [working EXCEPT ![p] = @ \cup {x}] /\ outbox' = outbox
    BY <1>3 DEF MargoReads
  <2>2. /\ x \in Reqs \cup {NoReq} /\ Tail(inbox[p]) \in Line /\ Held(inbox[p], x)
        /\ Once(Tail(inbox[p]))
        /\ \A r : Held(Tail(inbox[p]), r) => Held(inbox[p], r) /\ (r = x => r = NoReq)
    BY <1>1, <2>1, TailHeld DEF RequestTypes, LinesAsk, NoneTwice
  <2> HIDE DEF x
  <2>3. x \in Reqs /\ x # NoReq
    BY <1>1, <2>2 DEF LinesAsk
  <2>4. /\ inbox' \in [Procs -> Line] /\ inbox'[p] = Tail(inbox[p])
        /\ working' \in [Procs -> SUBSET Reqs] /\ working'[p] = working[p] \cup {x}
        /\ \A q \in Procs \ {p} : inbox'[q] = inbox[q] /\ working'[q] = working[q]
    BY <1>1, <2>1, <2>2, <2>3 DEF RequestTypes
  <2> QED
    BY <1>1, <2>1, <2>2, <2>3, <2>4 DEF RequestTypes, LinesAsk, NoneTwice, MargoHas, AtMargo
<1>4. CASE MargoAnswers(p)
  <2>1. PICK x \in working[p] : \E y \in {x, NoReq} :
          /\ working' = [working EXCEPT ![p] = @ \ {x}]
          /\ outbox' = [outbox EXCEPT ![p] = Append(@, y)] /\ inbox' = inbox
    BY <1>4 DEF MargoAnswers
  <2>6. PICK y \in {x, NoReq} :
          /\ working' = [working EXCEPT ![p] = @ \ {x}]
          /\ outbox' = [outbox EXCEPT ![p] = Append(@, y)] /\ inbox' = inbox
    BY <2>1
  <2>2. x \in Reqs /\ x # NoReq /\ ~Held(outbox[p], x) /\ ~Held(inbox[p], x)
    BY <1>1, NoReqIsNone DEF RequestTypes, MargoHas
  <2>3. /\ Append(outbox[p], y) \in Line /\ Once(Append(outbox[p], y))
        /\ \A r : Held(Append(outbox[p], y), r) <=> Held(outbox[p], r) \/ r = y
    BY <1>1, <2>2, <2>6, AppendHeld DEF RequestTypes, LinesAsk, NoneTwice
  <2>4. /\ outbox' \in [Procs -> Line] /\ outbox'[p] = Append(outbox[p], y)
        /\ working' \in [Procs -> SUBSET Reqs] /\ working'[p] = working[p] \ {x}
        /\ \A q \in Procs \ {p} : outbox'[q] = outbox[q] /\ working'[q] = working[q]
    BY <1>1, <2>3, <2>6 DEF RequestTypes
  <2> QED
    BY <1>1, <2>2, <2>3, <2>4, <2>6, NoReqIsNone DEF RequestTypes, LinesAsk, NoneTwice, MargoHas, AtMargo
<1> QED
  BY <1>3, <1>4

\* The rest of the sender's steps: they end a request with an error, write it, or leave
\* it as it was.
LEMMA SendRequest == ASSUME ServerInv, RequestInv, SendLoop PROVE RequestInv'
<1> USE DEF queueVars, instVars, procVars, callVars, userVars
<1>1. CASE SendTake
  BY <1>1, TakeRequest
<1>2. CASE SendStart \/ SendStarted
  <2>1. /\ sender # "idle" /\ sender' # "idle"
        /\ UNCHANGED <<sendq, recvq, req, inbox, working, outbox, calls, sentTo>>
    BY <1>2 DEF SendStart, SendStarted
  <2> QED
    BY <2>1, RequestSame
<1>3. CASE SendCannotStart
  BY <1>3, ErrorRequest DEF SendCannotStart, Abort
<1>4. CASE SendRegister
  <2>1. /\ sender # "idle"
        /\ UNCHANGED <<sendq, recvq, inbox, working, outbox, sentTo>>
    BY <1>4 DEF SendRegister
  <2>2. CASE sender' = "writing" /\ UNCHANGED <<req, calls>>
    BY <2>1, <2>2, RequestSame
  <2>3. CASE Callback(req, "error") /\ sender' = "idle" /\ req' = NoReq
    BY <2>1, <2>3, ErrorRequest
  <2> QED
    BY <1>4, <2>2, <2>3 DEF SendRegister
<1>5. CASE SendWrite
  <2>1. /\ sender # "idle" /\ sender' = "idle" /\ req' = NoReq
        /\ UNCHANGED <<recvq, working, outbox>>
    BY <1>5 DEF SendWrite
  <2>2. CASE sproc \in alive \cap open
    <3>1. /\ inbox' = [inbox EXCEPT ![sproc] = Append(@, req)]
          /\ sentTo' = [sentTo EXCEPT ![req] = sproc] /\ UNCHANGED <<calls, sendq>>
      BY <1>5, <2>2 DEF SendWrite
    <3>2. sproc \in Procs
      BY <2>2, StartedAreProcs DEF ServerInv
    <3> QED
      BY <2>1, <3>1, <3>2, WriteRequest
  <2>3. CASE sproc \notin alive \cap open
    <3>1. Callback(req, "error") /\ UNCHANGED <<sendq, inbox, sentTo>>
      BY <1>5, <2>3 DEF SendWrite, SendqAfterError
    <3> QED
      BY <2>1, <3>1, ErrorRequest
  <2> QED
    BY <2>2, <2>3
<1> QED
  BY <1>1, <1>2, <1>3, <1>4, <1>5 DEF SendLoop

LEMMA InstallRequest ==
  ASSUME ServerInv, RequestInv, NEW i \in Installers, Install(i) PROVE RequestInv'
<1>1. UNCHANGED <<sendq, recvq, req, inbox, working, outbox, calls, sentTo>>
  BY DEF Install, InstallLook, InstallClaim, InstallBuilt, InstallKill, queueVars,
         senderVars, procVars, callVars
<1>2. sender' = sender \/ (sender' = "waiting" /\ sender = "installing")
  <2>1. install[i] # "no"
    BY DEF Install, InstallLook, InstallClaim, InstallBuilt, InstallKill
  <2>2. i = "sender" => sender = "installing"
    BY <2>1 DEF ServerInv, SenderInstalls
  <2> QED
    BY <2>2 DEF Install, InstallLook, InstallClaim, InstallBuilt, InstallKill, Returns,
                senderVars
<1> QED
  BY <1>1, <1>2, RequestSame

LEMMA RequestStep == ServerInv /\ RequestInv /\ [Next]_vars => RequestInv'
<1> SUFFICES ASSUME ServerInv, RequestInv, [Next]_vars PROVE RequestInv'
  OBVIOUS
<1> USE DEF queueVars, instVars, senderVars, procVars, readVars, callVars, userVars
<1>1. ASSUME NEW r \in Reqs, Acall(r) PROVE RequestInv'
  BY <1>1, AskRequest DEF Acall
<1>2. ASSUME NEW r \in Blocking, Bcall(r) PROVE RequestInv'
  <2>1. r \in Reqs
    BY Mg9Assumption
  <2>2. CASE sendq' = Append(sendq, r)
    BY <1>2, <2>1, <2>2, AskRequest DEF Bcall
  <2>3. CASE UNCHANGED sendq
    <3>1. UNCHANGED <<sendq, recvq, sender, req, inbox, working, outbox, calls, sentTo>>
      BY <1>2, <2>3 DEF Bcall
    <3> QED
      BY <3>1, RequestSame
  <2> QED
    BY <1>2, <2>2, <2>3 DEF Bcall
<1>3. ASSUME NEW r \in Blocking, BcallReturns(r) PROVE RequestInv'
  <2>1. UNCHANGED <<sendq, recvq, sender, req, inbox, working, outbox, calls, sentTo>>
    BY <1>3 DEF BcallReturns
  <2> QED
    BY <2>1, RequestSame
<1>4. ASSUME NEW i \in Installers, Install(i) PROVE RequestInv'
  BY <1>4, InstallRequest
<1>5. ASSUME NEW p \in Procs, Read(p) PROVE RequestInv'
  <2>1. CASE ReaderStarts(p) \/ ReaderStops(p)
    <3>1. UNCHANGED <<sendq, recvq, sender, req, inbox, working, outbox, calls, sentTo>>
      BY <2>1 DEF ReaderStarts, ReaderStops
    <3> QED
      BY <3>1, RequestSame
  <2>2. CASE ReaderReads(p)
    <3>1. reads[p] \in Procs
      BY <2>2, StartedAreProcs DEF ServerInv, ReaderReads
    <3>2. recvq' \in {recvq, Append(recvq, Head(outbox[reads[p]]))}
      BY <2>2 DEF ReaderReads
    <3> QED
      BY <2>2, <3>1, <3>2, ReadRequest DEF ReaderReads
  <2> QED
    BY <1>5, <2>1, <2>2 DEF Read
<1>6. ASSUME NEW p \in Procs, Margo(p) \/ MargoDies(p) PROVE RequestInv'
  <2>1. CASE MargoReads(p) \/ MargoAnswers(p)
    BY <2>1, MargoRequest
  <2>2. CASE MargoExits(p) \/ MargoDies(p)
    <3>1. UNCHANGED <<sendq, recvq, sender, req, inbox, working, outbox, calls, sentTo>>
      BY <2>2 DEF MargoExits, MargoDies
    <3> QED
      BY <3>1, RequestSame
  <2> QED
    BY <1>6, <2>1, <2>2 DEF Margo
<1>7. CASE SendLoop
  BY <1>7, SendRequest
<1>8. CASE Recv
  BY <1>8, ReceiveRequest
<1>9. CASE Rebuild
  <2>1. UNCHANGED <<sendq, recvq, sender, req, inbox, working, outbox, calls, sentTo>>
    BY <1>9 DEF Rebuild
  <2> QED
    BY <2>1, RequestSame
<1>10. CASE UNCHANGED vars
  <2>1. UNCHANGED <<sendq, recvq, sender, req, inbox, working, outbox, calls, sentTo>>
    BY <1>10 DEF vars
  <2> QED
    BY <2>1, RequestSame
<1> QED
  BY <1>1, <1>2, <1>3, <1>4, <1>5, <1>6, <1>7, <1>8, <1>9, <1>10 DEF Next

\* A callback is called once, whoever calls it, the sender with an error or the receiver
\* with an answer, although what could not be written stays registered.
THEOREM CallbacksAreCalledOnce == Spec => []CallbackOnce
<1>1. RequestInv => CallbackOnce
  <2> SUFFICES ASSUME RequestInv, NEW r \in Reqs PROVE Len(calls[r]) <= 1
    BY DEF CallbackOnce
  <2>1. calls[r] \in Outcomes
    BY DEF RequestInv, RequestTypes
  <2>2. \A o \in Outcomes : Len(o) \in {0, 1}
    <3>1. Len(<<>>) = 0 /\ \A x : Len(<<x>>) = 1
      OBVIOUS
    <3> QED
      BY <3>1, Zenon DEF Outcomes
  <2>3. \A n \in {0, 1} : n <= 1
    OBVIOUS
  <2> QED
    BY <2>1, <2>2, <2>3
<1> QED
  BY <1>1, ServerInit, ServerStep, RequestInit, RequestStep, PTL DEF Spec

\* Who is told of an error can try again, although the process may be killed or die
\* between the look at it and the write.
THEOREM ErrorsAreOfUnsent == Spec => []ErrorMeansUnsent
<1>1. RequestInv => ErrorMeansUnsent
  BY DEF RequestInv
<1> QED
  BY <1>1, ServerInit, ServerStep, RequestInit, RequestStep, PTL DEF Spec

-----------------------------------------------------------------------------
(* No request is lost. *)

\* What has been sent is registered until it is called back, and it was sent to a
\* process that has been started.
RegisteredInv ==
  /\ sender = "writing" => req \in handlers
  /\ \A r \in Reqs : /\ sentTo[r] \in 0..started
                     /\ sentTo[r] # NoProc /\ Uncalled(r) => r \in handlers

\* Somebody has r who is going to see to it: the sender, with its queue, the process that
\* it was sent to, or the receiver, which knows what to call.
Placed(r) ==
  \/ Held(sendq, r) \/ r = req
  \/ sentTo[r] # NoProc /\ AtMargo(r, sentTo[r])
  \/ Held(recvq, r) /\ r \in handlers

\* Or its callback has been called, or it is known to be beyond answering: the process
\* that had it has died or was killed, or it was answered without its token.
Kept(r) == Placed(r) \/ ~Uncalled(r) \/ Unanswerable(r)

\* What AcallsAnswered takes no fairness to see to: a request that has been asked is
\* never dropped on its way through the queues, the threads and the processes.
NoRequestIsLost == [][\A r \in Reqs : Kept(r) => Kept(r)']_vars

LEMMA RegisteredInit == Init => RegisteredInv
<1> SUFFICES ASSUME Init PROVE RegisteredInv
  OBVIOUS
<1>1. sender = "idle" /\ started = 0 /\ sentTo = [r \in Reqs |-> NoProc]
  BY DEF Init
<1> QED
  BY <1>1 DEF RegisteredInv, NoProc

\* What is no concern of the handlers.
LEMMA RegisteredSame ==
  ASSUME RegisteredInv, ServerInv, UNCHANGED <<handlers, calls, sentTo>>,
         started' \in {started, started + 1},
         sender' = "writing" => sender = "writing" /\ req' = req
  PROVE  RegisteredInv'
<1>1. started \in Nat
  BY StartedAreProcs DEF ServerInv
<1>2. \A n \in 0..started : n \in 0..started'
  BY <1>1
<1> QED
  BY <1>2 DEF RegisteredInv, Uncalled

LEMMA RegisteredStep ==
  ServerInv /\ RequestInv /\ RegisteredInv /\ [Next]_vars => RegisteredInv'
<1> SUFFICES ASSUME ServerInv, RequestInv, RegisteredInv, [Next]_vars PROVE RegisteredInv'
  OBVIOUS
<1> USE DEF queueVars, instVars, senderVars, procVars, readVars, callVars, userVars
<1>1. /\ sender = "writing" => req \in handlers
      /\ \A r \in Reqs : /\ sentTo[r] \in 0..started
                         /\ sentTo[r] # NoProc /\ Uncalled(r) => r \in handlers
      /\ RequestTypes /\ SenderHas /\ ReceiverHas
  BY DEF RegisteredInv, RequestInv
<1>2. ASSUME Callback(req, "error"), sender' = "idle", handlers \subseteq handlers',
             UNCHANGED <<sentTo, started>>, sender # "idle"
      PROVE  RegisteredInv'
  <2>1. req \in Reqs /\ sentTo[req] = NoProc
    BY <1>1, <1>2 DEF SenderHas, RequestTypes
  <2>2. \A r \in Reqs \ {req} : calls'[r] = calls[r]
    BY <1>1, <1>2 DEF Callback, RequestTypes
  <2> QED
    BY <1>1, <1>2, <2>1, <2>2 DEF RegisteredInv, Uncalled
<1>3. ASSUME NEW r \in Reqs, Acall(r) PROVE RegisteredInv'
  <2>1. UNCHANGED <<handlers, calls, sentTo, started, sender, req>>
    BY <1>3 DEF Acall
  <2> QED
    BY <2>1, RegisteredSame
<1>4. ASSUME NEW r \in Blocking, Bcall(r) \/ BcallReturns(r) PROVE RegisteredInv'
  <2>1. UNCHANGED <<handlers, calls, sentTo, started, sender, req>>
    BY <1>4 DEF Bcall, BcallReturns
  <2> QED
    BY <2>1, RegisteredSame
<1>5. ASSUME NEW i \in Installers, Install(i) PROVE RegisteredInv'
  <2>1. UNCHANGED <<handlers, calls, sentTo, started, req>> /\ sender' \in {sender, "waiting"}
    BY <1>5 DEF Install, InstallLook, InstallClaim, InstallBuilt, InstallKill, Returns
  <2> QED
    BY <2>1, RegisteredSame
<1>6. ASSUME NEW p \in Procs, Read(p) PROVE RegisteredInv'
  <2>1. UNCHANGED <<handlers, calls, sentTo, started, sender, req>>
    BY <1>6 DEF Read, ReaderStarts, ReaderReads, ReaderStops
  <2> QED
    BY <2>1, RegisteredSame
<1>7. ASSUME NEW p \in Procs, Margo(p) \/ MargoDies(p) PROVE RegisteredInv'
  <2>1. UNCHANGED <<handlers, calls, sentTo, started, sender, req>>
    BY <1>7 DEF Margo, MargoReads, MargoAnswers, MargoExits, MargoDies
  <2> QED
    BY <2>1, RegisteredSame
<1>8. CASE SendLoop
  <2>1. CASE SendTake \/ SendStart \/ SendStarted
    <3>1. /\ UNCHANGED <<handlers, calls, sentTo>> /\ sender' # "writing"
          /\ started' \in {started, started + 1}
      BY <2>1 DEF SendTake, SendStart, SendStarted
    <3> QED
      BY <3>1, RegisteredSame
  <2>2. CASE SendCannotStart
    BY <1>2, <2>2 DEF SendCannotStart, Abort
  <2>3. CASE SendRegister
    <3>1. /\ sender # "idle" /\ handlers' = handlers \cup {req} /\ UNCHANGED <<sentTo, started>>
      BY <2>3 DEF SendRegister
    <3>2. CASE sender' = "writing" /\ UNCHANGED <<req, calls>>
      BY <1>1, <3>1, <3>2 DEF RegisteredInv, Uncalled
    <3>3. CASE Callback(req, "error") /\ sender' = "idle"
      BY <1>2, <3>1, <3>3
    <3> QED
      BY <2>3, <3>2, <3>3 DEF SendRegister
  <2>4. CASE SendWrite
    <3>1. /\ sender = "writing" /\ sender' = "idle" /\ UNCHANGED <<handlers, started>>
      BY <2>4 DEF SendWrite
    <3>2. CASE sproc \in alive \cap open
      <4>1. sentTo' = [sentTo EXCEPT ![req] = sproc] /\ UNCHANGED calls
        BY <2>4, <3>2 DEF SendWrite
      <4>2. sproc \in 0..started
        BY DEF ServerInv, ServerTypes
      <4>3. \A r \in Reqs : sentTo'[r] = IF r = req THEN sproc ELSE sentTo[r]
        BY <1>1, <4>1 DEF RequestTypes
      <4> QED
        BY <1>1, <3>1, <4>1, <4>2, <4>3 DEF RegisteredInv, Uncalled
    <3>3. CASE sproc \notin alive \cap open
      <4>1. Callback(req, "error") /\ UNCHANGED sentTo
        BY <2>4, <3>3 DEF SendWrite
      <4> QED
        BY <1>2, <3>1, <4>1
    <3> QED
      BY <3>2, <3>3
  <2> QED
    BY <1>8, <2>1, <2>2, <2>3, <2>4 DEF SendLoop
<1>9. CASE Recv
  <2> DEFINE x == Head(recvq)
  <2>1. /\ recvq # <<>> /\ handlers' = handlers \ {x}
        /\ UNCHANGED <<sentTo, started, sender, req>>
        /\ IF x \in handlers THEN Callback(x, "answer") ELSE UNCHANGED calls
    BY <1>9 DEF Recv, HandlersAfter
  <2>2. Held(recvq, x)
    BY <2>1, TailHeld DEF RequestInv, RequestTypes, NoneTwice
  <2> HIDE DEF x
  <2>3. \A r \in Reqs \ {x} : calls'[r] = calls[r]
    BY <1>1, <2>1 DEF Callback, RequestTypes
  <2>4. ASSUME x \in Reqs PROVE calls'[x] # <<>> /\ sentTo[x] # NoProc
    <3>1. sentTo[x] # NoProc /\ Uncalled(x)
      BY <1>1, <2>2, <2>4 DEF ReceiverHas
    <3>2. x \in handlers
      BY <1>1, <2>4, <3>1
    <3>3. calls'[x] = Append(<<>>, "answer")
      BY <1>1, <2>1, <2>4, <3>1, <3>2 DEF Callback, RequestTypes, Uncalled
    <3> QED
      BY <3>1, <3>3
  <2>5. sender = "writing" => req \in handlers'
    <3>1. sender = "writing" => req \in Reqs /\ sentTo[req] = NoProc
      BY <1>1 DEF SenderHas, RequestTypes
    <3> QED
      BY <1>1, <2>1, <2>4, <3>1
  <2> QED
    BY <1>1, <2>1, <2>3, <2>4, <2>5 DEF RegisteredInv, Uncalled
<1>10. CASE Rebuild \/ UNCHANGED vars
  <2>1. UNCHANGED <<handlers, calls, sentTo, started, sender, req>>
    BY <1>10 DEF Rebuild, vars
  <2> QED
    BY <2>1, RegisteredSame
<1> QED
  BY <1>3, <1>4, <1>5, <1>6, <1>7, <1>8, <1>9, <1>10 DEF Next

LEMMA HeldTail ==
  ASSUME NEW q \in Line, q # <<>>, NEW r, Held(q, r)
  PROVE  r = Head(q) \/ Held(Tail(q), r)
<1>1. /\ Len(q) \in Nat /\ Len(Tail(q)) = Len(q) - 1 /\ Head(q) = q[1]
      /\ \A k \in 1..Len(Tail(q)) : Tail(q)[k] = q[k + 1]
  BY HeadTailProperties, LenProperties, EmptySeq DEF Line
<1>2. PICK k \in 1..Len(q) : q[k] = r
  BY DEF Held
<1>3. CASE k # 1
  <2>1. k - 1 \in 1..Len(Tail(q)) /\ (k - 1) + 1 = k
    BY <1>1, <1>3
  <2> QED
    BY <1>1, <1>2, <2>1 DEF Held
<1> QED
  BY <1>1, <1>2, <1>3

LEMMA CallbackCalls ==
  ASSUME RequestTypes, NEW x \in Reqs, NEW w, Callback(x, w)
  PROVE  calls'[x] # <<>> /\ \A r \in Reqs \ {x} : calls'[r] = calls[r]
<1>1. calls \in [Reqs -> Outcomes] /\ calls' = [calls EXCEPT ![x] = Append(calls[x], w)]
  BY DEF RequestTypes, Callback
<1>2. \A o \in Outcomes : Append(o, w) # <<>>
  <2>1. Append(<<>>, w) # <<>> /\ \A a : Append(<<a>>, w) # <<>>
    OBVIOUS
  <2> QED
    BY <2>1, Zenon DEF Outcomes
<1> QED
  BY <1>1, <1>2

\* What a step does to the processes, to what has been sent and to the callbacks.
LEMMA Effects ==
  ASSUME [Next]_vars
  PROVE  /\ unheard \subseteq unheard'
         /\ alive' \subseteq alive \cup {started + 1} /\ open' \subseteq open \cup {started + 1}
         /\ \/ sentTo' = sentTo
            \/ sender # "idle" /\ \E p : sentTo' = [sentTo EXCEPT ![req] = p]
         /\ calls' = calls \/ \E x, w : Callback(x, w)
<1> USE DEF queueVars, instVars, senderVars, procVars, readVars, callVars, userVars
<1>1. ASSUME UNCHANGED <<unheard, sentTo>>, alive' \subseteq alive, open' \subseteq open,
             calls' = calls \/ \E x, w : Callback(x, w)
      PROVE  /\ unheard \subseteq unheard'
             /\ alive' \subseteq alive \cup {started + 1}
             /\ open' \subseteq open \cup {started + 1}
             /\ \/ sentTo' = sentTo
                \/ sender # "idle" /\ \E p : sentTo' = [sentTo EXCEPT ![req] = p]
             /\ calls' = calls \/ \E x, w : Callback(x, w)
  BY <1>1
<1>2. ASSUME NEW r, Acall(r) \/ Bcall(r) \/ BcallReturns(r)
      PROVE  UNCHANGED <<unheard, sentTo, alive, open, calls>>
  BY <1>2 DEF Acall, Bcall, BcallReturns
<1>3. ASSUME NEW i, Install(i)
      PROVE  UNCHANGED <<unheard, sentTo, alive, calls>> /\ open' \subseteq open
  BY <1>3 DEF Install, InstallLook, InstallClaim, InstallBuilt, InstallKill, KillSrv
<1>4. ASSUME NEW p, Read(p)
      PROVE  UNCHANGED <<sentTo, alive, open, calls>> /\ unheard \subseteq unheard'
  BY <1>4 DEF Read, ReaderStarts, ReaderReads, ReaderStops
<1>5. ASSUME NEW p, Margo(p) \/ MargoDies(p)
      PROVE  /\ UNCHANGED <<sentTo, open, calls>> /\ unheard \subseteq unheard'
             /\ alive' \subseteq alive
  BY <1>5 DEF Margo, MargoReads, MargoAnswers, MargoExits, MargoDies
<1>6. ASSUME SendTake \/ SendStarted
      PROVE  UNCHANGED <<unheard, sentTo, alive, calls>> /\ open' \subseteq open
  BY <1>6 DEF SendTake, SendStarted, KillSrv
<1>7. ASSUME SendStart
      PROVE  /\ UNCHANGED <<unheard, sentTo, calls>>
             /\ alive' = alive \cup {started + 1} /\ open' = open \cup {started + 1}
  BY <1>7 DEF SendStart
<1>8. ASSUME SendCannotStart
      PROVE  /\ UNCHANGED <<unheard, sentTo, alive>> /\ open' \subseteq open
             /\ Callback(req, "error")
  BY <1>8 DEF SendCannotStart, KillSrv, Abort
<1>9. ASSUME SendRegister
      PROVE  /\ UNCHANGED <<unheard, sentTo, alive, open>>
             /\ calls' = calls \/ Callback(req, "error")
  BY <1>9 DEF SendRegister
<1>10. ASSUME SendWrite
       PROVE  /\ UNCHANGED <<unheard, alive>> /\ open' \subseteq open /\ sender # "idle"
              /\ sentTo' = sentTo \/ sentTo' = [sentTo EXCEPT ![req] = sproc]
              /\ calls' = calls \/ Callback(req, "error")
  BY <1>10 DEF SendWrite, KillSrv
<1>11. ASSUME Recv
       PROVE  /\ UNCHANGED <<unheard, sentTo, alive, open>>
              /\ calls' = calls \/ Callback(Head(recvq), "answer")
  BY <1>11 DEF Recv
<1>12. ASSUME Rebuild \/ UNCHANGED vars
       PROVE  UNCHANGED <<unheard, sentTo, alive, calls>> /\ open' \subseteq open
  BY <1>12 DEF Rebuild, vars, KillSrv
<1>13. CASE SendLoop
  BY <1>1, <1>6, <1>7, <1>8, <1>9, <1>10, <1>13 DEF SendLoop
<1> QED
  BY <1>1, <1>2, <1>3, <1>4, <1>5, <1>11, <1>12, <1>13 DEF Next

\* Where a request has been sent stays known, and one that is beyond answering stays so:
\* no process comes back.
LEMMA BeyondStays ==
  ASSUME ServerInv, RequestInv, RegisteredInv, [Next]_vars, NEW r \in Reqs,
         sentTo[r] # NoProc
  PROVE  sentTo'[r] = sentTo[r] /\ (Unanswerable(r) => Unanswerable(r)')
<1>1. sentTo \in [Reqs -> Procs \cup {NoProc}] /\ sentTo[r] \in 0..started
      /\ (sender # "idle" => req # r) /\ started \in Nat
  BY StartedAreProcs DEF RequestInv, RequestTypes, SenderHas, RegisteredInv, ServerInv
<1>2. sentTo'[r] = sentTo[r]
  BY <1>1, Effects
<1>3. sentTo[r] # started + 1
  BY <1>1
<1>4. /\ unheard \subseteq unheard' /\ alive' \subseteq alive \cup {started + 1}
      /\ open' \subseteq open \cup {started + 1}
  BY Effects
<1> QED
  BY <1>2, <1>3, <1>4 DEF Unanswerable

\* Who has been called back, was.
LEMMA CalledStays ==
  ASSUME RequestInv, [Next]_vars, NEW r \in Reqs, ~Uncalled(r) PROVE ~Uncalled(r)'
<1>1. RequestTypes
  BY DEF RequestInv
<1>2. CASE calls' = calls
  BY <1>2 DEF Uncalled
<1>3. ASSUME NEW x, NEW w, Callback(x, w) PROVE ~Uncalled(r)'
  <2>1. CASE x \in Reqs
    <3>1. calls'[x] # <<>> /\ \A s \in Reqs \ {x} : calls'[s] = calls[s]
      BY <1>1, <1>3, <2>1, CallbackCalls
    <3> QED
      BY <3>1 DEF Uncalled
  <2>2. CASE x \notin Reqs
    BY <1>1, <1>3, <2>2 DEF Callback, RequestTypes, Uncalled
  <2> QED
    BY <2>1, <2>2
<1> QED
  BY <1>2, <1>3, Effects

LEMMA PlacedSame ==
  ASSUME NEW r, Placed(r), handlers \subseteq handlers',
         UNCHANGED <<sendq, recvq, req, inbox, working, outbox, sentTo>>
  PROVE  Placed(r)'
BY DEF Placed, AtMargo

LEMMA AskedPlaced ==
  ASSUME RequestInv, NEW r \in Reqs, Placed(r), NEW x \in Reqs, sendq' = Append(sendq, x),
         UNCHANGED <<handlers, recvq, req, inbox, working, outbox, sentTo>>
  PROVE  Placed(r)'
<1>1. Held(sendq, r) => Held(sendq', r)
  BY AppendHeld DEF RequestInv, RequestTypes
<1> QED
  BY <1>1 DEF Placed, AtMargo

\* The sender's steps: it takes the request, and writes it or calls back with an error.
LEMMA SendPlaced ==
  ASSUME ServerInv, RequestInv, SendLoop, NEW r \in Reqs, Placed(r), Uncalled(r)'
  PROVE  Placed(r)'
<1> USE DEF queueVars, instVars, procVars, callVars, userVars
<1>1. RequestTypes /\ SenderHas
  BY DEF RequestInv
<1>2. ASSUME Callback(req, "error"), sender # "idle", handlers \subseteq handlers',
             UNCHANGED <<sendq, recvq, inbox, working, outbox, sentTo>>
      PROVE  Placed(r)'
  <2>1. r # req
    <3>1. req \in Reqs
      BY <1>1, <1>2 DEF RequestTypes, SenderHas
    <3> QED
      BY <1>1, <1>2, <3>1, CallbackCalls DEF Uncalled
  <2> QED
    BY <1>2, <2>1 DEF Placed, AtMargo
<1>3. CASE SendTake
  <2>1. /\ sender = "idle" /\ sendq # <<>> /\ req' = Head(sendq) /\ sendq' = Tail(sendq)
        /\ UNCHANGED <<handlers, recvq, inbox, working, outbox, sentTo>>
    BY <1>3 DEF SendTake
  <2>2. r # req
    BY <1>1, <2>1, NoReqIsNone DEF SenderHas
  <2>3. Held(sendq, r) => r = req' \/ Held(sendq', r)
    BY <1>1, <2>1, HeldTail DEF RequestTypes
  <2> QED
    BY <2>1, <2>2, <2>3 DEF Placed, AtMargo
<1>4. CASE SendStart \/ SendStarted
  <2>1. UNCHANGED <<handlers, sendq, recvq, req, inbox, working, outbox, sentTo>>
    BY <1>4 DEF SendStart, SendStarted
  <2> QED
    BY <2>1, PlacedSame
<1>5. CASE SendCannotStart
  BY <1>2, <1>5 DEF SendCannotStart, Abort
<1>6. CASE SendRegister
  <2>1. /\ sender # "idle" /\ handlers \subseteq handlers'
        /\ UNCHANGED <<sendq, recvq, inbox, working, outbox, sentTo>>
    BY <1>6 DEF SendRegister
  <2>2. CASE UNCHANGED req
    BY <2>1, <2>2, PlacedSame
  <2>3. CASE Callback(req, "error")
    BY <1>2, <2>1, <2>3
  <2> QED
    BY <1>6, <2>2, <2>3 DEF SendRegister
<1>7. CASE SendWrite
  <2>1. sender # "idle" /\ UNCHANGED <<handlers, recvq, working, outbox>>
    BY <1>7 DEF SendWrite
  <2>2. CASE sproc \in alive \cap open
    <3>1. /\ inbox' = [inbox EXCEPT ![sproc] = Append(@, req)]
          /\ sentTo' = [sentTo EXCEPT ![req] = sproc] /\ sendq' = sendq
      BY <1>7, <2>2 DEF SendWrite
    <3>2. sproc \in Procs /\ sproc # NoProc /\ req \in Reqs
      BY <1>1, <2>1, <2>2, StartedAreProcs
         DEF ServerInv, SenderHas, RequestTypes, Procs, NoProc
    <3>3. \A s : Held(inbox'[sproc], s) <=> Held(inbox[sproc], s) \/ s = req
      BY <1>1, <3>1, <3>2, AppendHeld DEF RequestTypes
    <3>4. CASE r = req
      <4>1. sentTo'[r] = sproc /\ Held(inbox'[sproc], r)
        BY <1>1, <3>1, <3>2, <3>3, <3>4 DEF RequestTypes
      <4> QED
        BY <3>2, <4>1 DEF Placed, AtMargo
    <3>5. CASE r # req
      <4>1. sentTo'[r] = sentTo[r]
        BY <1>1, <3>1, <3>5 DEF RequestTypes
      <4>2. \A p \in Procs : Held(inbox[p], r) => Held(inbox'[p], r)
        BY <1>1, <3>1, <3>3 DEF RequestTypes
      <4>3. sentTo[r] # NoProc => sentTo[r] \in Procs
        BY <1>1 DEF RequestTypes
      <4> QED
        BY <2>1, <3>1, <3>5, <4>1, <4>2, <4>3 DEF Placed, AtMargo
    <3> QED
      BY <3>4, <3>5
  <2>3. CASE sproc \notin alive \cap open
    <3>1. Callback(req, "error") /\ UNCHANGED <<inbox, sentTo, sendq>>
      BY <1>7, <2>3 DEF SendWrite, SendqAfterError
    <3> QED
      BY <1>2, <2>1, <3>1
  <2> QED
    BY <2>2, <2>3
<1> QED
  BY <1>3, <1>4, <1>5, <1>6, <1>7 DEF SendLoop

\* A reader hands a line on, unless another garbles it.
LEMMA ReadPlaced ==
  ASSUME ServerInv, RequestInv, RegisteredInv, NEW p \in Procs, ReaderReads(p),
         NEW r \in Reqs, Placed(r), ~Unanswerable(r)'
  PROVE  Placed(r)'
<1> DEFINE q == reads[p]
           x == Head(outbox[q])
<1>1. RequestTypes /\ MargoHas /\ open \subseteq Procs
  BY StartedAreProcs DEF RequestInv, ServerInv
<1>2. /\ q \in Procs /\ outbox[q] # <<>> /\ outbox' = [outbox EXCEPT ![q] = Tail(outbox[q])]
      /\ UNCHANGED <<handlers, sendq, req, inbox, working, sentTo>>
      /\ \/ recvq' = Append(recvq, x)
         \/ recvq' = recvq /\ unheard' = unheard \cup ({x} \ {NoReq})
  BY <1>1 DEF ReaderReads, senderVars
<1>3. Held(recvq, r) => Held(recvq', r)
  <2>1. x \in Reqs \cup {NoReq}
    BY <1>1, <1>2, HeadTailProperties, EmptySeq DEF RequestTypes, Line
  <2>2. recvq \in Line
    BY <1>1 DEF RequestTypes
  <2>3. recvq' = Append(recvq, x) => (Held(recvq', r) <=> Held(recvq, r) \/ r = x)
    BY <2>1, <2>2, AppendHeld
  <2> QED
    BY <1>2, <2>3
<1>4. r = x /\ recvq' = Append(recvq, x) => Held(recvq', r)
  <2>2. recvq \in Line
    BY <1>1 DEF RequestTypes
  <2> QED
    BY <2>2, AppendHeld
<1>5. CASE sentTo[r] # NoProc /\ AtMargo(r, sentTo[r])
  <2>1. CASE sentTo[r] = q /\ Held(outbox[q], r)
    <3>1. r = x \/ Held(outbox'[q], r)
      <4>1. outbox[q] \in Line /\ outbox'[q] = Tail(outbox[q])
        BY <1>1, <1>2 DEF RequestTypes
      <4> QED
        BY <1>2, <2>1, <4>1, HeldTail
    <3>2. CASE Held(outbox'[q], r)
      BY <1>2, <1>5, <2>1, <3>2 DEF Placed, AtMargo
    <3>3. CASE r = x
      <4>1. r \in handlers /\ r # NoReq
        BY <1>1, <1>2, <1>5, <2>1, NoReqIsNone DEF MargoHas, RegisteredInv
      <4>2. r \notin unheard'
        BY <1>2, <1>5 DEF Unanswerable
      <4>3. Held(recvq', r)
        BY <1>2, <1>4, <3>3, <4>1, <4>2
      <4> QED
        BY <1>2, <4>1, <4>3 DEF Placed
    <3> QED
      BY <3>1, <3>2, <3>3
  <2>2. CASE sentTo[r] # q \/ ~Held(outbox[q], r)
    <3>1. sentTo[r] \in Procs
      BY <1>1, <1>5 DEF RequestTypes
    <3>2. Held(outbox[sentTo[r]], r) => Held(outbox'[sentTo[r]], r)
      BY <1>1, <1>2, <2>2, <3>1 DEF RequestTypes
    <3> QED
      BY <1>2, <1>5, <3>2 DEF Placed, AtMargo
  <2> QED
    BY <2>1, <2>2
<1>6. CASE Held(sendq, r) \/ r = req \/ (Held(recvq, r) /\ r \in handlers)
  BY <1>2, <1>3, <1>6 DEF Placed
<1> QED
  BY <1>5, <1>6 DEF Placed

LEMMA ReceivePlaced ==
  ASSUME RequestInv, Recv, NEW r \in Reqs, Placed(r), Uncalled(r)'
  PROVE  Placed(r)'
<1> DEFINE x == Head(recvq)
<1>1. RequestTypes
  BY DEF RequestInv
<1>2. /\ recvq # <<>> /\ recvq' = Tail(recvq) /\ handlers' = handlers \ {x}
      /\ x \in handlers => Callback(x, "answer")
      /\ UNCHANGED <<sendq, req, inbox, working, outbox, sentTo>>
  BY DEF Recv, HandlersAfter, senderVars, procVars
<1>3. Held(recvq, r) => r = x \/ Held(recvq', r)
  BY <1>1, <1>2, HeldTail DEF RequestTypes
<1>4. ~(r = x /\ x \in handlers)
  BY <1>1, <1>2, CallbackCalls DEF Uncalled
<1> QED
  BY <1>2, <1>3, <1>4 DEF Placed, AtMargo

\* A process hands a request on, unless it answers without its token.
LEMMA MargoPlaced ==
  ASSUME RequestInv, NEW p \in Procs, MargoReads(p) \/ MargoAnswers(p),
         NEW r \in Reqs, Placed(r), ~Unanswerable(r)'
  PROVE  Placed(r)'
<1>1. RequestTypes /\ UNCHANGED <<handlers, sendq, recvq, req, sentTo>>
  BY DEF RequestInv, MargoReads, MargoAnswers, queueVars, senderVars, callVars
<1>2. SUFFICES ASSUME sentTo[r] # NoProc, AtMargo(r, sentTo[r])
               PROVE  AtMargo(r, sentTo[r])'
  BY <1>1 DEF Placed
<1>3. sentTo[r] \in Procs /\ sentTo'[r] = sentTo[r]
  BY <1>1, <1>2 DEF RequestTypes
<1>4. CASE MargoReads(p)
  <2>1. /\ inbox[p] # <<>> /\ inbox' = [inbox EXCEPT ![p] = Tail(inbox[p])]
        /\ working' = [working EXCEPT ![p] = working[p] \cup {Head(inbox[p])}]
        /\ outbox' = outbox
    BY <1>4 DEF MargoReads
  <2>2. Held(inbox[p], r) => r \in working'[p] \/ Held(inbox'[p], r)
    BY <1>1, <2>1, HeldTail DEF RequestTypes
  <2>3. \A q \in Procs : /\ r \in working[q] => r \in working'[q]
                         /\ q # p => inbox'[q] = inbox[q]
    BY <1>1, <2>1 DEF RequestTypes
  <2> QED
    BY <1>2, <1>3, <2>1, <2>2, <2>3 DEF AtMargo
<1>5. CASE MargoAnswers(p)
  <2>1. PICK x \in working[p] :
          /\ working' = [working EXCEPT ![p] = working[p] \ {x}] /\ inbox' = inbox
          /\ \/ outbox' = [outbox EXCEPT ![p] = Append(outbox[p], x)]
             \/ /\ outbox' = [outbox EXCEPT ![p] = Append(outbox[p], NoReq)]
                /\ unheard' = unheard \cup {x}
    BY <1>5 DEF MargoAnswers
  <2>2. PICK y \in {x, NoReq} :
          /\ outbox' = [outbox EXCEPT ![p] = Append(outbox[p], y)]
          /\ y = x \/ x \in unheard'
    BY <2>1
  <2>3. x \in Reqs /\ outbox[p] \in Line
    BY <1>1 DEF RequestTypes
  <2>4. \A s : Held(Append(outbox[p], y), s) <=> Held(outbox[p], s) \/ s = y
    BY <2>3, AppendHeld
  <2>5. /\ outbox'[p] = Append(outbox[p], y) /\ working'[p] = working[p] \ {x}
        /\ \A q \in Procs \ {p} : outbox'[q] = outbox[q] /\ working'[q] = working[q]
    BY <1>1, <2>1, <2>2 DEF RequestTypes
  <2>6. r = x => r = y
    BY <1>2, <1>3, <2>2 DEF Unanswerable
  <2> QED
    BY <1>2, <1>3, <2>1, <2>4, <2>5, <2>6 DEF AtMargo
<1> QED
  BY <1>4, <1>5

LEMMA PlacedStays ==
  ASSUME ServerInv, RequestInv, RegisteredInv, [Next]_vars, NEW r \in Reqs, Placed(r),
         Uncalled(r)', ~Unanswerable(r)'
  PROVE  Placed(r)'
<1> USE DEF queueVars, instVars, senderVars, procVars, readVars, callVars, userVars
<1>1. ASSUME NEW x \in Reqs, Acall(x) PROVE Placed(r)'
  BY <1>1, AskedPlaced DEF Acall
<1>2. ASSUME NEW x \in Blocking, Bcall(x) PROVE Placed(r)'
  <2>1. x \in Reqs
    BY Mg9Assumption
  <2>2. CASE sendq' = Append(sendq, x)
    BY <1>2, <2>1, <2>2, AskedPlaced DEF Bcall
  <2>3. CASE UNCHANGED sendq
    <3>1. UNCHANGED <<handlers, sendq, recvq, req, inbox, working, outbox, sentTo>>
      BY <1>2, <2>3 DEF Bcall
    <3> QED
      BY <3>1, PlacedSame
  <2> QED
    BY <1>2, <2>2, <2>3 DEF Bcall
<1>3. ASSUME NEW x \in Blocking, BcallReturns(x) PROVE Placed(r)'
  <2>1. UNCHANGED <<handlers, sendq, recvq, req, inbox, working, outbox, sentTo>>
    BY <1>3 DEF BcallReturns
  <2> QED
    BY <2>1, PlacedSame
<1>4. ASSUME NEW i \in Installers, Install(i) PROVE Placed(r)'
  <2>1. UNCHANGED <<handlers, sendq, recvq, req, inbox, working, outbox, sentTo>>
    BY <1>4 DEF Install, InstallLook, InstallClaim, InstallBuilt, InstallKill
  <2> QED
    BY <2>1, PlacedSame
<1>5. ASSUME NEW p \in Procs, Read(p) PROVE Placed(r)'
  <2>1. CASE ReaderStarts(p) \/ ReaderStops(p)
    <3>1. UNCHANGED <<handlers, sendq, recvq, req, inbox, working, outbox, sentTo>>
      BY <2>1 DEF ReaderStarts, ReaderStops
    <3> QED
      BY <3>1, PlacedSame
  <2>2. CASE ReaderReads(p)
    BY <2>2, ReadPlaced
  <2> QED
    BY <1>5, <2>1, <2>2 DEF Read
<1>6. ASSUME NEW p \in Procs, Margo(p) \/ MargoDies(p) PROVE Placed(r)'
  <2>1. CASE MargoReads(p) \/ MargoAnswers(p)
    BY <2>1, MargoPlaced
  <2>2. CASE MargoExits(p) \/ MargoDies(p)
    <3>1. UNCHANGED <<handlers, sendq, recvq, req, inbox, working, outbox, sentTo>>
      BY <2>2 DEF MargoExits, MargoDies
    <3> QED
      BY <3>1, PlacedSame
  <2> QED
    BY <1>6, <2>1, <2>2 DEF Margo
<1>7. CASE SendLoop
  BY <1>7, SendPlaced
<1>8. CASE Recv
  BY <1>8, ReceivePlaced
<1>9. CASE Rebuild \/ UNCHANGED vars
  <2>1. UNCHANGED <<handlers, sendq, recvq, req, inbox, working, outbox, sentTo>>
    BY <1>9 DEF Rebuild, vars
  <2> QED
    BY <2>1, PlacedSame
<1> QED
  BY <1>1, <1>2, <1>3, <1>4, <1>5, <1>6, <1>7, <1>8, <1>9 DEF Next

\* A request that has been asked is never dropped: however the threads, the processes, the
\* installers and the rebuilds interleave, somebody has it until its callback is called,
\* or the process that had it is gone or has answered without its token.
THEOREM RequestsAreNotLost == Spec => NoRequestIsLost
<1>1. ASSUME ServerInv, RequestInv, RegisteredInv, [Next]_vars
      PROVE  \A r \in Reqs : Kept(r) => Kept(r)'
  <2> SUFFICES ASSUME NEW r \in Reqs, Kept(r) PROVE Kept(r)'
    OBVIOUS
  <2>1. CASE ~Uncalled(r)
    BY <1>1, <2>1, CalledStays DEF Kept
  <2>2. CASE Unanswerable(r)
    <3>1. sentTo[r] # NoProc
      BY <2>2 DEF Unanswerable
    <3> QED
      BY <1>1, <2>2, <3>1, BeyondStays DEF Kept
  <2>3. CASE Placed(r)
    <3>1. Uncalled(r)' /\ ~Unanswerable(r)' => Placed(r)'
      BY <1>1, <2>3, PlacedStays
    <3> QED
      BY <3>1 DEF Kept
  <2> QED
    BY <2>1, <2>2, <2>3 DEF Kept
<1> QED
  BY <1>1, ServerInit, ServerStep, RequestInit, RequestStep, RegisteredInit, RegisteredStep,
     PTL DEF Spec, NoRequestIsLost

-----------------------------------------------------------------------------
(* Who waits. *)

\* What a caller of bcall has been given by the callback is the one answer to its request.
BcallsGetTheirOwn ==
  \A r \in Blocking : bcalls[r] \in {"answer", "error"} => calls[r] = <<bcalls[r]>>

BcallStates == {"no", "waits", "aborted", "timeout", "answer", "error"}

BcallInv == bcalls \in [Blocking -> BcallStates] /\ BcallsGetTheirOwn

LEMMA OutcomeIs ==
  ASSUME NEW o \in Outcomes, o # <<>>
  PROVE  o[1] \in {"answer", "error"} /\ o = <<o[1]>> /\ \A w : Append(o, w) \notin Outcomes
<1>1. PICK a \in {"answer", "error"} : o = <<a>>
  BY Zenon DEF Outcomes
<1>2. o[1] = a
  BY <1>1
<1>3. \A w : Len(Append(<<a>>, w)) = 2
  OBVIOUS
<1>4. \A p \in Outcomes : Len(p) # 2
  <2>1. Len(<<>>) # 2 /\ \A c : Len(<<c>>) # 2
    OBVIOUS
  <2> QED
    BY <2>1, Zenon DEF Outcomes
<1> QED
  BY <1>1, <1>2, <1>3, <1>4

LEMMA BcallInit == Init => BcallInv
BY DEF Init, BcallInv, BcallsGetTheirOwn, BcallStates

LEMMA BcallStep ==
  RequestInv /\ RequestInv' /\ BcallInv /\ [Next]_vars => BcallInv'
<1> SUFFICES ASSUME RequestInv, RequestInv', BcallInv, [Next]_vars PROVE BcallInv'
  OBVIOUS
<1> USE DEF queueVars, instVars, senderVars, procVars, readVars, callVars, userVars
<1>1. /\ Blocking \subseteq Reqs /\ bcalls \in [Blocking -> BcallStates]
      /\ calls \in [Reqs -> Outcomes] /\ calls' \in [Reqs -> Outcomes]
      /\ BcallsGetTheirOwn
  BY Mg9Assumption DEF RequestInv, RequestTypes, BcallInv
\* A callback that was called is not called again.
<1>2. ASSUME NEW r \in Reqs, calls[r] # <<>> PROVE calls'[r] = calls[r]
  <2>1. ASSUME NEW x, NEW w, Callback(x, w) PROVE calls'[r] = calls[r]
    <3>1. CASE x = r
      <4>1. calls'[r] = Append(calls[r], w)
        BY <1>1, <2>1, <3>1 DEF Callback
      <4> QED
        BY <1>1, <1>2, <4>1, OutcomeIs
    <3>2. CASE x # r
      BY <1>1, <2>1, <3>2 DEF Callback
    <3> QED
      BY <3>1, <3>2
  <2> QED
    BY <2>1, Effects
<1>3. CASE bcalls' = bcalls
  <2> SUFFICES ASSUME NEW r \in Blocking, bcalls[r] \in {"answer", "error"}
               PROVE  calls'[r] = <<bcalls[r]>>
    BY <1>1, <1>3 DEF BcallInv, BcallsGetTheirOwn
  <2>1. calls[r] = <<bcalls[r]>> /\ r \in Reqs
    BY <1>1 DEF BcallsGetTheirOwn
  <2>2. \A a : <<a>> # <<>>
    OBVIOUS
  <2>3. calls'[r] = calls[r]
    BY <1>2, <2>1, <2>2
  <2> QED
    BY <2>1, <2>3
<1>4. ASSUME NEW r \in Blocking, Bcall(r) PROVE BcallInv'
  <2>1. calls' = calls /\ bcalls' \in [Blocking -> BcallStates]
        /\ \A s \in Blocking : bcalls'[s] = bcalls[s] \/ bcalls'[s] \in {"waits", "aborted"}
    <3>1. /\ calls' = calls
          /\ \E to \in {"waits", "aborted"} : bcalls' = [bcalls EXCEPT ![r] = to]
      BY <1>4 DEF Bcall
    <3> QED
      BY <1>1, <3>1 DEF BcallStates
  <2>2. BcallsGetTheirOwn'
    <3> SUFFICES ASSUME NEW s \in Blocking, bcalls'[s] \in {"answer", "error"}
                 PROVE  calls'[s] = <<bcalls'[s]>>
      BY DEF BcallsGetTheirOwn
    <3>1. bcalls'[s] = bcalls[s]
      BY <2>1
    <3> QED
      BY <1>1, <2>1, <3>1 DEF BcallsGetTheirOwn
  <2> QED
    BY <2>1, <2>2 DEF BcallInv
<1>5. ASSUME NEW r \in Blocking, BcallReturns(r) PROVE BcallInv'
  <2>1. /\ calls' = calls
        /\ bcalls' = [bcalls EXCEPT ![r] = IF calls[r] # <<>> THEN calls[r][1] ELSE "timeout"]
    BY <1>5 DEF BcallReturns
  <2>2. calls[r] # <<>> => calls[r] = <<calls[r][1]>> /\ calls[r][1] \in {"answer", "error"}
    <3>1. calls[r] \in Outcomes
      BY <1>1
    <3> QED
      BY <3>1, OutcomeIs
  <2>3. /\ bcalls' \in [Blocking -> BcallStates]
        /\ \A s \in Blocking \ {r} : bcalls'[s] = bcalls[s]
        /\ bcalls'[r] = IF calls[r] # <<>> THEN calls[r][1] ELSE "timeout"
    BY <1>1, <2>1, <2>2 DEF BcallStates
  <2> QED
    BY <1>1, <2>1, <2>2, <2>3 DEF BcallInv, BcallsGetTheirOwn
<1>6. ASSUME NEW r \in Reqs, Acall(r) PROVE bcalls' = bcalls
  BY <1>6 DEF Acall
<1>7. ASSUME NEW i \in Installers, Install(i) PROVE bcalls' = bcalls
  BY <1>7 DEF Install, InstallLook, InstallClaim, InstallBuilt, InstallKill
<1>8. ASSUME NEW p \in Procs, Read(p) \/ Margo(p) \/ MargoDies(p) PROVE bcalls' = bcalls
  BY <1>8 DEF Read, ReaderStarts, ReaderReads, ReaderStops, Margo, MargoReads, MargoAnswers,
              MargoExits, MargoDies
<1>9. ASSUME SendLoop \/ Recv \/ Rebuild \/ UNCHANGED vars PROVE bcalls' = bcalls
  BY <1>9 DEF SendLoop, SendTake, SendStart, SendCannotStart, SendStarted, SendRegister,
              SendWrite, Recv, Rebuild, vars
<1> QED
  BY <1>3, <1>4, <1>5, <1>6, <1>7, <1>8, <1>9 DEF Next

\* The caller of a bcall that was not given up on has the answer to its own request, or
\* the error that says that margo has not got it, however late others are answered.
THEOREM BcallersGetTheirOwn == Spec => []BcallsGetTheirOwn
<1>1. BcallInv => BcallsGetTheirOwn
  BY DEF BcallInv
<1> QED
  BY <1>1, ServerInit, ServerStep, RequestInit, RequestStep, BcallInit, BcallStep, PTL
     DEF Spec

\* The sender waits in its loop only while somebody builds margo.
BusyMeansBuilding == inst = "busy" => \E i \in Installers : install[i] = "building"

LEMMA BusyStep == ServerInv /\ BusyMeansBuilding /\ [Next]_vars => BusyMeansBuilding'
<1> SUFFICES ASSUME ServerInv, BusyMeansBuilding, [Next]_vars PROVE BusyMeansBuilding'
  OBVIOUS
<1> USE DEF queueVars, instVars, senderVars, procVars, readVars, callVars, userVars
<1>1. install \in [Installers -> InstallStates]
  BY DEF ServerInv, ServerTypes
<1>2. CASE UNCHANGED <<inst, install>>
  BY <1>2 DEF BusyMeansBuilding
<1>3. ASSUME NEW i \in Installers, Install(i) PROVE BusyMeansBuilding'
  <2>1. CASE InstallBuilt(i)
    BY <2>1 DEF InstallBuilt, BusyMeansBuilding
  <2>2. CASE InstallClaim(i)
    BY <1>1, <2>2 DEF InstallClaim, BusyMeansBuilding
  <2>3. CASE InstallLook(i) \/ InstallKill(i)
    <3>1. install[i] # "building" /\ inst' = inst
          /\ \A j \in Installers \ {i} : install'[j] = install[j]
      BY <1>1, <2>3 DEF InstallLook, InstallKill, Returns
    <3> QED
      BY <1>1, <3>1 DEF BusyMeansBuilding
  <2> QED
    BY <1>3, <2>1, <2>2, <2>3 DEF Install
<1>4. CASE SendTake
  <2>1. /\ inst' = inst /\ sender = "idle"
        /\ install' = install \/ install' = [install EXCEPT !["sender"] = "called"]
    BY <1>4 DEF SendTake
  <2>2. install["sender"] = "no"
    BY <2>1 DEF ServerInv, SenderInstalls
  <2>3. \A j \in Installers : install[j] = "building" => install'[j] = "building"
    BY <1>1, <2>1, <2>2
  <2> QED
    BY <2>1, <2>3 DEF BusyMeansBuilding
<1>5. ASSUME NEW r, Acall(r) \/ Bcall(r) \/ BcallReturns(r) PROVE UNCHANGED <<inst, install>>
  BY <1>5 DEF Acall, Bcall, BcallReturns
<1>6. ASSUME NEW p, Read(p) \/ Margo(p) \/ MargoDies(p) PROVE UNCHANGED <<inst, install>>
  BY <1>6 DEF Read, ReaderStarts, ReaderReads, ReaderStops, Margo, MargoReads, MargoAnswers,
              MargoExits, MargoDies
<1>7. ASSUME \/ SendStart \/ SendCannotStart \/ SendStarted \/ SendRegister \/ SendWrite
             \/ Recv \/ Rebuild \/ UNCHANGED vars
      PROVE  UNCHANGED <<inst, install>>
  BY <1>7 DEF SendStart, SendCannotStart, SendStarted, SendRegister, SendWrite, Recv, Rebuild,
              vars
<1> QED
  BY <1>2, <1>3, <1>4, <1>5, <1>6, <1>7 DEF Next, SendLoop

\* The sender never waits for an installation that nobody is at: _install ends in "done"
\* whichever of the two threads is in it, also when both have found it undone.
THEOREM InstallationIsAwaitedFrom == Spec => []BusyMeansBuilding
<1>1. Init => BusyMeansBuilding
  BY DEF Init, BusyMeansBuilding
<1> QED
  BY <1>1, ServerInit, ServerStep, BusyStep, PTL DEF Spec
=============================================================================
