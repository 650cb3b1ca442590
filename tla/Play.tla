-------------------------------- MODULE Play --------------------------------
(***************************************************************************)
(* The virtual command .play (meth/exec/play.go) beside other commands of  *)
(* the process table (ProcTable).  It finds the package of a file, or of   *)
(* the text of a view, which it saves in a temporary directory, builds a   *)
(* main package there, and runs what it has built, or `go test', as any    *)
(* other command.  The build is run as a process too, but not through the  *)
(* table: no cancel, replacement or exit hook knows of it.                 *)
(***************************************************************************)
EXTENDS ProcTable

CONSTANT Plays \* the exec calls whose command is .play

ASSUME PlayAssumption == Plays \subseteq Jobs

VARIABLES
  play,    \* where each .play is
  dir,     \* its temporary directory: "none", "there" or "removed"
  previous \* the commands that were unfinished when each one's request arrived

playVars == <<vars, play, dir, previous>>

PlayInit ==
  /\ Init
  /\ play = [j \in Plays |-> "idle"] /\ dir = [j \in Plays |-> "none"]
  /\ previous = [j \in Jobs |-> {}]

Unfinished(j) ==
  IF j \in Plays THEN play[j] \notin {"idle", "answered"} ELSE pc[j] \notin {"idle", "done"}

-----------------------------------------------------------------------------

\* A request for another command, or for a cancel.
OtherCall(p) ==
  /\ p \notin Plays /\ Call(p)
  /\ previous' = IF p \in Jobs THEN [previous EXCEPT ![p] = {i \in Jobs : Unfinished(i)}]
                 ELSE previous
  /\ UNCHANGED <<play, dir>>

\* A request for .play; the Uid of one without a cid is chosen here.
PlayCall(j) ==
  /\ margo = "serving" /\ play[j] = "idle"
  /\ play' = [play EXCEPT ![j] = "package"]
  /\ previous' = [previous EXCEPT ![j] = {i \in Jobs : Unfinished(i)}]
  /\ cid' \in {cid, [cid EXCEPT ![j] = Uid(j)]}
  /\ UNCHANGED <<table, pc, tries, seen, kind, proc, margo, dir>>

\* The package is a main package, one to test, or cannot be found, read or saved.
\* That of a view's text needs the temporary directory.
FindPackage(j) ==
  /\ Up /\ play[j] = "package"
  /\ \E found \in {"main", "ready", "failed"} : play' = [play EXCEPT ![j] = found]
  /\ dir' \in {dir, [dir EXCEPT ![j] = "there"]}
  /\ UNCHANGED <<vars, previous>>

\* mainCmd needs it as well, which may fail if it is not there yet.
MainCmd(j) ==
  /\ Up /\ play[j] = "main"
  /\ \/ /\ dir' = [dir EXCEPT ![j] = "there"]
        /\ play' = [play EXCEPT ![j] = "building"]
     \/ /\ dir[j] = "none" /\ play' = [play EXCEPT ![j] = "failed"]
        /\ UNCHANGED dir
  /\ UNCHANGED <<vars, previous>>

BuildEnds(j) ==
  /\ Up /\ play[j] = "building"
  /\ \E built \in {"ready", "failed"} : play' = [play EXCEPT ![j] = built]
  /\ UNCHANGED <<vars, dir, previous>>

\* procs.Run of the command that the factory has returned.
RunPlay(j) ==
  /\ Up /\ play[j] = "ready"
  /\ play' = [play EXCEPT ![j] = "running"]
  /\ pc' = [pc EXCEPT ![j] = "look"]
  /\ UNCHANGED <<table, tries, seen, cid, kind, proc, margo, dir, previous>>

\* A mistake: nothing is cleaned up if there is no command to run.
FiniAfterRun(j) == IF play[j] = "failed" THEN dir[j] ELSE "removed"

\* fini, whether or not there was anything to run.
Fini(j) == IF dir[j] = "there" THEN "removed" ELSE dir[j]

\* A call that has run its command, or has none, cleans up and answers.
AnswerPlay(j) ==
  /\ Up
  /\ play[j] = "failed" \/ (play[j] = "running" /\ pc[j] = "done")
  /\ dir' = [dir EXCEPT ![j] = Fini(j)]
  /\ play' = [play EXCEPT ![j] = "answered"]
  /\ UNCHANGED <<vars, previous>>

PlaySteps(j) == FindPackage(j) \/ MainCmd(j) \/ BuildEnds(j) \/ RunPlay(j) \/ AnswerPlay(j)

\* The steps of ProcTable.
TableStep ==
  \/ \E p \in Callers : Replace(p)
  \/ \E j \in Jobs : Execute(j) \/ ProcessExit(j)
  \/ LoopEnds \/ ByeHook \/ Exit

PlayNext ==
  \/ \E p \in Callers : OtherCall(p)
  \/ \E j \in Plays : PlayCall(j) \/ PlaySteps(j)
  \/ TableStep /\ UNCHANGED <<play, dir, previous>>

\* Goroutines go on, and builds end.
PlaySpec ==
  /\ PlayInit /\ [][PlayNext]_playVars
  /\ \A p \in Callers : WF_playVars(Replace(p) /\ UNCHANGED <<play, dir, previous>>)
  /\ \A j \in Jobs : /\ WF_playVars(Execute(j) /\ UNCHANGED <<play, dir, previous>>)
                     /\ WF_playVars(ProcessExit(j) /\ UNCHANGED <<play, dir, previous>>)
  /\ \A j \in Plays : WF_playVars(PlaySteps(j))

-----------------------------------------------------------------------------

\* A temporary directory is there as long as the build or the program needs it, and
\* does not outlive the answer of its call, whichever step of the call has failed.
DirsRemoved ==
  \A j \in Plays :
    /\ play[j] = "answered" => dir[j] # "there"
    /\ play[j] = "building" => dir[j] = "there"
    /\ Unkilled(j) => dir[j] # "removed"

\* If every command ends by itself, every exec and every cancel is answered, those
\* of .play too, however they contend for a cid.
CallsAnswered ==
  /\ CallsReturn
  /\ \A j \in Plays : (AllFinite /\ play[j] = "package") ~> (play[j] = "answered" \/ ~Up)

\* GoSublime.sublime-settings:219-220 of a fixed cid: "any previous un-finished
\* instance will be killed before starting a new one".
PreviousBuildIsKilled ==
  [][\A j \in Jobs :
       pc[j] = "start" /\ proc'[j] = "alive" =>
         \A i \in previous[j] \cap Plays : cid[i] = cid[j] => play[i] # "building"]_playVars
=============================================================================
