------------------------------- MODULE Methods -------------------------------
(***************************************************************************)
(* Methods of margo that keep something between calls, or run goroutines   *)
(* of their own: synchk, pkg_dirs, pkgpaths and imports.  The broker runs  *)
(* every call in a goroutine.  Calls of one method share its state; those  *)
(* of different methods share none, so that a behaviour is about one of    *)
(* the methods.                                                            *)
(***************************************************************************)
EXTENDS Synchk, PkgDirs, PkgPaths, Imports

VARIABLE method \* the method that is called

methodsVars == <<method, synchkVars, pkgDirsVars, pkgPathsVars, importsVars>>

\* The arguments of the methods that are not called do not matter.
MethodsInit ==
  /\ method \in {"synchk", "pkg_dirs", "pkgpaths", "imports"}
  /\ method # "synchk" => checks = CHOOSE f \in [SynchkCalls -> FileLists] : TRUE
  /\ method # "pkg_dirs" => there = {} /\ kind = CHOOSE f \in [Paths -> Kinds] : TRUE
  /\ method # "pkgpaths" => tree = CHOOSE f \in [SrcDirs -> Trees] : TRUE
  /\ method # "imports" => toggle = CHOOSE f \in Toggles : TRUE
  /\ SynchkInit /\ PkgDirsInit /\ PkgPathsInit /\ ImportsInit

SynchkStep == method = "synchk" /\ UNCHANGED <<method, pkgDirsVars, pkgPathsVars, importsVars>>
DirsStep   == method = "pkg_dirs" /\ UNCHANGED <<method, synchkVars, pkgPathsVars, importsVars>>
PathsStep  == method = "pkgpaths" /\ UNCHANGED <<method, synchkVars, pkgDirsVars, importsVars>>
ImportsStep == method = "imports" /\ UNCHANGED <<method, synchkVars, pkgDirsVars, pkgPathsVars>>

\* The goroutines of the calls.
Goroutines ==
  \/ \E c \in SynchkCalls : CallSynchk(c) /\ SynchkStep
  \/ \E c \in DirCalls : (StartPkgDirs(c) \/ CallPkgDirs(c)) /\ DirsStep
  \/ \E c \in PathCalls : (StartPkgPaths(c) \/ CallPkgPaths(c)) /\ PathsStep
  \/ \E c \in ImportCalls : CallImports(c) /\ ImportsStep

MethodsNext ==
  \/ Goroutines
  \/ FilesChange /\ DirsStep
  \/ (Installing \/ MessageSent) /\ ImportsStep

\* Goroutines of calls go on; `go install` and the reader of margo's output need not.
MethodsSpec == MethodsInit /\ [][MethodsNext]_methodsVars /\ WF_methodsVars(Goroutines)

-----------------------------------------------------------------------------

\* Every call is answered: no goroutine of pkgpaths waits for another one for ever, and
\* no call waits for an installation, though that may hang.
MethodsReturn ==
  <>(CASE method = "synchk"   -> \A c \in SynchkCalls : files[c] = <<>>
       [] method = "pkg_dirs" -> \A c \in DirCalls : walk[c] = "done"
       [] method = "pkgpaths" -> \A c \in PathCalls : pathCall[c] = "done"
       [] method = "imports"  -> \A c \in ImportCalls : importing[c] = "done")
=============================================================================
