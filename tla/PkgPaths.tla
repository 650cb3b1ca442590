------------------------------- MODULE PkgPaths -------------------------------
(***************************************************************************)
(* The import paths below GOROOT and GOPATH (m_pkgpaths.go, pkgpaths.go).  *)
(* For each root one goroutine walks the tree and sends the Go files down  *)
(* a channel to another one, which gathers their packages; when both have  *)
(* ended the packages of the root are published under a mutex.  The call   *)
(* waits for all of its roots.                                             *)
(***************************************************************************)
EXTENDS Naturals, SequencesExt

CONSTANTS
  PathCalls, \* the calls of pkgpaths and import_paths
  SrcDirs,   \* the source directories: GOROOT's, and one for each of GOPATH
  Trees,     \* the files of a tree in the order they are walked: sequences of
             \* [dir, name, ok], ok if it parses and is not ignored by its build tags
  Excluded,  \* package names that are left out
  ChanCap    \* the capacity of the channel, 100 in the code

ASSUME PkgPathsAssumption ==
  /\ ChanCap \in Nat \ {0}
  /\ Trees \subseteq Seq([dir : STRING, name : STRING, ok : BOOLEAN])

VARIABLES
  tree,     \* the files of each root
  pathCall, \* where each call is: "idle", "waits" or "done"
  walker,   \* where the goroutine of each call and root is
  toWalk,   \* the files it has still to send
  ch,       \* the channel
  gather,   \* where the gathering goroutine is: "no", "runs" or "done"
  paths,    \* what it has gathered: a function of directories
  seen,     \* the directories of excluded packages
  res       \* the packages that are published, by root

walkVars     == <<walker, toWalk>>
gatherVars   == <<gather, paths, seen>>
pkgPathsVars == <<tree, pathCall, walkVars, ch, gatherVars, res>>

Each(x) == [c \in PathCalls |-> [d \in SrcDirs |-> x]]

PkgPathsInit ==
  /\ tree \in [SrcDirs -> Trees]
  /\ pathCall = [c \in PathCalls |-> "idle"]
  /\ walker = Each("no") /\ toWalk = [c \in PathCalls |-> tree]
  /\ ch = Each(<<>>) /\ gather = Each("no")
  /\ paths = Each(<<>>) /\ seen = Each({})
  /\ res = [c \in PathCalls |-> <<>>]

\* wg.Add and the goroutines of every root.
StartPkgPaths(c) ==
  /\ pathCall[c] = "idle"
  /\ pathCall' = [pathCall EXCEPT ![c] = "waits"]
  /\ walker' = [walker EXCEPT ![c] = [d \in SrcDirs |-> "walks"]]
  /\ gather' = [gather EXCEPT ![c] = [d \in SrcDirs |-> "runs"]]
  /\ UNCHANGED <<tree, toWalk, ch, paths, seen, res>>

\* walk sends the next Go file when there is room.
SendFile(c, d) ==
  /\ walker[c][d] = "walks" /\ toWalk[c][d] # <<>> /\ Len(ch[c][d]) < ChanCap
  /\ ch' = [ch EXCEPT ![c][d] = Append(@, Head(toWalk[c][d]))]
  /\ toWalk' = [toWalk EXCEPT ![c][d] = Tail(@)]
  /\ UNCHANGED <<tree, pathCall, walker, gatherVars, res>>

CloseChan(c, d) ==
  /\ walker[c][d] = "walks" /\ toWalk[c][d] = <<>>
  /\ walker' = [walker EXCEPT ![c][d] = "closed"]
  /\ UNCHANGED <<tree, pathCall, toWalk, ch, gatherVars, res>>

\* proc: the first file of a directory that can be used says what its package is.
ProcFile(c, d) ==
  /\ gather[c][d] = "runs" /\ ch[c][d] # <<>>
  /\ ch' = [ch EXCEPT ![c][d] = Tail(@)]
  /\ LET f == Head(ch[c][d])
         known == f.dir \in DOMAIN paths[c][d] \cup seen[c][d]
     IN CASE known \/ ~ f.ok -> UNCHANGED <<paths, seen>>
          [] ~ known /\ f.ok /\ f.name \in Excluded ->
               seen' = [seen EXCEPT ![c][d] = @ \cup {f.dir}] /\ UNCHANGED paths
          [] OTHER ->
               /\ paths' = [paths EXCEPT ![c][d] =
                    [p \in DOMAIN @ \cup {f.dir} |-> IF p = f.dir THEN f.name ELSE @[p]]]
               /\ UNCHANGED seen
  /\ UNCHANGED <<tree, pathCall, walkVars, gather, res>>

\* The channel is closed and empty.
GatherEnds(c, d) ==
  /\ gather[c][d] = "runs" /\ walker[c][d] # "walks" /\ ch[c][d] = <<>>
  /\ gather' = [gather EXCEPT ![c][d] = "done"]
  /\ UNCHANGED <<tree, pathCall, walkVars, ch, paths, seen, res>>

\* A mistake: what is gathered is taken when the walk is over.
GatheredUnawaited(c, d) == TRUE

\* <-done
Gathered(c, d) == gather[c][d] = "done"

\* What has been found of a root is published, if it is anything, and the root is done.
Publish(c, d) ==
  /\ walker[c][d] = "closed" /\ Gathered(c, d)
  /\ walker' = [walker EXCEPT ![c][d] = "done"]
  /\ res' = IF paths[c][d] = <<>> THEN res
            ELSE [res EXCEPT ![c] = [r \in DOMAIN @ \cup {d} |-> IF r = d THEN paths[c][d] ELSE @[r]]]
  /\ UNCHANGED <<tree, pathCall, toWalk, ch, gatherVars>>

\* wg.Wait
EndPkgPaths(c) ==
  /\ pathCall[c] = "waits" /\ \A d \in SrcDirs : walker[c][d] = "done"
  /\ pathCall' = [pathCall EXCEPT ![c] = "done"]
  /\ UNCHANGED <<tree, walkVars, ch, gatherVars, res>>

CallPkgPaths(c) ==
  \/ EndPkgPaths(c)
  \/ \E d \in SrcDirs :
       SendFile(c, d) \/ CloseChan(c, d) \/ ProcFile(c, d) \/ GatherEnds(c, d) \/ Publish(c, d)

\* What a root's packages are: the first usable file of each directory decides.
Decides(t, i) ==
  t[i].ok /\ \A j \in 1 .. i - 1 : ~ (t[j].ok /\ t[j].dir = t[i].dir)
PackagesOf(t, n) ==
  LET Deciding == {i \in 1 .. n : Decides(t, i) /\ t[i].name \notin Excluded}
  IN [p \in {t[i].dir : i \in Deciding} |-> t[CHOOSE i \in Deciding : t[i].dir = p].name]
Packages(d) == PackagesOf(tree[d], Len(tree[d]))

\* The answer is what one pass over every tree would have found: no file is lost between
\* the two goroutines of a root, no root between those of a call.
PkgPathsWhole ==
  \A c \in PathCalls :
    pathCall[c] = "done" =>
      /\ DOMAIN res[c] = {d \in SrcDirs : Packages(d) # <<>>}
      /\ \A d \in DOMAIN res[c] : res[c][d] = Packages(d)
=============================================================================
