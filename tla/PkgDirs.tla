------------------------------- MODULE PkgDirs -------------------------------
(***************************************************************************)
(* The directories of packages below a root, and a file of each            *)
(* (m_pkgdirs.go).  Whether a path is a directory is remembered for ever   *)
(* in a cache that the calls share.  A path is looked up in it, asked of   *)
(* the file system, stored and opened in separate steps, between which     *)
(* other calls go on and the file system changes.                          *)
(*                                                                         *)
(* Directories are removed and made again.  A directory that is replaced   *)
(* by a file, or a file by a directory, is what the cache does not notice. *)
(***************************************************************************)
EXTENDS Naturals, FiniteSets, SequencesExt

CONSTANTS
  DirCalls,   \* the calls of pkg_dirs
  Root,       \* a root directory, which stays
  Paths,      \* the paths below it
  DirOf,      \* the directory that each path is in
  Kinds,      \* what each path may be when it is there: "dir" or "file"
  GoFiles,    \* the Go files of a directory: each like one of FileNames
  MaxRemovals \* bound: paths that are removed

\* The ideal name of a package's file is that of its directory; "like ideal" ends in it.
FileNames == {"ideal", "like ideal", "main", "other"}

\* A path and all the paths in it: the least set that has it and, with a path, those in it.
Below(p) ==
  LET Closed(S) == \A q \in Paths : DirOf[q] \in S => q \in S
  IN {q \in Paths \cup {Root} : \A S \in SUBSET (Paths \cup {Root}) : p \in S /\ Closed(S) => q \in S}

ASSUME PkgDirsAssumption ==
  /\ Root \notin Paths /\ DirOf \in [Paths -> Paths \cup {Root}]
  /\ Paths \subseteq Below(Root)
  /\ GoFiles \in [Paths \cup {Root} -> SUBSET FileNames]

VARIABLES
  there,    \* the paths that exist
  kind,     \* what they are
  cached,   \* pkgDirsCache: a function of paths
  walk,     \* where each call is: "idle", "walk", "stat", "store", "open" or "done"
  todo,     \* the names that it has read and not looked at
  path,     \* the path it is at
  isDir,    \* what it was told of the path
  found,    \* the result: [path, file]
  lasting,  \* the paths that have been there since the call began (for checking)
  removals  \* how many paths have been removed

fsVars      == <<there, kind, removals>>
pkgDirsVars == <<fsVars, cached, walk, todo, path, isDir, found, lasting>>

PkgDirsInit ==
  /\ kind \in [Paths -> Kinds] /\ there \in SUBSET Paths
  /\ \A p \in Paths : DirOf[p] # Root => kind[DirOf[p]] = "dir"
  /\ \A p \in there : DirOf[p] \in there \cup {Root}
  /\ cached = <<>>
  /\ walk = [c \in DirCalls |-> "idle"] /\ todo = [c \in DirCalls |-> {}]
  /\ path = [c \in DirCalls |-> Root] /\ isDir = [c \in DirCalls |-> FALSE]
  /\ found = [c \in DirCalls |-> {}] /\ lasting = [c \in DirCalls |-> {}]
  /\ removals = 0

-----------------------------------------------------------------------------

\* Somebody removes a path with what is below it, or makes it again.
RemovePath(p) ==
  /\ p \in there /\ removals < MaxRemovals
  /\ removals' = removals + 1
  /\ there' = there \ Below(p)
  /\ lasting' = [c \in DirCalls |-> lasting[c] \cap there']
  /\ UNCHANGED <<kind, cached, walk, todo, path, isDir, found>>

MakePath(p) ==
  /\ p \notin there /\ DirOf[p] \in there \cup {Root} /\ removals > 0
  /\ there' = there \cup {p}
  /\ UNCHANGED <<kind, removals, cached, walk, todo, path, isDir, found, lasting>>

-----------------------------------------------------------------------------

StartPkgDirs(c) ==
  /\ walk[c] = "idle"
  /\ walk' = [walk EXCEPT ![c] = "open"]
  /\ lasting' = [lasting EXCEPT ![c] = there]
  /\ UNCHANGED <<fsVars, cached, todo, path, isDir, found>>

\* Which file stands for a package: its ideal one, or main.go, or the first.
Better(name, old) ==
  \/ old = "none" \/ name = "ideal"
  \/ name = "main" /\ old \notin {"ideal", "like ideal"}

\* The file chosen of a directory listed in some order.
Chosen(names) == FoldLeft(LAMBDA old, name : IF Better(name, old) THEN name ELSE old,
                          "none", names)

\* walkRootDir opens a directory and reads its names: one that is gone, or is a file,
\* has none.  Those of the Go files are gone through in the order they come.
Open(c) ==
  /\ walk[c] = "open"
  /\ walk' = [walk EXCEPT ![c] = "walk"]
  /\ LET p == path[c] IN
       IF p = Root \/ (p \in there /\ kind[p] = "dir")
       THEN /\ todo' = [todo EXCEPT ![c] = @ \cup {q \in there : DirOf[q] = p}]
            /\ \E names \in SetToSeqs(GoFiles[p]) :
                 found' = [found EXCEPT ![c] =
                   IF names = <<>> THEN @ ELSE @ \cup {[path |-> p, file |-> Chosen(names)]}]
       ELSE UNCHANGED <<todo, found>>
  /\ UNCHANGED <<fsVars, cached, path, isDir, lasting>>

\* The names are looked at in whatever order they come; with the read lock.
LookUpPath(c) ==
  /\ walk[c] = "walk"
  /\ \E p \in todo[c] :
       /\ todo' = [todo EXCEPT ![c] = @ \ {p}]
       /\ path' = [path EXCEPT ![c] = p]
       /\ walk' = [walk EXCEPT ![c] = IF p \notin DOMAIN cached THEN "stat"
                                      ELSE IF cached[p] THEN "open" ELSE "walk"]
  /\ UNCHANGED <<fsVars, cached, isDir, found, lasting>>

\* A mistake: a path that is not there is remembered as no directory.
StatPathStoresErrors(c) ==
  /\ walk[c] = "stat"
  /\ isDir' = [isDir EXCEPT ![c] = path[c] \in there /\ kind[path[c]] = "dir"]
  /\ walk' = [walk EXCEPT ![c] = "store"]
  /\ UNCHANGED <<fsVars, cached, todo, path, found, lasting>>

StatPath(c) ==
  /\ walk[c] = "stat"
  /\ isDir' = [isDir EXCEPT ![c] = kind[path[c]] = "dir"]
  /\ walk' = [walk EXCEPT ![c] = IF path[c] \in there THEN "store" ELSE "walk"]
  /\ UNCHANGED <<fsVars, cached, todo, path, found, lasting>>

StorePath(c) ==
  /\ walk[c] = "store"
  /\ cached' = [p \in DOMAIN cached \cup {path[c]} |-> IF p = path[c] THEN isDir[c] ELSE cached[p]]
  /\ walk' = [walk EXCEPT ![c] = IF isDir[c] THEN "open" ELSE "walk"]
  /\ UNCHANGED <<fsVars, todo, path, isDir, found, lasting>>

EndPkgDirs(c) ==
  /\ walk[c] = "walk" /\ todo[c] = {}
  /\ walk' = [walk EXCEPT ![c] = "done"]
  /\ UNCHANGED <<fsVars, cached, todo, path, isDir, found, lasting>>

FilesChange == \E p \in Paths : RemovePath(p) \/ MakePath(p)

CallPkgDirs(c) == Open(c) \/ LookUpPath(c) \/ StatPath(c) \/ StorePath(c) \/ EndPkgDirs(c)

-----------------------------------------------------------------------------

\* What the file of a package should be: the ideal one if there is one, and main.go
\* rather than one that does not even end like it.
RightFile(p, file) ==
  /\ file \in GoFiles[p]
  /\ "ideal" \in GoFiles[p] => file = "ideal"
  /\ "main" \in GoFiles[p] => file # "other"

\* A call finds every package that was there all the time, whatever is removed and made
\* again around it and whatever the other calls put into the cache, and of each the right
\* file in whatever order the files are listed.
PkgDirsComplete ==
  \A c \in DirCalls :
    walk[c] = "done" =>
      /\ \A p \in lasting[c] : kind[p] = "dir" /\ GoFiles[p] # {}
                                 => \E f \in found[c] : f.path = p
      /\ \A f \in found[c] : RightFile(f.path, f.file)
      /\ \A f, g \in found[c] : f.path = g.path => f = g
=============================================================================
