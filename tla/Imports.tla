-------------------------------- MODULE Imports --------------------------------
(***************************************************************************)
(* The toggling of a file's imports (m_imports.go) and the installation of *)
(* packages in the background that such a call asks for (g_autoinst.go).   *)
(* A request that finds no room in the channel is dropped, so that no call *)
(* waits for `go install`; one goroutine takes the requests and posts a    *)
(* message about what it has installed.                                    *)
(*                                                                         *)
(* A file's import declarations are sequences of imported paths, as far as *)
(* the file parses; an import with another name is another path.           *)
(***************************************************************************)
EXTENDS Naturals, FiniteSets, SequencesExt

CONSTANTS
  ImportCalls,  \* the calls of imports
  Toggles,      \* what the calls may be given, each [decls, parses, add, del, autoinst]
  PathC,        \* the import of "C", which stands with its comment
  AutoInstCap,  \* the capacity of autoInstCh, 10 in the code
  MsgCap        \* the capacity of sendCh, 100 in the code

\* The editor offers packages to add: there is none called "C".
ASSUME ImportsAssumption ==
  /\ {AutoInstCap, MsgCap} \subseteq Nat \ {0}
  /\ \A f \in Toggles : \A c \in ImportCalls :
       /\ f[c].decls \in Seq(Seq(STRING)) /\ f[c].parses \in BOOLEAN
       /\ f[c].add \subseteq STRING \ {PathC} /\ IsFiniteSet(f[c].add)

VARIABLES
  toggle,    \* what each call is given
  importing, \* where each call is: "idle", "asking" or "done"
  edited,    \* the declarations as the call has left them
  autoInstCh, \* the requests that wait
  installing, \* the request being installed: the paths still to do, or "none"
  installed, \* the paths of that request that were installed
  archives,  \* the packages that have an archive
  posted     \* how many messages are in sendCh

toggleVars   == <<toggle, importing, edited>>
autoInstVars == <<autoInstCh, installing, installed, archives, posted>>
importsVars  == <<toggleVars, autoInstVars>>

NoInstall == {"none"}

ImportsInit ==
  /\ toggle \in Toggles
  /\ importing = [c \in ImportCalls |-> "idle"]
  /\ edited = [c \in ImportCalls |-> <<>>]
  /\ autoInstCh = <<>> /\ installing = NoInstall /\ installed = {}
  /\ archives = {} /\ posted = 0

-----------------------------------------------------------------------------
(* imp *)

\* Those members of a sequence that are in S, in their order.
Those(s, S) == FoldLeft(LAMBDA kept, e : IF e \in S THEN Append(kept, e) ELSE kept, <<>>, s)

\* A declaration without the imports to delete; that of "C" is never one of them.
Without(decl, del) == Those(decl, (ToSet(decl) \ del) \cup {PathC})

Imported(decls) == UNION {ToSet(decls[i]) : i \in DOMAIN decls}

\* A mistake: what is imported already is added again.
AddedAgain(add, kept) == add

\* What has to be added, given what is left of the declarations.
Missing(add, kept) == add \ (Imported(kept) \ {PathC})

\* A mistake: the declaration of "C" may be the one that imports are added to.
HasCUnseen(decl) == FALSE

HasC(decl) == PathC \in ToSet(decl)

\* Those that are new come first in the first declaration that does not import "C", and
\* in one of their own if there is none.  Declarations that have become empty are dropped.
Imp(decls, add, del) ==
  LET kept  == [i \in DOMAIN decls |-> Without(decls[i], del)]
      new   == SetToSeq(Missing(add, kept))
      first == {i \in DOMAIN decls : decls[i] # <<>> /\ ~ HasC(decls[i])}
      k     == CHOOSE i \in first : \A j \in first : i <= j
      all   == IF add = {} THEN kept
               ELSE IF first = {} THEN Append(kept, new)
               ELSE [kept EXCEPT ![k] = new \o @]
  IN Those(all, ToSet(all) \ {<<>>})

\* A call edits the imports of a file that parses, and leaves alone what it can read of
\* one that does not, whose answer is the error.  Either may ask for all to be installed.
EditImports(c) ==
  /\ importing[c] = "idle"
  /\ LET t == toggle[c] IN
       /\ edited' = [edited EXCEPT ![c] = IF t.parses THEN Imp(t.decls, t.add, t.del) ELSE t.decls]
       /\ importing' = [importing EXCEPT ![c] = IF t.autoinst THEN "asking" ELSE "done"]
  /\ UNCHANGED <<toggle, autoInstVars>>

\* A mistake: the request waits for room.
RoomIsAwaited(q) == Len(q) < AutoInstCap

\* The select of AutoInstall has a default.
NeverWaits(q) == TRUE

\* AutoInstall: a request is queued, or dropped.
AutoInstall(c) ==
  /\ importing[c] = "asking" /\ NeverWaits(autoInstCh)
  /\ autoInstCh' = IF Len(autoInstCh) < AutoInstCap
                   THEN Append(autoInstCh, Imported(edited[c]) \ {PathC}) ELSE autoInstCh
  /\ importing' = [importing EXCEPT ![c] = "done"]
  /\ UNCHANGED <<toggle, edited, installing, installed, archives, posted>>

CallImports(c) == EditImports(c) \/ AutoInstall(c)

-----------------------------------------------------------------------------
(* The installing goroutine. *)

TakeRequest ==
  /\ installing = NoInstall /\ autoInstCh # <<>>
  /\ installing' = Head(autoInstCh) /\ autoInstCh' = Tail(autoInstCh)
  /\ installed' = {}
  /\ UNCHANGED <<toggleVars, archives, posted>>

\* go install, of a package without an archive: it may fail.
GoInstall ==
  /\ installing # NoInstall
  /\ \E p \in installing :
       /\ installing' = installing \ {p}
       /\ \/ p \in archives /\ UNCHANGED <<archives, installed>>
          \/ /\ p \notin archives
             /\ archives' = archives \cup {p} /\ installed' = installed \cup {p}
          \/ p \notin archives /\ UNCHANGED <<archives, installed>>
  /\ UNCHANGED <<toggleVars, autoInstCh, posted>>

\* The message about what was installed waits for room in sendCh.
RequestDone ==
  /\ installing = {}
  /\ installing' = NoInstall
  /\ \/ installed = {} /\ UNCHANGED posted
     \/ installed # {} /\ posted < MsgCap /\ posted' = posted + 1
  /\ UNCHANGED <<toggleVars, autoInstCh, installed, archives>>

\* The main loop sends a message.
MessageSent ==
  /\ posted > 0 /\ posted' = posted - 1
  /\ UNCHANGED <<toggleVars, autoInstCh, installing, installed, archives>>

Installing == TakeRequest \/ GoInstall \/ RequestDone

-----------------------------------------------------------------------------

\* Where p is imported: the declaration, and the place in it.
Occurrences(decls, p) ==
  UNION {{i} \X {j \in DOMAIN decls[i] : decls[i][j] = p} : i \in DOMAIN decls}

Times(decls, p) == Cardinality(Occurrences(decls, p))

\* Toggling imports does just that.  Each path is imported as often as it was, or not at
\* all if it was deleted; if it is not imported then, and is to be added, it is once.  An
\* import of "C" stays, and nothing is added to its declaration, whose comment cgo reads;
\* no declaration is empty.
ImportsToggled ==
  \A c \in ImportCalls :
    LET t == toggle[c]
        Left(p) == IF p \in t.del \ {PathC} THEN 0 ELSE Times(t.decls, p)
    IN importing[c] # "idle" /\ t.parses =>
         /\ \A p \in Imported(t.decls) \cup Imported(edited[c]) \cup t.add :
              Times(edited[c], p) = IF p \in t.add /\ Left(p) = 0 THEN 1 ELSE Left(p)
         /\ \A i \in DOMAIN edited[c] :
              /\ edited[c][i] # <<>>
              /\ PathC \in ToSet(edited[c][i]) =>
                   \E j \in DOMAIN t.decls : edited[c][i] = Without(t.decls[j], t.del)
=============================================================================
