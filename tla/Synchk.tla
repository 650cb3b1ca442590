-------------------------------- MODULE Synchk --------------------------------
(***************************************************************************)
(* The syntax checks of margo (meth/synchk) and the cache of parsed files  *)
(* that they share with intel, posdef and declarations (sa/file.go).  The  *)
(* cache is keyed by a hash of the text, not by the file's name, so that a *)
(* file gets the syntax tree and the errors of any other one that has the  *)
(* same text.  A look-up and the store that follows it are two critical    *)
(* sections; calls run in goroutines of their own.                         *)
(***************************************************************************)
EXTENDS Naturals, Sequences

CONSTANTS
  SynchkCalls, \* the calls of synchk
  FileLists,   \* the files a call may be about: sequences of [fn, text]
  BadTexts,    \* the texts with syntax errors
  NoText       \* the text of a file that cannot be read

ASSUME SynchkAssumption ==
  /\ FileLists \subseteq Seq([fn : STRING, text : STRING])
  /\ NoText \notin BadTexts

VARIABLES
  files,   \* the files of each call that it has still to check
  checks,  \* all of its files (for checking)
  missed,  \* whether the call has looked up its first file in vain
  parsed,  \* cache.files: the file that each text was parsed as
  errors   \* the errors that each call has gathered: [fn, text]

synchkVars == <<files, checks, missed, parsed, errors>>

SynchkInit ==
  /\ checks \in [SynchkCalls -> FileLists]
  /\ files = checks
  /\ missed = [c \in SynchkCalls |-> FALSE]
  /\ parsed = <<>>
  /\ errors = [c \in SynchkCalls |-> {}]

\* A mistake: the errors are passed on as the cache has them.
ErrorsAsCached(c, f, as) ==
  IF f.text \in BadTexts THEN {[fn |-> as, text |-> f.text]} ELSE {}

\* The errors of a file, which was parsed as another one: synchk gives them its name.
ErrorsOf(c, f, as) ==
  IF f.text \in BadTexts THEN {[fn |-> f.fn, text |-> f.text]} ELSE {}

Checked(c, as) ==
  /\ errors' = [errors EXCEPT ![c] = @ \cup ErrorsOf(c, Head(files[c]), as)]
  /\ files' = [files EXCEPT ![c] = Tail(@)]
  /\ missed' = [missed EXCEPT ![c] = FALSE]

\* sa.Parse: a file that cannot be read has no errors.
Unreadable(c) ==
  /\ files[c] # <<>> /\ Head(files[c]).text = NoText
  /\ files' = [files EXCEPT ![c] = Tail(@)]
  /\ UNCHANGED <<checks, missed, parsed, errors>>

\* lk, with the read lock.
LookUpFile(c) ==
  /\ files[c] # <<>> /\ Head(files[c]).text # NoText /\ ~ missed[c]
  /\ LET text == Head(files[c]).text IN
       IF text \in DOMAIN parsed
       THEN Checked(c, parsed[text])
       ELSE missed' = [missed EXCEPT ![c] = TRUE] /\ UNCHANGED <<files, errors>>
  /\ UNCHANGED <<checks, parsed>>

\* mk parses the text and stores it, whoever else has stored it meanwhile.
ParseFile(c) ==
  /\ missed[c]
  /\ LET f == Head(files[c]) IN
       /\ parsed' = [t \in DOMAIN parsed \cup {f.text} |-> IF t = f.text THEN f.fn ELSE parsed[t]]
       /\ Checked(c, f.fn)
  /\ UNCHANGED checks

CallSynchk(c) == Unreadable(c) \/ LookUpFile(c) \/ ParseFile(c)

\* A call reports the errors of all of its files, and each error names its own file,
\* though the cache may have it from another file, or another call.
SynchkNamesFiles ==
  \A c \in SynchkCalls :
    files[c] = <<>> =>
      errors[c] = {f \in {checks[c][i] : i \in DOMAIN checks[c]} : f.text \in BadTexts}
=============================================================================
