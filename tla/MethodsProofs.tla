---------------------------- MODULE MethodsProofs ----------------------------
(***************************************************************************)
(* Theorems about Methods, for any calls, files, trees, directories and    *)
(* declarations: the errors that synchk reports are those of its files and *)
(* name them, the walk of import paths loses no file between its           *)
(* goroutines, that of package directories finds the packages that stay,   *)
(* and toggling imports does just that.                                    *)
(***************************************************************************)
EXTENDS Methods, WellFoundedInduction, FiniteSetTheorems, TLAPS

\* What Head, Tail and Append do to a queue.
LEMMA QueueFacts ==
  ASSUME NEW S, NEW q \in Seq(S)
  PROVE  /\ Len(q) \in Nat
         /\ q # <<>> => /\ Head(q) = q[1] /\ q[1] \in S /\ Len(q) >= 1
                        /\ Tail(q) \in Seq(S) /\ Len(Tail(q)) = Len(q) - 1
                        /\ \A i \in 1..(Len(q) - 1) : Tail(q)[i] = q[i + 1]
         /\ q = <<>> <=> Len(q) = 0
         /\ \A e \in S : /\ Append(q, e) \in Seq(S) /\ Len(Append(q, e)) = Len(q) + 1
                         /\ \A i \in 1..Len(q) : Append(q, e)[i] = q[i]
                         /\ Append(q, e)[Len(q) + 1] = e
OBVIOUS

-----------------------------------------------------------------------------
(* synchk *)

File == [fn : STRING, text : STRING]

SynchkTypes ==
  /\ checks \in [SynchkCalls -> FileLists]
  /\ files \in [SynchkCalls -> Seq(File)]
  /\ missed \in [SynchkCalls -> BOOLEAN]
  /\ errors \in [SynchkCalls -> SUBSET File]

\* How many files a call has gone through.
Through(c) == Len(checks[c]) - Len(files[c])

\* What is left of a call's files is the end of them, and the errors are those of the
\* beginning; a call that has looked a file up in vain has it still.
ChecksInv ==
  \A c \in SynchkCalls :
    /\ Through(c) \in Nat
    /\ \A i \in 1..Len(files[c]) : files[c][i] = checks[c][Through(c) + i]
    /\ errors[c] = {f \in {checks[c][i] : i \in 1..Through(c)} : f.text \in BadTexts}
    /\ missed[c] => files[c] # <<>> /\ Head(files[c]).text # NoText

SynchkInv == SynchkTypes /\ ChecksInv

LEMMA ChecksAreFiles ==
  ASSUME SynchkTypes, NEW c \in SynchkCalls
  PROVE  /\ checks[c] \in Seq(File) /\ Len(checks[c]) \in Nat
         /\ files[c] \in Seq(File) /\ Len(files[c]) \in Nat
BY SynchkAssumption DEF SynchkTypes, File

LEMMA SynchkInitInv == SynchkInit => SynchkInv
<1> SUFFICES ASSUME SynchkInit PROVE SynchkInv
  OBVIOUS
<1>1. SynchkTypes
  <2>1. checks \in [SynchkCalls -> Seq(File)]
    BY SynchkAssumption DEF SynchkInit, File
  <2> QED
    BY <2>1 DEF SynchkInit, SynchkTypes
<1>2. ASSUME NEW c \in SynchkCalls
      PROVE  /\ Through(c) \in Nat
             /\ \A i \in 1..Len(files[c]) : files[c][i] = checks[c][Through(c) + i]
             /\ errors[c] = {f \in {checks[c][i] : i \in 1..Through(c)} : f.text \in BadTexts}
             /\ ~ missed[c]
  <2>1. files[c] = checks[c] /\ errors[c] = {} /\ missed[c] = FALSE
    BY DEF SynchkInit
  <2>2. Len(checks[c]) \in Nat /\ Through(c) = 0
    BY <1>1, <2>1, ChecksAreFiles DEF Through
  <2> QED
    BY <2>1, <2>2
<1> QED
  BY <1>1, <1>2 DEF SynchkInv, ChecksInv

\* A call goes on to the next file, and has the errors of this one.
LEMMA FileChecked ==
  ASSUME SynchkInv, NEW c \in SynchkCalls, files[c] # <<>>, checks' = checks,
         files' = [files EXCEPT ![c] = Tail(files[c])],
         NEW E, E = (IF Head(files[c]).text \in BadTexts THEN {Head(files[c])} ELSE {}),
         errors' = [errors EXCEPT ![c] = errors[c] \cup E],
         missed' \in [SynchkCalls -> BOOLEAN], ~ missed'[c],
         \A d \in SynchkCalls \ {c} : missed'[d] = missed[d]
  PROVE  SynchkInv'
<1> DEFINE k == Through(c)
           f == Head(files[c])
<1>1. /\ checks[c] \in Seq(File) /\ files[c] \in Seq(File)
      /\ Len(checks[c]) \in Nat /\ Len(files[c]) \in Nat
  BY ChecksAreFiles DEF SynchkInv
<1>2. /\ f \in File /\ f = files[c][1] /\ Len(files[c]) >= 1 /\ Tail(files[c]) \in Seq(File)
      /\ Len(Tail(files[c])) = Len(files[c]) - 1
      /\ \A i \in 1..(Len(files[c]) - 1) : Tail(files[c])[i] = files[c][i + 1]
  BY <1>1, QueueFacts
<1>3. /\ k \in Nat /\ f = checks[c][k + 1]
      /\ \A i \in 1..Len(files[c]) : files[c][i] = checks[c][k + i]
  BY <1>1, <1>2 DEF SynchkInv, ChecksInv
<1>4. files'[c] = Tail(files[c]) /\ Through(c)' = k + 1
  BY <1>1, <1>2 DEF SynchkInv, SynchkTypes, Through
<1>5. SynchkTypes'
  BY <1>2 DEF SynchkInv, SynchkTypes
<1>6. errors'[c] = {g \in {checks[c][i] : i \in 1..(k + 1)} : g.text \in BadTexts}
  <2>1. errors[c] = {g \in {checks[c][i] : i \in 1..k} : g.text \in BadTexts}
    BY DEF SynchkInv, ChecksInv
  <2>2. errors'[c] = errors[c] \cup E
    BY DEF SynchkInv, SynchkTypes
  <2>3. 1..(k + 1) = 1..k \cup {k + 1}
    BY <1>3
  <2> HIDE DEF k
  <2>4. {checks[c][i] : i \in 1..(k + 1)} = {checks[c][i] : i \in 1..k} \cup {f}
    BY <1>3, <2>3
  <2> HIDE DEF f
  <2>5. E = (IF f.text \in BadTexts THEN {f} ELSE {})
    BY DEF f
  <2> QED
    BY <2>1, <2>2, <2>4, <2>5
<1>7. \A i \in 1..Len(files'[c]) : files'[c][i] = checks'[c][Through(c)' + i]
  <2> SUFFICES ASSUME NEW i \in 1..Len(files'[c]) PROVE files'[c][i] = checks[c][k + 1 + i]
    BY <1>4
  <2>1. i \in 1..(Len(files[c]) - 1) /\ i + 1 \in 1..Len(files[c])
    <3>1. Len(files[c]) \in Nat /\ Len(files'[c]) = Len(files[c]) - 1
      BY <1>1, <1>2, <1>4
    <3> QED
      BY <3>1
  <2>2. files'[c][i] = files[c][i + 1]
    BY <1>2, <1>4, <2>1
  <2>3. files[c][i + 1] = checks[c][k + (i + 1)]
    BY <1>3, <2>1
  <2>4. k + (i + 1) = k + 1 + i
    BY <1>3, <2>1
  <2> QED
    BY <2>2, <2>3, <2>4
<1>8. ASSUME NEW d \in SynchkCalls \ {c}
      PROVE  /\ files'[d] = files[d] /\ errors'[d] = errors[d] /\ missed'[d] = missed[d]
             /\ Through(d)' = Through(d)
  BY DEF SynchkInv, SynchkTypes, Through
<1>9. ChecksInv'
  <2> SUFFICES ASSUME NEW d \in SynchkCalls
               PROVE  /\ Through(d)' \in Nat
                      /\ \A i \in 1..Len(files'[d]) : files'[d][i] = checks'[d][Through(d)' + i]
                      /\ errors'[d] = {g \in {checks'[d][i] : i \in 1..Through(d)'} :
                                         g.text \in BadTexts}
                      /\ missed'[d] => files'[d] # <<>> /\ Head(files'[d]).text # NoText
    BY DEF ChecksInv
  <2>1. CASE d = c
    BY <1>3, <1>4, <1>6, <1>7, <2>1
  <2>2. CASE d # c
    BY <1>8, <2>2 DEF SynchkInv, ChecksInv
  <2> QED
    BY <2>1, <2>2
<1> QED
  BY <1>5, <1>9 DEF SynchkInv

LEMMA CallSynchkInv == ASSUME SynchkInv, NEW c \in SynchkCalls, CallSynchk(c) PROVE SynchkInv'
<1>1. ASSUME files[c] # <<>> PROVE Head(files[c]) \in File
  BY <1>1, ChecksAreFiles, QueueFacts DEF SynchkInv
<1>2. ASSUME NEW as, files[c] # <<>>
      PROVE  ErrorsOf(c, Head(files[c]), as)
               = IF Head(files[c]).text \in BadTexts THEN {Head(files[c])} ELSE {}
  BY <1>1, <1>2 DEF ErrorsOf, File
<1>3. missed \in [SynchkCalls -> BOOLEAN] /\ files \in [SynchkCalls -> Seq(File)]
      /\ errors \in [SynchkCalls -> SUBSET File]
  BY DEF SynchkInv, SynchkTypes
<1>4. ASSUME NEW as, files[c] # <<>>, Checked(c, as), checks' = checks PROVE SynchkInv'
  <2>1. /\ errors' = [errors EXCEPT ![c] = errors[c] \cup ErrorsOf(c, Head(files[c]), as)]
        /\ files' = [files EXCEPT ![c] = Tail(files[c])]
        /\ missed' = [missed EXCEPT ![c] = FALSE]
    BY <1>4 DEF Checked
  <2>2. /\ missed' \in [SynchkCalls -> BOOLEAN] /\ ~ missed'[c]
        /\ \A d \in SynchkCalls \ {c} : missed'[d] = missed[d]
    BY <1>3, <2>1
  <2> QED
    BY <1>2, <1>4, <2>1, <2>2, FileChecked
<1>5. CASE Unreadable(c)
  <2>1. /\ files[c] # <<>> /\ Head(files[c]).text = NoText /\ checks' = checks
        /\ files' = [files EXCEPT ![c] = Tail(files[c])]
        /\ missed' = missed /\ errors' = errors
    BY <1>5 DEF Unreadable
  <2>2. ~ missed[c]
    BY <2>1 DEF SynchkInv, ChecksInv
  <2>3. (IF Head(files[c]).text \in BadTexts THEN {Head(files[c])} ELSE {}) = {}
    BY <2>1, SynchkAssumption
  <2>4. errors' = [errors EXCEPT ![c] = errors[c] \cup {}]
    BY <1>3, <2>1
  <2> QED
    BY <1>3, <2>1, <2>2, <2>3, <2>4, FileChecked
<1>6. CASE LookUpFile(c) /\ Head(files[c]).text \in DOMAIN parsed
  <2>1. /\ files[c] # <<>> /\ checks' = checks
        /\ Checked(c, parsed[Head(files[c]).text])
    BY <1>6 DEF LookUpFile
  <2> QED
    BY <1>4, <2>1
<1>7. CASE LookUpFile(c) /\ Head(files[c]).text \notin DOMAIN parsed
  <2>1. /\ files[c] # <<>> /\ Head(files[c]).text # NoText
        /\ checks' = checks /\ files' = files /\ errors' = errors
        /\ missed' = [missed EXCEPT ![c] = TRUE]
    BY <1>7 DEF LookUpFile
  <2>2. SynchkTypes'
    BY <2>1 DEF SynchkInv, SynchkTypes
  <2>3. \A d \in SynchkCalls : missed'[d] => missed[d] \/ d = c
    BY <1>3, <2>1
  <2>4. \A d \in SynchkCalls : Through(d)' = Through(d)
    BY <2>1 DEF Through
  <2>5. ChecksInv'
    BY <2>1, <2>3, <2>4 DEF SynchkInv, ChecksInv
  <2> QED
    BY <2>2, <2>5 DEF SynchkInv
<1>8. CASE ParseFile(c)
  <2>1. missed[c] /\ checks' = checks /\ Checked(c, Head(files[c]).fn)
    BY <1>8 DEF ParseFile
  <2>2. files[c] # <<>>
    BY <2>1 DEF SynchkInv, ChecksInv
  <2> QED
    BY <1>4, <2>1, <2>2
<1> QED
  BY <1>5, <1>6, <1>7, <1>8 DEF CallSynchk

LEMMA SynchkSame == ASSUME SynchkInv, UNCHANGED synchkVars PROVE SynchkInv'
<1>1. checks' = checks /\ files' = files /\ missed' = missed /\ errors' = errors
  BY DEF synchkVars
<1>2. \A d \in SynchkCalls : Through(d)' = Through(d)
  BY <1>1 DEF Through
<1>3. SynchkTypes'
  BY <1>1 DEF SynchkInv, SynchkTypes
<1>4. ChecksInv'
  BY <1>1, <1>2 DEF SynchkInv, ChecksInv
<1> QED
  BY <1>3, <1>4 DEF SynchkInv

LEMMA SynchkStepInv == SynchkInv /\ [MethodsNext]_methodsVars => SynchkInv'
<1> SUFFICES ASSUME SynchkInv, [MethodsNext]_methodsVars PROVE SynchkInv'
  OBVIOUS
<1>1. CASE \E c \in SynchkCalls : CallSynchk(c)
  BY <1>1, CallSynchkInv
<1>2. CASE UNCHANGED synchkVars
  BY <1>2, SynchkSame
<1>3. (\E c \in SynchkCalls : CallSynchk(c)) \/ UNCHANGED synchkVars
  BY DEF MethodsNext, Goroutines, methodsVars, DirsStep, PathsStep, ImportsStep, synchkVars
<1> QED
  BY <1>1, <1>2, <1>3

LEMMA SynchkInvNames == SynchkInv => SynchkNamesFiles
<1> SUFFICES ASSUME SynchkInv, NEW c \in SynchkCalls, files[c] = <<>>
             PROVE  errors[c] = {f \in {checks[c][i] : i \in DOMAIN checks[c]} :
                                   f.text \in BadTexts}
  BY DEF SynchkNamesFiles
<1>1. checks[c] \in Seq(File) /\ Len(checks[c]) \in Nat /\ Len(files[c]) = 0
  BY ChecksAreFiles DEF SynchkInv
<1>2. Through(c) = Len(checks[c]) /\ DOMAIN checks[c] = 1..Len(checks[c])
  BY <1>1 DEF Through
<1> QED
  BY <1>2 DEF SynchkInv, ChecksInv

\* However the calls share the cache of parsed files, one that has ended has reported the
\* errors of all of its files, each under the name of its own file.
THEOREM ErrorsNameTheirFiles == MethodsSpec => []SynchkNamesFiles
<1>1. MethodsInit => SynchkInv
  BY SynchkInitInv DEF MethodsInit
<1> QED
  BY <1>1, SynchkStepInv, SynchkInvNames, PTL DEF MethodsSpec

-----------------------------------------------------------------------------
(* pkgpaths: what one pass over a tree finds. *)

GoFile == [dir : STRING, name : STRING, ok : BOOLEAN]

\* The files among the first n that decide, and are not excluded or are.
Deciders(t, n)   == {i \in 1..n : Decides(t, i) /\ t[i].name \notin Excluded}
Outsiders(t, n)  == {i \in 1..n : Decides(t, i) /\ t[i].name \in Excluded}
ExcludedIn(t, n) == {t[i].dir : i \in Outsiders(t, n)}

\* Every non-empty set of numbers has a least one.
LEMMA Least ==
  ASSUME NEW T, T \subseteq Nat, T # {}
  PROVE  \E x \in T : \A y \in T : x <= y
<1> DEFINE R == {ss \in Nat \X Nat : ss[1] < ss[2]}
<1>1. IsWellFoundedOn(R, Nat)
  BY NatLessThanWellFounded DEF OpToRel
<1>2. \A x, y \in Nat : y < x => <<y, x>> \in R
  OBVIOUS
<1> HIDE DEF R
<1>3. PICK x \in T : \A y \in T : ~ (<<y, x>> \in R)
  BY <1>1, WFMin
<1>4. ASSUME NEW y \in T PROVE x <= y
  <2>1. x \in Nat /\ y \in Nat
    OBVIOUS
  <2>2. ~ (y < x)
    BY <1>2, <1>3, <2>1
  <2> QED
    BY <2>1, <2>2
<1> QED
  BY <1>4

\* A directory is decided once.
LEMMA DecidedOnce ==
  ASSUME NEW t, NEW n \in Nat, NEW i \in 1..n, NEW j \in 1..n,
         Decides(t, i), Decides(t, j), t[i].dir = t[j].dir
  PROVE  i = j
<1>1. i < j => i \in 1..(j - 1)
  OBVIOUS
<1>2. j < i => j \in 1..(i - 1)
  OBVIOUS
<1>3. ~ (i < j) /\ ~ (j < i)
  BY <1>1, <1>2 DEF Decides
<1> QED
  BY <1>3

\* Those directories are decided that have a usable file.
LEMMA DecidedIfUsable ==
  ASSUME NEW t \in Seq(GoFile), NEW n \in 0..Len(t), NEW p
  PROVE  (\E j \in 1..n : t[j].ok /\ t[j].dir = p)
           <=> p \in {t[i].dir : i \in Deciders(t, n)} \cup ExcludedIn(t, n)
<1> DEFINE T == {j \in 1..n : t[j].ok /\ t[j].dir = p}
<1>1. ASSUME NEW j \in 1..n, t[j].ok, t[j].dir = p
      PROVE  p \in {t[i].dir : i \in Deciders(t, n)} \cup ExcludedIn(t, n)
  <2>1. T \subseteq Nat /\ T # {}
    BY <1>1
  <2>2. PICK i \in T : \A k \in T : i <= k
    BY <2>1, Least
  <2>3. Decides(t, i)
    <3>1. ASSUME NEW k \in 1..i - 1, t[k].ok, t[k].dir = t[i].dir PROVE FALSE
      <4>1. k \in T /\ k < i /\ i \in Nat /\ k \in Nat
        BY <2>2, <3>1
      <4> QED
        BY <2>2, <4>1
    <3> QED
      BY <2>2, <3>1 DEF Decides
  <2>4. i \in 1..n /\ t[i].dir = p
    BY <2>2
  <2>5. i \in Deciders(t, n) \/ i \in Outsiders(t, n)
    BY <2>3, <2>4 DEF Deciders, Outsiders
  <2> HIDE DEF T
  <2> QED
    BY <2>4, <2>5 DEF ExcludedIn
<1>2. ASSUME NEW i \in Deciders(t, n) \cup Outsiders(t, n)
      PROVE  i \in 1..n /\ t[i].ok
  BY <1>2 DEF Deciders, Outsiders, Decides
<1> QED
  BY <1>1, <1>2 DEF ExcludedIn

LEMMA PackagesFacts ==
  ASSUME NEW t, NEW n \in Nat
  PROVE  /\ PackagesOf(t, n) = [p \in DOMAIN PackagesOf(t, n) |-> PackagesOf(t, n)[p]]
         /\ DOMAIN PackagesOf(t, n) = {t[i].dir : i \in Deciders(t, n)}
         /\ \A i \in Deciders(t, n) : PackagesOf(t, n)[t[i].dir] = t[i].name
<1> DEFINE pick(p) == CHOOSE i \in Deciders(t, n) : t[i].dir = p
<1>1. PackagesOf(t, n) = [p \in {t[i].dir : i \in Deciders(t, n)} |-> t[pick(p)].name]
  BY DEF PackagesOf, Deciders
<1>2. ASSUME NEW i \in Deciders(t, n) PROVE pick(t[i].dir) = i
  <2>1. pick(t[i].dir) \in Deciders(t, n) /\ t[pick(t[i].dir)].dir = t[i].dir
    OBVIOUS
  <2> HIDE DEF pick
  <2> QED
    BY <2>1, DecidedOnce DEF Deciders
<1> HIDE DEF pick
<1> QED
  BY <1>1, <1>2

\* One file more.
LEMMA NextFile ==
  ASSUME NEW t \in Seq(GoFile), NEW n \in 0..(Len(t) - 1)
  PROVE  LET f == t[n + 1]
             known == f.dir \in DOMAIN PackagesOf(t, n) \cup ExcludedIn(t, n)
         IN /\ known \/ ~ f.ok => /\ PackagesOf(t, n + 1) = PackagesOf(t, n)
                                  /\ ExcludedIn(t, n + 1) = ExcludedIn(t, n)
            /\ ~ known /\ f.ok /\ f.name \in Excluded =>
                 /\ PackagesOf(t, n + 1) = PackagesOf(t, n)
                 /\ ExcludedIn(t, n + 1) = ExcludedIn(t, n) \cup {f.dir}
            /\ ~ known /\ f.ok /\ f.name \notin Excluded =>
                 /\ PackagesOf(t, n + 1) =
                      [p \in DOMAIN PackagesOf(t, n) \cup {f.dir} |->
                         IF p = f.dir THEN f.name ELSE PackagesOf(t, n)[p]]
                 /\ ExcludedIn(t, n + 1) = ExcludedIn(t, n)
<1> DEFINE f == t[n + 1]
           known == f.dir \in DOMAIN PackagesOf(t, n) \cup ExcludedIn(t, n)
<1>1. n \in Nat /\ n + 1 \in Nat /\ 1..(n + 1) = 1..n \cup {n + 1} /\ n + 1 \notin 1..n
      /\ n \in 0..Len(t) /\ (n + 1) - 1 = n
  OBVIOUS
<1>11. /\ PackagesOf(t, n) = [p \in DOMAIN PackagesOf(t, n) |-> PackagesOf(t, n)[p]]
       /\ DOMAIN PackagesOf(t, n) = {t[i].dir : i \in Deciders(t, n)}
       /\ \A i \in Deciders(t, n) : PackagesOf(t, n)[t[i].dir] = t[i].name
  BY <1>1, PackagesFacts
<1>12. /\ PackagesOf(t, n + 1) = [p \in DOMAIN PackagesOf(t, n + 1) |-> PackagesOf(t, n + 1)[p]]
       /\ DOMAIN PackagesOf(t, n + 1) = {t[i].dir : i \in Deciders(t, n + 1)}
       /\ \A i \in Deciders(t, n + 1) : PackagesOf(t, n + 1)[t[i].dir] = t[i].name
  BY <1>1, PackagesFacts
<1>2. known <=> \E j \in 1..n : t[j].ok /\ t[j].dir = f.dir
  <2>1. \A p : (\E j \in 1..n : t[j].ok /\ t[j].dir = p)
                <=> p \in {t[i].dir : i \in Deciders(t, n)} \cup ExcludedIn(t, n)
    BY <1>1, DecidedIfUsable
  <2> QED
    BY <1>11, <2>1
<1>3. Decides(t, n + 1) <=> f.ok /\ ~ known
  BY <1>1, <1>2 DEF Decides
<1> HIDE DEF known
<1>4. ~ Decides(t, n + 1) => Deciders(t, n + 1) = Deciders(t, n)
                             /\ Outsiders(t, n + 1) = Outsiders(t, n)
  BY <1>1 DEF Deciders, Outsiders
<1>5. Decides(t, n + 1) /\ f.name \in Excluded =>
        Deciders(t, n + 1) = Deciders(t, n) /\ Outsiders(t, n + 1) = Outsiders(t, n) \cup {n + 1}
  BY <1>1 DEF Deciders, Outsiders
<1>6. Decides(t, n + 1) /\ f.name \notin Excluded =>
        Deciders(t, n + 1) = Deciders(t, n) \cup {n + 1} /\ Outsiders(t, n + 1) = Outsiders(t, n)
  BY <1>1 DEF Deciders, Outsiders
<1>7. /\ Outsiders(t, n + 1) = Outsiders(t, n) => ExcludedIn(t, n + 1) = ExcludedIn(t, n)
      /\ Outsiders(t, n + 1) = Outsiders(t, n) \cup {n + 1} =>
           ExcludedIn(t, n + 1) = ExcludedIn(t, n) \cup {f.dir}
  BY DEF ExcludedIn
<1>8. ASSUME Deciders(t, n + 1) = Deciders(t, n)
      PROVE  PackagesOf(t, n + 1) = PackagesOf(t, n)
  <2>1. DOMAIN PackagesOf(t, n + 1) = DOMAIN PackagesOf(t, n)
    BY <1>8, <1>11, <1>12
  <2>2. \A i \in Deciders(t, n) : PackagesOf(t, n + 1)[t[i].dir] = PackagesOf(t, n)[t[i].dir]
    BY <1>8, <1>11, <1>12
  <2>3. \A p \in DOMAIN PackagesOf(t, n) : PackagesOf(t, n + 1)[p] = PackagesOf(t, n)[p]
    BY <1>11, <2>2
  <2> QED
    BY <1>11, <1>12, <2>1, <2>3
<1>9. ASSUME Deciders(t, n + 1) = Deciders(t, n) \cup {n + 1}
      PROVE  PackagesOf(t, n + 1) = [p \in DOMAIN PackagesOf(t, n) \cup {f.dir} |->
                                       IF p = f.dir THEN f.name ELSE PackagesOf(t, n)[p]]
  <2>1. DOMAIN PackagesOf(t, n + 1) = DOMAIN PackagesOf(t, n) \cup {f.dir}
    BY <1>9, <1>11, <1>12
  <2>2. PackagesOf(t, n + 1)[f.dir] = f.name
    BY <1>9, <1>12
  <2>3. \A i \in Deciders(t, n) : PackagesOf(t, n + 1)[t[i].dir] = PackagesOf(t, n)[t[i].dir]
    BY <1>9, <1>11, <1>12
  <2>4. \A p \in DOMAIN PackagesOf(t, n) : PackagesOf(t, n + 1)[p] = PackagesOf(t, n)[p]
    BY <1>11, <2>3
  <2> HIDE DEF f
  <2> QED
    BY <1>12, <2>1, <2>2, <2>4
<1>10. /\ known \/ ~ f.ok => /\ PackagesOf(t, n + 1) = PackagesOf(t, n)
                             /\ ExcludedIn(t, n + 1) = ExcludedIn(t, n)
       /\ ~ known /\ f.ok /\ f.name \in Excluded =>
            /\ PackagesOf(t, n + 1) = PackagesOf(t, n)
            /\ ExcludedIn(t, n + 1) = ExcludedIn(t, n) \cup {f.dir}
       /\ ~ known /\ f.ok /\ f.name \notin Excluded =>
            /\ PackagesOf(t, n + 1) =
                 [p \in DOMAIN PackagesOf(t, n) \cup {f.dir} |->
                    IF p = f.dir THEN f.name ELSE PackagesOf(t, n)[p]]
            /\ ExcludedIn(t, n + 1) = ExcludedIn(t, n)
  BY <1>3, <1>4, <1>5, <1>6, <1>7, <1>8, <1>9
<1> QED
  BY <1>10 DEF known

-----------------------------------------------------------------------------
(* pkgpaths: the goroutines of a root. *)

PathMaps == UNION {[P -> STRING] : P \in SUBSET STRING}
Grid(S)  == [PathCalls -> [SrcDirs -> S]]

PathsTypes ==
  /\ tree \in [SrcDirs -> Trees]
  /\ pathCall \in [PathCalls -> {"idle", "waits", "done"}]
  /\ walker \in Grid({"no", "walks", "closed", "done"})
  /\ gather \in Grid({"no", "runs", "done"})
  /\ toWalk \in Grid(Seq(GoFile)) /\ ch \in Grid(Seq(GoFile))
  /\ paths \in Grid(PathMaps) /\ seen \in Grid(SUBSET STRING)
  /\ res \in [PathCalls -> UNION {[D -> PathMaps] : D \in SUBSET SrcDirs}]

\* How many files of a root have been gathered.
GatheredFiles(c, d) == Len(tree[d]) - Len(toWalk[c][d]) - Len(ch[c][d])

\* No file is lost: those gathered, those in the channel and those to walk make the tree,
\* and what was gathered is what one pass would have found so far.
PassInv(c, d) ==
  LET n == GatheredFiles(c, d) IN
  /\ n \in Nat
  /\ \A i \in 1..Len(ch[c][d]) : ch[c][d][i] = tree[d][n + i]
  /\ \A i \in 1..Len(toWalk[c][d]) : toWalk[c][d][i] = tree[d][n + Len(ch[c][d]) + i]
  /\ paths[c][d] = PackagesOf(tree[d], n)
  /\ seen[c][d] = ExcludedIn(tree[d], n)

\* The walker ends when there is nothing to walk, the gatherer after it, when the channel
\* is empty; then the root is published.
JoinInv(c, d) ==
  /\ walker[c][d] \in {"closed", "done"} => toWalk[c][d] = <<>>
  /\ gather[c][d] = "runs" => walker[c][d] # "no"
  /\ gather[c][d] = "done" => walker[c][d] \in {"closed", "done"} /\ ch[c][d] = <<>>
  /\ walker[c][d] = "done" => gather[c][d] = "done"
  /\ d \in DOMAIN res[c] <=> walker[c][d] = "done" /\ paths[c][d] # <<>>
  /\ d \in DOMAIN res[c] => res[c][d] = paths[c][d]
  /\ pathCall[c] = "idle" => walker[c][d] = "no"
  /\ pathCall[c] = "done" => walker[c][d] = "done"

PathsInv == PathsTypes /\ \A c \in PathCalls, d \in SrcDirs : PassInv(c, d) /\ JoinInv(c, d)

LEMMA TreeFacts ==
  ASSUME PathsTypes, NEW c \in PathCalls, NEW d \in SrcDirs
  PROVE  /\ tree[d] \in Seq(GoFile) /\ Len(tree[d]) \in Nat
         /\ toWalk[c][d] \in Seq(GoFile) /\ Len(toWalk[c][d]) \in Nat
         /\ ch[c][d] \in Seq(GoFile) /\ Len(ch[c][d]) \in Nat
BY PkgPathsAssumption DEF PathsTypes, Grid, GoFile

\* A step that leaves the files of a root where they are.
LEMMA PassSame ==
  ASSUME NEW c \in PathCalls, NEW d \in SrcDirs, PassInv(c, d), tree' = tree,
         toWalk'[c][d] = toWalk[c][d], ch'[c][d] = ch[c][d],
         paths'[c][d] = paths[c][d], seen'[c][d] = seen[c][d]
  PROVE  PassInv(c, d)'
<1>1. GatheredFiles(c, d)' = GatheredFiles(c, d)
  BY DEF GatheredFiles
<1> QED
  BY <1>1 DEF PassInv

LEMMA JoinSame ==
  ASSUME NEW c \in PathCalls, NEW d \in SrcDirs, JoinInv(c, d),
         walker'[c][d] = walker[c][d], gather'[c][d] = gather[c][d],
         toWalk'[c][d] = toWalk[c][d], ch'[c][d] = ch[c][d],
         paths'[c][d] = paths[c][d], pathCall'[c] = pathCall[c],
         d \in DOMAIN res'[c] <=> d \in DOMAIN res[c],
         d \in DOMAIN res[c] => res'[c][d] = res[c][d]
  PROVE  JoinInv(c, d)'
BY DEF JoinInv

\* A step in the root d of the call c.
RootStep(c, d) ==
  /\ tree' = tree
  /\ \A a \in PathCalls, b \in SrcDirs : a # c \/ b # d =>
       /\ walker'[a][b] = walker[a][b] /\ gather'[a][b] = gather[a][b]
       /\ toWalk'[a][b] = toWalk[a][b] /\ ch'[a][b] = ch[a][b]
       /\ paths'[a][b] = paths[a][b] /\ seen'[a][b] = seen[a][b]
       /\ b \in DOMAIN res'[a] <=> b \in DOMAIN res[a]
       /\ b \in DOMAIN res[a] => res'[a][b] = res[a][b]

LEMMA RootStepInv ==
  ASSUME PathsInv, NEW c \in PathCalls, NEW d \in SrcDirs, RootStep(c, d), pathCall' = pathCall,
         PathsTypes', PassInv(c, d)', JoinInv(c, d)'
  PROVE  PathsInv'
<1>1. ASSUME NEW a \in PathCalls, NEW b \in SrcDirs, a # c \/ b # d
      PROVE  PassInv(a, b)' /\ JoinInv(a, b)'
  <2>1. PassInv(a, b) /\ JoinInv(a, b)
    BY DEF PathsInv
  <2>2. PassInv(a, b)'
    BY <1>1, <2>1, PassSame DEF RootStep
  <2>3. JoinInv(a, b)'
    BY <1>1, <2>1, JoinSame DEF RootStep
  <2> QED
    BY <2>2, <2>3
<1> QED
  BY <1>1 DEF PathsInv

LEMMA PathsInitInv == PkgPathsInit => PathsInv
<1> SUFFICES ASSUME PkgPathsInit PROVE PathsInv
  OBVIOUS
<1>1. /\ tree \in [SrcDirs -> Trees] /\ pathCall = [c \in PathCalls |-> "idle"]
      /\ toWalk = [c \in PathCalls |-> tree] /\ res = [c \in PathCalls |-> <<>>]
      /\ \A c \in PathCalls, d \in SrcDirs :
           /\ walker[c][d] = "no" /\ gather[c][d] = "no" /\ ch[c][d] = <<>>
           /\ paths[c][d] = <<>> /\ seen[c][d] = {} /\ toWalk[c][d] = tree[d]
  BY DEF PkgPathsInit, Each
<1>2. <<>> \in PathMaps
  <2>1. <<>> \in [{} -> STRING]
    OBVIOUS
  <2> QED
    BY <2>1 DEF PathMaps
<1>3. PathsTypes
  <2>1. /\ walker \in Grid({"no", "walks", "closed", "done"})
        /\ gather \in Grid({"no", "runs", "done"})
        /\ ch \in Grid(Seq(GoFile)) /\ paths \in Grid(PathMaps) /\ seen \in Grid(SUBSET STRING)
    BY <1>2 DEF PkgPathsInit, Each, Grid
  <2>2. tree \in [SrcDirs -> Seq(GoFile)]
    BY <1>1, PkgPathsAssumption DEF GoFile
  <2>3. toWalk \in Grid(Seq(GoFile))
    BY <1>1, <2>2 DEF Grid
  <2>4. res \in [PathCalls -> UNION {[D -> PathMaps] : D \in SUBSET SrcDirs}]
    <3>1. <<>> \in [{} -> PathMaps]
      OBVIOUS
    <3> QED
      BY <1>1, <3>1
  <2> QED
    BY <1>1, <2>1, <2>3, <2>4 DEF PathsTypes
<1>4. ASSUME NEW c \in PathCalls, NEW d \in SrcDirs PROVE PassInv(c, d) /\ JoinInv(c, d)
  <2>1. Len(tree[d]) \in Nat /\ GatheredFiles(c, d) = 0
    BY <1>1, <1>3, TreeFacts DEF GatheredFiles
  <2>2. Deciders(tree[d], 0) = {} /\ Outsiders(tree[d], 0) = {}
    BY DEF Deciders, Outsiders
  <2>3. PackagesOf(tree[d], 0) = <<>> /\ ExcludedIn(tree[d], 0) = {}
    <3>1. ExcludedIn(tree[d], 0) = {}
      BY <2>2 DEF ExcludedIn
    <3>2. PackagesOf(tree[d], 0) = [p \in {tree[d][i].dir : i \in {}} |->
                                      tree[d][CHOOSE i \in {} : tree[d][i].dir = p].name]
      BY <2>2 DEF PackagesOf, Deciders
    <3>3. {tree[d][i].dir : i \in {}} = {}
      OBVIOUS
    <3>4. \A f : DOMAIN f = {} /\ f = [p \in DOMAIN f |-> f[p]] => f = <<>>
      OBVIOUS
    <3> QED
      BY <3>1, <3>2, <3>3, <3>4
  <2>5. PassInv(c, d)
    <3>1. \A i \in 1..Len(tree[d]) : tree[d][i] = tree[d][0 + Len(<<>>) + i]
      BY <2>1
    <3>2. /\ ch[c][d] = <<>> /\ toWalk[c][d] = tree[d] /\ paths[c][d] = <<>> /\ seen[c][d] = {}
          /\ Len(<<>>) = 0 /\ GatheredFiles(c, d) \in Nat
      BY <1>1, <2>1
    <3> QED
      BY <2>1, <2>3, <3>1, <3>2 DEF PassInv
  <2>6. JoinInv(c, d)
    BY <1>1 DEF JoinInv
  <2> QED
    BY <2>5, <2>6
<1> QED
  BY <1>3, <1>4 DEF PathsInv

LEMMA StartPkgPathsInv == ASSUME PathsInv, NEW c \in PathCalls, StartPkgPaths(c) PROVE PathsInv'
<1>1. /\ pathCall[c] = "idle" /\ tree' = tree /\ toWalk' = toWalk /\ ch' = ch
      /\ paths' = paths /\ seen' = seen /\ res' = res
      /\ pathCall' = [pathCall EXCEPT ![c] = "waits"]
      /\ walker' = [walker EXCEPT ![c] = [d \in SrcDirs |-> "walks"]]
      /\ gather' = [gather EXCEPT ![c] = [d \in SrcDirs |-> "runs"]]
  BY DEF StartPkgPaths
<1>2. PathsTypes'
  BY <1>1 DEF PathsInv, PathsTypes, Grid
<1>3. pathCall'[c] = "waits" /\ \A d \in SrcDirs : walker'[c][d] = "walks" /\ gather'[c][d] = "runs"
  BY <1>1 DEF PathsInv, PathsTypes, Grid
<1>4. ASSUME NEW a \in PathCalls, NEW d \in SrcDirs PROVE PassInv(a, d)' /\ JoinInv(a, d)'
  <2>1. PassInv(a, d) /\ JoinInv(a, d)
    BY DEF PathsInv
  <2>2. PassInv(a, d)'
    BY <1>1, <2>1, PassSame
  <2>3. CASE a = c
    BY <1>1, <1>3, <2>1, <2>2, <2>3 DEF JoinInv
  <2>4. CASE a # c
    <3>1. pathCall'[a] = pathCall[a] /\ walker'[a][d] = walker[a][d] /\ gather'[a][d] = gather[a][d]
      BY <1>1, <2>4 DEF PathsInv, PathsTypes, Grid
    <3> QED
      BY <1>1, <2>1, <2>2, <3>1, JoinSame
  <2> QED
    BY <2>3, <2>4
<1> QED
  BY <1>2, <1>4 DEF PathsInv

LEMMA SendFileInv ==
  ASSUME PathsInv, NEW c \in PathCalls, NEW d \in SrcDirs, SendFile(c, d)
  PROVE  PathsInv'
<1>1. /\ walker[c][d] = "walks" /\ toWalk[c][d] # <<>>
      /\ ch' = [ch EXCEPT ![c][d] = Append(ch[c][d], Head(toWalk[c][d]))]
      /\ toWalk' = [toWalk EXCEPT ![c][d] = Tail(toWalk[c][d])]
      /\ tree' = tree /\ pathCall' = pathCall /\ walker' = walker /\ gather' = gather
      /\ paths' = paths /\ seen' = seen /\ res' = res
  BY DEF SendFile, gatherVars, PathsInv, PathsTypes, Grid
<1>2. PathsTypes /\ PassInv(c, d) /\ JoinInv(c, d)
  BY DEF PathsInv
<1>3. PICK q, w, n, t : /\ q = ch[c][d] /\ w = toWalk[c][d]
                        /\ n = GatheredFiles(c, d) /\ t = tree[d]
  OBVIOUS
<1>4. t \in Seq(GoFile) /\ Len(t) \in Nat /\ w \in Seq(GoFile) /\ Len(w) \in Nat
      /\ q \in Seq(GoFile) /\ Len(q) \in Nat
  BY <1>2, <1>3, TreeFacts
<1>5. /\ Head(w) = w[1] /\ w[1] \in GoFile /\ Len(w) >= 1
      /\ Tail(w) \in Seq(GoFile) /\ Len(Tail(w)) = Len(w) - 1
      /\ \A i \in 1..(Len(w) - 1) : Tail(w)[i] = w[i + 1]
  BY <1>1, <1>3, <1>4, QueueFacts
<1>14. PICK qq : qq = Append(q, w[1])
  OBVIOUS
<1>15. /\ qq \in Seq(GoFile) /\ Len(qq) = Len(q) + 1
       /\ \A i \in 1..Len(q) : qq[i] = q[i]
       /\ qq[Len(q) + 1] = w[1]
  BY <1>4, <1>5, <1>14, QueueFacts
<1>6. /\ ch' \in Grid(Seq(GoFile)) /\ ch'[c][d] = qq
      /\ \A a \in PathCalls, b \in SrcDirs : a # c \/ b # d => ch'[a][b] = ch[a][b]
  <2>1. ch \in Grid(Seq(GoFile)) /\ ch' = [ch EXCEPT ![c][d] = qq]
    BY <1>1, <1>2, <1>3, <1>5, <1>14 DEF PathsTypes
  <2> QED
    BY <1>15, <2>1 DEF Grid
<1>7. /\ toWalk' \in Grid(Seq(GoFile)) /\ toWalk'[c][d] = Tail(w)
      /\ \A a \in PathCalls, b \in SrcDirs : a # c \/ b # d => toWalk'[a][b] = toWalk[a][b]
  <2>1. toWalk \in Grid(Seq(GoFile)) /\ toWalk' = [toWalk EXCEPT ![c][d] = Tail(w)]
    BY <1>1, <1>2, <1>3 DEF PathsTypes
  <2> QED
    BY <1>5, <2>1 DEF Grid
<1>8. PathsTypes'
  BY <1>1, <1>2, <1>6, <1>7 DEF PathsTypes
<1>9. GatheredFiles(c, d)' = n /\ n = Len(t) - Len(w) - Len(q)
  <2>1. n = Len(t) - Len(w) - Len(q)
    BY <1>3 DEF GatheredFiles
  <2>2. GatheredFiles(c, d)' = Len(t) - Len(Tail(w)) - Len(qq)
    BY <1>1, <1>3, <1>6, <1>7 DEF GatheredFiles
  <2> QED
    BY <1>4, <1>5, <1>15, <2>1, <2>2
<1>10. /\ n \in Nat
       /\ \A i \in 1..Len(q) : q[i] = t[n + i]
       /\ \A i \in 1..Len(w) : w[i] = t[n + Len(q) + i]
       /\ paths[c][d] = PackagesOf(t, n) /\ seen[c][d] = ExcludedIn(t, n)
  BY <1>2, <1>3 DEF PassInv
<1>11. PassInv(c, d)'
  <2>1. ASSUME NEW i \in 1..Len(qq) PROVE qq[i] = t[n + i]
    <3>1. CASE i \in 1..Len(q)
      BY <1>15, <1>10, <3>1
    <3>2. CASE i = Len(q) + 1
      <4>1. 1 \in 1..Len(w) /\ n + Len(q) + 1 = n + i
        BY <1>4, <1>5, <1>10, <3>2
      <4> QED
        BY <1>15, <1>10, <3>2, <4>1
    <3> QED
      BY <1>4, <1>15, <3>1, <3>2
  <2>2. ASSUME NEW i \in 1..Len(Tail(w)) PROVE Tail(w)[i] = t[n + Len(qq) + i]
    <3>1. i + 1 \in 1..Len(w) /\ i \in 1..(Len(w) - 1) /\ n + Len(q) + (i + 1) = n + Len(qq) + i
      BY <1>4, <1>5, <1>10, <1>15
    <3> QED
      BY <1>5, <1>10, <3>1
  <2>3. /\ tree'[d] = t /\ paths'[c][d] = PackagesOf(t, n) /\ seen'[c][d] = ExcludedIn(t, n)
    BY <1>1, <1>3, <1>10
  <2> QED
    BY <1>6, <1>7, <1>9, <1>10, <2>1, <2>2, <2>3 DEF PassInv
<1>12. JoinInv(c, d)'
  BY <1>1, <1>2 DEF JoinInv
<1>13. RootStep(c, d)
  BY <1>1, <1>6, <1>7 DEF RootStep
<1> QED
  BY <1>1, <1>8, <1>11, <1>12, <1>13, RootStepInv

LEMMA CloseChanInv ==
  ASSUME PathsInv, NEW c \in PathCalls, NEW d \in SrcDirs, CloseChan(c, d)
  PROVE  PathsInv'
<1>1. /\ walker[c][d] = "walks" /\ toWalk[c][d] = <<>>
      /\ walker' = [walker EXCEPT ![c][d] = "closed"]
      /\ tree' = tree /\ pathCall' = pathCall /\ gather' = gather /\ toWalk' = toWalk
      /\ ch' = ch /\ paths' = paths /\ seen' = seen /\ res' = res
  BY DEF CloseChan, gatherVars
<1>2. PathsTypes /\ PassInv(c, d) /\ JoinInv(c, d)
  BY DEF PathsInv
<1>3. /\ walker' \in Grid({"no", "walks", "closed", "done"}) /\ walker'[c][d] = "closed"
      /\ \A a \in PathCalls, b \in SrcDirs : a # c \/ b # d => walker'[a][b] = walker[a][b]
  BY <1>1, <1>2 DEF Grid, PathsTypes
<1>4. PathsTypes'
  BY <1>1, <1>2, <1>3 DEF PathsTypes
<1>5. PassInv(c, d)'
  BY <1>1, <1>2, PassSame
<1>6. JoinInv(c, d)'
  BY <1>1, <1>2, <1>3 DEF JoinInv
<1>7. RootStep(c, d)
  BY <1>1, <1>3 DEF RootStep
<1> QED
  BY <1>1, <1>4, <1>5, <1>6, <1>7, RootStepInv

LEMMA GatherEndsInv ==
  ASSUME PathsInv, NEW c \in PathCalls, NEW d \in SrcDirs, GatherEnds(c, d)
  PROVE  PathsInv'
<1>1. /\ gather[c][d] = "runs" /\ walker[c][d] # "walks" /\ ch[c][d] = <<>>
      /\ gather' = [gather EXCEPT ![c][d] = "done"]
      /\ tree' = tree /\ pathCall' = pathCall /\ walker' = walker /\ toWalk' = toWalk
      /\ ch' = ch /\ paths' = paths /\ seen' = seen /\ res' = res
  BY DEF GatherEnds, walkVars
<1>2. PathsTypes /\ PassInv(c, d) /\ JoinInv(c, d)
  BY DEF PathsInv
<1>3. /\ gather' \in Grid({"no", "runs", "done"}) /\ gather'[c][d] = "done"
      /\ \A a \in PathCalls, b \in SrcDirs : a # c \/ b # d => gather'[a][b] = gather[a][b]
  BY <1>1, <1>2 DEF Grid, PathsTypes
<1>4. PathsTypes'
  BY <1>1, <1>2, <1>3 DEF PathsTypes
<1>5. PassInv(c, d)'
  BY <1>1, <1>2, PassSame
<1>6. walker[c][d] \in {"closed", "done"}
  BY <1>1, <1>2 DEF JoinInv, PathsTypes, Grid
<1>7. JoinInv(c, d)'
  BY <1>1, <1>2, <1>3, <1>6 DEF JoinInv
<1>8. RootStep(c, d)
  BY <1>1, <1>3 DEF RootStep
<1> QED
  BY <1>1, <1>4, <1>5, <1>7, <1>8, RootStepInv

LEMMA PublishInv ==
  ASSUME PathsInv, NEW c \in PathCalls, NEW d \in SrcDirs, Publish(c, d)
  PROVE  PathsInv'
<1>1. /\ walker[c][d] = "closed" /\ gather[c][d] = "done"
      /\ walker' = [walker EXCEPT ![c][d] = "done"]
      /\ res' = IF paths[c][d] = <<>> THEN res
                ELSE [res EXCEPT ![c] = [r \in DOMAIN res[c] \cup {d} |->
                                           IF r = d THEN paths[c][d] ELSE res[c][r]]]
      /\ tree' = tree /\ pathCall' = pathCall /\ gather' = gather /\ toWalk' = toWalk
      /\ ch' = ch /\ paths' = paths /\ seen' = seen
  BY DEF Publish, Gathered, gatherVars, PathsInv, PathsTypes
<1>2. PathsTypes /\ PassInv(c, d) /\ JoinInv(c, d)
  BY DEF PathsInv
<1>3. /\ walker' \in Grid({"no", "walks", "closed", "done"}) /\ walker'[c][d] = "done"
      /\ \A a \in PathCalls, b \in SrcDirs : a # c \/ b # d => walker'[a][b] = walker[a][b]
  BY <1>1, <1>2 DEF Grid, PathsTypes
<1>4. /\ res' \in [PathCalls -> UNION {[D -> PathMaps] : D \in SUBSET SrcDirs}]
      /\ \A a \in PathCalls, b \in SrcDirs : a # c \/ b # d =>
           /\ b \in DOMAIN res'[a] <=> b \in DOMAIN res[a]
           /\ b \in DOMAIN res[a] => res'[a][b] = res[a][b]
      /\ d \in DOMAIN res'[c] <=> paths[c][d] # <<>>
      /\ d \in DOMAIN res'[c] => res'[c][d] = paths[c][d]
  <2>1. d \notin DOMAIN res[c]
    BY <1>1, <1>2 DEF JoinInv
  <2>2. CASE paths[c][d] = <<>>
    BY <1>1, <1>2, <2>1, <2>2 DEF PathsTypes
  <2>3. CASE paths[c][d] # <<>>
    <3>1. PICK f : f = [r \in DOMAIN res[c] \cup {d} |-> IF r = d THEN paths[c][d] ELSE res[c][r]]
      OBVIOUS
    <3>2. res' = [res EXCEPT ![c] = f]
      BY <1>1, <2>3, <3>1
    <3>3. paths[c][d] \in PathMaps
      BY <1>2 DEF PathsTypes, Grid
    <3>4. PICK D \in SUBSET SrcDirs : res[c] \in [D -> PathMaps]
      BY <1>2 DEF PathsTypes
    <3>5. f \in [D \cup {d} -> PathMaps] /\ D \cup {d} \in SUBSET SrcDirs
      BY <3>1, <3>3, <3>4
    <3>6. f \in UNION {[E -> PathMaps] : E \in SUBSET SrcDirs}
      BY <3>5
    <3>7. res' \in [PathCalls -> UNION {[E -> PathMaps] : E \in SUBSET SrcDirs}]
      BY <1>2, <3>2, <3>6 DEF PathsTypes
    <3>8. res'[c] = f /\ \A a \in PathCalls \ {c} : res'[a] = res[a]
      BY <1>2, <3>2 DEF PathsTypes
    <3>9. /\ d \in DOMAIN f /\ f[d] = paths[c][d]
          /\ \A b \in SrcDirs \ {d} : /\ b \in DOMAIN f <=> b \in DOMAIN res[c]
                                      /\ b \in DOMAIN res[c] => f[b] = res[c][b]
      BY <3>1
    <3> QED
      BY <2>3, <3>7, <3>8, <3>9
  <2> QED
    BY <2>2, <2>3
<1>5. PathsTypes'
  BY <1>1, <1>2, <1>3, <1>4 DEF PathsTypes
<1>6. PassInv(c, d)'
  BY <1>1, <1>2, PassSame
<1>7. JoinInv(c, d)'
  BY <1>1, <1>2, <1>3, <1>4 DEF JoinInv
<1>8. RootStep(c, d)
  BY <1>1, <1>3, <1>4 DEF RootStep
<1> QED
  BY <1>1, <1>5, <1>6, <1>7, <1>8, RootStepInv

LEMMA ProcFileInv ==
  ASSUME PathsInv, NEW c \in PathCalls, NEW d \in SrcDirs, ProcFile(c, d)
  PROVE  PathsInv'
<1>1. PICK q, w, n, t, p, s : /\ q = ch[c][d] /\ w = toWalk[c][d]
                              /\ n = GatheredFiles(c, d) /\ t = tree[d]
                              /\ p = paths[c][d] /\ s = seen[c][d]
  OBVIOUS
<1>2. PICK f : f = Head(q)
  OBVIOUS
<1>3. PathsTypes /\ PassInv(c, d) /\ JoinInv(c, d)
  BY DEF PathsInv
<1>4. /\ gather[c][d] = "runs" /\ q # <<>>
      /\ ch' = [ch EXCEPT ![c][d] = Tail(q)]
      /\ tree' = tree /\ pathCall' = pathCall /\ walker' = walker /\ toWalk' = toWalk
      /\ gather' = gather /\ res' = res
  BY <1>1, <1>3 DEF ProcFile, walkVars, PathsTypes, Grid
<1>5. LET known == f.dir \in DOMAIN p \cup s IN
      \/ (known \/ ~ f.ok) /\ paths' = paths /\ seen' = seen
      \/ /\ ~ known /\ f.ok /\ f.name \in Excluded
         /\ seen' = [seen EXCEPT ![c][d] = s \cup {f.dir}] /\ paths' = paths
      \/ /\ ~ known /\ f.ok /\ f.name \notin Excluded
         /\ paths' = [paths EXCEPT ![c][d] = [r \in DOMAIN p \cup {f.dir} |->
                                                IF r = f.dir THEN f.name ELSE p[r]]]
         /\ seen' = seen
  BY <1>1, <1>2, <1>3 DEF ProcFile, PathsTypes, Grid
<1>6. t \in Seq(GoFile) /\ Len(t) \in Nat /\ w \in Seq(GoFile) /\ Len(w) \in Nat
      /\ q \in Seq(GoFile) /\ Len(q) \in Nat
  BY <1>1, <1>3, TreeFacts
<1>7. /\ f = q[1] /\ f \in GoFile /\ Len(q) >= 1
      /\ Tail(q) \in Seq(GoFile) /\ Len(Tail(q)) = Len(q) - 1
      /\ \A i \in 1..(Len(q) - 1) : Tail(q)[i] = q[i + 1]
  BY <1>2, <1>4, <1>6, QueueFacts
<1>8. /\ n \in Nat /\ n = Len(t) - Len(w) - Len(q)
      /\ \A i \in 1..Len(q) : q[i] = t[n + i]
      /\ \A i \in 1..Len(w) : w[i] = t[n + Len(q) + i]
      /\ p = PackagesOf(t, n) /\ s = ExcludedIn(t, n)
  BY <1>1, <1>3 DEF PassInv, GatheredFiles
<1>9. n \in 0..(Len(t) - 1) /\ f = t[n + 1]
  <2>1. 1 \in 1..Len(q)
    BY <1>6, <1>7
  <2> QED
    BY <1>6, <1>7, <1>8, <2>1
<1>10. PICK pp, ss : pp = PackagesOf(t, n + 1) /\ ss = ExcludedIn(t, n + 1)
  OBVIOUS
<1>11. LET known == f.dir \in DOMAIN p \cup s IN
       /\ known \/ ~ f.ok => pp = p /\ ss = s
       /\ ~ known /\ f.ok /\ f.name \in Excluded => pp = p /\ ss = s \cup {f.dir}
       /\ ~ known /\ f.ok /\ f.name \notin Excluded =>
            /\ pp = [r \in DOMAIN p \cup {f.dir} |-> IF r = f.dir THEN f.name ELSE p[r]]
            /\ ss = s
  <2>1. LET known == t[n + 1].dir \in DOMAIN PackagesOf(t, n) \cup ExcludedIn(t, n) IN
        /\ known \/ ~ t[n + 1].ok => /\ PackagesOf(t, n + 1) = PackagesOf(t, n)
                                     /\ ExcludedIn(t, n + 1) = ExcludedIn(t, n)
        /\ ~ known /\ t[n + 1].ok /\ t[n + 1].name \in Excluded =>
             /\ PackagesOf(t, n + 1) = PackagesOf(t, n)
             /\ ExcludedIn(t, n + 1) = ExcludedIn(t, n) \cup {t[n + 1].dir}
        /\ ~ known /\ t[n + 1].ok /\ t[n + 1].name \notin Excluded =>
             /\ PackagesOf(t, n + 1) =
                  [r \in DOMAIN PackagesOf(t, n) \cup {t[n + 1].dir} |->
                     IF r = t[n + 1].dir THEN t[n + 1].name ELSE PackagesOf(t, n)[r]]
             /\ ExcludedIn(t, n + 1) = ExcludedIn(t, n)
    BY <1>6, <1>9, NextFile
  <2>2. p = PackagesOf(t, n) /\ s = ExcludedIn(t, n) /\ f = t[n + 1]
    BY <1>8, <1>9
  <2> QED
    BY <1>10, <2>1, <2>2
<1>12. /\ p \in PathMaps /\ s \in SUBSET STRING /\ paths \in Grid(PathMaps)
       /\ seen \in Grid(SUBSET STRING) /\ ch \in Grid(Seq(GoFile))
  BY <1>1, <1>3 DEF PathsTypes, Grid
<1>13. ss \in SUBSET STRING /\ seen' = [seen EXCEPT ![c][d] = ss]
  <2>1. f.dir \in STRING
    BY <1>7 DEF GoFile
  <2>2. seen = [seen EXCEPT ![c][d] = s]
    BY <1>1, <1>12 DEF Grid
  <2> QED
    BY <1>5, <1>11, <1>12, <2>1, <2>2
<1>14. pp \in PathMaps /\ paths' = [paths EXCEPT ![c][d] = pp]
  <2>1. f.dir \in STRING /\ f.name \in STRING
    BY <1>7 DEF GoFile
  <2>2. paths = [paths EXCEPT ![c][d] = p]
    BY <1>1, <1>12 DEF Grid
  <2>3. PICK P \in SUBSET STRING : p \in [P -> STRING]
    BY <1>12 DEF PathMaps
  <2>4. [r \in DOMAIN p \cup {f.dir} |-> IF r = f.dir THEN f.name ELSE p[r]]
          \in [P \cup {f.dir} -> STRING]
    BY <2>1, <2>3
  <2>5. [r \in DOMAIN p \cup {f.dir} |-> IF r = f.dir THEN f.name ELSE p[r]] \in PathMaps
    BY <2>1, <2>4 DEF PathMaps
  <2> QED
    BY <1>5, <1>11, <1>12, <2>2, <2>5
<1>15. /\ seen' \in Grid(SUBSET STRING) /\ seen'[c][d] = ss
       /\ \A a \in PathCalls, b \in SrcDirs : a # c \/ b # d => seen'[a][b] = seen[a][b]
  BY <1>12, <1>13 DEF Grid
<1>16. /\ paths' \in Grid(PathMaps) /\ paths'[c][d] = pp
       /\ \A a \in PathCalls, b \in SrcDirs : a # c \/ b # d => paths'[a][b] = paths[a][b]
  BY <1>12, <1>14 DEF Grid
<1>17. /\ ch' \in Grid(Seq(GoFile)) /\ ch'[c][d] = Tail(q)
       /\ \A a \in PathCalls, b \in SrcDirs : a # c \/ b # d => ch'[a][b] = ch[a][b]
  BY <1>4, <1>7, <1>12 DEF Grid
<1>18. PathsTypes'
  BY <1>3, <1>4, <1>15, <1>16, <1>17 DEF PathsTypes
<1>19. PassInv(c, d)'
  <2>1. GatheredFiles(c, d)' = n + 1
    <3>1. GatheredFiles(c, d)' = Len(t) - Len(w) - Len(Tail(q))
      BY <1>1, <1>4, <1>17 DEF GatheredFiles
    <3> QED
      BY <1>6, <1>7, <1>8, <3>1
  <2>2. ASSUME NEW i \in 1..Len(Tail(q)) PROVE Tail(q)[i] = t[(n + 1) + i]
    <3>1. i + 1 \in 1..Len(q) /\ i \in 1..(Len(q) - 1) /\ n + (i + 1) = (n + 1) + i
      BY <1>6, <1>7, <1>8
    <3> QED
      BY <1>7, <1>8, <3>1
  <2>3. ASSUME NEW i \in 1..Len(w) PROVE w[i] = t[(n + 1) + Len(Tail(q)) + i]
    <3>1. n + Len(q) + i = (n + 1) + Len(Tail(q)) + i
      BY <1>6, <1>7, <1>8
    <3> QED
      BY <1>8, <3>1
  <2>4. tree'[d] = t /\ toWalk'[c][d] = w
    BY <1>1, <1>4
  <2>5. n + 1 \in Nat
    BY <1>8
  <2> QED
    BY <1>10, <1>15, <1>16, <1>17, <2>1, <2>2, <2>3, <2>4, <2>5 DEF PassInv
<1>20. JoinInv(c, d)'
  <2>1. walker[c][d] # "done" /\ d \notin DOMAIN res[c]
    BY <1>3, <1>4 DEF JoinInv
  <2> QED
    BY <1>3, <1>4, <2>1 DEF JoinInv
<1>21. RootStep(c, d)
  BY <1>4, <1>15, <1>16, <1>17 DEF RootStep
<1> QED
  BY <1>4, <1>18, <1>19, <1>20, <1>21, RootStepInv

LEMMA EndPkgPathsInv == ASSUME PathsInv, NEW c \in PathCalls, EndPkgPaths(c) PROVE PathsInv'
<1>1. /\ pathCall[c] = "waits" /\ \A d \in SrcDirs : walker[c][d] = "done"
      /\ pathCall' = [pathCall EXCEPT ![c] = "done"]
      /\ tree' = tree /\ walker' = walker /\ gather' = gather /\ toWalk' = toWalk
      /\ ch' = ch /\ paths' = paths /\ seen' = seen /\ res' = res
  BY DEF EndPkgPaths, walkVars, gatherVars
<1>2. PathsTypes'
  BY <1>1 DEF PathsInv, PathsTypes
<1>3. pathCall'[c] = "done" /\ \A a \in PathCalls \ {c} : pathCall'[a] = pathCall[a]
  BY <1>1 DEF PathsInv, PathsTypes
<1>4. ASSUME NEW a \in PathCalls, NEW b \in SrcDirs PROVE PassInv(a, b)' /\ JoinInv(a, b)'
  <2>1. PassInv(a, b) /\ JoinInv(a, b)
    BY DEF PathsInv
  <2>2. PassInv(a, b)'
    BY <1>1, <2>1, PassSame
  <2>3. JoinInv(a, b)'
    BY <1>1, <1>3, <2>1 DEF JoinInv
  <2> QED
    BY <2>2, <2>3
<1> QED
  BY <1>2, <1>4 DEF PathsInv

LEMMA PathsSame == ASSUME PathsInv, UNCHANGED pkgPathsVars PROVE PathsInv'
<1>1. /\ pathCall' = pathCall
      /\ tree' = tree /\ walker' = walker /\ gather' = gather /\ toWalk' = toWalk
      /\ ch' = ch /\ paths' = paths /\ seen' = seen /\ res' = res
  BY DEF pkgPathsVars, walkVars, gatherVars
<1>2. PathsTypes'
  BY <1>1 DEF PathsInv, PathsTypes
<1>3. ASSUME NEW a \in PathCalls, NEW b \in SrcDirs PROVE PassInv(a, b)' /\ JoinInv(a, b)'
  <2>1. PassInv(a, b) /\ JoinInv(a, b)
    BY DEF PathsInv
  <2> QED
    BY <1>1, <2>1, PassSame, JoinSame
<1> QED
  BY <1>2, <1>3 DEF PathsInv

LEMMA PathsStepInv == PathsInv /\ [MethodsNext]_methodsVars => PathsInv'
<1> SUFFICES ASSUME PathsInv, [MethodsNext]_methodsVars PROVE PathsInv'
  OBVIOUS
<1>1. ASSUME NEW c \in PathCalls, StartPkgPaths(c) \/ CallPkgPaths(c) PROVE PathsInv'
  BY <1>1, StartPkgPathsInv, EndPkgPathsInv, SendFileInv, CloseChanInv, ProcFileInv, GatherEndsInv,
     PublishInv DEF CallPkgPaths
<1>2. CASE UNCHANGED pkgPathsVars
  BY <1>2, PathsSame
<1>3. (\E c \in PathCalls : StartPkgPaths(c) \/ CallPkgPaths(c)) \/ UNCHANGED pkgPathsVars
  BY DEF MethodsNext, Goroutines, methodsVars, SynchkStep, DirsStep, ImportsStep
<1> QED
  BY <1>1, <1>2, <1>3

LEMMA PathsInvWhole == PathsInv => PkgPathsWhole
<1> SUFFICES ASSUME PathsInv, NEW c \in PathCalls, pathCall[c] = "done"
             PROVE  /\ DOMAIN res[c] = {d \in SrcDirs : Packages(d) # <<>>}
                    /\ \A d \in DOMAIN res[c] : res[c][d] = Packages(d)
  BY DEF PkgPathsWhole
<1>1. ASSUME NEW d \in SrcDirs
      PROVE  /\ d \in DOMAIN res[c] <=> Packages(d) # <<>>
             /\ d \in DOMAIN res[c] => res[c][d] = Packages(d)
  <2>1. PassInv(c, d) /\ JoinInv(c, d) /\ PathsTypes
    BY DEF PathsInv
  <2>2. walker[c][d] = "done" /\ toWalk[c][d] = <<>> /\ ch[c][d] = <<>>
    BY <2>1 DEF JoinInv
  <2>3. GatheredFiles(c, d) = Len(tree[d])
    BY <2>1, <2>2, TreeFacts DEF GatheredFiles
  <2>4. paths[c][d] = Packages(d)
    BY <2>1, <2>3 DEF PassInv, Packages
  <2> QED
    BY <2>1, <2>2, <2>4 DEF JoinInv
<1>2. DOMAIN res[c] \subseteq SrcDirs
  BY DEF PathsInv, PathsTypes
<1> QED
  BY <1>1, <1>2

\* The answer of pkgpaths is what one pass over every tree finds: nothing is lost or doubled
\* in the channel, at its end, or between the goroutines that the call waits for.
THEOREM WalksAreWhole == MethodsSpec => []PkgPathsWhole
<1>1. MethodsInit => PathsInv
  BY PathsInitInv DEF MethodsInit
<1> QED
  BY <1>1, PathsStepInv, PathsInvWhole, PTL DEF MethodsSpec

-----------------------------------------------------------------------------
(* pkg_dirs: the tree of the paths *)

AllPaths == Paths \cup {Root}

\* A set of paths that has, with a path, those in it.
Closed(S) == \A q \in Paths : DirOf[q] \in S => q \in S

LEMMA BelowFacts ==
  ASSUME NEW p \in AllPaths
  PROVE  /\ p \in Below(p) /\ Below(p) \subseteq AllPaths
         /\ Closed(Below(p))
         /\ \A S \in SUBSET AllPaths : p \in S /\ Closed(S) => Below(p) \subseteq S
BY DEF Below, Closed, AllPaths

LEMMA RootAbove == \A p \in Paths : Root \notin Below(p)
<1> SUFFICES ASSUME NEW p \in Paths PROVE Root \notin Below(p)
  OBVIOUS
<1>1. Closed(Paths) /\ Paths \in SUBSET AllPaths /\ p \in AllPaths
  BY DEF Closed, AllPaths
<1> QED
  BY <1>1, BelowFacts, PkgDirsAssumption

\* What is below a path is below the directory that the path is in.
LEMMA BelowChild ==
  ASSUME NEW r \in Paths PROVE DirOf[r] \in AllPaths /\ Below(r) \subseteq Below(DirOf[r])
<1>1. DirOf[r] \in AllPaths /\ r \in AllPaths
  BY PkgDirsAssumption DEF AllPaths
<1>2. /\ DirOf[r] \in Below(DirOf[r]) /\ Below(DirOf[r]) \in SUBSET AllPaths
      /\ Closed(Below(DirOf[r]))
  BY <1>1, BelowFacts
<1>3. r \in Below(DirOf[r])
  BY <1>2 DEF Closed
<1> QED
  BY <1>1, <1>2, <1>3, BelowFacts

\* What is below a path, and is not the path, is below one that is in it.
LEMMA BelowSplit ==
  ASSUME NEW p \in AllPaths, NEW q \in Below(p), q # p
  PROVE  q \in Paths /\ \E r \in Paths : DirOf[r] = p /\ q \in Below(r)
<1> DEFINE S == {p} \cup {x \in AllPaths : \E r \in Paths : DirOf[r] = p /\ x \in Below(r)}
<1>1. ASSUME NEW x \in Paths, DirOf[x] \in S PROVE x \in S
  <2>1. x \in AllPaths
    BY DEF AllPaths
  <2>2. CASE DirOf[x] = p
    BY <2>1, <2>2, BelowFacts
  <2>3. CASE DirOf[x] # p
    <3>1. PICK r \in Paths : DirOf[r] = p /\ DirOf[x] \in Below(r)
      BY <1>1, <2>3
    <3>2. x \in Below(r)
      BY <3>1, BelowFacts DEF Closed, AllPaths
    <3> QED
      BY <2>1, <3>1, <3>2
  <2> QED
    BY <2>2, <2>3
<1>2. S \in SUBSET AllPaths /\ p \in S
  OBVIOUS
<1>3. Closed(S)
  BY <1>1 DEF Closed
<1>4. q \in S
  BY <1>2, <1>3, BelowFacts
<1>5. PICK r \in Paths : DirOf[r] = p /\ q \in Below(r)
  BY <1>4
<1>6. q \in AllPaths /\ q # Root
  BY <1>4, <1>5, RootAbove
<1> QED
  BY <1>5, <1>6 DEF AllPaths

\* The directory of such a path is below it too.
LEMMA BelowUp ==
  ASSUME NEW p \in AllPaths, NEW q \in Below(p), q # p PROVE q \in Paths /\ DirOf[q] \in Below(p)
<1> DEFINE S == {p} \cup {x \in Below(p) \cap Paths : DirOf[x] \in Below(p)}
<1>1. p \in Below(p) /\ Below(p) \subseteq AllPaths /\ Closed(Below(p))
  BY BelowFacts
<1>2. Closed(S)
  BY <1>1 DEF Closed
<1>3. S \in SUBSET AllPaths /\ p \in S
  BY <1>1
<1>4. q \in S
  BY <1>2, <1>3, BelowFacts
<1> QED
  BY <1>4

LEMMA AllBelowRoot ==
  ASSUME NEW S \in SUBSET AllPaths, Root \in S, Closed(S) PROVE AllPaths \subseteq S
<1>1. Root \in AllPaths
  BY DEF AllPaths
<1>2. AllPaths \subseteq Below(Root)
  BY <1>1, BelowFacts, PkgDirsAssumption DEF AllPaths
<1> QED
  BY <1>1, <1>2, BelowFacts

\* There are no cycles.
LEMMA Acyclic == \A r \in Paths : DirOf[r] \notin Below(r)
<1> DEFINE S == {x \in AllPaths : x = Root \/ DirOf[x] \notin Below(x)}
<1>1. ASSUME NEW x \in Paths, DirOf[x] \in S, DirOf[x] \in Below(x) PROVE FALSE
  <2> DEFINE y == DirOf[x]
  <2>1. x \in AllPaths /\ y \in AllPaths
    BY PkgDirsAssumption DEF AllPaths
  <2>2. y # Root /\ y \in Paths /\ DirOf[y] \notin Below(y)
    BY <1>1, RootAbove DEF AllPaths
  <2>3. CASE y = x
    BY <2>1, <2>2, <2>3, BelowFacts
  <2>4. CASE y # x
    <3>1. DirOf[y] \in Below(x)
      BY <1>1, <2>1, <2>4, BelowUp
    <3>2. Below(x) \subseteq Below(y)
      BY BelowChild
    <3> QED
      BY <2>2, <3>1, <3>2
  <2> QED
    BY <2>3, <2>4
<1>2. Closed(S)
  BY <1>1 DEF Closed, AllPaths
<1>3. S \in SUBSET AllPaths /\ Root \in S
  BY DEF AllPaths
<1>4. AllPaths \subseteq S
  BY <1>2, <1>3, AllBelowRoot
<1> QED
  BY <1>4, PkgDirsAssumption DEF AllPaths

\* Nothing is below two paths of one directory.
LEMMA Siblings ==
  ASSUME NEW r \in Paths, NEW s \in Paths, DirOf[r] = DirOf[s], r # s
  PROVE  Below(r) \cap Below(s) = {}
<1> DEFINE S == {x \in AllPaths : x \notin Below(r) \/ x \notin Below(s)}
<1>0. r \in AllPaths /\ s \in AllPaths
  BY DEF AllPaths
<1>1. ASSUME NEW x \in Paths, DirOf[x] \in S, x \in Below(r), x \in Below(s) PROVE FALSE
  <2>1. CASE x = r
    <3>1. DirOf[r] \in Below(s)
      BY <1>0, <1>1, <2>1, BelowUp
    <3> QED
      BY <3>1, Acyclic
  <2>2. CASE x = s
    <3>1. DirOf[s] \in Below(r)
      BY <1>0, <1>1, <2>2, BelowUp
    <3> QED
      BY <3>1, Acyclic
  <2>3. CASE x # r /\ x # s
    <3>1. DirOf[x] \in Below(r)
      BY <1>0, <1>1, <2>3, BelowUp
    <3>2. DirOf[x] \in Below(s)
      BY <1>0, <1>1, <2>3, BelowUp
    <3> QED
      BY <1>1, <3>1, <3>2
  <2> QED
    BY <2>1, <2>2, <2>3
<1>2. Closed(S)
  BY <1>1 DEF Closed, AllPaths
<1>3. S \in SUBSET AllPaths /\ Root \in S
  BY RootAbove DEF AllPaths
<1>4. AllPaths \subseteq S
  BY <1>2, <1>3, AllBelowRoot
<1>5. Below(r) \subseteq AllPaths
  BY <1>0, BelowFacts
<1> QED
  BY <1>4, <1>5

-----------------------------------------------------------------------------
(* pkg_dirs: the file of a package *)

\* Induction, for a set in the place of a predicate.
LEMMA SetInduction ==
  ASSUME NEW S, 0 \in S, \A i \in Nat : i \in S => i + 1 \in S
  PROVE  Nat \subseteq S
<1> SUFFICES ASSUME Nat \ S # {} PROVE FALSE
  OBVIOUS
<1>1. PICK x \in Nat \ S : \A y \in Nat \ S : x <= y
  BY Least
<1>2. x - 1 \in Nat /\ x - 1 \notin Nat \ S
  BY <1>1
<1> QED
  BY <1>1, <1>2

\* What the fold makes of the names at the indices s, if f is that of fewer.
Picks(f, names, s) ==
  IF s = {} THEN "none"
  ELSE IF Better(names[Max(s)], f[s \ {Max(s)}]) THEN names[Max(s)] ELSE f[s \ {Max(s)}]

LEMMA ChosenUnfolds ==
  ASSUME NEW names
  PROVE  Chosen(names) = (CHOOSE f : f = [s \in SUBSET DOMAIN names |-> Picks(f, names, s)])
                           [DOMAIN names]
BY DEF Chosen, FoldLeft, MapThenFoldSet, Picks

LEMMA MaxIsLast ==
  ASSUME NEW k \in Nat, NEW s \in SUBSET (1..(k + 1)), ~ (s \subseteq 1..k)
  PROVE  s # {} /\ Max(s) = k + 1 /\ s \ {Max(s)} \subseteq 1..k
<1>1. k + 1 \in s
  OBVIOUS
<1>2. \A y \in s : k + 1 >= y
  OBVIOUS
<1>3. \A x \in s : (\A y \in s : x >= y) => x = k + 1
  BY <1>1
<1>4. Max(s) = k + 1
  BY <1>1, <1>2, <1>3 DEF Max
<1> QED
  BY <1>1, <1>4

\* There is a function that the fold is: FoldLeft chooses one.
LEMMA FoldExists ==
  ASSUME NEW n \in Nat, NEW names
  PROVE  \E f : f = [s \in SUBSET (1..n) |-> Picks(f, names, s)]
<1> DEFINE T == {k \in Nat : \E f : f = [s \in SUBSET (1..k) |-> Picks(f, names, s)]}
<1>1. 0 \in T
  <2> DEFINE g == [s \in SUBSET (1..0) |-> "none"]
  <2>1. \A s \in SUBSET (1..0) : s = {}
    OBVIOUS
  <2>2. \A s \in SUBSET (1..0) : Picks(g, names, s) = "none"
    BY <2>1 DEF Picks
  <2>3. g = [s \in SUBSET (1..0) |-> Picks(g, names, s)]
    BY <2>2
  <2> QED
    BY <2>3
<1>2. ASSUME NEW k \in Nat, k \in T PROVE k + 1 \in T
  <2>1. PICK g : g = [s \in SUBSET (1..k) |-> Picks(g, names, s)]
    BY <1>2
  <2> DEFINE h == [s \in SUBSET (1..(k + 1)) |->
                     IF s \subseteq 1..k THEN g[s] ELSE Picks(g, names, s)]
  <2>2. \A s \in SUBSET (1..k) : s \in SUBSET (1..(k + 1)) /\ h[s] = g[s]
    OBVIOUS
  <2> HIDE DEF h
  <2>3. \A s \in SUBSET (1..k) : Picks(h, names, s) = Picks(g, names, s)
    <3> SUFFICES ASSUME NEW s \in SUBSET (1..k) PROVE Picks(h, names, s) = Picks(g, names, s)
      OBVIOUS
    <3>1. h[s \ {Max(s)}] = g[s \ {Max(s)}]
      BY <2>2
    <3> QED
      BY <3>1 DEF Picks
  <2>4. \A s \in SUBSET (1..(k + 1)) :
          ~ (s \subseteq 1..k) => Picks(h, names, s) = Picks(g, names, s)
    <3> SUFFICES ASSUME NEW s \in SUBSET (1..(k + 1)), ~ (s \subseteq 1..k)
                 PROVE  Picks(h, names, s) = Picks(g, names, s)
      OBVIOUS
    <3>1. h[s \ {Max(s)}] = g[s \ {Max(s)}]
      BY <2>2, MaxIsLast
    <3> QED
      BY <3>1 DEF Picks
  <2>5. \A s \in SUBSET (1..k) : g[s] = Picks(g, names, s)
    BY <2>1
  <2>6. \A s \in SUBSET (1..(k + 1)) : h[s] = Picks(h, names, s)
    BY <2>3, <2>4, <2>5 DEF h
  <2>7. h = [s \in SUBSET (1..(k + 1)) |-> Picks(h, names, s)]
    BY <2>6 DEF h
  <2>8. k + 1 \in Nat
    OBVIOUS
  <2> QED
    BY <2>7, <2>8
<1> HIDE DEF T
<1>3. Nat \subseteq T
  BY <1>1, <1>2, SetInduction
<1>4. n \in T
  BY <1>3
<1> QED
  BY <1>4 DEF T

\* Of the file names that a directory has in some order the right one is chosen.
LEMMA ChosenRight ==
  ASSUME NEW n \in Nat, NEW names \in [1..n -> FileNames], n # 0
  PROVE  /\ \E i \in 1..n : Chosen(names) = names[i]
         /\ (\E i \in 1..n : names[i] = "ideal") => Chosen(names) = "ideal"
         /\ (\E i \in 1..n : names[i] = "main") => Chosen(names) # "other"
<1> DEFINE f == CHOOSE f : f = [s \in SUBSET (1..n) |-> Picks(f, names, s)]
<1>1. f = [s \in SUBSET (1..n) |-> Picks(f, names, s)]
  BY FoldExists
<1>2. Chosen(names) = f[1..n]
  BY ChosenUnfolds
<1> HIDE DEF f
<1> DEFINE R(k) == /\ k = 0 => f[1..k] = "none"
                   /\ k # 0 => \E i \in 1..k : f[1..k] = names[i]
                   /\ (\E i \in 1..k : names[i] = "ideal") => f[1..k] = "ideal"
                   /\ (\E i \in 1..k : names[i] = "main") => f[1..k] # "other"
           T == {k \in Nat : k <= n => R(k)}
<1>3. 0 \in T
  <2>1. 1..0 = {} /\ 1..0 \in SUBSET (1..n)
    OBVIOUS
  <2>2. f[1..0] = "none"
    BY <1>1, <2>1 DEF Picks
  <2> QED
    BY <2>1, <2>2
<1>4. ASSUME NEW k \in Nat, k \in T PROVE k + 1 \in T
  <2> SUFFICES ASSUME k + 1 <= n PROVE R(k + 1)
    OBVIOUS
  <2>1. R(k)
    BY <1>4
  <2>2. /\ 1..(k + 1) \in SUBSET (1..n) /\ ~ (1..(k + 1) \subseteq 1..k)
        /\ (1..(k + 1)) \ {k + 1} = 1..k /\ k + 1 \in 1..n /\ 1..(k + 1) = 1..k \cup {k + 1}
    OBVIOUS
  <2>3. 1..(k + 1) # {} /\ Max(1..(k + 1)) = k + 1
    BY <2>2, MaxIsLast
  <2>4. f[1..(k + 1)] = IF Better(names[k + 1], f[1..k]) THEN names[k + 1] ELSE f[1..k]
    BY <1>1, <2>2, <2>3 DEF Picks
  <2>5. k + 1 # 0 /\ (k = 0 \/ k # 0) /\ (k = 0 => 1..k = {})
    OBVIOUS
  <2>6. names[k + 1] \in FileNames
    BY <2>2
  <2> QED
    BY <2>1, <2>2, <2>4, <2>5, <2>6 DEF Better, FileNames
<1> HIDE DEF T
<1>5. Nat \subseteq T
  BY <1>3, <1>4, SetInduction
<1>6. R(n)
  BY <1>5 DEF T
<1> QED
  BY <1>2, <1>6

\* The names of a directory's Go files, in an order that they may come in.
LEMMA ListingFacts ==
  ASSUME NEW G \in SUBSET FileNames, NEW names \in SetToSeqs(G)
  PROVE  \E n \in Nat : /\ names \in [1..n -> FileNames]
                        /\ \A i \in 1..n : names[i] \in G
                        /\ \A x \in G : \E i \in 1..n : names[i] = x
                        /\ n = 0 <=> G = {}
                        /\ n = 0 <=> names = <<>>
<1> DEFINE n == Cardinality(G)
<1>1. IsFiniteSet(G)
  <2>1. FileNames = (({"ideal"} \cup {"like ideal"}) \cup {"main"}) \cup {"other"}
    BY DEF FileNames
  <2>2. IsFiniteSet({"ideal"})
    BY FS_Singleton
  <2>3. IsFiniteSet({"ideal"} \cup {"like ideal"})
    BY <2>2, FS_AddElement
  <2>4. IsFiniteSet(({"ideal"} \cup {"like ideal"}) \cup {"main"})
    BY <2>3, FS_AddElement
  <2>5. IsFiniteSet((({"ideal"} \cup {"like ideal"}) \cup {"main"}) \cup {"other"})
    BY <2>4, FS_AddElement
  <2>6. IsFiniteSet(FileNames)
    BY <2>1, <2>5
  <2> QED
    BY <2>6, FS_Subset
<1>2. n \in Nat /\ (n = 0 <=> G = {})
  BY <1>1, FS_CardinalityType, FS_EmptySet
<1>3. names \in [1..n -> G] /\ \A i, j \in 1..n : i # j => names[i] # names[j]
  BY DEF SetToSeqs
<1> HIDE DEF n
<1>4. names \in Injection(1..n, G)
  BY <1>3 DEF Injection, IsInjective
<1>5. IsFiniteSet(1..n) /\ Cardinality(1..n) = n
  <2>1. IsFiniteSet(1..n) /\ Cardinality(1..n) = IF 1 > n THEN 0 ELSE n - 1 + 1
    BY <1>2, FS_Interval
  <2> QED
    BY <1>2, <2>1
<1>6. names \in Surjection(1..n, G)
  BY <1>1, <1>4, <1>5, FS_Injection DEF n
<1>7. \A x \in G : \E i \in 1..n : names[i] = x
  BY <1>6 DEF Surjection
<1>8. names \in [1..n -> FileNames] /\ \A i \in 1..n : names[i] \in G
  BY <1>3
<1>9. n = 0 <=> names = <<>>
  BY <1>2, <1>3
<1> QED
  BY <1>2, <1>7, <1>8, <1>9

\* In whatever order they come the right file is chosen of them.
LEMMA ChosenOfListing ==
  ASSUME NEW p \in AllPaths, NEW names \in SetToSeqs(GoFiles[p])
  PROVE  /\ names = <<>> <=> GoFiles[p] = {}
         /\ names # <<>> => Chosen(names) \in FileNames /\ RightFile(p, Chosen(names))
<1>1. GoFiles[p] \in SUBSET FileNames
  BY PkgDirsAssumption DEF AllPaths
<1>2. PICK n \in Nat : /\ names \in [1..n -> FileNames]
                       /\ \A i \in 1..n : names[i] \in GoFiles[p]
                       /\ \A x \in GoFiles[p] : \E i \in 1..n : names[i] = x
                       /\ n = 0 <=> GoFiles[p] = {}
                       /\ n = 0 <=> names = <<>>
  BY <1>1, ListingFacts
<1>3. ASSUME n # 0 PROVE Chosen(names) \in FileNames /\ RightFile(p, Chosen(names))
  <2>1. /\ \E i \in 1..n : Chosen(names) = names[i]
        /\ (\E i \in 1..n : names[i] = "ideal") => Chosen(names) = "ideal"
        /\ (\E i \in 1..n : names[i] = "main") => Chosen(names) # "other"
    BY <1>2, <1>3, ChosenRight
  <2>2. Chosen(names) \in GoFiles[p]
    BY <1>2, <2>1
  <2> QED
    BY <1>1, <1>2, <2>1, <2>2 DEF RightFile
<1> QED
  BY <1>2, <1>3

-----------------------------------------------------------------------------
(* pkg_dirs: the walk *)

DirWalks == {"idle", "walk", "stat", "store", "open", "done"}

DirsTypes ==
  /\ there \in SUBSET Paths /\ kind \in [Paths -> Kinds]
  /\ walk \in [DirCalls -> DirWalks] /\ todo \in [DirCalls -> SUBSET Paths]
  /\ path \in [DirCalls -> AllPaths] /\ isDir \in [DirCalls -> BOOLEAN]
  /\ found \in [DirCalls -> SUBSET [path : AllPaths, file : FileNames]]
  /\ lasting \in [DirCalls -> SUBSET Paths]

\* With a path the directories are there that it is in.
Upward(S) == \A p \in S : DirOf[p] \in S \cup {Root}

\* Paths are in directories, and what the cache has is true of them.
FilesInv ==
  /\ \A p \in Paths : DirOf[p] # Root => kind[DirOf[p]] = "dir"
  /\ Upward(there)
  /\ \A p \in DOMAIN cached : p \in Paths /\ cached[p] = (kind[p] = "dir")

AtPath(c) == walk[c] \in {"stat", "store", "open"}

\* The paths whose directories the call has still to go through.
Ahead(c) == todo[c] \cup (IF AtPath(c) THEN {path[c]} ELSE {})

\* Where a call is.
WalkInv(c) ==
  /\ walk[c] = "idle" => todo[c] = {} /\ found[c] = {} /\ path[c] = Root
  /\ walk[c] \in {"stat", "store"} => path[c] \in Paths
  /\ walk[c] = "store" => isDir[c] = (kind[path[c]] = "dir")
  /\ walk[c] = "done" => todo[c] = {}
  /\ AtPath(c) => path[c] \notin todo[c]

\* Nothing is come to twice, from two of the paths ahead or after it was found.
Apart(c) ==
  /\ \A a, b \in Ahead(c) : a # b => Below(a) \cap Below(b) = {}
  /\ \A f \in found[c] : \A a \in Ahead(c) : f.path \notin Below(a)
  /\ \A f, g \in found[c] : f.path = g.path => f = g

Package(d) == kind[d] = "dir" /\ GoFiles[d] # {}

\* A package that has been there all the time is found, or is below a path ahead.
Covered(c) ==
  /\ lasting[c] \subseteq there /\ Upward(lasting[c])
  /\ walk[c] # "idle" =>
       \A d \in lasting[c] : Package(d) => \/ \E f \in found[c] : f.path = d
                                           \/ \E a \in Ahead(c) : d \in Below(a)

DirsInv ==
  /\ DirsTypes /\ FilesInv
  /\ \A c \in DirCalls : /\ WalkInv(c) /\ Apart(c) /\ Covered(c)
                         /\ \A f \in found[c] : RightFile(f.path, f.file)

LEMMA AheadType == ASSUME DirsTypes, NEW c \in DirCalls PROVE Ahead(c) \subseteq AllPaths
BY DEF DirsTypes, Ahead, AllPaths

\* A path is there if one below it is.
LEMMA UpwardBelow ==
  ASSUME NEW L \in SUBSET Paths, Upward(L), NEW r \in Paths, NEW d \in Below(r), d \in L
  PROVE  r \in L
<1> SUFFICES ASSUME r \notin L PROVE FALSE
  OBVIOUS
<1> DEFINE S == Paths \ L
<1>1. Closed(S)
  BY PkgDirsAssumption DEF Closed, Upward
<1>2. S \in SUBSET AllPaths /\ r \in AllPaths /\ r \in S
  BY DEF AllPaths
<1>3. d \in S
  BY <1>1, <1>2, BelowFacts
<1> QED
  BY <1>3

\* There is no package below a path that is gone, or is a file.
LEMMA NothingBelow ==
  ASSUME FilesInv, NEW L \in SUBSET Paths, Upward(L), L \subseteq there, NEW p \in Paths,
         p \notin there \/ kind[p] # "dir", NEW d \in L, Package(d)
  PROVE  d \notin Below(p)
<1> SUFFICES ASSUME d \in Below(p) PROVE FALSE
  OBVIOUS
<1>1. p \in L
  BY UpwardBelow
<1>2. d # p
  BY <1>1 DEF Package
<1>3. p \in AllPaths
  BY DEF AllPaths
<1>4. PICK r \in Paths : DirOf[r] = p
  BY <1>2, <1>3, BelowSplit
<1>5. kind[p] = "dir"
  BY <1>4, PkgDirsAssumption DEF FilesInv
<1> QED
  BY <1>1, <1>5

LEMMA DirsInitInv == PkgDirsInit => DirsInv
<1> SUFFICES ASSUME PkgDirsInit PROVE DirsInv
  OBVIOUS
<1>1. DirsTypes
  BY DEF PkgDirsInit, DirsTypes, DirWalks, AllPaths
<1>2. FilesInv
  BY DEF PkgDirsInit, FilesInv, Upward
<1>3. ASSUME NEW c \in DirCalls
      PROVE  WalkInv(c) /\ Apart(c) /\ Covered(c) /\ found[c] = {}
  BY DEF PkgDirsInit, WalkInv, Apart, Covered, Ahead, AtPath, Upward
<1> QED
  BY <1>1, <1>2, <1>3 DEF DirsInv

\* A call is where it was.
LEMMA WalkSame ==
  ASSUME NEW c \in DirCalls, WalkInv(c), Apart(c), Covered(c), kind' = kind,
         \A f \in found[c] : RightFile(f.path, f.file),
         walk'[c] = walk[c], todo'[c] = todo[c], path'[c] = path[c], isDir'[c] = isDir[c],
         found'[c] = found[c], lasting'[c] \subseteq lasting[c],
         lasting'[c] \subseteq there', Upward(lasting'[c])
  PROVE  WalkInv(c)' /\ Apart(c)' /\ Covered(c)' /\ \A f \in found'[c] : RightFile(f.path, f.file)
<1>1. Ahead(c)' = Ahead(c) /\ AtPath(c)' = AtPath(c)
  BY DEF Ahead, AtPath
<1>2. WalkInv(c)'
  BY <1>1 DEF WalkInv
<1>3. Apart(c)'
  BY <1>1 DEF Apart
<1>4. \A d : Package(d)' <=> Package(d)
  BY DEF Package
<1>5. Covered(c)'
  BY <1>1, <1>4 DEF Covered, Upward
<1> QED
  BY <1>2, <1>3, <1>5

\* The step of one call, which leaves the files and the other calls alone.
LEMMA OneDirCall ==
  ASSUME DirsInv, NEW c \in DirCalls, DirsTypes', FilesInv', UNCHANGED <<there, kind>>,
         \A d \in DirCalls \ {c} : /\ walk'[d] = walk[d] /\ todo'[d] = todo[d]
                                   /\ path'[d] = path[d] /\ isDir'[d] = isDir[d]
                                   /\ found'[d] = found[d] /\ lasting'[d] = lasting[d],
         WalkInv(c)', Apart(c)', Covered(c)',
         \A f \in found'[c] : RightFile(f.path, f.file)
  PROVE  DirsInv'
<1>1. ASSUME NEW d \in DirCalls
      PROVE  /\ WalkInv(d)' /\ Apart(d)' /\ Covered(d)'
             /\ \A f \in found'[d] : RightFile(f.path, f.file)
  <2>1. CASE d = c
    BY <2>1
  <2>2. CASE d # c
    <3>1. /\ WalkInv(d) /\ Apart(d) /\ Covered(d)
          /\ \A f \in found[d] : RightFile(f.path, f.file)
      BY DEF DirsInv
    <3>2. /\ lasting'[d] \subseteq lasting[d] /\ lasting'[d] \subseteq there'
          /\ Upward(lasting'[d])
      BY <2>2, <3>1 DEF Covered
    <3> QED
      BY <2>2, <3>1, <3>2, WalkSame
  <2> QED
    BY <2>1, <2>2
<1> QED
  BY <1>1 DEF DirsInv

\* The files change and the calls stay where they are.
LEMMA FilesChangeInv ==
  ASSUME DirsInv, NEW p \in Paths, RemovePath(p) \/ MakePath(p) PROVE DirsInv'
<1>1. /\ kind' = kind /\ cached' = cached /\ walk' = walk /\ todo' = todo /\ path' = path
      /\ isDir' = isDir /\ found' = found
  BY DEF RemovePath, MakePath
<1>2. /\ there' \in SUBSET Paths /\ Upward(there')
      /\ lasting' \in [DirCalls -> SUBSET Paths]
      /\ \A c \in DirCalls : /\ lasting'[c] \subseteq lasting[c]
                             /\ lasting'[c] \subseteq there' /\ Upward(lasting'[c])
  <2>1. /\ there \in SUBSET Paths /\ Upward(there) /\ lasting \in [DirCalls -> SUBSET Paths]
        /\ \A c \in DirCalls : lasting[c] \subseteq there /\ Upward(lasting[c])
    BY DEF DirsInv, DirsTypes, FilesInv, Covered
  <2>2. CASE RemovePath(p)
    <3>1. /\ there' = there \ Below(p)
          /\ lasting' = [c \in DirCalls |-> lasting[c] \cap there']
      BY <2>2 DEF RemovePath
    <3>2. \A q \in Paths : DirOf[q] \in Below(p) => q \in Below(p)
      BY BelowFacts DEF AllPaths, Closed
    <3>3. ASSUME NEW S \in SUBSET Paths, Upward(S) PROVE Upward(S \ Below(p))
      BY <3>2, <3>3 DEF Upward
    <3>4. ASSUME NEW c \in DirCalls
          PROVE  lasting'[c] = lasting[c] \ Below(p) /\ lasting[c] \in SUBSET Paths
      BY <2>1, <3>1
    <3>5. there' \in SUBSET Paths /\ lasting' \in [DirCalls -> SUBSET Paths]
      BY <2>1, <3>1
    <3>6. Upward(there')
      BY <2>1, <3>1, <3>3
    <3>7. ASSUME NEW c \in DirCalls
          PROVE  /\ lasting'[c] \subseteq lasting[c]
                 /\ lasting'[c] \subseteq there' /\ Upward(lasting'[c])
      <4>1. Upward(lasting[c] \ Below(p))
        BY <2>1, <3>3, <3>4
      <4> QED
        BY <2>1, <3>1, <3>4, <4>1
    <3> QED
      BY <3>5, <3>6, <3>7
  <2>3. CASE MakePath(p)
    <3>1. there' = there \cup {p} /\ lasting' = lasting /\ DirOf[p] \in there \cup {Root}
      BY <2>3 DEF MakePath
    <3> QED
      BY <2>1, <3>1 DEF Upward
  <2> QED
    BY <2>2, <2>3
<1>3. DirsTypes'
  BY <1>1, <1>2 DEF DirsInv, DirsTypes
<1>4. FilesInv'
  BY <1>1, <1>2 DEF DirsInv, FilesInv
<1>5. ASSUME NEW c \in DirCalls
      PROVE  /\ WalkInv(c)' /\ Apart(c)' /\ Covered(c)'
             /\ \A f \in found'[c] : RightFile(f.path, f.file)
  <2>1. /\ WalkInv(c) /\ Apart(c) /\ Covered(c)
        /\ \A f \in found[c] : RightFile(f.path, f.file)
    BY DEF DirsInv
  <2> QED
    BY <1>1, <1>2, <2>1, WalkSame
<1> QED
  BY <1>3, <1>4, <1>5 DEF DirsInv

LEMMA StartPkgDirsInv == ASSUME DirsInv, NEW c \in DirCalls, StartPkgDirs(c) PROVE DirsInv'
<1>1. /\ walk[c] = "idle" /\ walk' = [walk EXCEPT ![c] = "open"]
      /\ lasting' = [lasting EXCEPT ![c] = there]
      /\ there' = there /\ kind' = kind /\ cached' = cached /\ todo' = todo /\ path' = path
      /\ isDir' = isDir /\ found' = found
  BY DEF StartPkgDirs, fsVars
<1>2. DirsTypes /\ FilesInv /\ WalkInv(c)
  BY DEF DirsInv
<1>3. walk'[c] = "open" /\ lasting'[c] = there
  BY <1>1, <1>2 DEF DirsTypes
<1>4. todo[c] = {} /\ found[c] = {} /\ path[c] = Root
  BY <1>1, <1>2 DEF WalkInv
<1>5. Ahead(c)' = {Root} /\ AtPath(c)'
  BY <1>1, <1>3, <1>4 DEF Ahead, AtPath
<1>6. DirsTypes'
  BY <1>1, <1>2 DEF DirsTypes, DirWalks
<1>7. FilesInv'
  BY <1>1, <1>2 DEF FilesInv
<1>8. WalkInv(c)'
  BY <1>1, <1>3, <1>4 DEF WalkInv
<1>9. Apart(c)'
  BY <1>1, <1>4, <1>5 DEF Apart
<1>10. Covered(c)'
  <2>1. \A d \in there : d \in Below(Root)
    BY <1>2, PkgDirsAssumption DEF DirsTypes
  <2> QED
    BY <1>1, <1>2, <1>3, <1>5, <2>1 DEF Covered, FilesInv, Upward
<1>11. \A d \in DirCalls \ {c} : /\ walk'[d] = walk[d] /\ todo'[d] = todo[d]
                                 /\ path'[d] = path[d] /\ isDir'[d] = isDir[d]
                                 /\ found'[d] = found[d] /\ lasting'[d] = lasting[d]
  BY <1>1, <1>2 DEF DirsTypes
<1>12. \A f \in found'[c] : RightFile(f.path, f.file)
  BY <1>1, <1>4
<1>13. UNCHANGED <<there, kind>>
  BY <1>1
<1> QED
  BY <1>6, <1>7, <1>8, <1>9, <1>10, <1>11, <1>12, <1>13, OneDirCall

\* A call goes past paths below which there is nothing, and to no others.
LEMMA GoesPast ==
  ASSUME DirsInv, NEW c \in DirCalls, kind' = kind, there' = there,
         found'[c] = found[c], lasting'[c] = lasting[c], walk[c] # "idle",
         Ahead(c)' \subseteq Ahead(c),
         \A a \in Ahead(c) \ Ahead(c)' : a \in Paths /\ (a \notin there \/ kind[a] # "dir")
  PROVE  Apart(c)' /\ Covered(c)' /\ \A f \in found'[c] : RightFile(f.path, f.file)
<1>1. /\ DirsTypes /\ FilesInv /\ Apart(c) /\ Covered(c)
      /\ \A f \in found[c] : RightFile(f.path, f.file)
  BY DEF DirsInv
<1>2. Apart(c)'
  BY <1>1 DEF Apart
<1>3. ASSUME NEW d \in lasting[c], Package(d), NEW a \in Ahead(c), d \in Below(a)
      PROVE  a \in Ahead(c)'
  <2> SUFFICES ASSUME a \notin Ahead(c)' PROVE FALSE
    OBVIOUS
  <2>1. a \in Paths /\ (a \notin there \/ kind[a] # "dir")
    OBVIOUS
  <2>2. lasting[c] \in SUBSET Paths /\ Upward(lasting[c]) /\ lasting[c] \subseteq there
    BY <1>1 DEF DirsTypes, Covered
  <2> QED
    BY <1>1, <1>3, <2>1, <2>2, NothingBelow
<1>4. Covered(c)'
  <2>1. \A d : Package(d)' <=> Package(d)
    BY DEF Package
  <2>2. \A d \in lasting[c] : Package(d) => \/ \E f \in found[c] : f.path = d
                                            \/ \E a \in Ahead(c) : d \in Below(a)
    BY <1>1 DEF Covered
  <2>3. \A d \in lasting[c] : Package(d) => \/ \E f \in found[c] : f.path = d
                                            \/ \E a \in Ahead(c)' : d \in Below(a)
    BY <1>3, <2>2
  <2>4. lasting'[c] \subseteq there' /\ Upward(lasting[c])'
    BY <1>1 DEF Covered, Upward
  <2> QED
    BY <2>1, <2>3, <2>4 DEF Covered
<1> QED
  BY <1>1, <1>2, <1>4

LEMMA LookUpPathInv == ASSUME DirsInv, NEW c \in DirCalls, LookUpPath(c) PROVE DirsInv'
<1>1. PICK p \in todo[c] :
        /\ todo' = [todo EXCEPT ![c] = @ \ {p}] /\ path' = [path EXCEPT ![c] = p]
        /\ walk' = [walk EXCEPT ![c] = IF p \notin DOMAIN cached THEN "stat"
                                       ELSE IF cached[p] THEN "open" ELSE "walk"]
  BY DEF LookUpPath
<1>2. /\ walk[c] = "walk" /\ there' = there /\ kind' = kind /\ cached' = cached
      /\ isDir' = isDir /\ found' = found /\ lasting' = lasting
  BY DEF LookUpPath, fsVars
<1>3. DirsTypes /\ FilesInv /\ WalkInv(c)
  BY DEF DirsInv
<1>4. p \in Paths
  BY <1>3 DEF DirsTypes
<1>5. /\ todo'[c] = todo[c] \ {p} /\ path'[c] = p
      /\ walk'[c] = IF p \notin DOMAIN cached THEN "stat"
                    ELSE IF cached[p] THEN "open" ELSE "walk"
  BY <1>1, <1>3 DEF DirsTypes
<1>6. walk'[c] \in {"stat", "open", "walk"} /\ (walk'[c] = "walk" => kind[p] # "dir")
  BY <1>3, <1>5 DEF FilesInv
<1>7. Ahead(c) = todo[c] /\ Ahead(c)' = (todo[c] \ {p}) \cup (IF walk'[c] = "walk" THEN {} ELSE {p})
  BY <1>2, <1>5, <1>6 DEF Ahead, AtPath
<1>8. DirsTypes'
  <2>1. walk' \in [DirCalls -> DirWalks] /\ todo' \in [DirCalls -> SUBSET Paths]
    BY <1>1, <1>3, <1>5, <1>6 DEF DirsTypes, DirWalks
  <2>2. path' \in [DirCalls -> AllPaths]
    BY <1>1, <1>3, <1>4 DEF DirsTypes, AllPaths
  <2> QED
    BY <1>2, <1>3, <2>1, <2>2 DEF DirsTypes
<1>9. FilesInv'
  BY <1>2, <1>3 DEF FilesInv
<1>10. WalkInv(c)'
  BY <1>4, <1>5, <1>6 DEF WalkInv
<1>11. Apart(c)' /\ Covered(c)' /\ \A f \in found'[c] : RightFile(f.path, f.file)
  <2>1. Ahead(c)' \subseteq Ahead(c)
    BY <1>7
  <2>2. \A a \in Ahead(c) \ Ahead(c)' : a \in Paths /\ (a \notin there \/ kind[a] # "dir")
    BY <1>4, <1>6, <1>7
  <2>3. found'[c] = found[c] /\ lasting'[c] = lasting[c] /\ walk[c] # "idle"
    BY <1>2
  <2> QED
    BY <1>2, <2>1, <2>2, <2>3, GoesPast
<1>12. \A d \in DirCalls \ {c} : /\ walk'[d] = walk[d] /\ todo'[d] = todo[d]
                                 /\ path'[d] = path[d] /\ isDir'[d] = isDir[d]
                                 /\ found'[d] = found[d] /\ lasting'[d] = lasting[d]
  BY <1>1, <1>2, <1>3 DEF DirsTypes
<1>13. UNCHANGED <<there, kind>>
  BY <1>2
<1> QED
  BY <1>8, <1>9, <1>10, <1>11, <1>12, <1>13, OneDirCall

LEMMA StatPathInv == ASSUME DirsInv, NEW c \in DirCalls, StatPath(c) PROVE DirsInv'
<1>1. /\ walk[c] = "stat" /\ isDir' = [isDir EXCEPT ![c] = kind[path[c]] = "dir"]
      /\ walk' = [walk EXCEPT ![c] = IF path[c] \in there THEN "store" ELSE "walk"]
      /\ there' = there /\ kind' = kind /\ cached' = cached /\ todo' = todo /\ path' = path
      /\ found' = found /\ lasting' = lasting
  BY DEF StatPath, fsVars
<1>2. DirsTypes /\ FilesInv /\ WalkInv(c)
  BY DEF DirsInv
<1>3. path[c] \in Paths /\ path[c] \notin todo[c]
  BY <1>1, <1>2 DEF WalkInv, AtPath
<1>4. /\ walk'[c] = IF path[c] \in there THEN "store" ELSE "walk"
      /\ isDir'[c] = (kind[path[c]] = "dir")
  BY <1>1, <1>2 DEF DirsTypes
<1>5. /\ Ahead(c) = todo[c] \cup {path[c]}
      /\ Ahead(c)' = todo[c] \cup (IF path[c] \in there THEN {path[c]} ELSE {})
  BY <1>1, <1>4 DEF Ahead, AtPath
<1>6. DirsTypes'
  BY <1>1, <1>2 DEF DirsTypes, DirWalks
<1>7. FilesInv'
  BY <1>1, <1>2 DEF FilesInv
<1>8. WalkInv(c)'
  BY <1>1, <1>3, <1>4 DEF WalkInv
<1>9. Apart(c)' /\ Covered(c)' /\ \A f \in found'[c] : RightFile(f.path, f.file)
  <2>1. Ahead(c)' \subseteq Ahead(c)
    BY <1>5
  <2>2. \A a \in Ahead(c) \ Ahead(c)' : a \in Paths /\ (a \notin there \/ kind[a] # "dir")
    BY <1>3, <1>5
  <2>3. found'[c] = found[c] /\ lasting'[c] = lasting[c] /\ walk[c] # "idle"
    BY <1>1
  <2> QED
    BY <1>1, <2>1, <2>2, <2>3, GoesPast
<1>10. \A d \in DirCalls \ {c} : /\ walk'[d] = walk[d] /\ todo'[d] = todo[d]
                                 /\ path'[d] = path[d] /\ isDir'[d] = isDir[d]
                                 /\ found'[d] = found[d] /\ lasting'[d] = lasting[d]
  BY <1>1, <1>2 DEF DirsTypes
<1>11. UNCHANGED <<there, kind>>
  BY <1>1
<1> QED
  BY <1>6, <1>7, <1>8, <1>9, <1>10, <1>11, OneDirCall

LEMMA StorePathInv == ASSUME DirsInv, NEW c \in DirCalls, StorePath(c) PROVE DirsInv'
<1>1. /\ walk[c] = "store" /\ isDir' = isDir
      /\ walk' = [walk EXCEPT ![c] = IF isDir[c] THEN "open" ELSE "walk"]
      /\ cached' = [p \in DOMAIN cached \cup {path[c]} |->
                      IF p = path[c] THEN isDir[c] ELSE cached[p]]
      /\ there' = there /\ kind' = kind /\ todo' = todo /\ path' = path
      /\ found' = found /\ lasting' = lasting
  BY DEF StorePath, fsVars
<1>2. DirsTypes /\ FilesInv /\ WalkInv(c)
  BY DEF DirsInv
<1>3. path[c] \in Paths /\ path[c] \notin todo[c] /\ isDir[c] = (kind[path[c]] = "dir")
  BY <1>1, <1>2 DEF WalkInv, AtPath
<1>4. walk'[c] = IF isDir[c] THEN "open" ELSE "walk"
  BY <1>1, <1>2 DEF DirsTypes
<1>5. /\ Ahead(c) = todo[c] \cup {path[c]}
      /\ Ahead(c)' = todo[c] \cup (IF isDir[c] THEN {path[c]} ELSE {})
  BY <1>1, <1>4 DEF Ahead, AtPath
<1>6. DirsTypes'
  BY <1>1, <1>2 DEF DirsTypes, DirWalks
<1>7. FilesInv'
  <2>1. \A p \in DOMAIN cached' : p \in Paths /\ cached'[p] = (kind[p] = "dir")
    BY <1>1, <1>2, <1>3 DEF FilesInv
  <2> QED
    BY <1>1, <1>2, <2>1 DEF FilesInv
<1>8. WalkInv(c)'
  BY <1>1, <1>3, <1>4 DEF WalkInv
<1>9. Apart(c)' /\ Covered(c)' /\ \A f \in found'[c] : RightFile(f.path, f.file)
  <2>1. Ahead(c)' \subseteq Ahead(c)
    BY <1>5
  <2>2. \A a \in Ahead(c) \ Ahead(c)' : a \in Paths /\ (a \notin there \/ kind[a] # "dir")
    BY <1>3, <1>5
  <2>3. found'[c] = found[c] /\ lasting'[c] = lasting[c] /\ walk[c] # "idle"
    BY <1>1
  <2> QED
    BY <1>1, <2>1, <2>2, <2>3, GoesPast
<1>10. \A d \in DirCalls \ {c} : /\ walk'[d] = walk[d] /\ todo'[d] = todo[d]
                                 /\ path'[d] = path[d] /\ isDir'[d] = isDir[d]
                                 /\ found'[d] = found[d] /\ lasting'[d] = lasting[d]
  BY <1>1, <1>2 DEF DirsTypes
<1>11. UNCHANGED <<there, kind>>
  BY <1>1
<1> QED
  BY <1>6, <1>7, <1>8, <1>9, <1>10, <1>11, OneDirCall

LEMMA EndPkgDirsInv == ASSUME DirsInv, NEW c \in DirCalls, EndPkgDirs(c) PROVE DirsInv'
<1>1. /\ walk[c] = "walk" /\ todo[c] = {} /\ walk' = [walk EXCEPT ![c] = "done"]
      /\ there' = there /\ kind' = kind /\ cached' = cached /\ todo' = todo /\ path' = path
      /\ isDir' = isDir /\ found' = found /\ lasting' = lasting
  BY DEF EndPkgDirs, fsVars
<1>2. DirsTypes /\ FilesInv /\ WalkInv(c)
  BY DEF DirsInv
<1>3. walk'[c] = "done"
  BY <1>1, <1>2 DEF DirsTypes
<1>4. Ahead(c) = {} /\ Ahead(c)' = {}
  BY <1>1, <1>3 DEF Ahead, AtPath
<1>5. DirsTypes'
  BY <1>1, <1>2 DEF DirsTypes, DirWalks
<1>6. FilesInv'
  BY <1>1, <1>2 DEF FilesInv
<1>7. WalkInv(c)'
  BY <1>1, <1>3 DEF WalkInv, AtPath
<1>8. Apart(c)' /\ Covered(c)' /\ \A f \in found'[c] : RightFile(f.path, f.file)
  <2>1. found'[c] = found[c] /\ lasting'[c] = lasting[c] /\ walk[c] # "idle"
    BY <1>1
  <2> QED
    BY <1>1, <1>4, <2>1, GoesPast
<1>9. \A d \in DirCalls \ {c} : /\ walk'[d] = walk[d] /\ todo'[d] = todo[d]
                                /\ path'[d] = path[d] /\ isDir'[d] = isDir[d]
                                /\ found'[d] = found[d] /\ lasting'[d] = lasting[d]
  BY <1>1, <1>2 DEF DirsTypes
<1>10. UNCHANGED <<there, kind>>
  BY <1>1
<1> QED
  BY <1>5, <1>6, <1>7, <1>8, <1>9, <1>10, OneDirCall

\* A directory is opened: what is in it is ahead in its place, and it is found if it is a
\* package's.
LEMMA OpenDirInv ==
  ASSUME DirsInv, NEW c \in DirCalls, walk[c] = "open", NEW p, p = path[c],
         p = Root \/ (p \in there /\ kind[p] = "dir"),
         NEW N, N = {q \in there : DirOf[q] = p},
         NEW F \in SUBSET [path : AllPaths, file : FileNames],
         \A f \in F : f.path = p /\ RightFile(f.path, f.file),
         \A f, g \in F : f = g, F = {} <=> GoFiles[p] = {},
         walk' = [walk EXCEPT ![c] = "walk"],
         todo' = [todo EXCEPT ![c] = todo[c] \cup N],
         found' = [found EXCEPT ![c] = found[c] \cup F],
         UNCHANGED <<there, kind, cached, path, isDir, lasting>>
  PROVE  DirsInv'
<1>1. /\ DirsTypes /\ FilesInv /\ WalkInv(c) /\ Apart(c) /\ Covered(c)
      /\ \A f \in found[c] : RightFile(f.path, f.file)
  BY DEF DirsInv
<1>2. /\ walk'[c] = "walk" /\ todo'[c] = todo[c] \cup N /\ found'[c] = found[c] \cup F
      /\ there' = there /\ kind' = kind /\ cached' = cached /\ path' = path /\ isDir' = isDir
      /\ lasting' = lasting
  BY <1>1 DEF DirsTypes
<1>3. /\ p \in AllPaths /\ N \subseteq Paths /\ p \notin todo[c] /\ todo[c] \subseteq Paths
      /\ found[c] \subseteq [path : AllPaths, file : FileNames]
  BY <1>1 DEF DirsTypes, WalkInv, AtPath
<1>4. Ahead(c) = todo[c] \cup {p} /\ Ahead(c)' = todo[c] \cup N
  BY <1>2 DEF Ahead, AtPath
<1>5. /\ p \in Below(p)
      /\ \A q \in N : /\ Below(q) \subseteq Below(p) /\ p \notin Below(q)
                      /\ \A r \in N : q # r => Below(q) \cap Below(r) = {}
  <2>1. \A q \in N : q \in Paths /\ DirOf[q] = p
    BY <1>3
  <2>2. p \in Below(p)
    BY <1>3, BelowFacts
  <2>3. \A q \in N : Below(q) \subseteq Below(p)
    BY <2>1, BelowChild
  <2>4. \A q \in N : p \notin Below(q)
    BY <2>1, Acyclic
  <2>5. \A q, r \in N : q # r => Below(q) \cap Below(r) = {}
    BY <2>1, Siblings
  <2> QED
    BY <2>2, <2>3, <2>4, <2>5
<1>6. \A a \in todo[c] : Below(a) \cap Below(p) = {}
  BY <1>1, <1>3, <1>4 DEF Apart
<1>7. DirsTypes'
  <2>1. walk' \in [DirCalls -> DirWalks] /\ todo' \in [DirCalls -> SUBSET Paths]
    BY <1>1, <1>2, <1>3 DEF DirsTypes, DirWalks
  <2>2. found' \in [DirCalls -> SUBSET [path : AllPaths, file : FileNames]]
    BY <1>1, <1>2, <1>3 DEF DirsTypes
  <2> QED
    BY <1>1, <1>2, <2>1, <2>2 DEF DirsTypes
<1>8. FilesInv'
  BY <1>1, <1>2 DEF FilesInv
<1>9. WalkInv(c)'
  BY <1>2 DEF WalkInv, AtPath
<1>10. Apart(c)'
  <2>1. \A a, b \in todo[c] \cup N : a # b => Below(a) \cap Below(b) = {}
    <3>1. \A a, b \in todo[c] : a # b => Below(a) \cap Below(b) = {}
      BY <1>1, <1>4 DEF Apart
    <3>2. \A a \in todo[c] : \A b \in N : Below(a) \cap Below(b) = {}
      BY <1>5, <1>6
    <3> QED
      BY <1>5, <3>1, <3>2
  <2>2. \A f \in found[c] : f.path \notin Below(p) /\ \A a \in todo[c] : f.path \notin Below(a)
    BY <1>1, <1>4 DEF Apart
  <2>3. \A f \in found[c] : \A a \in todo[c] \cup N : f.path \notin Below(a)
    BY <1>5, <2>2
  <2>4. \A a \in todo[c] \cup N : p \notin Below(a)
    BY <1>5, <1>6
  <2>5. \A f \in found'[c] : \A a \in Ahead(c)' : f.path \notin Below(a)
    BY <1>2, <1>4, <2>3, <2>4
  <2>6. \A f, g \in found[c] : f.path = g.path => f = g
    BY <1>1 DEF Apart
  <2>7. \A f \in found[c] : \A g \in F : f.path # g.path
    BY <1>5, <2>2
  <2>8. \A f, g \in found'[c] : f.path = g.path => f = g
    BY <1>2, <2>6, <2>7
  <2> QED
    BY <1>4, <2>1, <2>5, <2>8 DEF Apart
<1>11. Covered(c)'
  <2>1. lasting[c] \in SUBSET Paths /\ lasting[c] \subseteq there /\ Upward(lasting[c])
    BY <1>1 DEF DirsTypes, Covered
  <2>2. ASSUME NEW d \in lasting[c], Package(d)
        PROVE  \/ \E f \in found'[c] : f.path = d
               \/ \E a \in Ahead(c)' : d \in Below(a)
    <3>1. CASE d = p
      <4>1. GoFiles[p] # {}
        BY <2>2, <3>1 DEF Package
      <4> QED
        BY <1>2, <3>1, <4>1
    <3>2. CASE d # p /\ d \in Below(p)
      <4>1. PICK r \in Paths : DirOf[r] = p /\ d \in Below(r)
        BY <1>3, <3>2, BelowSplit
      <4>2. r \in lasting[c]
        BY <2>1, <4>1, UpwardBelow
      <4>3. r \in N
        BY <2>1, <4>1, <4>2
      <4> QED
        BY <1>4, <4>1, <4>3
    <3>3. CASE d \notin Below(p)
      <4>1. \/ \E f \in found[c] : f.path = d
            \/ \E a \in Ahead(c) : d \in Below(a)
        BY <1>1, <2>2 DEF Covered
      <4> QED
        BY <1>2, <1>4, <3>3, <4>1
    <3> QED
      BY <3>1, <3>2, <3>3
  <2>3. \A d : Package(d)' <=> Package(d)
    BY <1>2 DEF Package
  <2>4. lasting'[c] \subseteq there' /\ Upward(lasting[c])'
    BY <1>2, <2>1 DEF Upward
  <2> QED
    BY <1>2, <2>2, <2>3, <2>4 DEF Covered
<1>12. \A d \in DirCalls \ {c} : /\ walk'[d] = walk[d] /\ todo'[d] = todo[d]
                                 /\ path'[d] = path[d] /\ isDir'[d] = isDir[d]
                                 /\ found'[d] = found[d] /\ lasting'[d] = lasting[d]
  BY <1>1, <1>2 DEF DirsTypes
<1>13. \A f \in found'[c] : RightFile(f.path, f.file)
  BY <1>1, <1>2
<1>14. UNCHANGED <<there, kind>>
  BY <1>2
<1> QED
  BY <1>7, <1>8, <1>9, <1>10, <1>11, <1>12, <1>13, <1>14, OneDirCall

LEMMA OpenInv == ASSUME DirsInv, NEW c \in DirCalls, Open(c) PROVE DirsInv'
<1>1. DirsTypes /\ FilesInv /\ WalkInv(c)
  BY DEF DirsInv
<1>2. PICK p : p = path[c]
  OBVIOUS
<1>3. /\ walk[c] = "open" /\ walk' = [walk EXCEPT ![c] = "walk"]
      /\ there' = there /\ kind' = kind /\ cached' = cached /\ path' = path
      /\ isDir' = isDir /\ lasting' = lasting
  BY DEF Open, fsVars
<1>4. UNCHANGED <<there, kind, cached, path, isDir, lasting>>
  BY <1>3
<1>5. CASE p = Root \/ (p \in there /\ kind[p] = "dir")
  <2>1. /\ todo' = [todo EXCEPT ![c] = todo[c] \cup {q \in there : DirOf[q] = p}]
        /\ \E names \in SetToSeqs(GoFiles[p]) :
             found' = [found EXCEPT ![c] =
               IF names = <<>> THEN found[c]
               ELSE found[c] \cup {[path |-> p, file |-> Chosen(names)]}]
    BY <1>2, <1>5 DEF Open
  <2>2. PICK names \in SetToSeqs(GoFiles[p]) :
          found' = [found EXCEPT ![c] =
            IF names = <<>> THEN found[c]
            ELSE found[c] \cup {[path |-> p, file |-> Chosen(names)]}]
    BY <2>1
  <2>3. PICK F : F = (IF names = <<>> THEN {} ELSE {[path |-> p, file |-> Chosen(names)]})
    OBVIOUS
  <2>4. p \in AllPaths
    BY <1>1, <1>2 DEF DirsTypes
  <2>5. /\ F \in SUBSET [path : AllPaths, file : FileNames]
        /\ \A f \in F : f.path = p /\ RightFile(f.path, f.file)
        /\ \A f, g \in F : f = g
        /\ F = {} <=> GoFiles[p] = {}
    <3>1. /\ names = <<>> <=> GoFiles[p] = {}
          /\ names # <<>> => Chosen(names) \in FileNames /\ RightFile(p, Chosen(names))
      BY <2>4, ChosenOfListing
    <3>2. PICK file : file = Chosen(names)
      OBVIOUS
    <3>3. CASE names = <<>>
      BY <2>3, <3>1, <3>3
    <3>4. CASE names # <<>>
      <4>1. F = {[path |-> p, file |-> file]} /\ file \in FileNames /\ RightFile(p, file)
        BY <2>3, <3>1, <3>2, <3>4
      <4>2. PICK f : f = [path |-> p, file |-> file]
        OBVIOUS
      <4>3. f \in [path : AllPaths, file : FileNames] /\ f.path = p /\ f.file = file
        BY <2>4, <4>1, <4>2
      <4>4. F = {f}
        BY <4>1, <4>2
      <4> QED
        BY <3>1, <3>4, <4>1, <4>3, <4>4
    <3> QED
      BY <3>3, <3>4
  <2>6. PICK N : N = {q \in there : DirOf[q] = p}
    OBVIOUS
  <2>7. todo' = [todo EXCEPT ![c] = todo[c] \cup N]
    BY <2>1, <2>6
  <2>8. found' = [found EXCEPT ![c] = found[c] \cup F]
    <3>1. found[c] \cup F = IF names = <<>> THEN found[c]
                            ELSE found[c] \cup {[path |-> p, file |-> Chosen(names)]}
      BY <2>3
    <3> QED
      BY <2>2, <3>1
  <2> QED
    BY <1>2, <1>3, <1>4, <1>5, <2>5, <2>6, <2>7, <2>8, OpenDirInv
<1>6. CASE ~ (p = Root \/ (p \in there /\ kind[p] = "dir"))
  <2>1. todo' = todo /\ found' = found
    BY <1>2, <1>6 DEF Open
  <2>2. walk'[c] = "walk"
    BY <1>1, <1>3 DEF DirsTypes
  <2>3. Ahead(c) = todo[c] \cup {p} /\ Ahead(c)' = todo[c]
    BY <1>2, <1>3, <2>1, <2>2 DEF Ahead, AtPath
  <2>4. p \in Paths
    BY <1>1, <1>2, <1>6 DEF DirsTypes, AllPaths
  <2>5. DirsTypes'
    BY <1>1, <1>3, <2>1 DEF DirsTypes, DirWalks
  <2>6. FilesInv'
    BY <1>1, <1>3 DEF FilesInv
  <2>7. WalkInv(c)'
    BY <2>2 DEF WalkInv, AtPath
  <2>8. Apart(c)' /\ Covered(c)' /\ \A f \in found'[c] : RightFile(f.path, f.file)
    <3>1. Ahead(c)' \subseteq Ahead(c)
      BY <2>3
    <3>2. \A a \in Ahead(c) \ Ahead(c)' : a \in Paths /\ (a \notin there \/ kind[a] # "dir")
      BY <1>6, <2>3, <2>4
    <3>3. found'[c] = found[c] /\ lasting'[c] = lasting[c] /\ walk[c] # "idle"
      BY <1>3, <2>1
    <3> QED
      BY <1>3, <3>1, <3>2, <3>3, GoesPast
  <2>9. \A d \in DirCalls \ {c} : /\ walk'[d] = walk[d] /\ todo'[d] = todo[d]
                                  /\ path'[d] = path[d] /\ isDir'[d] = isDir[d]
                                  /\ found'[d] = found[d] /\ lasting'[d] = lasting[d]
    BY <1>1, <1>3, <2>1 DEF DirsTypes
  <2>10. UNCHANGED <<there, kind>>
    BY <1>3
  <2> QED
    BY <2>5, <2>6, <2>7, <2>8, <2>9, <2>10, OneDirCall
<1> QED
  BY <1>5, <1>6

LEMMA DirsSame == ASSUME DirsInv, UNCHANGED pkgDirsVars PROVE DirsInv'
<1>1. /\ there' = there /\ kind' = kind /\ cached' = cached /\ walk' = walk /\ todo' = todo
      /\ path' = path /\ isDir' = isDir /\ found' = found /\ lasting' = lasting
  BY DEF pkgDirsVars, fsVars
<1>2. DirsTypes' /\ FilesInv'
  BY <1>1 DEF DirsInv, DirsTypes, FilesInv, Upward
<1>3. ASSUME NEW c \in DirCalls
      PROVE  /\ WalkInv(c)' /\ Apart(c)' /\ Covered(c)'
             /\ \A f \in found'[c] : RightFile(f.path, f.file)
  <2>1. /\ WalkInv(c) /\ Apart(c) /\ Covered(c)
        /\ \A f \in found[c] : RightFile(f.path, f.file)
    BY DEF DirsInv
  <2>2. /\ lasting'[c] \subseteq lasting[c] /\ lasting'[c] \subseteq there'
        /\ Upward(lasting'[c])
    BY <1>1, <2>1 DEF Covered
  <2> QED
    BY <1>1, <2>1, <2>2, WalkSame
<1> QED
  BY <1>2, <1>3 DEF DirsInv

LEMMA DirsStepInv == DirsInv /\ [MethodsNext]_methodsVars => DirsInv'
<1> SUFFICES ASSUME DirsInv, [MethodsNext]_methodsVars PROVE DirsInv'
  OBVIOUS
<1>1. ASSUME NEW c \in DirCalls, StartPkgDirs(c) \/ CallPkgDirs(c) PROVE DirsInv'
  BY <1>1, StartPkgDirsInv, OpenInv, LookUpPathInv, StatPathInv, StorePathInv, EndPkgDirsInv
     DEF CallPkgDirs
<1>2. CASE FilesChange
  BY <1>2, FilesChangeInv DEF FilesChange
<1>3. CASE UNCHANGED pkgDirsVars
  BY <1>3, DirsSame
<1>4. \/ \E c \in DirCalls : StartPkgDirs(c) \/ CallPkgDirs(c)
      \/ FilesChange \/ UNCHANGED pkgDirsVars
  BY DEF MethodsNext, Goroutines, methodsVars, SynchkStep, PathsStep, ImportsStep
<1> QED
  BY <1>1, <1>2, <1>3, <1>4

LEMMA DirsInvComplete == DirsInv => PkgDirsComplete
<1> SUFFICES ASSUME DirsInv, NEW c \in DirCalls, walk[c] = "done"
             PROVE  /\ \A p \in lasting[c] : kind[p] = "dir" /\ GoFiles[p] # {}
                                               => \E f \in found[c] : f.path = p
                    /\ \A f \in found[c] : RightFile(f.path, f.file)
                    /\ \A f, g \in found[c] : f.path = g.path => f = g
  BY DEF PkgDirsComplete
<1>1. /\ WalkInv(c) /\ Apart(c) /\ Covered(c)
      /\ \A f \in found[c] : RightFile(f.path, f.file)
  BY DEF DirsInv
<1>2. Ahead(c) = {}
  BY <1>1 DEF WalkInv, Ahead, AtPath
<1>3. \A p \in lasting[c] : kind[p] = "dir" /\ GoFiles[p] # {} => \E f \in found[c] : f.path = p
  BY <1>1, <1>2 DEF Covered, Package
<1> QED
  BY <1>1, <1>3 DEF Apart

\* A call of pkg_dirs finds every package that was there all the time, and of each the right
\* file: however deep the tree, whatever is removed and made again around them, and whatever
\* the other calls put into the cache meanwhile.
THEOREM PackagesAreFound == MethodsSpec => []PkgDirsComplete
<1>1. MethodsInit => DirsInv
  BY DirsInitInv DEF MethodsInit
<1> QED
  BY <1>1, DirsStepInv, DirsInvComplete, PTL DEF MethodsSpec

-----------------------------------------------------------------------------
(* imports: the fold that leaves members out *)

\* What the fold makes of the members at the indices t, if f is that of fewer.
Adds(f, s, S, t) ==
  IF t = {} THEN <<>>
  ELSE IF s[Max(t)] \in S THEN Append(f[t \ {Max(t)}], s[Max(t)]) ELSE f[t \ {Max(t)}]

LEMMA ThoseUnfolds ==
  ASSUME NEW s, NEW S
  PROVE  Those(s, S) = (CHOOSE f : f = [t \in SUBSET DOMAIN s |-> Adds(f, s, S, t)])[DOMAIN s]
BY DEF Those, FoldLeft, MapThenFoldSet, Adds

\* There is a function that the fold is: FoldLeft chooses one.
LEMMA AddsExists ==
  ASSUME NEW n \in Nat, NEW s, NEW S
  PROVE  \E f : f = [t \in SUBSET (1..n) |-> Adds(f, s, S, t)]
<1> DEFINE T == {k \in Nat : \E f : f = [t \in SUBSET (1..k) |-> Adds(f, s, S, t)]}
<1>1. 0 \in T
  <2> DEFINE g == [t \in SUBSET (1..0) |-> <<>>]
  <2>1. \A t \in SUBSET (1..0) : t = {}
    OBVIOUS
  <2>2. \A t \in SUBSET (1..0) : Adds(g, s, S, t) = <<>>
    BY <2>1 DEF Adds
  <2>3. g = [t \in SUBSET (1..0) |-> Adds(g, s, S, t)]
    BY <2>2
  <2> QED
    BY <2>3
<1>2. ASSUME NEW k \in Nat, k \in T PROVE k + 1 \in T
  <2>1. PICK g : g = [t \in SUBSET (1..k) |-> Adds(g, s, S, t)]
    BY <1>2
  <2> DEFINE h == [t \in SUBSET (1..(k + 1)) |->
                     IF t \subseteq 1..k THEN g[t] ELSE Adds(g, s, S, t)]
  <2>2. \A t \in SUBSET (1..k) : t \in SUBSET (1..(k + 1)) /\ h[t] = g[t]
    OBVIOUS
  <2> HIDE DEF h
  <2>3. \A t \in SUBSET (1..k) : Adds(h, s, S, t) = Adds(g, s, S, t)
    <3> SUFFICES ASSUME NEW t \in SUBSET (1..k) PROVE Adds(h, s, S, t) = Adds(g, s, S, t)
      OBVIOUS
    <3>1. h[t \ {Max(t)}] = g[t \ {Max(t)}]
      BY <2>2
    <3> QED
      BY <3>1 DEF Adds
  <2>4. \A t \in SUBSET (1..(k + 1)) :
          ~ (t \subseteq 1..k) => Adds(h, s, S, t) = Adds(g, s, S, t)
    <3> SUFFICES ASSUME NEW t \in SUBSET (1..(k + 1)), ~ (t \subseteq 1..k)
                 PROVE  Adds(h, s, S, t) = Adds(g, s, S, t)
      OBVIOUS
    <3>1. h[t \ {Max(t)}] = g[t \ {Max(t)}]
      BY <2>2, MaxIsLast
    <3> QED
      BY <3>1 DEF Adds
  <2>5. \A t \in SUBSET (1..k) : g[t] = Adds(g, s, S, t)
    BY <2>1
  <2>6. \A t \in SUBSET (1..(k + 1)) : h[t] = Adds(h, s, S, t)
    BY <2>3, <2>4, <2>5 DEF h
  <2>7. h = [t \in SUBSET (1..(k + 1)) |-> Adds(h, s, S, t)]
    BY <2>6 DEF h
  <2>8. k + 1 \in Nat
    OBVIOUS
  <2> QED
    BY <2>7, <2>8
<1> HIDE DEF T
<1>3. Nat \subseteq T
  BY <1>1, <1>2, SetInduction
<1>4. n \in T
  BY <1>3
<1> QED
  BY <1>4 DEF T

\* q is made of those of the first k members of s that are in S, from the places that h has.
Selects(h, q, s, k, S) ==
  /\ h \in [1..Len(q) -> 1..k]
  /\ \A i \in 1..Len(q) : q[i] = s[h[i]] /\ s[h[i]] \in S
  /\ \A i, j \in 1..Len(q) : h[i] = h[j] => i = j
  /\ \A j \in 1..k : s[j] \in S => \E i \in 1..Len(q) : h[i] = j

Keeps(q, s, k, S, A) == q \in Seq(A) /\ \E h : Selects(h, q, s, k, S)

LEMMA KeepsNext ==
  ASSUME NEW A, NEW s \in Seq(A), NEW S, NEW k \in 0..Len(s) - 1, NEW p, NEW q,
         Keeps(p, s, k, S, A), q = IF s[k + 1] \in S THEN Append(p, s[k + 1]) ELSE p
  PROVE  Keeps(q, s, k + 1, S, A)
<1>1. PICK e : e = s[k + 1]
  OBVIOUS
<1>2. k \in Nat /\ k + 1 \in 1..Len(s) /\ 1..(k + 1) = 1..k \cup {k + 1} /\ e \in A
  BY <1>1
<1>3. PICK g : Selects(g, p, s, k, S)
  BY DEF Keeps
<1>4. p \in Seq(A) /\ Len(p) \in Nat
  BY DEF Keeps
<1>5. /\ g \in [1..Len(p) -> 1..k]
      /\ \A i \in 1..Len(p) : p[i] = s[g[i]] /\ s[g[i]] \in S
      /\ \A i, j \in 1..Len(p) : g[i] = g[j] => i = j
      /\ \A j \in 1..k : s[j] \in S => \E i \in 1..Len(p) : g[i] = j
  BY <1>3 DEF Selects
<1>6. CASE e \notin S
  <2>1. q = p
    BY <1>1, <1>6
  <2>2. Selects(g, p, s, k + 1, S)
    BY <1>1, <1>2, <1>5, <1>6 DEF Selects
  <2> QED
    BY <1>4, <2>1, <2>2 DEF Keeps
<1>7. CASE e \in S
  <2>1. q = Append(p, e)
    BY <1>1, <1>7
  <2>2. /\ q \in Seq(A) /\ Len(q) = Len(p) + 1 /\ q[Len(q)] = e
        /\ \A i \in 1..Len(p) : q[i] = p[i]
    BY <1>2, <1>4, <2>1, QueueFacts
  <2>3. 1..Len(q) = 1..Len(p) \cup {Len(q)} /\ Len(q) \notin 1..Len(p)
    BY <1>4, <2>2
  <2> DEFINE h == [i \in 1..Len(q) |-> IF i \in 1..Len(p) THEN g[i] ELSE k + 1]
  <2>4. /\ \A i \in 1..Len(p) : h[i] = g[i] /\ h[i] \in 1..k
        /\ h[Len(q)] = k + 1 /\ k + 1 \notin 1..k
    <3>1. \A i \in 1..Len(p) : h[i] = g[i]
      BY <2>3
    <3>2. h[Len(q)] = k + 1
      BY <2>3
    <3>3. k + 1 \notin 1..k
      BY <1>2
    <3> QED
      BY <1>5, <3>1, <3>2, <3>3
  <2>5. h \in [1..Len(q) -> 1..(k + 1)]
    BY <1>2, <1>5
  <2> HIDE DEF h
  <2>6. \A i \in 1..Len(q) : q[i] = s[h[i]] /\ s[h[i]] \in S
    BY <1>1, <1>5, <1>7, <2>2, <2>3, <2>4
  <2>7. \A i, j \in 1..Len(q) : h[i] = h[j] => i = j
    BY <1>5, <2>3, <2>4
  <2>8. \A j \in 1..(k + 1) : s[j] \in S => \E i \in 1..Len(q) : h[i] = j
    BY <1>2, <1>5, <2>3, <2>4
  <2>9. Selects(h, q, s, k + 1, S)
    BY <2>5, <2>6, <2>7, <2>8 DEF Selects
  <2> QED
    BY <2>2, <2>9 DEF Keeps
<1> QED
  BY <1>6, <1>7

\* Those members are left that are in S, each as often as it was.
LEMMA ThoseFacts ==
  ASSUME NEW A, NEW s \in Seq(A), NEW S
  PROVE  /\ Those(s, S) \in Seq(A)
         /\ \E h : Selects(h, Those(s, S), s, Len(s), S)
<1> DEFINE n == Len(s)
           f == CHOOSE f : f = [t \in SUBSET (1..n) |-> Adds(f, s, S, t)]
<1>1. n \in Nat /\ DOMAIN s = 1..n
  OBVIOUS
<1>2. f = [t \in SUBSET (1..n) |-> Adds(f, s, S, t)]
  BY <1>1, AddsExists
<1>3. Those(s, S) = f[1..n]
  BY <1>1, ThoseUnfolds
<1> HIDE DEF f
<1> DEFINE T == {k \in Nat : k <= n => Keeps(f[1..k], s, k, S, A)}
<1>4. 0 \in T
  <2>1. 1..0 = {} /\ 1..0 \in SUBSET (1..n)
    OBVIOUS
  <2>2. f[1..0] = <<>>
    BY <1>2, <2>1 DEF Adds
  <2>3. Len(<<>>) = 0 /\ <<>> \in Seq(A) /\ <<>> \in [1..0 -> 1..0]
    OBVIOUS
  <2>4. Selects(<<>>, <<>>, s, 0, S)
    BY <2>1, <2>3 DEF Selects
  <2>5. Keeps(<<>>, s, 0, S, A)
    BY <2>3, <2>4 DEF Keeps
  <2> QED
    BY <2>2, <2>5
<1>5. ASSUME NEW k \in Nat, k \in T PROVE k + 1 \in T
  <2> SUFFICES ASSUME k + 1 <= n PROVE Keeps(f[1..(k + 1)], s, k + 1, S, A)
    OBVIOUS
  <2>1. /\ 1..(k + 1) \in SUBSET (1..n) /\ ~ (1..(k + 1) \subseteq 1..k)
        /\ (1..(k + 1)) \ {k + 1} = 1..k /\ k \in 0..n - 1
    BY <1>1
  <2>2. 1..(k + 1) # {} /\ Max(1..(k + 1)) = k + 1
    <3>1. 1..(k + 1) \in SUBSET (1..(k + 1))
      OBVIOUS
    <3> QED
      BY <2>1, <3>1, MaxIsLast
  <2>3. f[1..(k + 1)] = IF s[k + 1] \in S THEN Append(f[1..k], s[k + 1]) ELSE f[1..k]
    BY <1>2, <2>1, <2>2 DEF Adds
  <2>4. Keeps(f[1..k], s, k, S, A)
    BY <1>1, <1>5
  <2> QED
    BY <2>1, <2>3, <2>4, KeepsNext
<1> HIDE DEF T
<1>6. Nat \subseteq T
  BY <1>4, <1>5, SetInduction
<1>7. Keeps(Those(s, S), s, n, S, A)
  BY <1>1, <1>3, <1>6 DEF T
<1> QED
  BY <1>7 DEF Keeps

-----------------------------------------------------------------------------
(* imports: how often something is imported *)

Decl == Seq(STRING)

LEMMA WithoutFacts ==
  ASSUME NEW decl \in Decl, NEW del
  PROVE  /\ Without(decl, del) \in Decl
         /\ \E h : Selects(h, Without(decl, del), decl, Len(decl), (ToSet(decl) \ del) \cup {PathC})
<1>1. PICK S : S = (ToSet(decl) \ del) \cup {PathC}
  OBVIOUS
<1>2. Without(decl, del) = Those(decl, S)
  BY <1>1 DEF Without
<1>3. Those(decl, S) \in Seq(STRING) /\ \E h : Selects(h, Those(decl, S), decl, Len(decl), S)
  <2>1. decl \in Seq(STRING)
    BY DEF Decl
  <2> QED
    BY <2>1, ThoseFacts
<1> QED
  BY <1>1, <1>2, <1>3 DEF Decl

\* Sets that are matched by a function have as many members.
LEMMA SameNumber ==
  ASSUME NEW A, NEW B, IsFiniteSet(A), NEW f \in [A -> B],
         \A a, b \in A : f[a] = f[b] => a = b, \A b \in B : \E a \in A : f[a] = b
  PROVE  Cardinality(A) = Cardinality(B)
<1>1. f \in Bijection(A, B)
  BY DEF Bijection, Injection, Surjection, IsInjective
<1> QED
  BY <1>1, FS_Bijection DEF ExistsBijection

LEMMA OccurrencesAre ==
  ASSUME NEW decls \in Seq(Decl), NEW p
  PROVE  /\ \A i, j : <<i, j>> \in Occurrences(decls, p) <=>
                        i \in 1..Len(decls) /\ j \in 1..Len(decls[i]) /\ decls[i][j] = p
         /\ \A o \in Occurrences(decls, p) : o = <<o[1], o[2]>>
<1>1. DOMAIN decls = 1..Len(decls) /\ \A i \in 1..Len(decls) : DOMAIN decls[i] = 1..Len(decls[i])
  BY DEF Decl
<1>2. ASSUME NEW o
      PROVE  o \in Occurrences(decls, p) <=>
               \E i \in 1..Len(decls) : \E j \in 1..Len(decls[i]) : decls[i][j] = p /\ o = <<i, j>>
  BY <1>1 DEF Occurrences
<1>3. \A i, j, k, l : <<i, j>> = <<k, l>> => i = k /\ j = l
  OBVIOUS
<1>4. ASSUME NEW i, NEW j
      PROVE  <<i, j>> \in Occurrences(decls, p) <=>
               i \in 1..Len(decls) /\ j \in 1..Len(decls[i]) /\ decls[i][j] = p
  BY <1>2, <1>3
<1>5. ASSUME NEW o \in Occurrences(decls, p) PROVE o = <<o[1], o[2]>>
  BY <1>2
<1> QED
  BY <1>4, <1>5

LEMMA OccurrencesFinite ==
  ASSUME NEW decls \in Seq(Decl), NEW p
  PROVE  IsFiniteSet(Occurrences(decls, p)) /\ Times(decls, p) \in Nat
<1> DEFINE n  == Len(decls)
           At(i) == {i} \X {j \in DOMAIN decls[i] : decls[i][j] = p}
           g  == [i \in 1..n |-> At(i)]
           TT == {At(i) : i \in 1..n}
<1>1. n \in Nat /\ DOMAIN decls = 1..n
  OBVIOUS
<1>2. IsFiniteSet(1..n)
  BY <1>1, FS_Interval
<1>3. g \in Surjection(1..n, TT)
  BY DEF Surjection
<1>4. IsFiniteSet(TT)
  BY <1>2, <1>3, FS_Surjection
<1>5. ASSUME NEW i \in 1..n PROVE IsFiniteSet(At(i))
  <2>1. Len(decls[i]) \in Nat /\ DOMAIN decls[i] = 1..Len(decls[i])
    BY <1>1 DEF Decl
  <2>2. IsFiniteSet(1..Len(decls[i]))
    BY <2>1, FS_Interval
  <2>3. {j \in DOMAIN decls[i] : decls[i][j] = p} \in SUBSET (1..Len(decls[i]))
    BY <2>1
  <2>4. IsFiniteSet({j \in DOMAIN decls[i] : decls[i][j] = p})
    BY <2>2, <2>3, FS_Subset
  <2>5. IsFiniteSet({i})
    BY FS_Singleton
  <2> QED
    BY <2>4, <2>5, FS_Product
<1>6. IsFiniteSet(UNION TT)
  BY <1>4, <1>5, FS_UNION
<1>7. Occurrences(decls, p) = UNION TT
  BY <1>1 DEF Occurrences
<1> QED
  BY <1>6, <1>7, FS_CardinalityType DEF Times

LEMMA ImportedAre ==
  ASSUME NEW decls \in Seq(Decl), NEW p
  PROVE  p \in Imported(decls) <=>
           \E i \in 1..Len(decls) : \E j \in 1..Len(decls[i]) : decls[i][j] = p
<1>1. DOMAIN decls = 1..Len(decls) /\ \A i \in 1..Len(decls) : DOMAIN decls[i] = 1..Len(decls[i])
  BY DEF Decl
<1> QED
  BY <1>1 DEF Imported, ToSet

\* What is not imported is so no times, and the other way round.
LEMMA NoTimes ==
  ASSUME NEW decls \in Seq(Decl), NEW p
  PROVE  /\ p \in Imported(decls) <=> \E i, j : <<i, j>> \in Occurrences(decls, p)
         /\ Times(decls, p) = 0 <=> p \notin Imported(decls)
<1>1. p \in Imported(decls) <=> \E i \in 1..Len(decls) : \E j \in 1..Len(decls[i]) : decls[i][j] = p
  BY ImportedAre
<1> DEFINE O == Occurrences(decls, p)
<1>2. /\ \A i, j : <<i, j>> \in O <=>
                     i \in 1..Len(decls) /\ j \in 1..Len(decls[i]) /\ decls[i][j] = p
      /\ \A o \in O : o = <<o[1], o[2]>>
  BY OccurrencesAre
<1>3. Times(decls, p) = 0 <=> O = {}
  BY OccurrencesFinite, FS_EmptySet DEF Times
<1> HIDE DEF O
<1>4. p \in Imported(decls) <=> \E i, j : <<i, j>> \in O
  BY <1>1, <1>2
<1>5. O = {} <=> ~ \E i, j : <<i, j>> \in O
  <2>1. ASSUME NEW o \in O PROVE \E i, j : <<i, j>> \in O
    <3>1. <<o[1], o[2]>> \in O
      BY <1>2
    <3> QED
      BY <3>1
  <2> QED
    BY <2>1
<1> QED
  BY <1>3, <1>4, <1>5 DEF O

\* Those of a finite set in a list, each once.
NoneTwice(s) == \A i, j \in 1..Len(s) : s[i] = s[j] => i = j

LEMMA ListFacts ==
  ASSUME NEW S \in SUBSET STRING, IsFiniteSet(S)
  PROVE  SetToSeq(S) \in Decl /\ ToSet(SetToSeq(S)) = S /\ NoneTwice(SetToSeq(S))
<1> DEFINE n == Cardinality(S)
           s == SetToSeq(S)
<1>1. n \in Nat /\ ExistsBijection(1..n, S)
  BY FS_CardinalityType
<1> HIDE DEF n
<1>2. \E g \in [1..n -> S] : IsInjective(g)
  BY <1>1 DEF ExistsBijection, Bijection, Injection
<1>3. s \in [1..n -> S] /\ IsInjective(s)
  BY <1>2 DEF SetToSeq, n
<1> HIDE DEF s
<1>4. s \in Injection(1..n, S)
  BY <1>3 DEF Injection
<1>5. Cardinality(1..n) = n
  <2>1. Cardinality(1..n) = IF 1 > n THEN 0 ELSE n - 1 + 1
    BY <1>1, FS_Interval
  <2> QED
    BY <1>1, <2>1
<1>6. s \in Surjection(1..n, S)
  BY <1>4, <1>5, FS_Injection DEF n
<1>7. S \subseteq {s[i] : i \in 1..n}
  BY <1>6 DEF Surjection
<1>8. s \in Seq(STRING) /\ DOMAIN s = 1..n /\ Len(s) = n
  <2>1. n \in Nat /\ s \in [1..n -> STRING]
    BY <1>1, <1>3
  <2> QED
    BY <2>1
<1>9. ToSet(s) = S
  BY <1>3, <1>7, <1>8 DEF ToSet
<1>10. NoneTwice(s)
  BY <1>3, <1>8 DEF NoneTwice, IsInjective
<1> QED
  BY <1>8, <1>9, <1>10 DEF s, Decl

LEMMA ConcatFacts ==
  ASSUME NEW s \in Decl, NEW t \in Decl
  PROVE  /\ s \o t \in Decl /\ Len(s) \in Nat /\ Len(t) \in Nat
         /\ \A i \in 1..Len(s) : i \in 1..Len(s \o t) /\ (s \o t)[i] = s[i]
         /\ \A i \in 1..Len(t) : Len(s) + i \in 1..Len(s \o t) /\ (s \o t)[Len(s) + i] = t[i]
         /\ \A i \in 1..Len(s \o t) : i \in 1..Len(s) \/ \E j \in 1..Len(t) : i = Len(s) + j
<1> DEFINE d == s \o t
<1>1. /\ d \in Seq(STRING) /\ Len(s) \in Nat /\ Len(t) \in Nat
      /\ Len(d) = Len(s) + Len(t)
      /\ \A i \in 1..Len(s) : d[i] = s[i]
      /\ \A i \in 1..Len(t) : d[Len(s) + i] = t[i]
  BY DEF Decl
<1> HIDE DEF d
<1>2. \A i \in 1..Len(s) : i \in 1..Len(d)
  BY <1>1
<1>3. \A i \in 1..Len(t) : Len(s) + i \in 1..Len(d)
  BY <1>1
<1>4. \A i \in 1..Len(d) : i \in 1..Len(s) \/ \E j \in 1..Len(t) : i = Len(s) + j
  <2> SUFFICES ASSUME NEW i \in 1..Len(d), i \notin 1..Len(s)
               PROVE  \E j \in 1..Len(t) : i = Len(s) + j
    OBVIOUS
  <2>1. i - Len(s) \in 1..Len(t) /\ i = Len(s) + (i - Len(s))
    BY <1>1
  <2> QED
    BY <2>1
<1> QED
  BY <1>1, <1>2, <1>3, <1>4 DEF d, Decl

\* Declarations that are empty import nothing.
NotEmpty(all) == Those(all, ToSet(all) \ {<<>>})

LEMMA EmptyDropped ==
  ASSUME NEW all \in Seq(Decl), NEW e, e = NotEmpty(all)
  PROVE  /\ e \in Seq(Decl)
         /\ \A i \in 1..Len(e) : e[i] # <<>> /\ \E j \in 1..Len(all) : e[i] = all[j]
         /\ \A p : Times(e, p) = Times(all, p)
<1>1. PICK S : S = ToSet(all) \ {<<>>}
  OBVIOUS
<1>2. e \in Seq(Decl) /\ \E h : Selects(h, e, all, Len(all), S)
  BY <1>1, ThoseFacts DEF NotEmpty
<1>3. PICK h : Selects(h, e, all, Len(all), S)
  BY <1>2
<1>4. /\ h \in [1..Len(e) -> 1..Len(all)]
      /\ \A i \in 1..Len(e) : e[i] = all[h[i]] /\ all[h[i]] \in S
      /\ \A i, j \in 1..Len(e) : h[i] = h[j] => i = j
      /\ \A j \in 1..Len(all) : all[j] \in S => \E i \in 1..Len(e) : h[i] = j
  BY <1>3 DEF Selects
<1>5. ASSUME NEW i \in 1..Len(e)
      PROVE  e[i] # <<>> /\ \E j \in 1..Len(all) : e[i] = all[j]
  <2>1. h[i] \in 1..Len(all) /\ e[i] = all[h[i]] /\ e[i] \in S
    BY <1>4
  <2> QED
    BY <1>1, <2>1
<1>6. ASSUME NEW j \in 1..Len(all), NEW l \in 1..Len(all[j]) PROVE all[j] \in S
  <2>1. all[j] \in ToSet(all)
    BY DEF ToSet
  <2>2. all[j] # <<>>
    <3>1. Len(<<>>) = 0 /\ 1..0 = {}
      OBVIOUS
    <3> QED
      BY <3>1
  <2> QED
    BY <1>1, <2>1, <2>2
<1>7. ASSUME NEW p PROVE Times(e, p) = Times(all, p)
  <2> DEFINE A == Occurrences(e, p)
             B == Occurrences(all, p)
  <2>1. IsFiniteSet(A)
    BY <1>2, OccurrencesFinite
  <2>2. /\ \A i, j : <<i, j>> \in A <=>
                       i \in 1..Len(e) /\ j \in 1..Len(e[i]) /\ e[i][j] = p
        /\ \A o \in A : o = <<o[1], o[2]>>
    BY <1>2, OccurrencesAre
  <2>3. /\ \A i, j : <<i, j>> \in B <=>
                       i \in 1..Len(all) /\ j \in 1..Len(all[i]) /\ all[i][j] = p
        /\ \A o \in B : o = <<o[1], o[2]>>
    BY OccurrencesAre
  <2> HIDE DEF A, B
  <2> DEFINE f == [o \in A |-> <<h[o[1]], o[2]>>]
  <2>4. \A o \in A : o[1] \in 1..Len(e) /\ o[2] \in 1..Len(e[o[1]]) /\ e[o[1]][o[2]] = p
    BY <2>2
  <2>5. ASSUME NEW o \in A PROVE <<h[o[1]], o[2]>> \in B
    <3>1. h[o[1]] \in 1..Len(all) /\ e[o[1]] = all[h[o[1]]]
      BY <1>4, <2>4
    <3> QED
      BY <2>3, <2>4, <3>1
  <2>6. f \in [A -> B]
    BY <2>5
  <2>7. ASSUME NEW a \in A, NEW b \in A, f[a] = f[b] PROVE a = b
    <3>1. h[a[1]] = h[b[1]] /\ a[2] = b[2]
      BY <2>7
    <3>2. a[1] = b[1]
      BY <1>4, <2>4, <3>1
    <3> QED
      BY <2>2, <3>1, <3>2
  <2>8. ASSUME NEW b \in B PROVE \E a \in A : f[a] = b
    <3>1. b = <<b[1], b[2]>> /\ b[1] \in 1..Len(all) /\ b[2] \in 1..Len(all[b[1]])
          /\ all[b[1]][b[2]] = p
      BY <2>3
    <3>2. PICK i \in 1..Len(e) : h[i] = b[1]
      BY <1>4, <1>6, <3>1
    <3>3. <<i, b[2]>> \in A
      <4>1. h[i] = b[1] /\ e[i] = all[h[i]]
        BY <1>4, <3>2
      <4>2. e[i] = all[b[1]]
        BY <4>1
      <4> QED
        BY <2>2, <3>1, <4>2
    <3> QED
      BY <3>1, <3>2, <3>3
  <2> HIDE DEF f
  <2>9. Cardinality(A) = Cardinality(B)
    BY <2>1, <2>6, <2>7, <2>8, SameNumber
  <2> QED
    BY <2>9 DEF Times, A, B
<1> QED
  BY <1>2, <1>5, <1>7

\* What is deleted is gone, and all else is there as often as it was.
LEMMA DeletedAreGone ==
  ASSUME NEW decls \in Seq(Decl), NEW del, NEW kept,
         kept = [i \in DOMAIN decls |-> Without(decls[i], del)]
  PROVE  /\ kept \in Seq(Decl) /\ Len(kept) = Len(decls)
         /\ \A p : Times(kept, p) = IF p \in del \ {PathC} THEN 0 ELSE Times(decls, p)
<1> DEFINE S(i) == (ToSet(decls[i]) \ del) \cup {PathC}
<1>1. Len(decls) \in Nat /\ DOMAIN decls = 1..Len(decls)
  OBVIOUS
<1>2. \A i \in 1..Len(decls) :
        kept[i] \in Decl /\ \E g : Selects(g, kept[i], decls[i], Len(decls[i]), S(i))
  <2> SUFFICES ASSUME NEW i \in 1..Len(decls)
               PROVE  kept[i] \in Decl /\ \E g : Selects(g, kept[i], decls[i], Len(decls[i]), S(i))
    OBVIOUS
  <2>1. decls[i] \in Decl /\ kept[i] = Without(decls[i], del)
    BY <1>1
  <2> QED
    BY <2>1, WithoutFacts
<1>3. kept \in Seq(Decl) /\ Len(kept) = Len(decls)
  <2>1. kept = [i \in 1..Len(decls) |-> kept[i]]
    BY <1>1
  <2>2. kept \in [1..Len(decls) -> Decl]
    BY <1>2, <2>1
  <2> QED
    BY <1>1, <2>2
<1> DEFINE h == [i \in 1..Len(decls) |->
                   CHOOSE g : Selects(g, kept[i], decls[i], Len(decls[i]), S(i))]
<1>4. \A i \in 1..Len(decls) : Selects(h[i], kept[i], decls[i], Len(decls[i]), S(i))
  BY <1>2
<1> HIDE DEF h
<1>5. ASSUME NEW i \in 1..Len(decls)
      PROVE  /\ h[i] \in [1..Len(kept[i]) -> 1..Len(decls[i])]
             /\ \A j \in 1..Len(kept[i]) : kept[i][j] = decls[i][h[i][j]] /\ kept[i][j] \in S(i)
             /\ \A j, k \in 1..Len(kept[i]) : h[i][j] = h[i][k] => j = k
             /\ \A k \in 1..Len(decls[i]) :
                  decls[i][k] \in S(i) => \E j \in 1..Len(kept[i]) : h[i][j] = k
  BY <1>4 DEF Selects
<1>6. ASSUME NEW p, p \in del \ {PathC} PROVE Times(kept, p) = 0
  <2>1. \A i \in 1..Len(kept) : \A j \in 1..Len(kept[i]) : kept[i][j] # p
    <3> SUFFICES ASSUME NEW i \in 1..Len(kept), NEW j \in 1..Len(kept[i]) PROVE kept[i][j] # p
      OBVIOUS
    <3>1. kept[i][j] \in S(i)
      BY <1>3, <1>5
    <3> QED
      BY <1>6, <3>1
  <2>2. p \notin Imported(kept)
    <3>1. p \in Imported(kept) <=>
            \E i \in 1..Len(kept) : \E j \in 1..Len(kept[i]) : kept[i][j] = p
      BY <1>3, ImportedAre
    <3> QED
      BY <2>1, <3>1
  <2> QED
    BY <1>3, <2>2, NoTimes
<1>7. ASSUME NEW p, p \notin del \ {PathC} PROVE Times(kept, p) = Times(decls, p)
  <2> DEFINE A == Occurrences(kept, p)
             B == Occurrences(decls, p)
  <2>1. IsFiniteSet(A)
    BY <1>3, OccurrencesFinite
  <2>2. /\ \A i, j : <<i, j>> \in A <=>
                       i \in 1..Len(decls) /\ j \in 1..Len(kept[i]) /\ kept[i][j] = p
        /\ \A o \in A : o = <<o[1], o[2]>>
    <3>1. /\ \A i, j : <<i, j>> \in A <=>
                         i \in 1..Len(kept) /\ j \in 1..Len(kept[i]) /\ kept[i][j] = p
          /\ \A o \in A : o = <<o[1], o[2]>>
      BY <1>3, OccurrencesAre
    <3> QED
      BY <1>3, <3>1
  <2>3. /\ \A i, j : <<i, j>> \in B <=>
                       i \in 1..Len(decls) /\ j \in 1..Len(decls[i]) /\ decls[i][j] = p
        /\ \A o \in B : o = <<o[1], o[2]>>
    BY OccurrencesAre
  <2> HIDE DEF A, B
  <2> DEFINE f == [o \in A |-> <<o[1], h[o[1]][o[2]]>>]
  <2>4. \A o \in A : o[1] \in 1..Len(decls) /\ o[2] \in 1..Len(kept[o[1]]) /\ kept[o[1]][o[2]] = p
    BY <2>2
  <2>5. ASSUME NEW o \in A PROVE <<o[1], h[o[1]][o[2]]>> \in B
    <3>1. h[o[1]][o[2]] \in 1..Len(decls[o[1]]) /\ decls[o[1]][h[o[1]][o[2]]] = p
      <4>1. PICK i, j : i = o[1] /\ j = o[2]
        OBVIOUS
      <4>2. i \in 1..Len(decls) /\ j \in 1..Len(kept[i]) /\ kept[i][j] = p
        BY <2>4, <4>1
      <4>3. /\ h[i] \in [1..Len(kept[i]) -> 1..Len(decls[i])]
            /\ \A k \in 1..Len(kept[i]) : kept[i][k] = decls[i][h[i][k]]
        BY <1>5, <4>2
      <4>4. h[i][j] \in 1..Len(decls[i]) /\ kept[i][j] = decls[i][h[i][j]]
        BY <4>2, <4>3
      <4> QED
        BY <4>1, <4>2, <4>4
    <3> QED
      BY <2>3, <2>4, <3>1
  <2>6. f \in [A -> B]
    BY <2>5
  <2>7. ASSUME NEW a \in A, NEW b \in A, f[a] = f[b] PROVE a = b
    <3>1. a[1] = b[1] /\ h[a[1]][a[2]] = h[b[1]][b[2]]
      BY <2>7
    <3>2. a[2] = b[2]
      <4>1. PICK i \in 1..Len(decls) : i = a[1] /\ i = b[1]
        BY <2>4, <3>1
      <4>2. a[2] \in 1..Len(kept[i]) /\ b[2] \in 1..Len(kept[i]) /\ h[i][a[2]] = h[i][b[2]]
        BY <2>4, <3>1, <4>1
      <4>3. \A j, k \in 1..Len(kept[i]) : h[i][j] = h[i][k] => j = k
        BY <1>5, <4>1
      <4> QED
        BY <4>2, <4>3
    <3> QED
      BY <2>2, <3>1, <3>2
  <2>8. ASSUME NEW b \in B PROVE \E a \in A : f[a] = b
    <3>1. b = <<b[1], b[2]>> /\ b[1] \in 1..Len(decls) /\ b[2] \in 1..Len(decls[b[1]])
          /\ decls[b[1]][b[2]] = p
      BY <2>3
    <3>2. p \in S(b[1])
      <4>1. p \in ToSet(decls[b[1]])
        BY <3>1 DEF ToSet, Decl
      <4> QED
        BY <1>7, <4>1
    <3>3. PICK j \in 1..Len(kept[b[1]]) : h[b[1]][j] = b[2]
      BY <1>5, <3>1, <3>2
    <3>4. <<b[1], j>> \in A
      <4>1. kept[b[1]][j] = decls[b[1]][b[2]]
        <5>1. h[b[1]][j] = b[2] /\ kept[b[1]][j] = decls[b[1]][h[b[1]][j]]
          BY <1>5, <3>1, <3>3
        <5> QED
          BY <5>1
      <4> QED
        BY <2>2, <3>1, <3>3, <4>1
    <3> QED
      BY <3>1, <3>3, <3>4
  <2> HIDE DEF f
  <2>9. Cardinality(A) = Cardinality(B)
    BY <2>1, <2>6, <2>7, <2>8, SameNumber
  <2> QED
    BY <2>9 DEF Times, A, B
<1> QED
  BY <1>3, <1>6, <1>7

\* What is imported in one place is so once.
LEMMA OnceImported ==
  ASSUME NEW decls \in Seq(Decl), NEW p, NEW k, NEW j, <<k, j>> \in Occurrences(decls, p),
         \A i, l : <<i, l>> \in Occurrences(decls, p) => i = k /\ l = j
  PROVE  Times(decls, p) = 1
<1>1. Occurrences(decls, p) = {<<k, j>>}
  BY OccurrencesAre
<1> QED
  BY <1>1, FS_Singleton DEF Times

\* A new declaration at the end.
LEMMA NewDeclaration ==
  ASSUME NEW kept \in Seq(Decl), NEW new \in Decl, NoneTwice(new), NEW q, q = Append(kept, new),
         NEW p, p \in ToSet(new) => p \notin Imported(kept)
  PROVE  Times(q, p) = IF p \in ToSet(new) THEN 1 ELSE Times(kept, p)
<1>1. PICK n : n = Len(kept)
  OBVIOUS
<1>2. /\ q \in Seq(Decl) /\ n \in Nat /\ Len(q) = n + 1 /\ q[n + 1] = new
      /\ \A i \in 1..n : q[i] = kept[i]
  BY <1>1, QueueFacts
<1>3. 1..Len(q) = 1..n \cup {n + 1} /\ n + 1 \notin 1..n
  BY <1>2
<1>4. /\ \A i, j : <<i, j>> \in Occurrences(q, p) <=>
                     i \in 1..Len(q) /\ j \in 1..Len(q[i]) /\ q[i][j] = p
      /\ \A o \in Occurrences(q, p) : o = <<o[1], o[2]>>
  BY <1>2, OccurrencesAre
<1>5. /\ \A i, j : <<i, j>> \in Occurrences(kept, p) <=>
                     i \in 1..n /\ j \in 1..Len(kept[i]) /\ kept[i][j] = p
      /\ \A o \in Occurrences(kept, p) : o = <<o[1], o[2]>>
  BY <1>1, OccurrencesAre
<1>6. p \in ToSet(new) <=> \E j \in 1..Len(new) : new[j] = p
  BY DEF ToSet, Decl
<1>7. CASE p \in ToSet(new)
  <2>1. PICK j \in 1..Len(new) : new[j] = p
    BY <1>6, <1>7
  <2>2. <<n + 1, j>> \in Occurrences(q, p)
    BY <1>2, <1>3, <1>4, <2>1
  <2>3. \A i, l : <<i, l>> \notin Occurrences(kept, p)
    BY <1>7, NoTimes
  <2>4. ASSUME NEW i, NEW l, <<i, l>> \in Occurrences(q, p) PROVE i = n + 1 /\ l = j
    <3>1. i \in 1..Len(q) /\ l \in 1..Len(q[i]) /\ q[i][l] = p
      BY <1>4, <2>4
    <3>2. i \notin 1..n
      BY <1>2, <1>5, <2>3, <3>1
    <3> QED
      BY <1>2, <1>3, <2>1, <3>1, <3>2 DEF NoneTwice
  <2>5. Times(q, p) = 1
    BY <1>2, <2>2, <2>4, OnceImported
  <2> QED
    BY <1>7, <2>5
<1>8. CASE p \notin ToSet(new)
  <2>1. ASSUME NEW i, NEW j
        PROVE  <<i, j>> \in Occurrences(q, p) <=> <<i, j>> \in Occurrences(kept, p)
    <3>1. CASE i \in 1..n
      <4>1. q[i] = kept[i] /\ i \in 1..Len(q)
        BY <1>2, <1>3, <3>1
      <4> QED
        BY <1>4, <1>5, <3>1, <4>1
    <3>2. CASE i = n + 1
      <4>1. <<i, j>> \notin Occurrences(kept, p)
        BY <1>3, <1>5, <3>2
      <4>2. ~ (j \in 1..Len(q[i]) /\ q[i][j] = p)
        BY <1>2, <1>6, <1>8, <3>2
      <4> QED
        BY <1>4, <4>1, <4>2
    <3>3. CASE i \notin 1..Len(q)
      BY <1>3, <1>4, <1>5, <3>3
    <3> QED
      BY <1>3, <3>1, <3>2, <3>3
  <2>2. ASSUME NEW o PROVE o \in Occurrences(q, p) <=> o \in Occurrences(kept, p)
    BY <1>4, <1>5, <2>1
  <2>3. Occurrences(q, p) = Occurrences(kept, p)
    BY <2>2
  <2> QED
    BY <1>8, <2>3 DEF Times
<1> QED
  BY <1>7, <1>8

\* New imports at the beginning of the k-th declaration.
PutFirst(q, kept, k, new) ==
  /\ q \in Seq(Decl) /\ Len(q) = Len(kept)
  /\ q[k] = new \o kept[k]
  /\ \A i \in 1..Len(kept) : i # k => q[i] = kept[i]

LEMMA NewImports ==
  ASSUME NEW kept \in Seq(Decl), NEW new \in Decl, NoneTwice(new), NEW k \in 1..Len(kept),
         NEW q, PutFirst(q, kept, k, new),
         NEW p, p \in ToSet(new) => p \notin Imported(kept)
  PROVE  Times(q, p) = IF p \in ToSet(new) THEN 1 ELSE Times(kept, p)
<1> DEFINE d == new \o kept[k]
           m == Len(new)
<1>1. p \in ToSet(new) <=> \E j \in 1..m : new[j] = p
  <2>1. DOMAIN new = 1..m
    BY DEF Decl
  <2> QED
    BY <2>1 DEF ToSet
<1>2. kept[k] \in Decl /\ DOMAIN kept = 1..Len(kept) /\ Len(kept) \in Nat
  OBVIOUS
<1>3. /\ d \in Decl /\ m \in Nat /\ Len(kept[k]) \in Nat
      /\ \A i \in 1..m : i \in 1..Len(d) /\ d[i] = new[i]
      /\ \A i \in 1..Len(kept[k]) : m + i \in 1..Len(d) /\ d[m + i] = kept[k][i]
      /\ \A i \in 1..Len(d) : i \in 1..m \/ \E j \in 1..Len(kept[k]) : i = m + j
  BY <1>2, ConcatFacts
<1>4. q \in Seq(Decl) /\ Len(q) = Len(kept) /\ q[k] = d
  BY DEF PutFirst
<1> HIDE DEF d
<1>5. /\ q \in Seq(Decl) /\ Len(q) = Len(kept) /\ q[k] = d
      /\ \A i \in 1..Len(kept) : i # k => q[i] = kept[i]
  BY <1>4 DEF PutFirst
<1> DEFINE A == Occurrences(kept, p)
           B == Occurrences(q, p)
<1>6. IsFiniteSet(A)
  BY OccurrencesFinite
<1>7. /\ \A i, j : <<i, j>> \in A <=>
                     i \in 1..Len(kept) /\ j \in 1..Len(kept[i]) /\ kept[i][j] = p
      /\ \A o \in A : o = <<o[1], o[2]>>
  BY OccurrencesAre
<1>8. /\ \A i, j : <<i, j>> \in B <=>
                     i \in 1..Len(kept) /\ j \in 1..Len(q[i]) /\ q[i][j] = p
      /\ \A o \in B : o = <<o[1], o[2]>>
  <2>1. /\ \A i, j : <<i, j>> \in B <=>
                       i \in 1..Len(q) /\ j \in 1..Len(q[i]) /\ q[i][j] = p
        /\ \A o \in B : o = <<o[1], o[2]>>
    BY <1>5, OccurrencesAre
  <2> QED
    BY <1>5, <2>1
<1>9. Times(q, p) = Cardinality(B) /\ Times(kept, p) = Cardinality(A)
  BY DEF Times
<1>10. p \in ToSet(new) => \A i, l : <<i, l>> \notin A
  BY NoTimes
<1> HIDE DEF A, B
<1>11. CASE p \in ToSet(new)
  <2>1. PICK j \in 1..m : new[j] = p
    BY <1>1, <1>11
  <2>2. <<k, j>> \in B
    BY <1>3, <1>5, <1>8, <2>1
  <2>3. \A i, l : <<i, l>> \notin A
    BY <1>10, <1>11
  <2>4. ASSUME NEW i, NEW l, <<i, l>> \in B PROVE i = k /\ l = j
    <3>1. i \in 1..Len(kept) /\ l \in 1..Len(q[i]) /\ q[i][l] = p
      BY <1>8, <2>4
    <3>2. i = k
      BY <1>5, <1>7, <2>3, <3>1
    <3>3. l \in 1..Len(d) /\ d[l] = p
      BY <1>5, <3>1, <3>2
    <3>4. l \in 1..m
      <4> SUFFICES ASSUME NEW h \in 1..Len(kept[k]), l = m + h PROVE FALSE
        BY <1>3, <3>3
      <4>1. kept[k][h] = p
        BY <1>3, <3>3
      <4> QED
        BY <1>7, <2>3, <4>1
    <3> QED
      BY <1>3, <2>1, <3>2, <3>3, <3>4 DEF NoneTwice
  <2>5. Times(q, p) = 1
    BY <1>5, <2>2, <2>4, OnceImported DEF B
  <2> QED
    BY <1>5, <1>11, <2>5
<1>12. CASE p \notin ToSet(new)
  <2> DEFINE f == [o \in A |-> IF o[1] = k THEN <<k, m + o[2]>> ELSE o]
  <2>1. \A o \in A : /\ o = <<o[1], o[2]>> /\ o[1] \in 1..Len(kept)
                     /\ o[2] \in 1..Len(kept[o[1]]) /\ kept[o[1]][o[2]] = p
    BY <1>7
  <2>2. ASSUME NEW o \in A, o[1] = k PROVE <<k, m + o[2]>> \in B
    <3>1. o[2] \in 1..Len(kept[k]) /\ kept[k][o[2]] = p
      BY <2>1, <2>2
    <3>2. m + o[2] \in 1..Len(d) /\ d[m + o[2]] = p
      BY <1>3, <3>1
    <3> QED
      BY <1>5, <1>8, <3>2
  <2>3. ASSUME NEW o \in A, o[1] # k PROVE o \in B
    <3>1. q[o[1]] = kept[o[1]]
      BY <1>5, <2>1, <2>3
    <3>2. <<o[1], o[2]>> \in B
      BY <1>8, <2>1, <3>1
    <3> QED
      BY <2>1, <3>2
  <2>4. f \in [A -> B]
    BY <2>2, <2>3
  <2>5. \A o \in A : f[o][1] = o[1] /\ f[o][2] = IF o[1] = k THEN m + o[2] ELSE o[2]
    BY <2>1
  <2>6. ASSUME NEW a \in A, NEW b \in A, f[a] = f[b] PROVE a = b
    <3>1. a[1] = b[1]
      BY <2>5, <2>6
    <3>2. CASE a[1] # k
      BY <2>6, <3>1, <3>2
    <3>3. CASE a[1] = k
      <4>1. m + a[2] = m + b[2]
        BY <2>5, <2>6, <3>1, <3>3
      <4>2. a[2] \in 1..Len(kept[k]) /\ b[2] \in 1..Len(kept[k])
        BY <2>1, <3>1, <3>3
      <4>3. a[2] = b[2]
        BY <1>3, <4>1, <4>2
      <4> QED
        BY <2>1, <3>1, <4>3
    <3> QED
      BY <3>2, <3>3
  <2>7. ASSUME NEW b \in B PROVE \E a \in A : f[a] = b
    <3>1. /\ b = <<b[1], b[2]>> /\ b[1] \in 1..Len(kept)
          /\ b[2] \in 1..Len(q[b[1]]) /\ q[b[1]][b[2]] = p
      BY <1>8
    <3>2. CASE b[1] # k
      <4>1. <<b[1], b[2]>> \in A
        BY <1>5, <1>7, <3>1, <3>2
      <4>2. b \in A /\ f[b] = b
        BY <3>1, <3>2, <4>1
      <4> QED
        BY <4>2
    <3>3. CASE b[1] = k
      <4>1. b[2] \in 1..Len(d) /\ d[b[2]] = p
        BY <1>5, <3>1, <3>3
      <4>2. b[2] \notin 1..m
        BY <1>1, <1>3, <1>12, <4>1
      <4>3. PICK j \in 1..Len(kept[k]) : b[2] = m + j
        BY <1>3, <4>1, <4>2
      <4>4. <<k, j>> \in A
        BY <1>3, <1>7, <4>1, <4>3
      <4>5. f[<<k, j>>] = <<k, m + j>>
        BY <4>4
      <4> QED
        BY <3>1, <3>3, <4>3, <4>4, <4>5
    <3> QED
      BY <3>2, <3>3
  <2> HIDE DEF f
  <2>8. Cardinality(A) = Cardinality(B)
    BY <1>6, <2>4, <2>6, <2>7, SameNumber
  <2> QED
    BY <1>5, <1>9, <1>12, <2>8
<1> QED
  BY <1>11, <1>12

-----------------------------------------------------------------------------
(* imports: the edited declarations *)

\* How often p is imported after an edit.
TimesAfter(decls, add, del, p) ==
  LET left == IF p \in del \ {PathC} THEN 0 ELSE Times(decls, p)
  IN  IF p \in add /\ left = 0 THEN 1 ELSE left

Toggled(e, decls, add, del) ==
  /\ \A p : Times(e, p) = TimesAfter(decls, add, del, p)
  /\ \A i \in DOMAIN e :
       /\ e[i] # <<>>
       /\ PathC \in ToSet(e[i]) => \E j \in DOMAIN decls : e[i] = Without(decls[j], del)

\* What the edit makes of the declarations, before the empty ones are dropped.
Edited(all, decls, add, del) ==
  /\ all \in Seq(Decl)
  /\ \A p : Times(all, p) = TimesAfter(decls, add, del, p)
  /\ \A i \in DOMAIN all :
       PathC \in ToSet(all[i]) => \E j \in DOMAIN decls : all[i] = Without(decls[j], del)

LEMMA EditedToggles ==
  ASSUME NEW decls, NEW add, NEW del, NEW all, Edited(all, decls, add, del)
  PROVE  Toggled(NotEmpty(all), decls, add, del)
<1>1. PICK e : e = NotEmpty(all)
  OBVIOUS
<1>2. /\ e \in Seq(Decl)
      /\ \A i \in 1..Len(e) : e[i] # <<>> /\ \E j \in 1..Len(all) : e[i] = all[j]
      /\ \A p : Times(e, p) = Times(all, p)
  <2>1. all \in Seq(Decl)
    BY DEF Edited
  <2> QED
    BY <1>1, <2>1, EmptyDropped
<1>3. DOMAIN e = 1..Len(e) /\ DOMAIN all = 1..Len(all)
  BY <1>2 DEF Edited
<1>4. Toggled(e, decls, add, del)
  BY <1>2, <1>3 DEF Edited, Toggled
<1> QED
  BY <1>1, <1>4

LEMMA ImpToggles ==
  ASSUME NEW decls \in Seq(Decl), NEW add \in SUBSET (STRING \ {PathC}), IsFiniteSet(add), NEW del
  PROVE  Toggled(Imp(decls, add, del), decls, add, del)
<1> DEFINE kept  == [i \in DOMAIN decls |-> Without(decls[i], del)]
           new   == SetToSeq(Missing(add, kept))
           first == {i \in DOMAIN decls : decls[i] # <<>> /\ ~ HasC(decls[i])}
           k     == CHOOSE i \in first : \A j \in first : i <= j
           all   == IF add = {} THEN kept
                    ELSE IF first = {} THEN Append(kept, new)
                    ELSE [kept EXCEPT ![k] = new \o kept[k]]
<1>1. Imp(decls, add, del) = NotEmpty(all)
  BY DEF Imp, NotEmpty
<1> HIDE DEF all
<1> SUFFICES Edited(all, decls, add, del)
  BY <1>1, EditedToggles
<1>2. Len(decls) \in Nat /\ DOMAIN decls = 1..Len(decls) /\ DOMAIN kept = DOMAIN decls
  OBVIOUS
<1>3. \A i \in DOMAIN decls : kept[i] = Without(decls[i], del)
  OBVIOUS
<1>4. kept = [i \in DOMAIN decls |-> Without(decls[i], del)]
  OBVIOUS
<1> HIDE DEF kept
<1>5. /\ kept \in Seq(Decl) /\ Len(kept) = Len(decls)
      /\ \A p : Times(kept, p) = IF p \in del \ {PathC} THEN 0 ELSE Times(decls, p)
  BY <1>4, DeletedAreGone
<1>6. Missing(add, kept) = add \ Imported(kept)
  BY DEF Missing
<1>7. /\ new \in Decl /\ ToSet(new) = add \ Imported(kept) /\ NoneTwice(new)
      /\ PathC \notin ToSet(new)
  <2>1. IsFiniteSet(add \ Imported(kept)) /\ add \ Imported(kept) \in SUBSET STRING
    BY FS_Subset
  <2> QED
    BY <1>6, <2>1, ListFacts
<1> HIDE DEF new
<1>8. \A p : IF p \in ToSet(new) THEN TimesAfter(decls, add, del, p) = 1
             ELSE TimesAfter(decls, add, del, p) = Times(kept, p)
  <2>1. \A p : p \in ToSet(new) <=> p \in add /\ Times(kept, p) = 0
    BY <1>5, <1>7, NoTimes
  <2> QED
    BY <1>5, <2>1 DEF TimesAfter
<1>9. CASE add = {}
  <2>1. all = kept /\ ToSet(new) = {}
    BY <1>7, <1>9 DEF all
  <2> QED
    BY <1>2, <1>3, <1>5, <1>8, <2>1 DEF Edited
<1>10. CASE add # {} /\ first = {}
  <2>1. PICK n, q : n = Len(kept) /\ q = Append(kept, new)
    OBVIOUS
  <2>2. all = q
    BY <1>10, <2>1 DEF all
  <2>3. /\ q \in Seq(Decl) /\ n \in Nat /\ Len(q) = n + 1 /\ q[n + 1] = new
        /\ \A i \in 1..n : q[i] = kept[i]
    BY <1>5, <1>7, <2>1, QueueFacts
  <2>4. ASSUME NEW p PROVE Times(q, p) = TimesAfter(decls, add, del, p)
    <3>1. p \in ToSet(new) => p \notin Imported(kept)
      BY <1>7
    <3>2. Times(q, p) = IF p \in ToSet(new) THEN 1 ELSE Times(kept, p)
      BY <1>5, <1>7, <2>1, <3>1, NewDeclaration
    <3> QED
      BY <1>8, <3>2
  <2>5. DOMAIN q = 1..n \cup {n + 1} /\ DOMAIN decls = 1..n
    BY <1>2, <1>5, <2>1, <2>3
  <2>6. \A i \in DOMAIN q :
          PathC \in ToSet(q[i]) => \E j \in DOMAIN decls : q[i] = Without(decls[j], del)
    BY <1>3, <1>7, <2>3, <2>5
  <2> QED
    BY <2>2, <2>3, <2>4, <2>6 DEF Edited
<1>11. CASE add # {} /\ first # {}
  <2>1. k \in first
    <3>1. first \subseteq Nat
      BY <1>2
    <3>2. \E i \in first : \A j \in first : i <= j
      BY <1>11, <3>1, Least
    <3> QED
      BY <3>2
  <2> HIDE DEF k
  <2>2. k \in 1..Len(kept) /\ k \in DOMAIN decls /\ PathC \notin ToSet(decls[k])
    BY <1>2, <1>5, <2>1 DEF HasC
  <2> DEFINE d == new \o kept[k]
  <2>3. PICK q : q = [kept EXCEPT ![k] = new \o kept[k]]
    OBVIOUS
  <2>4. all = q
    BY <1>11, <2>3 DEF all
  <2>5. /\ DOMAIN q = DOMAIN decls /\ q[k] = d
        /\ \A i \in DOMAIN decls : i # k => q[i] = kept[i]
    BY <1>2, <2>2, <2>3
  <2>6. q \in Seq(Decl) /\ Len(q) = Len(kept)
    <3>1. kept[k] \in Decl
      BY <1>5, <2>2
    <3>2. d \in Decl
      BY <1>7, <3>1, ConcatFacts
    <3> HIDE DEF d
    <3>3. \A i \in 1..Len(kept) : q[i] \in Decl
      BY <1>2, <1>5, <2>5, <3>2
    <3>4. q = [i \in 1..Len(kept) |-> q[i]]
      BY <1>2, <1>5, <2>3
    <3>5. q \in [1..Len(kept) -> Decl]
      BY <3>3, <3>4
    <3> QED
      BY <1>2, <1>5, <3>5
  <2>7. PathC \notin ToSet(d)
    <3>1. /\ d \in Decl /\ \A i \in 1..Len(new) : d[i] = new[i]
          /\ \A i \in 1..Len(kept[k]) : d[Len(new) + i] = kept[k][i]
          /\ \A i \in 1..Len(d) : i \in 1..Len(new)
                                    \/ \E j \in 1..Len(kept[k]) : i = Len(new) + j
      <4>1. kept[k] \in Decl
        BY <1>5, <2>2
      <4>2. new \in Decl
        BY <1>7
      <4> QED
        BY <4>1, <4>2, ConcatFacts
    <3>2. \A i \in 1..Len(kept[k]) : kept[k][i] # PathC
      <4>1. decls[k] \in Decl
        BY <1>2, <2>2
      <4>2. PICK h, S : Selects(h, kept[k], decls[k], Len(decls[k]), S)
        <5>1. kept[k] = Without(decls[k], del)
          BY <1>3, <2>2
        <5>2. \E h : Selects(h, kept[k], decls[k], Len(decls[k]),
                            (ToSet(decls[k]) \ del) \cup {PathC})
          BY <4>1, <5>1, WithoutFacts
        <5> QED
          BY <5>2
      <4>3. \A i \in 1..Len(decls[k]) : decls[k][i] # PathC
        BY <2>2, <4>1 DEF ToSet, Decl
      <4> QED
        BY <4>2, <4>3 DEF Selects
    <3>3. \A i \in 1..Len(new) : new[i] # PathC
      BY <1>7 DEF ToSet, Decl
    <3>4. \A i \in 1..Len(d) : d[i] # PathC
      BY <3>1, <3>2, <3>3
    <3> QED
      BY <3>1, <3>4 DEF ToSet, Decl
  <2>8. \A i \in DOMAIN q :
          PathC \in ToSet(q[i]) => \E j \in DOMAIN decls : q[i] = Without(decls[j], del)
    BY <1>3, <2>5, <2>7
  <2>9. ASSUME NEW p PROVE Times(q, p) = TimesAfter(decls, add, del, p)
    <3>1. p \in ToSet(new) => p \notin Imported(kept)
      BY <1>7
    <3>2. \A i \in 1..Len(kept) : i # k => q[i] = kept[i]
      BY <1>2, <1>5, <2>5
    <3>3. PutFirst(q, kept, k, new)
      BY <2>5, <2>6, <3>2 DEF PutFirst
    <3>4. Times(q, p) = IF p \in ToSet(new) THEN 1 ELSE Times(kept, p)
      BY <1>5, <1>7, <2>2, <3>1, <3>3, NewImports
    <3> QED
      BY <1>8, <3>4
  <2> QED
    BY <2>4, <2>6, <2>8, <2>9 DEF Edited
<1> QED
  BY <1>9, <1>10, <1>11

\* What has been edited is what `imp` makes of it.
ImportsInv ==
  /\ toggle \in Toggles
  /\ edited = [c \in ImportCalls |-> edited[c]] /\ importing = [c \in ImportCalls |-> importing[c]]
  /\ \A c \in ImportCalls : importing[c] # "idle" /\ toggle[c].parses =>
       edited[c] = Imp(toggle[c].decls, toggle[c].add, toggle[c].del)

LEMMA ImportsStepInv == ImportsInv /\ [MethodsNext]_methodsVars => ImportsInv'
<1> SUFFICES ASSUME ImportsInv, [MethodsNext]_methodsVars PROVE ImportsInv'
  OBVIOUS
<1>1. ASSUME NEW c \in ImportCalls, EditImports(c) PROVE ImportsInv'
  BY <1>1 DEF ImportsInv, EditImports
<1>2. ASSUME NEW c \in ImportCalls, AutoInstall(c) PROVE ImportsInv'
  BY <1>2 DEF ImportsInv, AutoInstall
<1>3. CASE UNCHANGED toggleVars
  BY <1>3 DEF ImportsInv, toggleVars
<1>4. \/ \E c \in ImportCalls : EditImports(c) \/ AutoInstall(c)
      \/ UNCHANGED toggleVars
  BY DEF MethodsNext, Goroutines, methodsVars, importsVars, SynchkStep, PathsStep, DirsStep,
         ImportsStep, CallImports, Installing, MessageSent, TakeRequest, GoInstall, RequestDone
<1> QED
  BY <1>1, <1>2, <1>3, <1>4

LEMMA ImportsInvToggled == ImportsInv => ImportsToggled
<1> SUFFICES ASSUME ImportsInv, NEW c \in ImportCalls, importing[c] # "idle", toggle[c].parses
             PROVE  Toggled(edited[c], toggle[c].decls, toggle[c].add, toggle[c].del)
  BY DEF ImportsToggled, Toggled, TimesAfter
<1>1. PICK decls, add, del :
        decls = toggle[c].decls /\ add = toggle[c].add /\ del = toggle[c].del
  OBVIOUS
<1>2. decls \in Seq(Decl) /\ add \in SUBSET (STRING \ {PathC}) /\ IsFiniteSet(add)
  BY <1>1, ImportsAssumption DEF ImportsInv, Decl
<1>3. edited[c] = Imp(decls, add, del)
  BY <1>1 DEF ImportsInv
<1> QED
  BY <1>1, <1>2, <1>3, ImpToggles

\* Toggling imports does just that, whatever the declarations of the file are and whatever is
\* added and deleted: each path is imported as often as it was, or no more, or, if it is new,
\* once, and the declaration of "C" keeps to itself.
THEOREM TogglesAreExact == MethodsSpec => []ImportsToggled
<1>1. MethodsInit => ImportsInv
  BY DEF MethodsInit, ImportsInit, ImportsInv
<1> QED
  BY <1>1, ImportsStepInv, ImportsInvToggled, PTL DEF MethodsSpec
=============================================================================
