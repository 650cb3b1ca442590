---------------------------- MODULE StreamProofs ----------------------------
(***************************************************************************)
(* Theorems about Stream, for any calls, any bytes and any flush size: no  *)
(* match is lost, the chunks are aligned, a streaming call gathers less    *)
(* than the flush size, nothing is sent after the end, what is gathered    *)
(* has a flush to come, and the client's screen shows what was printed.    *)
(*                                                                         *)
(* What FlattenSeq makes of the chunks, and FoldLeft of the bytes on a     *)
(* screen, is defined recursively.  Induction over it is had from the      *)
(* well-foundedness of < on Nat, with a set in the place of the predicate. *)
(***************************************************************************)
EXTENDS Stream, WellFoundedInduction, TLAPS

-----------------------------------------------------------------------------
(* Induction. *)

\* Every non-empty set of numbers has a least one.
LEMMA Least ==
  ASSUME NEW T, T \subseteq Nat, T # {}
  PROVE  \E x \in T : \A y \in T : x <= y
<1> DEFINE R == {ss \in Nat \X Nat : ss[1] < ss[2]}
<1>1. IsWellFoundedOn(R, Nat)
  BY NatLessThanWellFounded DEF OpToRel
<1>2. \A x, y \in Nat : y < x => <<y, x>> \in R
  OBVIOUS
<1> HIDE DEF R
<1>3. PICK x \in T : \A y \in T : ~ (<<y, x>> \in R)
  BY <1>1, WFMin
<1>4. ASSUME NEW y \in T PROVE x <= y
  <2>1. x \in Nat /\ y \in Nat
    OBVIOUS
  <2>2. ~ (y < x)
    BY <1>2, <1>3, <2>1
  <2> QED
    BY <2>1, <2>2
<1> QED
  BY <1>4

\* Induction, for a set in the place of a predicate.
LEMMA SetInduction ==
  ASSUME NEW S, 0 \in S, \A i \in Nat : i \in S => i + 1 \in S
  PROVE  Nat \subseteq S
<1> SUFFICES ASSUME Nat \ S # {} PROVE FALSE
  OBVIOUS
<1>1. PICK x \in Nat \ S : \A y \in Nat \ S : x <= y
  BY Least
<1>2. x - 1 \in Nat /\ x - 1 \notin Nat \ S
  BY <1>1
<1> QED
  BY <1>1, <1>2

-----------------------------------------------------------------------------
(* Concatenation. *)

\* What Append leaves alone and what it adds.
LEMMA AppendFacts ==
  ASSUME NEW S, NEW s \in Seq(S), NEW e \in S
  PROVE  /\ Append(s, e) \in Seq(S) /\ Append(s, e) # <<>>
         /\ Len(s) \in Nat /\ Len(Append(s, e)) = Len(s) + 1
         /\ \A i \in 1..Len(s) : Append(s, e)[i] = s[i]
         /\ Append(s, e)[Len(s) + 1] = e
OBVIOUS

\* s and t have the same first k members.
Agree(s, t, k) == \A i \in 1..k : s[i] = t[i]

LEMMA AppendAgrees ==
  ASSUME NEW S, NEW s \in Seq(S), NEW e \in S PROVE Agree(s, Append(s, e), Len(s))
BY AppendFacts DEF Agree

\* g[i] is the concatenation of the first i members of s.
FlatBy(g, s) ==
  \A i \in 1..Len(s) : g[i] = IF i = 1 THEN s[i] ELSE g[i - 1] \o s[i]

\* There is a function that gathers the members: FlattenSeq chooses one.
LEMMA FlatExists ==
  ASSUME NEW S, NEW s \in Seq(Seq(S))
  PROVE  \E g : g = [i \in 1..Len(s) |-> IF i = 1 THEN s[i] ELSE g[i - 1] \o s[i]]
<1> DEFINE Def(g, i) == IF i = 1 THEN s[i] ELSE g[i - 1] \o s[i]
           T == {k \in Nat : \E g : g = [i \in 1..k |-> Def(g, i)]}
<1>1. 0 \in T
  <2>1. 1..0 = {}
    OBVIOUS
  <2> DEFINE g == [i \in {} |-> {}]
  <2>2. g = [i \in 1..0 |-> Def(g, i)]
    BY <2>1
  <2> QED
    BY <2>2
<1>2. ASSUME NEW k \in Nat, k \in T PROVE k + 1 \in T
  <2>1. PICK g : g = [i \in 1..k |-> Def(g, i)]
    BY <1>2
  <2> DEFINE h == [i \in 1..(k + 1) |-> IF i \in 1..k THEN g[i] ELSE Def(g, i)]
  <2>2. \A i \in 1..(k + 1) : i = 1 \/ (i - 1 \in 1..k /\ h[i - 1] = g[i - 1])
    OBVIOUS
  <2>3. \A i \in 1..k : g[i] = Def(g, i)
    BY <2>1
  <2>4. \A i \in 1..(k + 1) : Def(g, i) = Def(h, i)
    BY <2>2
  <2>5. \A i \in 1..(k + 1) : h[i] = Def(h, i)
    BY <2>3, <2>4
  <2>6. h = [i \in 1..(k + 1) |-> Def(h, i)]
    BY <2>5
  <2> HIDE DEF h
  <2>7. \E f : f = [i \in 1..(k + 1) |-> Def(f, i)]
    <3> WITNESS h
    <3> QED
      BY <2>6
  <2>8. k + 1 \in Nat
    OBVIOUS
  <2> QED
    BY <2>7, <2>8, Zenon
<1> HIDE DEF T
<1>3. Nat \subseteq T
  BY <1>1, <1>2, SetInduction
<1>4. Len(s) \in T
  BY <1>3
<1> QED
  BY <1>4 DEF T

\* What FlattenSeq gathers while it goes through s.
LEMMA FlatConcat ==
  ASSUME NEW S, NEW s \in Seq(Seq(S)), s # <<>>
  PROVE  \E g : FlatBy(g, s) /\ Concat(s) = g[Len(s)]
<1> DEFINE flatten == CHOOSE g : g = [i \in 1..Len(s) |->
                                        IF i = 1 THEN s[i] ELSE g[i - 1] \o s[i]]
<1>1. Len(s) # 0
  OBVIOUS
<1>2. Concat(s) = flatten[Len(s)]
  BY <1>1 DEF Concat, FlattenSeq
<1>3. flatten = [i \in 1..Len(s) |-> IF i = 1 THEN s[i] ELSE flatten[i - 1] \o s[i]]
  BY FlatExists
<1>4. FlatBy(flatten, s)
  BY <1>3 DEF FlatBy
<1> QED
  BY <1>2, <1>4

\* What is gathered is made of the elements of the members.
LEMMA FlatType ==
  ASSUME NEW S, NEW s \in Seq(Seq(S)), NEW g, FlatBy(g, s)
  PROVE  \A i \in 1..Len(s) : g[i] \in Seq(S)
<1> DEFINE T == {k \in Nat : k \in 1..Len(s) => g[k] \in Seq(S)}
<1>1. 0 \in T
  OBVIOUS
<1>2. ASSUME NEW k \in Nat, k \in T PROVE k + 1 \in T
  <2> SUFFICES ASSUME k + 1 \in 1..Len(s) PROVE g[k + 1] \in Seq(S)
    OBVIOUS
  <2>1. s[k + 1] \in Seq(S)
    OBVIOUS
  <2>2. CASE k = 0
    BY <2>1, <2>2 DEF FlatBy
  <2>3. CASE k # 0
    <3>3. k \in 1..Len(s) /\ (k + 1) - 1 = k /\ k + 1 # 1
      BY <2>3
    <3>1. k \in 1..Len(s) /\ g[k + 1] = g[k] \o s[k + 1]
      BY <3>3 DEF FlatBy
    <3>2. g[k] \in Seq(S)
      BY <1>2, <3>1
    <3> QED
      BY <2>1, <3>1, <3>2
  <2> QED
    BY <2>2, <2>3
<1> HIDE DEF T
<1>3. Nat \subseteq T
  BY <1>1, <1>2, SetInduction
<1> QED
  BY <1>3 DEF T

\* It depends on what it has gone through, and not on what is to come.
LEMMA FlatUnique ==
  ASSUME NEW s, NEW t, NEW g, NEW h, FlatBy(g, s), FlatBy(h, t),
         Len(s) \in Nat, Len(t) \in Nat, Len(s) <= Len(t), Agree(s, t, Len(s))
  PROVE  Agree(g, h, Len(s))
<1> DEFINE T == {k \in Nat : k \in 1..Len(s) => g[k] = h[k]}
<1>1. 0 \in T
  OBVIOUS
<1>2. ASSUME NEW k \in Nat, k \in T PROVE k + 1 \in T
  <2> SUFFICES ASSUME k + 1 \in 1..Len(s) PROVE g[k + 1] = h[k + 1]
    OBVIOUS
  <2>1. k + 1 \in 1..Len(s) /\ k + 1 \in 1..Len(t) /\ s[k + 1] = t[k + 1]
    BY DEF Agree
  <2>2. CASE k = 0
    BY <2>1, <2>2 DEF FlatBy
  <2>3. CASE k # 0
    <3>1. k \in 1..Len(s) /\ (k + 1) - 1 = k /\ k + 1 # 1
      BY <2>3
    <3>2. g[k + 1] = g[k] \o s[k + 1] /\ h[k + 1] = h[k] \o t[k + 1]
      BY <2>1, <3>1 DEF FlatBy
    <3> QED
      BY <1>2, <2>1, <3>1, <3>2
  <2> QED
    BY <2>2, <2>3
<1> HIDE DEF T
<1>3. Nat \subseteq T
  BY <1>1, <1>2, SetInduction
<1> QED
  BY <1>3 DEF T, Agree

\* The concatenation of the chunks is a sequence of bytes.
LEMMA ConcatType == ASSUME NEW S, NEW s \in Seq(Seq(S)) PROVE Concat(s) \in Seq(S)
<1>1. CASE s = <<>>
  BY <1>1 DEF Concat, FlattenSeq
<1>2. CASE s # <<>>
  <2>1. PICK g : FlatBy(g, s) /\ Concat(s) = g[Len(s)]
    BY <1>2, FlatConcat
  <2>2. Len(s) \in 1..Len(s)
    BY <1>2
  <2> QED
    BY <2>1, <2>2, FlatType
<1> QED
  BY <1>1, <1>2

\* A chunk more makes the concatenation longer by its bytes.
LEMMA ConcatAppend ==
  ASSUME NEW S, NEW s \in Seq(Seq(S)), NEW p \in Seq(S)
  PROVE  Concat(Append(s, p)) = Concat(s) \o p
<1> DEFINE t == Append(s, p)
<1>1. /\ t \in Seq(Seq(S)) /\ t # <<>> /\ Len(s) \in Nat /\ Len(t) \in Nat
      /\ Len(t) = Len(s) + 1 /\ t[Len(s) + 1] = p /\ Agree(s, t, Len(s))
  BY AppendFacts, AppendAgrees
<1> HIDE DEF t
<1>2. PICK h : FlatBy(h, t) /\ Concat(t) = h[Len(t)]
  BY <1>1, FlatConcat
<1>3. CASE s = <<>>
  <2>1. Len(s) = 0
    BY <1>3
  <2>2. h[1] = p
    BY <1>1, <1>2, <2>1 DEF FlatBy
  <2>3. Concat(s) = <<>>
    BY <1>3 DEF Concat, FlattenSeq
  <2> QED
    BY <1>1, <1>2, <2>1, <2>2, <2>3 DEF t
<1>4. CASE s # <<>>
  <2>1. PICK g : FlatBy(g, s) /\ Concat(s) = g[Len(s)]
    BY <1>4, FlatConcat
  <2>2. Len(s) \in 1..Len(s) /\ Len(s) + 1 # 1
    BY <1>4
  <2>3. FlatBy(g, s) /\ FlatBy(h, t)
    BY <1>2, <2>1
  <2>4. Len(s) <= Len(t)
    BY <1>1
  <2>5. Agree(g, h, Len(s))
    BY <1>1, <2>3, <2>4, FlatUnique
  <2>6. h[Len(s)] = g[Len(s)]
    BY <2>2, <2>5 DEF Agree
  <2>7. Len(s) + 1 \in 1..Len(t) /\ (Len(s) + 1) - 1 = Len(s)
    BY <1>1
  <2>8. h[Len(s) + 1] = h[Len(s)] \o p
    BY <1>1, <2>2, <2>3, <2>7 DEF FlatBy
  <2> QED
    BY <1>1, <1>2, <2>1, <2>6, <2>8 DEF t
<1> QED
  BY <1>3, <1>4

-----------------------------------------------------------------------------
(* The inductive invariant. *)

Chunks == Seq(Bytes)

StreamTypes ==
  /\ {streaming, discard, cr} \subseteq BOOLEAN
  /\ exec \in {"running", "closing", "ending", "ended", "closed", "answered"}
  /\ pending \in Chunks /\ buf \in Seq(Chunks) /\ sent \in Chunks
  /\ {n, attrs, matches, sentAttrs, ends} \subseteq Nat

\* Matches are only kept beside a chunk: a flush that finds no chunk sends nothing,
\* and forgets the matches.
MatchesHaveChunks == buf = <<>> => attrs = 0

\* What has left the sink ends where what is pending starts a line.
PendingStartsLine ==
  exec = "running" /\ (buf # <<>> \/ sent # <<>>) =>
    pending # <<>> /\ pending[1] \in {"cr", "nl"}

\* After the end nothing is gathered any more, and before it there is no end.
NothingAfterEnd ==
  /\ ~streaming => ends = 0
  /\ exec \in {"running", "closing", "ending"} => ends = 0
  /\ streaming /\ exec \in {"ended", "closed", "answered"} => buf = <<>> /\ attrs = 0

StreamInv ==
  /\ StreamTypes
  /\ MatchesHaveChunks /\ MatchesKept
  /\ GatheredBounded
  /\ PendingStartsLine
  /\ NothingAfterEnd

-----------------------------------------------------------------------------
(* A chunk on its way: cut, filtered, gathered and counted. *)

\* The boundary chosen by nextChunk: it lies in p and starts a line.
LEMMA NextChunkFacts ==
  ASSUME NEW p \in Chunks, Boundaries(p) # {}
  PROVE  /\ NextChunk(p) \in Nat /\ NextChunk(p) + 1 \in 1..Len(p)
         /\ p[NextChunk(p) + 1] \in {"cr", "nl"}
<1> DEFINE B == Boundaries(p)
           first == CHOOSE i \in B : \A k \in B : i <= k
<1>1. B \subseteq Nat /\ \A i \in B : i \in 1..Len(p) /\ p[i] \in {"cr", "nl"}
  BY DEF Boundaries, IsBoundary, Chunks
<1>2. \E i \in B : \A k \in B : i <= k
  BY <1>1, Least
<1>3. first \in B
  BY <1>2
<1>4. NextChunk(p) = first - 1
  BY DEF NextChunk
<1> HIDE DEF first, B
<1>5. first \in 1..Len(p) /\ p[first] \in {"cr", "nl"}
  BY <1>1, <1>3
<1>6. NextChunk(p) + 1 = first /\ NextChunk(p) \in Nat
  BY <1>4, <1>5
<1> QED
  BY <1>5, <1>6

\* A sequence cut in two, the second part not empty, as Sink.Write cuts its pending bytes.
LEMMA CutFacts ==
  ASSUME NEW S, NEW p \in Seq(S), NEW k \in Nat, k + 1 \in 1..Len(p)
  PROVE  /\ SubSeq(p, 1, k) \in Seq(S)
         /\ SubSeq(p, k + 1, Len(p)) \in Seq(S)
         /\ SubSeq(p, k + 1, Len(p)) # <<>> /\ SubSeq(p, k + 1, Len(p))[1] = p[k + 1]
<1>1. Len(p) \in Nat /\ k + 1 >= 1 /\ k + 1 <= Len(p)
  OBVIOUS
<1>2. SubSeq(p, 1, k) \in Seq(S)
  OBVIOUS
<1>3. SubSeq(p, k + 1, Len(p)) \in Seq(S)
  BY <1>1
<1>4. Len(SubSeq(p, k + 1, Len(p))) = Len(p) - k
  BY <1>1
<1>5. SubSeq(p, k + 1, Len(p)) # <<>>
  <2>1. Len(<<>>) = 0 /\ Len(p) - k # 0
    BY <1>1
  <2> QED
    BY <1>4, <2>1
<1>6. SubSeq(p, k + 1, Len(p))[1] = p[k + 1]
  BY <1>1
<1> QED
  BY <1>2, <1>3, <1>5, <1>6

\* The beginning of a sequence.
LEMMA FrontFacts ==
  ASSUME NEW S, NEW s \in Seq(S), NEW m \in Nat, m <= Len(s)
  PROVE  Len(SubSeq(s, 1, m)) = m /\ \A i \in 1..m : SubSeq(s, 1, m)[i] = s[i]
OBVIOUS

\* A sequence whose last member is replaced, as Write replaces the chunk it rewrites.
LEMMA LastReplaced ==
  ASSUME NEW S, NEW s \in Seq(S), s # <<>>
  PROVE  \E f \in Seq(S), l \in S :
           /\ l = s[Len(s)] /\ s = Append(f, l)
           /\ \A q \in S : [s EXCEPT ![Len(s)] = q] = Append(f, q)
<1> DEFINE f == SubSeq(s, 1, Len(s) - 1)
<1>1. Len(s) \in Nat /\ Len(s) >= 1 /\ s[Len(s)] \in S
  OBVIOUS
<1>2. f \in Seq(S) /\ Len(f) = Len(s) - 1 /\ \A i \in 1..(Len(s) - 1) : f[i] = s[i]
  <2>1. f \in Seq(S)
    BY <1>1
  <2>2. Len(s) - 1 \in Nat /\ Len(s) - 1 <= Len(s)
    BY <1>1
  <2>3. Len(f) = Len(s) - 1 /\ \A i \in 1..(Len(s) - 1) : f[i] = s[i]
    BY <2>2, FrontFacts
  <2> HIDE DEF f
  <2> QED
    BY <2>1, <2>3
<1> HIDE DEF f
<1>3. ASSUME NEW q \in S PROVE [s EXCEPT ![Len(s)] = q] = Append(f, q)
  <2> DEFINE t == [s EXCEPT ![Len(s)] = q]
             u == Append(f, q)
  <2>1. /\ t \in Seq(S) /\ Len(t) = Len(s) /\ t[Len(s)] = q
        /\ \A i \in 1..(Len(s) - 1) : t[i] = s[i]
    BY <1>1
  <2>2. /\ u \in Seq(S) /\ Len(u) = Len(s) /\ u[Len(s)] = q
        /\ \A i \in 1..(Len(s) - 1) : u[i] = f[i]
    BY <1>1, <1>2
  <2>3. \A i \in 1..Len(s) : i \in 1..(Len(s) - 1) \/ i = Len(s)
    BY <1>1
  <2> HIDE DEF t, u
  <2>4. \A i \in 1..Len(s) : t[i] = u[i]
    BY <1>2, <2>1, <2>2, <2>3
  <2>5. t = u
    BY <2>1, <2>2, <2>4
  <2> QED
    BY <2>5 DEF t, u
<1>4. [s EXCEPT ![Len(s)] = s[Len(s)]] = s
  OBVIOUS
<1> QED
  BY <1>1, <1>2, <1>3, <1>4

\* A rewritten chunk is as long as the longer of the two.
LEMMA RewrittenFacts ==
  ASSUME NEW p \in Chunks, NEW old \in Chunks
  PROVE  /\ Rewritten(p, old) \in Chunks
         /\ Len(Rewritten(p, old)) = IF Len(p) <= Len(old) THEN Len(old) ELSE Len(p)
<1>1. CASE Len(p) <= Len(old)
  <2>1. /\ SubSeq(old, Len(p) + 1, Len(old)) \in Chunks
        /\ Len(SubSeq(old, Len(p) + 1, Len(old))) = Len(old) - Len(p)
    BY <1>1 DEF Chunks
  <2> QED
    BY <1>1, <2>1 DEF Rewritten, Overlay, Chunks
<1>2. CASE ~(Len(p) <= Len(old))
  BY <1>2 DEF Rewritten, Chunks
<1> QED
  BY <1>1, <1>2

\* A chunk more makes the concatenation longer by the length of the chunk.
LEMMA ConcatLen ==
  ASSUME NEW s \in Seq(Chunks), NEW p \in Chunks
  PROVE  /\ Len(Concat(s)) \in Nat /\ Len(p) \in Nat
         /\ Len(Concat(Append(s, p))) = Len(Concat(s)) + Len(p)
<1>1. Concat(s) \in Seq(Bytes) /\ p \in Seq(Bytes)
  BY ConcatType DEF Chunks
<1>2. Concat(Append(s, p)) = Concat(s) \o p
  BY ConcatAppend DEF Chunks
<1> QED
  BY <1>1, <1>2

\* The stream's count is no less than what it has gathered.
LEMMA GatheredFacts ==
  ASSUME buf \in Seq(Chunks), cr \in BOOLEAN, n \in Nat, Len(Concat(buf)) <= n, NEW p \in Chunks
  PROVE  /\ Gathered(p) \in Seq(Chunks) /\ Gathered(p) # <<>>
         /\ Counted(p) \in Nat /\ Len(Concat(Gathered(p))) <= Counted(p)
<1>1. CASE buf = <<>> \/ CrPfx(p) # cr
  <2>1. Gathered(p) = Append(buf, p)
    BY <1>1 DEF Gathered
  <2>2. ~(buf # <<>> /\ CrPfx(p) /\ cr)
    BY <1>1, Zenon DEF CrPfx
  <2>3. Counted(p) = n + Len(p)
    BY <2>2 DEF Counted
  <2>4. Append(buf, p) \in Seq(Chunks) /\ Append(buf, p) # <<>>
    BY AppendFacts
  <2> QED
    BY <2>1, <2>2, <2>3, <2>4, ConcatLen, SMTT(30)
<1>2. CASE ~(buf = <<>> \/ CrPfx(p) # cr)
  <2>1. PICK f \in Seq(Chunks), l \in Chunks :
          /\ l = buf[Len(buf)] /\ buf = Append(f, l)
          /\ \A q \in Chunks : [buf EXCEPT ![Len(buf)] = q] = Append(f, q)
    BY <1>2, LastReplaced
  <2>2. Len(Concat(f)) + Len(l) <= n
    BY <2>1, ConcatLen
  <2>3. CASE CrPfx(p)
    <3>1. Gathered(p) = [buf EXCEPT ![Len(buf)] = Rewritten(p, l)]
      BY <1>2, <2>1, <2>3 DEF Gathered
    <3>2. Counted(p) = IF Len(p) <= Len(l) THEN n ELSE n + Len(p)
      BY <1>2, <2>1, <2>3 DEF Counted
    <3>3. PICK q \in Chunks :
            q = Rewritten(p, l) /\ Len(q) = IF Len(p) <= Len(l) THEN Len(l) ELSE Len(p)
      BY RewrittenFacts
    <3>4. Gathered(p) = Append(f, q)
      BY <2>1, <3>1, <3>3
    <3>5. Append(f, q) \in Seq(Chunks) /\ Append(f, q) # <<>>
      BY AppendFacts
    <3>6. /\ Len(Concat(f)) \in Nat /\ Len(l) \in Nat /\ Len(p) \in Nat
          /\ Len(Concat(Append(f, q))) = Len(Concat(f)) + Len(q)
      BY ConcatLen
    <3> QED
      BY <2>2, <3>2, <3>3, <3>4, <3>5, <3>6
  <2>4. CASE ~CrPfx(p)
    <3>1. Gathered(p) = [buf EXCEPT ![Len(buf)] = l \o p]
      BY <1>2, <2>1, <2>4 DEF Gathered
    <3>2. Counted(p) = n + Len(p)
      BY <2>4 DEF Counted
    <3>3. PICK q \in Chunks : q = l \o p /\ Len(q) = Len(l) + Len(p)
      <4>1. l \o p \in Chunks /\ Len(l \o p) = Len(l) + Len(p)
        BY DEF Chunks
      <4> QED
        BY <4>1
    <3>4. Gathered(p) = Append(f, q)
      BY <2>1, <3>1, <3>3
    <3>5. Append(f, q) \in Seq(Chunks) /\ Append(f, q) # <<>>
      BY AppendFacts
    <3>6. /\ Len(Concat(f)) \in Nat /\ Len(l) \in Nat /\ Len(p) \in Nat
          /\ Len(Concat(Append(f, q))) = Len(Concat(f)) + Len(q)
      BY ConcatLen
    <3> QED
      <4>1. Len(Concat(Append(f, q))) <= n + Len(p)
        BY <2>2, <3>3, <3>6
      <4>2. n + Len(p) \in Nat
        BY <3>6
      <4> QED
        BY <3>2, <3>4, <3>5, <4>1, <4>2
  <2> QED
    BY <2>3, <2>4
<1> QED
  BY <1>1, <1>2

\* Without chunks there are no bytes.
LEMMA NothingGathered == Concat(<<>>) = <<>> /\ Len(Concat(<<>>)) = 0
BY DEF Concat, FlattenSeq

\* What a flush leaves, and that it sends the matches it found with the chunks.
LEMMA FlushFacts ==
  ASSUME StreamTypes, NEW eof \in BOOLEAN, NEW b \in Seq(Chunks), NEW a \in Nat,
         b = <<>> => a = 0, Flush(eof, b, a)
  PROVE  /\ buf' \in Seq(Chunks) /\ sent' \in Chunks
         /\ attrs' \in Nat /\ sentAttrs' \in Nat /\ ends' \in Nat
         /\ sentAttrs' + attrs' = sentAttrs + a
         /\ ~streaming => buf' = b /\ attrs' = a
         /\ streaming => buf' = <<>> /\ attrs' = 0
         /\ ~streaming \/ ~eof => ends' = ends
         /\ ~streaming \/ (~eof /\ b = <<>>) => UNCHANGED sentVars
<1>1. /\ sent \in Chunks /\ sentAttrs \in Nat /\ ends \in Nat /\ Concat(b) \in Chunks
      /\ <<>> \in Seq(Chunks)
  BY ConcatType DEF StreamTypes, Chunks
<1>2. sent \o Concat(b) \in Chunks
  BY <1>1 DEF Chunks
<1>3. CASE ~streaming
  BY <1>1, <1>3 DEF Flush, sentVars
<1>4. CASE streaming
  <2>1. buf' = <<>> /\ attrs' = 0
    BY <1>4 DEF Flush, Kept
  <2>2. CASE eof \/ b # <<>>
    <3>1. /\ sent' = sent \o Concat(b) /\ sentAttrs' = sentAttrs + a
          /\ ends' = IF eof THEN ends + 1 ELSE ends
      BY <1>4, <2>2 DEF Flush
    <3> QED
      BY <1>1, <1>2, <1>4, <2>1, <2>2, <3>1
  <2>3. CASE ~(eof \/ b # <<>>)
    <3>1. UNCHANGED sentVars
      BY <1>4, <2>3 DEF Flush
    <3> QED
      BY <1>1, <1>4, <2>1, <2>3, <3>1 DEF sentVars
  <2> QED
    BY <2>2, <2>3
<1> QED
  BY <1>3, <1>4

\* The part of the invariant that the stream's own steps can disturb.
StreamKept ==
  /\ buf \in Seq(Chunks) /\ sent \in Chunks /\ cr \in BOOLEAN
  /\ {n, attrs, matches, sentAttrs, ends} \subseteq Nat
  /\ MatchesHaveChunks /\ MatchesKept /\ GatheredBounded

\* A chunk that a switch discards is replaced by the empty one.
LEMMA FilteredType == ASSUME NEW p \in Chunks PROVE Filtered(p) \in Chunks
BY DEF Filtered, Chunks

LEMMA CrPfxType == ASSUME NEW p PROVE CrPfx(p) \in BOOLEAN
BY DEF CrPfx

\* Write, whatever becomes of the chunk.
LEMMA WriteKeeps ==
  ASSUME StreamInv, NEW chunk \in Chunks, StreamWrite(chunk), streaming' = streaming
  PROVE  StreamKept' /\ ends' = ends
<1>1. PICK p \in Chunks, a \in {0, 1} :
        /\ matches' = matches + a
        /\ IF Counted(p) >= FlushSize
           THEN /\ Flush(FALSE, Gathered(p), attrs + a)
                /\ n'  = IF streaming THEN 0 ELSE Counted(p)
                /\ cr' = IF streaming THEN FALSE ELSE CrPfx(p)
           ELSE /\ buf' = Gathered(p) /\ attrs' = attrs + a
                /\ n' = Counted(p) /\ cr' = CrPfx(p)
                /\ UNCHANGED <<armed, sentVars>>
  BY FilteredType DEF StreamWrite
<1>2. /\ Gathered(p) \in Seq(Chunks) /\ Gathered(p) # <<>>
      /\ Counted(p) \in Nat /\ Len(Concat(Gathered(p))) <= Counted(p)
  BY GatheredFacts DEF StreamInv, StreamTypes, GatheredBounded
<1>3. /\ attrs + a \in Nat /\ matches' \in Nat /\ FlushSize \in Nat /\ FlushSize > 0
      /\ {attrs, matches, sentAttrs, ends} \subseteq Nat /\ sent \in Chunks
      /\ streaming \in BOOLEAN
  BY <1>1, StreamAssumption, SMTT(30) DEF StreamInv, StreamTypes
<1>4. sentAttrs + (attrs + a) = matches'
  BY <1>1, <1>3 DEF StreamInv, MatchesKept
<1>5. CrPfx(p) \in BOOLEAN
  BY CrPfxType
<1>6. CASE Counted(p) >= FlushSize
  <2>1. /\ Flush(FALSE, Gathered(p), attrs + a)
        /\ n'  = IF streaming THEN 0 ELSE Counted(p)
        /\ cr' = IF streaming THEN FALSE ELSE CrPfx(p)
    BY <1>1, <1>6
  <2>2. /\ buf' \in Seq(Chunks) /\ sent' \in Chunks
        /\ attrs' \in Nat /\ sentAttrs' \in Nat /\ ends' \in Nat
        /\ sentAttrs' + attrs' = sentAttrs + (attrs + a)
        /\ ~streaming => buf' = Gathered(p)
        /\ streaming => buf' = <<>> /\ attrs' = 0
        /\ ends' = ends
    BY <1>2, <1>3, <2>1, FlushFacts DEF StreamInv
  <2>3. n' \in Nat /\ cr' \in BOOLEAN
    BY <1>2, <1>5, <2>1
  <2>4. GatheredBounded'
    <3>1. CASE streaming
      <4>1. buf' = <<>> /\ n' = 0
        BY <2>1, <2>2, <3>1
      <4>2. Len(Concat(buf')) = 0
        BY <4>1, NothingGathered
      <4> QED
        BY <1>3, <4>1, <4>2 DEF GatheredBounded
    <3>2. CASE ~streaming
      <4>1. buf' = Gathered(p) /\ n' = Counted(p)
        BY <2>1, <2>2, <3>2
      <4>2. Len(Concat(buf')) <= n'
        BY <1>2, <4>1
      <4> QED
        BY <3>2, <4>2 DEF GatheredBounded
    <3> QED
      BY <1>3, <3>1, <3>2
  <2>5. MatchesHaveChunks' /\ MatchesKept'
    BY <1>2, <1>4, <2>2 DEF MatchesHaveChunks, MatchesKept
  <2> QED
    BY <1>3, <2>2, <2>3, <2>4, <2>5 DEF StreamKept
<1>7. CASE ~(Counted(p) >= FlushSize)
  <2>1. /\ buf' = Gathered(p) /\ attrs' = attrs + a
        /\ n' = Counted(p) /\ cr' = CrPfx(p)
        /\ UNCHANGED <<sent, sentAttrs, ends>>
    BY <1>1, <1>7 DEF sentVars
  <2>2. n' < FlushSize
    BY <1>2, <1>3, <1>7, <2>1
  <2>3. GatheredBounded'
    BY <1>2, <2>1, <2>2 DEF GatheredBounded
  <2>4. MatchesHaveChunks' /\ MatchesKept'
    BY <1>2, <1>3, <1>4, <2>1 DEF MatchesHaveChunks, MatchesKept
  <2> QED
    BY <1>2, <1>3, <1>5, <2>1, <2>3, <2>4 DEF StreamKept
<1> QED
  BY <1>6, <1>7

\* A flush of what has been gathered: of the timer, or the last.
LEMMA FlushKeeps ==
  ASSUME StreamInv, NEW eof \in BOOLEAN, Flush(eof, buf, attrs), UNCHANGED <<streaming, matches>>,
         n' = IF streaming THEN 0 ELSE n, cr' = IF streaming THEN FALSE ELSE cr
  PROVE  StreamKept'
<1>1. /\ buf \in Seq(Chunks) /\ attrs \in Nat /\ n \in Nat /\ cr \in BOOLEAN
      /\ matches \in Nat /\ streaming \in BOOLEAN /\ FlushSize \in Nat /\ FlushSize > 0
      /\ buf = <<>> => attrs = 0
      /\ StreamTypes /\ sentAttrs + attrs = matches
      /\ Len(Concat(buf)) <= n
  BY StreamAssumption DEF StreamInv, StreamTypes, MatchesHaveChunks, MatchesKept, GatheredBounded
<1>2. /\ buf' \in Seq(Chunks) /\ sent' \in Chunks
      /\ attrs' \in Nat /\ sentAttrs' \in Nat /\ ends' \in Nat
      /\ sentAttrs' + attrs' = sentAttrs + attrs
      /\ ~streaming => buf' = buf /\ attrs' = attrs
      /\ streaming => buf' = <<>> /\ attrs' = 0
  BY <1>1, FlushFacts
<1>3. n' \in Nat /\ cr' \in BOOLEAN /\ matches' \in Nat
  BY <1>1
<1>4. MatchesHaveChunks' /\ MatchesKept'
  BY <1>1, <1>2 DEF MatchesHaveChunks, MatchesKept
<1>5. GatheredBounded'
  <2>1. CASE streaming
    <3>1. buf' = <<>> /\ n' = 0
      BY <1>2, <2>1
    <3>2. Len(Concat(buf')) = 0
      BY <3>1, NothingGathered
    <3> QED
      BY <1>1, <3>1, <3>2 DEF GatheredBounded
  <2>2. CASE ~streaming
    <3>1. buf' = buf /\ n' = n
      BY <1>2, <2>2
    <3>2. Len(Concat(buf')) <= n'
      BY <1>1, <3>1
    <3> QED
      BY <2>2, <3>2 DEF GatheredBounded
  <2> QED
    BY <1>1, <2>1, <2>2
<1> QED
  BY <1>2, <1>3, <1>4, <1>5 DEF StreamKept

LEMMA InvFrom ==
  ASSUME StreamInv, StreamKept', UNCHANGED modeVars, pending' \in Chunks,
         exec' \in {"running", "closing", "ending", "ended", "closed", "answered"},
         PendingStartsLine', NothingAfterEnd'
  PROVE  StreamInv'
BY DEF StreamInv, StreamTypes, StreamKept, modeVars

LEMMA KeptSame ==
  ASSUME StreamInv, UNCHANGED <<streaming, streamVars, attrVars, sent, sentAttrs, ends>>
  PROVE  StreamKept'
BY DEF StreamInv, StreamTypes, StreamKept, MatchesHaveChunks, MatchesKept, GatheredBounded,
       streamVars, attrVars

LEMMA InvInit == Init => StreamInv
<1> SUFFICES ASSUME Init PROVE StreamInv
  OBVIOUS
<1>1. streaming \in BOOLEAN /\ discard \in BOOLEAN
  BY StreamAssumption DEF Init
<1>2. FlushSize \in Nat /\ FlushSize > 0
  BY StreamAssumption
<1>3. StreamTypes
  <2>1. <<>> \in Chunks /\ <<>> \in Seq(Chunks)
    BY DEF Chunks
  <2>2. buf \in Seq(Chunks) /\ pending \in Chunks /\ sent \in Chunks
    BY <2>1 DEF Init
  <2>3. {streaming, discard, cr} \subseteq BOOLEAN
    <3>1. cr = FALSE
      BY DEF Init
    <3> QED
      BY <1>1, <3>1
  <2>4. {n, attrs, matches, sentAttrs, ends} \subseteq Nat /\ exec = "running"
    BY DEF Init
  <2> QED
    BY <2>2, <2>3, <2>4 DEF StreamTypes
<1>4. GatheredBounded
  BY <1>2, NothingGathered DEF Init, GatheredBounded
<1> QED
  BY <1>3, <1>4 DEF Init, StreamInv, MatchesHaveChunks, MatchesKept, PendingStartsLine,
                    NothingAfterEnd

LEMMA SinkWriteInv == ASSUME StreamInv, SinkWrite PROVE StreamInv'
<1>1. PICK k \in 1..MaxWrite : \E p \in [1..k -> Bytes] : pending' = pending \o p
  BY DEF SinkWrite
<1>2. PICK p \in Chunks : pending' = pending \o p
  BY <1>1 DEF Chunks
<1>3. /\ UNCHANGED <<modeVars, exec, buf, sent, ends, attrs>> /\ pending \in Chunks
      /\ exec = "running" /\ StreamKept'
  BY KeptSame DEF SinkWrite, StreamInv, StreamTypes, streamVars, attrVars, sentVars, modeVars
<1>4. /\ pending \o p \in Chunks
      /\ pending # <<>> => pending \o p # <<>> /\ (pending \o p)[1] = pending[1]
  BY <1>3 DEF Chunks
<1>5. pending' \in Chunks /\ (pending # <<>> => pending' # <<>> /\ pending'[1] = pending[1])
  BY <1>2, <1>4
<1>6. PendingStartsLine'
  BY <1>3, <1>5 DEF StreamInv, PendingStartsLine
<1>7. NothingAfterEnd'
  BY <1>3 DEF StreamInv, NothingAfterEnd, modeVars
<1> QED
  BY <1>3, <1>5, <1>6, <1>7, InvFrom

LEMMA SinkChunkInv == ASSUME StreamInv, SinkChunk PROVE StreamInv'
<1>1. /\ pending \in Chunks /\ Boundaries(pending) # {} /\ exec = "running" /\ ends = 0
      /\ UNCHANGED <<modeVars, exec>> /\ streaming' = streaming
  BY DEF SinkChunk, Writing, StreamInv, StreamTypes, NothingAfterEnd, modeVars
<1>2. PICK k \in Nat : k = NextChunk(pending) /\ k + 1 \in 1..Len(pending)
                       /\ pending[k + 1] \in {"cr", "nl"}
  BY <1>1, NextChunkFacts
<1>3. /\ StreamWrite(SubSeq(pending, 1, k))
      /\ pending' = SubSeq(pending, k + 1, Len(pending))
  BY <1>2 DEF SinkChunk
<1>4. /\ SubSeq(pending, 1, k) \in Chunks /\ pending' \in Chunks
      /\ pending' # <<>> /\ pending'[1] = pending[k + 1]
  BY <1>1, <1>2, <1>3, CutFacts DEF Chunks
<1>5. StreamKept' /\ ends' = ends
  BY <1>1, <1>3, <1>4, WriteKeeps
<1>6. PendingStartsLine'
  BY <1>2, <1>4 DEF PendingStartsLine
<1>7. NothingAfterEnd'
  BY <1>1, <1>5 DEF NothingAfterEnd
<1> QED
  BY <1>1, <1>4, <1>5, <1>6, <1>7, InvFrom

LEMMA SinkCloseInv == ASSUME StreamInv, SinkClose PROVE StreamInv'
<1>1. /\ pending \in Chunks /\ ends = 0 /\ UNCHANGED modeVars /\ streaming' = streaming
      /\ exec' = "ending" /\ pending' = <<>>
  BY DEF SinkClose, StreamInv, StreamTypes, NothingAfterEnd, modeVars
<1>2. StreamKept' /\ ends' = ends
  <2>1. CASE StreamWrite(pending)
    BY <1>1, <2>1, WriteKeeps
  <2>2. CASE UNCHANGED <<streamVars, attrVars, sentVars>>
    BY <1>1, <2>2, KeptSame DEF sentVars
  <2> QED
    BY <2>1, <2>2 DEF SinkClose
<1>3. PendingStartsLine' /\ NothingAfterEnd' /\ pending' \in Chunks
  BY <1>1, <1>2 DEF PendingStartsLine, NothingAfterEnd, Chunks
<1> QED
  BY <1>1, <1>2, <1>3, InvFrom

\* The last flush: what follows has nothing to send.
LEMMA StreamEndInv == ASSUME StreamInv, StreamEnd PROVE StreamInv'
<1>1. /\ Flush(TRUE, buf, attrs) /\ exec = "ending" /\ exec' = "ended"
      /\ n' = IF streaming THEN 0 ELSE n
      /\ cr' = IF streaming THEN FALSE ELSE cr
      /\ UNCHANGED <<modeVars, matches, pending>> /\ streaming' = streaming
      /\ pending \in Chunks /\ streaming \in BOOLEAN
  BY DEF StreamEnd, StreamInv, StreamTypes, modeVars, sinkVars
<1>2. StreamKept'
  BY <1>1, FlushKeeps
<1>3. /\ streaming => buf' = <<>> /\ attrs' = 0
      /\ ~streaming => ends' = ends
  BY <1>1, FlushFacts DEF StreamInv, StreamTypes, MatchesHaveChunks
<1>4. NothingAfterEnd' /\ PendingStartsLine'
  BY <1>1, <1>3 DEF StreamInv, NothingAfterEnd, PendingStartsLine
<1> QED
  BY <1>1, <1>2, <1>4, InvFrom

LEMMA AnswerInvariant == ASSUME StreamInv, Answer PROVE StreamInv'
<1>1. /\ sent \in Chunks /\ buf \in Seq(Chunks) /\ attrs \in Nat /\ sentAttrs \in Nat
      /\ exec = "closed" /\ exec' = "answered"
      /\ UNCHANGED <<modeVars, streaming, streamVars, pending, buf, n, cr, matches, ends>>
      /\ sent' = sent \o Concat(buf) /\ sentAttrs' = sentAttrs + attrs /\ attrs' = 0
  BY DEF Answer, StreamInv, StreamTypes, modeVars, sinkVars, streamVars
<1>2. Concat(buf) \in Chunks
  BY <1>1, ConcatType DEF Chunks
<1>3. sent' \in Chunks /\ sentAttrs' \in Nat /\ attrs' \in Nat
  BY <1>1, <1>2 DEF Chunks
<1>4. MatchesKept' /\ MatchesHaveChunks' /\ GatheredBounded'
  BY <1>1 DEF StreamInv, MatchesKept, MatchesHaveChunks, GatheredBounded
<1>5. StreamKept'
  BY <1>1, <1>3, <1>4 DEF StreamKept, StreamInv, StreamTypes
<1>6. PendingStartsLine' /\ NothingAfterEnd' /\ pending' \in Chunks
  BY <1>1 DEF PendingStartsLine, NothingAfterEnd, StreamInv, StreamTypes
<1> QED
  BY <1>1, <1>5, <1>6, InvFrom

\* The timer's flush sends only what has been gathered.
LEMMA TimerFlushInv == ASSUME StreamInv, TimerFlush PROVE StreamInv'
<1>1. /\ Flush(FALSE, buf, attrs)
      /\ n' = IF streaming THEN 0 ELSE n
      /\ cr' = IF streaming THEN FALSE ELSE cr
      /\ UNCHANGED <<modeVars, exec, matches, pending>> /\ streaming' = streaming
      /\ pending \in Chunks /\ streaming \in BOOLEAN /\ StreamTypes
  BY DEF TimerFlush, StreamInv, StreamTypes, modeVars, sinkVars
<1>2. StreamKept'
  BY <1>1, FlushKeeps
<1>3. /\ ~streaming => buf' = buf /\ attrs' = attrs
      /\ streaming => buf' = <<>> /\ attrs' = 0
      /\ ends' = ends
      /\ ~streaming \/ buf = <<>> => sent' = sent
  BY <1>1, FlushFacts DEF StreamInv, StreamTypes, MatchesHaveChunks, sentVars
<1>4. NothingAfterEnd'
  BY <1>1, <1>3 DEF StreamInv, NothingAfterEnd
<1>5. PendingStartsLine'
  BY <1>1, <1>3 DEF StreamInv, PendingStartsLine
<1> QED
  BY <1>1, <1>2, <1>4, <1>5, InvFrom DEF StreamTypes

LEMMA InvStep == StreamInv /\ [Next]_vars => StreamInv'
<1> SUFFICES ASSUME StreamInv, [Next]_vars PROVE StreamInv'
  OBVIOUS
<1>1. CASE CommandEnds \/ StreamClose \/ TimerFires \/ TimerGoes \/ UNCHANGED vars
  <2>1. /\ UNCHANGED <<modeVars, streaming, streamVars, attrVars, sent, sentAttrs, ends, pending>>
        /\ UNCHANGED <<buf, attrs>>
        /\ \/ exec' = exec \/ (exec = "running" /\ exec' = "closing")
           \/ (exec = "ended" /\ exec' = "closed")
    BY <1>1 DEF CommandEnds, StreamClose, TimerFires, TimerGoes, vars, modeVars, sinkVars,
                streamVars, attrVars, sentVars
  <2>2. StreamKept'
    BY <2>1, KeptSame
  <2>3. PendingStartsLine' /\ NothingAfterEnd'
    BY <2>1 DEF StreamInv, PendingStartsLine, NothingAfterEnd
  <2>4. pending' \in Chunks
    BY <2>1 DEF StreamInv, StreamTypes
  <2>5. exec' \in {"running", "closing", "ending", "ended", "closed", "answered"}
    BY <2>1 DEF StreamInv, StreamTypes
  <2> QED
    BY <2>1, <2>2, <2>3, <2>4, <2>5, InvFrom
<1> QED
  BY <1>1, SinkWriteInv, SinkChunkInv, SinkCloseInv, StreamEndInv, AnswerInvariant,
     TimerFlushInv DEF Next, Sink, Timer

LEMMA StreamInvariant == Spec => []StreamInv
<1> QED
  BY InvInit, InvStep, PTL DEF Spec

\* Each chunk is aligned on line boundaries (sink.NewSink): what has left the sink
\* ends where a line does.
THEOREM ChunksAreAligned == Spec => []ChunksAligned
<1>1. StreamInv => ChunksAligned
  BY DEF StreamInv, PendingStartsLine, ChunksAligned
<1> QED
  BY <1>1, StreamInvariant, PTL

\* No match is lost, whenever the timer flushes: a match is kept with the chunk it was
\* found in, even if that chunk is discarded and gathered as an empty one.
THEOREM MatchesAreKept == Spec => []MatchesKept
<1>1. StreamInv => MatchesKept
  BY DEF StreamInv
<1> QED
  BY <1>1, StreamInvariant, PTL

\* The count that Write compares with 32K is no less than what is gathered, although
\* chunks overwrite each other, so that a streaming call never gathers as much.
THEOREM GatheredIsBounded == Spec => []GatheredBounded
<1>1. StreamInv => GatheredBounded
  BY DEF StreamInv
<1> QED
  BY <1>1, StreamInvariant, PTL

\* Once the stream has sent its end nothing is sent: neither the timer, if its flush
\* comes late, nor the response has anything left.
THEOREM NothingIsSentAfterEnd == Spec => EndIsLast
<1>1. StreamInv /\ [Next]_vars => [ends = 1 => UNCHANGED sentVars]_vars
  <2> SUFFICES ASSUME StreamInv, Next, ends = 1 PROVE UNCHANGED sentVars
    OBVIOUS
  <2>1. /\ StreamTypes /\ streaming /\ buf = <<>> /\ attrs = 0
        /\ exec \in {"ended", "closed", "answered"}
    BY DEF StreamInv, StreamTypes, NothingAfterEnd
  <2>2. /\ attrs \in Nat /\ sentAttrs \in Nat /\ sent \in Seq(Bytes)
        /\ <<>> \in Seq(Chunks)
    BY DEF StreamInv, StreamTypes, Chunks
  <2>3. CASE TimerFlush
    <3>1. Flush(FALSE, buf, attrs)
      BY <2>3 DEF TimerFlush
    <3> QED
      BY <2>1, <2>2, <3>1, FlushFacts
  <2>4. CASE Answer
    <3>1. sent \o Concat(buf) = sent
      BY <2>1, <2>2, NothingGathered
    <3>2. sentAttrs + attrs = sentAttrs
      BY <2>1, <2>2
    <3> QED
      BY <2>4, <3>1, <3>2 DEF Answer, sentVars
  <2>5. CASE StreamClose \/ TimerFires \/ TimerGoes
    BY <2>5 DEF StreamClose, TimerFires, TimerGoes
  <2>6. ~(SinkWrite \/ CommandEnds \/ SinkChunk \/ SinkClose \/ StreamEnd)
    BY <2>1 DEF SinkWrite, CommandEnds, SinkChunk, Writing, SinkClose, StreamEnd
  <2> QED
    BY <2>3, <2>4, <2>5, <2>6 DEF Next, Sink, Timer
<1> QED
  BY <1>1, StreamInvariant, PTL DEF Spec, EndIsLast

-----------------------------------------------------------------------------
(* The timer. *)

\* While a streaming call's stream is open its timer runs or is about to flush, which
\* starts it anew; its goroutine goes when the stream has been closed.
TimerInv ==
  /\ flushing = "gone" => Closed
  /\ streaming /\ ~Closed => armed \/ flushing = "yes"

\* What OutputIsSent takes no fairness to see to: output is never left gathered
\* without a flush to come, by the timer or by its goroutine, which is there to do it.
GatheredIsAwaited ==
  streaming /\ buf # <<>> => ~Closed /\ flushing # "gone" /\ (armed \/ flushing = "yes")

\* A flush leaves a streaming call's timer running, and others' as it was.
LEMMA FlushRearms ==
  ASSUME NEW eof, NEW b, NEW a, Flush(eof, b, a)
  PROVE  (streaming => armed') /\ (~streaming => armed' = armed)
BY DEF Flush, Rearmed

LEMMA WriteKeepsTimer ==
  ASSUME NEW chunk, StreamWrite(chunk)
  PROVE  armed' = armed \/ (streaming => armed')
BY FlushRearms DEF StreamWrite

LEMMA TimerStarts == Init => TimerInv
BY DEF Init, TimerInv

LEMMA TimerStep == TimerInv /\ [Next]_vars => TimerInv'
<1> SUFFICES ASSUME TimerInv, [Next]_vars PROVE TimerInv'
  OBVIOUS
<1> USE DEF modeVars, sinkVars, streamVars, attrVars, timerVars, sentVars
<1>1. ASSUME UNCHANGED <<streaming, flushing>>, armed' = armed \/ (streaming => armed'),
             exec' = exec \/ ~Closed
      PROVE  TimerInv'
  BY <1>1 DEF TimerInv, Closed
<1>2. CASE SinkWrite \/ CommandEnds \/ UNCHANGED vars
  <2>1. UNCHANGED <<streaming, flushing, armed>> /\ (exec' = exec \/ ~Closed)
    BY <1>2 DEF SinkWrite, CommandEnds, vars, Closed
  <2> QED
    BY <1>1, <2>1
<1>3. CASE SinkChunk
  <2>1. UNCHANGED <<streaming, flushing, exec>> /\ \E chunk : StreamWrite(chunk)
    BY <1>3 DEF SinkChunk
  <2> QED
    BY <1>1, <2>1, WriteKeepsTimer
<1>4. CASE SinkClose
  <2>1. /\ UNCHANGED <<streaming, flushing>> /\ ~Closed
        /\ armed' = armed \/ StreamWrite(pending)
    BY <1>4 DEF SinkClose, Closed
  <2> QED
    BY <1>1, <2>1, WriteKeepsTimer
<1>5. CASE StreamEnd
  <2>1. UNCHANGED <<streaming, flushing>> /\ ~Closed /\ Flush(TRUE, buf, attrs)
    BY <1>5 DEF StreamEnd, Closed
  <2> QED
    BY <1>1, <2>1, FlushRearms
<1>6. CASE StreamClose \/ Answer
  BY <1>6 DEF StreamClose, Answer, TimerInv, Closed
<1>7. CASE TimerFires \/ TimerGoes
  BY <1>7 DEF TimerFires, TimerGoes, TimerInv, Closed
<1>8. CASE TimerFlush
  <2>1. /\ UNCHANGED <<streaming, exec>> /\ Flush(FALSE, buf, attrs) /\ flushing' = "no"
    BY <1>8 DEF TimerFlush
  <2> QED
    BY <2>1, FlushRearms DEF TimerInv, Closed
<1> QED
  BY <1>2, <1>3, <1>4, <1>5, <1>6, <1>7, <1>8 DEF Next, Sink, Timer

\* What a streaming call has gathered is on its way: the timer never stops while the
\* stream is open, whoever flushes, and there is nothing left when it is closed.
THEOREM GatheredOutputIsAwaited == Spec => []GatheredIsAwaited
<1>1. StreamInv /\ TimerInv => GatheredIsAwaited
  BY DEF StreamInv, StreamTypes, NothingAfterEnd, TimerInv, GatheredIsAwaited, Closed
<1> QED
  BY <1>1, StreamInvariant, TimerStarts, TimerStep, PTL DEF Spec

-----------------------------------------------------------------------------
(* The screen: what it shows of a sequence, byte by byte. *)

Blank == [done |-> <<>>, line |-> <<>>, col |-> 0]

\* The screen with its column.
Shown(s) == FoldLeft(LAMBDA screen, b : Show(b, screen), Blank, s)

\* What has left the sink on its way to the client.
Out == sent \o (IF exec = "answered" THEN <<>> ELSE Concat(buf))

\* An indented line after a carriage return, in some output.
IndentIn(p) ==
  \E i, k \in 1..Len(p) : i < k /\ p[i] = "cr" /\ p[k] = "nl" /\ IsIndent(p, k + 1)

SameLines(x, y) == x.done = y.done /\ x.line = y.line

\* A chunk that starts with a carriage return and ends before the next line.
RewritesLine(p) ==
  p # <<>> /\ p[1] = "cr" /\ \A i \in 2..Len(p) : p[i] \notin {"cr", "nl"}

StartsLine(p) == p # <<>> /\ p[1] \in {"cr", "nl"}

\* Pending bytes are the end of what was printed; none are left after the sink is closed.
SinkInv ==
  /\ printed \in Seq(Bytes) /\ printed = Before \o pending
  /\ Len(pending) <= Len(printed)
  /\ exec = "closing" => Boundaries(pending) = {}
  /\ exec \notin {"running", "closing"} => pending = <<>>

\* What has left the sink shows the same lines as what was printed before; while more may
\* come it either starts a line, or nothing has been printed before.
ScreenInv ==
  /\ ~IndentIn(Before) =>
       /\ SameLines(Shown(Out), Shown(Before))
       /\ cr /\ buf # <<>> => RewritesLine(buf[Len(buf)])
  /\ exec \in {"running", "closing"} /\ ~StartsLine(pending) => Out = <<>> /\ Before = <<>>

\* What the fold makes of the bytes at the indices s, if f is that of fewer.
Draws(f, bytes, s) ==
  IF s = {} THEN Blank ELSE Show(bytes[Max(s)], f[s \ {Max(s)}])

\* Shown is what FoldLeft's function makes of all the indices.
LEMMA ShownUnfolds ==
  ASSUME NEW bytes
  PROVE  Shown(bytes) = (CHOOSE f : f = [s \in SUBSET DOMAIN bytes |-> Draws(f, bytes, s)])
                          [DOMAIN bytes]
BY DEF Shown, FoldLeft, MapThenFoldSet, Draws

\* The last index of a set that has one beyond the first k.
LEMMA MaxIsLast ==
  ASSUME NEW k \in Nat, NEW s \in SUBSET (1..(k + 1)), ~ (s \subseteq 1..k)
  PROVE  s # {} /\ Max(s) = k + 1 /\ s \ {Max(s)} \subseteq 1..k
<1>1. k + 1 \in s
  OBVIOUS
<1>2. \A y \in s : k + 1 >= y
  OBVIOUS
<1>3. \A x \in s : (\A y \in s : x >= y) => x = k + 1
  BY <1>1
<1>4. Max(s) = k + 1
  BY <1>1, <1>2, <1>3 DEF Max
<1> QED
  BY <1>1, <1>4

\* There is a function that the fold is: FoldLeft chooses one.
LEMMA FoldExists ==
  ASSUME NEW m \in Nat, NEW bytes
  PROVE  \E f : f = [s \in SUBSET (1..m) |-> Draws(f, bytes, s)]
<1> DEFINE T == {k \in Nat : \E f : f = [s \in SUBSET (1..k) |-> Draws(f, bytes, s)]}
<1>1. 0 \in T
  <2> DEFINE g == [s \in SUBSET (1..0) |-> Blank]
  <2>1. \A s \in SUBSET (1..0) : s = {}
    OBVIOUS
  <2>2. \A s \in SUBSET (1..0) : Draws(g, bytes, s) = Blank
    BY <2>1 DEF Draws
  <2>3. g = [s \in SUBSET (1..0) |-> Draws(g, bytes, s)]
    BY <2>2
  <2> QED
    BY <2>3
<1>2. ASSUME NEW k \in Nat, k \in T PROVE k + 1 \in T
  <2>1. PICK g : g = [s \in SUBSET (1..k) |-> Draws(g, bytes, s)]
    BY <1>2
  <2> DEFINE h == [s \in SUBSET (1..(k + 1)) |->
                     IF s \subseteq 1..k THEN g[s] ELSE Draws(g, bytes, s)]
  <2>2. \A s \in SUBSET (1..k) : s \in SUBSET (1..(k + 1)) /\ h[s] = g[s]
    OBVIOUS
  <2> HIDE DEF h
  <2>3. \A s \in SUBSET (1..k) : Draws(h, bytes, s) = Draws(g, bytes, s)
    <3> SUFFICES ASSUME NEW s \in SUBSET (1..k) PROVE Draws(h, bytes, s) = Draws(g, bytes, s)
      OBVIOUS
    <3>1. h[s \ {Max(s)}] = g[s \ {Max(s)}]
      BY <2>2
    <3> QED
      BY <3>1 DEF Draws
  <2>4. \A s \in SUBSET (1..(k + 1)) :
          ~ (s \subseteq 1..k) => Draws(h, bytes, s) = Draws(g, bytes, s)
    <3> SUFFICES ASSUME NEW s \in SUBSET (1..(k + 1)), ~ (s \subseteq 1..k)
                 PROVE  Draws(h, bytes, s) = Draws(g, bytes, s)
      OBVIOUS
    <3>1. h[s \ {Max(s)}] = g[s \ {Max(s)}]
      BY <2>2, MaxIsLast
    <3> QED
      BY <3>1 DEF Draws
  <2>5. \A s \in SUBSET (1..k) : g[s] = Draws(g, bytes, s)
    BY <2>1
  <2>6. \A s \in SUBSET (1..(k + 1)) : h[s] = Draws(h, bytes, s)
    BY <2>3, <2>4, <2>5 DEF h
  <2>7. h = [s \in SUBSET (1..(k + 1)) |-> Draws(h, bytes, s)]
    BY <2>6 DEF h
  <2>8. k + 1 \in Nat
    OBVIOUS
  <2> QED
    BY <2>7, <2>8
<1> HIDE DEF T
<1>3. Nat \subseteq T
  BY <1>1, <1>2, SetInduction
<1>4. m \in T
  BY <1>3
<1> QED
  BY <1>4 DEF T

\* r[i] is the screen after the first i bytes.
Runs(r, bytes) ==
  r[0] = Blank /\ \A i \in 1..Len(bytes) : r[i] = Show(bytes[i], r[i - 1])

\* Shown goes through the bytes from the first to the last.
LEMMA ShownRuns ==
  ASSUME NEW S, NEW bytes \in Seq(S)
  PROVE  \E r : Runs(r, bytes) /\ Shown(bytes) = r[Len(bytes)]
<1> DEFINE m == Len(bytes)
           f == CHOOSE f : f = [s \in SUBSET (1..m) |-> Draws(f, bytes, s)]
           r == [i \in 0..m |-> f[1..i]]
<1>0. m \in Nat /\ DOMAIN bytes = 1..m
  OBVIOUS
<1>1. f = [s \in SUBSET (1..m) |-> Draws(f, bytes, s)]
  BY <1>0, FoldExists
<1>2. Shown(bytes) = f[1..m]
  BY <1>0, ShownUnfolds
<1> HIDE DEF f, m
<1>3. \A i \in 0..m : r[i] = f[1..i] /\ 1..i \in SUBSET (1..m)
  BY <1>0
<1> HIDE DEF r
<1>4. r[0] = Blank
  <2>1. 1..0 = {} /\ 1..0 \in SUBSET (1..m) /\ 0 \in 0..m
    BY <1>0
  <2> QED
    BY <1>1, <1>3, <2>1 DEF Draws
<1>5. ASSUME NEW i \in 1..m PROVE r[i] = Show(bytes[i], r[i - 1])
  <2>1. i - 1 \in Nat /\ i = (i - 1) + 1 /\ i \in 0..m /\ i - 1 \in 0..m
    BY <1>0
  <2>2. 1..i \in SUBSET (1..((i - 1) + 1)) /\ ~ (1..i \subseteq 1..(i - 1))
    BY <2>1
  <2>3. 1..i # {} /\ Max(1..i) = i
    BY <2>1, <2>2, MaxIsLast
  <2>4. (1..i) \ {i} = 1..(i - 1)
    BY <2>1
  <2>5. f[1..i] = Draws(f, bytes, 1..i)
    BY <1>1, <1>3, <2>1
  <2>6. f[1..i] = Show(bytes[i], f[1..(i - 1)])
    BY <2>3, <2>4, <2>5 DEF Draws
  <2> QED
    BY <1>3, <2>1, <2>6
<1>6. Runs(r, bytes) /\ Shown(bytes) = r[Len(bytes)]
  BY <1>0, <1>2, <1>3, <1>4, <1>5 DEF Runs, m
<1> QED
  BY <1>6

\* Nothing shows a blank screen.
LEMMA ShownEmpty == Shown(<<>>) = Blank
<1>1. <<>> \in Seq(Bytes) /\ Len(<<>>) = 0
  OBVIOUS
<1>2. PICK r : Runs(r, <<>>) /\ Shown(<<>>) = r[Len(<<>>)]
  BY <1>1, ShownRuns
<1> QED
  BY <1>1, <1>2 DEF Runs

\* A byte more is shown on the screen of those before it.
LEMMA ShownAppend ==
  ASSUME NEW S, NEW s \in Seq(S), NEW b \in S
  PROVE  Shown(Append(s, b)) = Show(b, Shown(s))
<1> DEFINE t == Append(s, b)
<1>1. /\ t \in Seq(S) /\ Len(s) \in Nat /\ Len(t) = Len(s) + 1 /\ t[Len(s) + 1] = b
      /\ \A i \in 1..Len(s) : t[i] = s[i]
  BY AppendFacts
<1> HIDE DEF t
<1>2. PICK g : Runs(g, s) /\ Shown(s) = g[Len(s)]
  BY ShownRuns
<1>3. PICK h : Runs(h, t) /\ Shown(t) = h[Len(t)]
  BY <1>1, ShownRuns
<1> DEFINE T == {k \in Nat : k <= Len(s) => g[k] = h[k]}
<1>4. 0 \in T
  BY <1>2, <1>3 DEF Runs
<1>5. ASSUME NEW k \in Nat, k \in T PROVE k + 1 \in T
  <2> SUFFICES ASSUME k + 1 <= Len(s) PROVE g[k + 1] = h[k + 1]
    OBVIOUS
  <2>1. k + 1 \in 1..Len(s) /\ k + 1 \in 1..Len(t) /\ (k + 1) - 1 = k /\ g[k] = h[k]
    BY <1>1, <1>5
  <2> QED
    BY <1>1, <1>2, <1>3, <2>1 DEF Runs
<1> HIDE DEF T
<1>6. Nat \subseteq T
  BY <1>4, <1>5, SetInduction
<1>7. g[Len(s)] = h[Len(s)]
  BY <1>1, <1>6 DEF T
<1>8. Len(s) + 1 \in 1..Len(t) /\ (Len(s) + 1) - 1 = Len(s)
  BY <1>1
<1>9. h[Len(t)] = Show(b, h[Len(s)])
  BY <1>1, <1>3, <1>8 DEF Runs
<1> QED
  BY <1>2, <1>3, <1>7, <1>9 DEF t

\* Sequences with the same members are equal.
LEMMA SeqEqual ==
  ASSUME NEW S, NEW s \in Seq(S), NEW t \in Seq(S), Len(s) = Len(t),
         \A i \in 1..Len(s) : s[i] = t[i]
  PROVE  s = t
OBVIOUS

\* A prefix is one member longer than the prefix before it.
LEMMA PrefixNext ==
  ASSUME NEW S, NEW s \in Seq(S), NEW u \in Seq(S), NEW k \in Nat, k + 1 <= Len(u)
  PROVE  /\ SubSeq(u, 1, k) \in Seq(S) /\ u[k + 1] \in S
         /\ SubSeq(u, 1, k + 1) = Append(SubSeq(u, 1, k), u[k + 1])
         /\ s \o SubSeq(u, 1, k + 1) = Append(s \o SubSeq(u, 1, k), u[k + 1])
<1> DEFINE v == SubSeq(u, 1, k)
           w == SubSeq(u, 1, k + 1)
<1>1. /\ v \in Seq(S) /\ w \in Seq(S) /\ u[k + 1] \in S /\ Len(v) = k /\ Len(w) = k + 1
      /\ (\A i \in 1..k : v[i] = u[i]) /\ \A i \in 1..(k + 1) : w[i] = u[i]
  BY FrontFacts
<1> HIDE DEF v, w
<1>2. /\ Append(v, u[k + 1]) \in Seq(S) /\ Len(Append(v, u[k + 1])) = k + 1
      /\ (\A i \in 1..k : Append(v, u[k + 1])[i] = v[i])
      /\ Append(v, u[k + 1])[k + 1] = u[k + 1]
  BY <1>1, AppendFacts
<1>3. \A i \in 1..(k + 1) : i \in 1..k \/ i = k + 1
  OBVIOUS
<1>4. \A i \in 1..Len(w) : w[i] = Append(v, u[k + 1])[i]
  BY <1>1, <1>2, <1>3
<1>5. w = Append(v, u[k + 1])
  BY <1>1, <1>2, <1>4, SeqEqual
<1>6. s \o Append(v, u[k + 1]) = Append(s \o v, u[k + 1])
  BY <1>1
<1> QED
  BY <1>1, <1>5, <1>6 DEF v, w

Grows(s, u, k) ==
  /\ SubSeq(u, 1, k) \in Seq(Bytes) /\ u[k + 1] \in Bytes
  /\ s \o SubSeq(u, 1, k + 1) = Append(s \o SubSeq(u, 1, k), u[k + 1])

LEMMA ChunkGrows ==
  ASSUME NEW s \in Chunks, NEW u \in Chunks, NEW k \in Nat, k + 1 <= Len(u) PROVE Grows(s, u, k)
BY PrefixNext DEF Grows, Chunks

\* The shortest prefix and the longest.
LEMMA PrefixEnds ==
  ASSUME NEW S, NEW u \in Seq(S)
  PROVE  SubSeq(u, 1, 0) = <<>> /\ SubSeq(u, 1, Len(u)) = u
<1>1. SubSeq(u, 1, 0) = <<>>
  OBVIOUS
<1>2. SubSeq(u, 1, Len(u)) \in Seq(S) /\ Len(u) \in Nat /\ Len(u) <= Len(u)
  OBVIOUS
<1>3. Len(SubSeq(u, 1, Len(u))) = Len(u) /\ \A i \in 1..Len(u) : SubSeq(u, 1, Len(u))[i] = u[i]
  BY <1>2, FrontFacts
<1>4. SubSeq(u, 1, Len(u)) = u
  BY <1>2, <1>3, SeqEqual
<1> QED
  BY <1>1, <1>4

\* From the same screen the same bytes lead to the same screen.
LEMMA ShownGoesOn ==
  ASSUME NEW s \in Chunks, NEW t \in Chunks, NEW u \in Chunks, Shown(s) = Shown(t)
  PROVE  Shown(s \o u) = Shown(t \o u)
<1>0. s \in Seq(Bytes) /\ t \in Seq(Bytes) /\ u \in Seq(Bytes) /\ Len(u) \in Nat
  BY DEF Chunks
<1> DEFINE T == {k \in Nat : k <= Len(u) =>
                   Shown(s \o SubSeq(u, 1, k)) = Shown(t \o SubSeq(u, 1, k))}
<1>1. 0 \in T
  <2>1. SubSeq(u, 1, 0) = <<>> /\ s \o <<>> = s /\ t \o <<>> = t
    BY <1>0, PrefixEnds
  <2> QED
    BY <2>1
<1>2. ASSUME NEW k \in Nat, k \in T PROVE k + 1 \in T
  <2> SUFFICES ASSUME k + 1 <= Len(u)
               PROVE  Shown(s \o SubSeq(u, 1, k + 1)) = Shown(t \o SubSeq(u, 1, k + 1))
    OBVIOUS
  <2>1. Shown(s \o SubSeq(u, 1, k)) = Shown(t \o SubSeq(u, 1, k))
    BY <1>0, <1>2
  <2>2. /\ SubSeq(u, 1, k) \in Seq(Bytes) /\ u[k + 1] \in Bytes
        /\ s \o SubSeq(u, 1, k + 1) = Append(s \o SubSeq(u, 1, k), u[k + 1])
        /\ t \o SubSeq(u, 1, k + 1) = Append(t \o SubSeq(u, 1, k), u[k + 1])
    <3>1. Grows(s, u, k) /\ Grows(t, u, k)
      BY ChunkGrows, Zenon
    <3> QED
      BY <3>1 DEF Grows
  <2>3. PICK x \in Seq(Bytes), y \in Seq(Bytes) :
          x = s \o SubSeq(u, 1, k) /\ y = t \o SubSeq(u, 1, k)
    <3>1. s \o SubSeq(u, 1, k) \in Seq(Bytes) /\ t \o SubSeq(u, 1, k) \in Seq(Bytes)
      BY <1>0, <2>2
    <3> QED
      BY <3>1
  <2>4. Shown(Append(x, u[k + 1])) = Shown(Append(y, u[k + 1]))
    BY <2>1, <2>2, <2>3, ShownAppend
  <2> QED
    BY <2>2, <2>3, <2>4
<1> HIDE DEF T
<1>3. Nat \subseteq T
  BY <1>1, <1>2, SetInduction
<1>4. Shown(s \o SubSeq(u, 1, Len(u))) = Shown(t \o SubSeq(u, 1, Len(u)))
  BY <1>0, <1>3 DEF T
<1> QED
  BY <1>0, <1>4, PrefixEnds

\* p lies over the beginning of old.
LEMMA OverlayFacts ==
  ASSUME NEW S, NEW p \in Seq(S), NEW old \in Seq(S)
  PROVE  /\ Overlay(p, old) \in Seq(S)
         /\ Len(Overlay(p, old)) = IF Len(p) <= Len(old) THEN Len(old) ELSE Len(p)
         /\ \A i \in 1..Len(Overlay(p, old)) :
              Overlay(p, old)[i] = IF i <= Len(p) THEN p[i] ELSE old[i]
<1> DEFINE r == SubSeq(old, Len(p) + 1, Len(old))
<1>0. Len(p) \in Nat /\ Len(old) \in Nat
  OBVIOUS
<1>1. CASE Len(p) <= Len(old)
  <2>1. r \in Seq(S) /\ Len(r) = Len(old) - Len(p)
    BY <1>0, <1>1
  <2>2. \A i \in 1..(Len(old) - Len(p)) : r[i] = old[Len(p) + i]
    BY <1>0, <1>1
  <2> HIDE DEF r
  <2>3. p \o r \in Seq(S) /\ Len(p \o r) = Len(old)
    BY <1>0, <1>1, <2>1
  <2>4. \A i \in 1..Len(old) : (p \o r)[i] = IF i <= Len(p) THEN p[i] ELSE old[i]
    <3> SUFFICES ASSUME NEW i \in 1..Len(old)
                 PROVE  (p \o r)[i] = IF i <= Len(p) THEN p[i] ELSE old[i]
      OBVIOUS
    <3>1. (p \o r)[i] = IF i <= Len(p) THEN p[i] ELSE r[i - Len(p)]
      BY <1>0, <1>1, <2>1
    <3>2. ~ (i <= Len(p)) => i - Len(p) \in 1..(Len(old) - Len(p)) /\ Len(p) + (i - Len(p)) = i
      BY <1>0
    <3> QED
      BY <2>2, <3>1, <3>2
  <2> QED
    BY <1>0, <1>1, <2>3, <2>4 DEF Overlay, r
<1>2. CASE ~(Len(p) <= Len(old))
  <2>1. r = <<>>
    BY <1>0, <1>2
  <2>2. p \o <<>> = p
    OBVIOUS
  <2>3. Overlay(p, old) = p
    BY <2>1, <2>2 DEF Overlay
  <2> QED
    BY <1>0, <1>2, <2>3
<1> QED
  BY <1>1, <1>2

\* What a screen is made of.
Screens == [done : Seq(Chunks), line : Chunks, col : Nat]

\* A byte leaves the screen a screen, with its column in the line or at its end.
LEMMA ShowType ==
  ASSUME NEW x \in Screens, NEW b \in Bytes, x.col <= Len(x.line)
  PROVE  /\ Show(b, x) \in Screens /\ Show(b, x).col <= Len(Show(b, x).line)
         /\ b = "cr" => Show(b, x) = [done |-> x.done, line |-> x.line, col |-> 0]
<1>0. /\ x.done \in Seq(Chunks) /\ x.line \in Chunks /\ x.col \in Nat
      /\ x.line \in Seq(Bytes) /\ Len(x.line) \in Nat
  BY DEF Screens, Chunks
<1>1. CASE b = "nl"
  <2>1. Append(x.done, x.line) \in Seq(Chunks) /\ <<>> \in Chunks /\ Len(<<>>) = 0
    BY <1>0 DEF Chunks
  <2>2. Show(b, x) = [done |-> Append(x.done, x.line), line |-> <<>>, col |-> 0]
    BY <1>1 DEF Show
  <2>3. b # "cr"
    BY <1>1
  <2> QED
    BY <2>1, <2>2, <2>3 DEF Screens
<1>2. CASE b = "cr"
  <2>1. Show(b, x) = [x EXCEPT !.col = 0]
    BY <1>2 DEF Show
  <2>2. Show(b, x) = [done |-> x.done, line |-> x.line, col |-> 0]
    BY <2>1 DEF Screens
  <2> QED
    BY <1>0, <2>2 DEF Screens
<1>3. CASE b # "nl" /\ b # "cr"
  <2>1. PICK p \in Seq(Bytes) : p = SubSeq(x.line, 1, x.col) \o <<b>> /\ Len(p) = x.col + 1
    <3>1. SubSeq(x.line, 1, x.col) \in Seq(Bytes) /\ Len(SubSeq(x.line, 1, x.col)) = x.col
      BY <1>0, FrontFacts
    <3>2. /\ SubSeq(x.line, 1, x.col) \o <<b>> \in Seq(Bytes)
          /\ Len(SubSeq(x.line, 1, x.col) \o <<b>>) = x.col + 1
      BY <1>0, <3>1
    <3> QED
      BY <3>2
  <2>2. PICK q \in Seq(Bytes) : q = Overlay(p, x.line) /\ x.col + 1 <= Len(q)
    <3>1. Overlay(p, x.line) \in Seq(Bytes)
      BY <1>0, OverlayFacts
    <3>2. Len(Overlay(p, x.line)) = IF Len(p) <= Len(x.line) THEN Len(x.line) ELSE Len(p)
      BY <1>0, OverlayFacts
    <3>3. x.col + 1 <= Len(Overlay(p, x.line))
      BY <1>0, <2>1, <3>2
    <3> QED
      BY <3>1, <3>3
  <2>3. Show(b, x) = [x EXCEPT !.line = q, !.col = x.col + 1]
    BY <1>3, <2>1, <2>2 DEF Show
  <2>4. Show(b, x) = [done |-> x.done, line |-> q, col |-> x.col + 1]
    BY <2>3 DEF Screens
  <2> QED
    BY <1>0, <1>3, <2>2, <2>4 DEF Screens, Chunks
<1> QED
  BY <1>1, <1>2, <1>3

\* What is shown is a screen.
LEMMA ShownType ==
  ASSUME NEW s \in Chunks
  PROVE  Shown(s) \in Screens /\ Shown(s).col <= Len(Shown(s).line)
<1>0. s \in Seq(Bytes) /\ Len(s) \in Nat /\ <<>> \in Seq(Bytes)
  BY DEF Chunks
<1> DEFINE T == {k \in Nat : k <= Len(s) =>
                   LET x == Shown(SubSeq(s, 1, k)) IN x \in Screens /\ x.col <= Len(x.line)}
<1>1. 0 \in T
  <2>1. Shown(SubSeq(s, 1, 0)) = Blank
    BY <1>0, PrefixEnds, ShownEmpty
  <2>2. Blank \in Screens /\ Blank.col <= Len(Blank.line)
    BY DEF Blank, Screens, Chunks
  <2> QED
    BY <2>1, <2>2
<1>2. ASSUME NEW k \in Nat, k \in T PROVE k + 1 \in T
  <2> DEFINE y == Shown(SubSeq(s, 1, k + 1))
  <2> SUFFICES ASSUME k + 1 <= Len(s) PROVE y \in Screens /\ y.col <= Len(y.line)
    OBVIOUS
  <2>1. PICK x : x = Shown(SubSeq(s, 1, k)) /\ x \in Screens /\ x.col <= Len(x.line)
    BY <1>0, <1>2
  <2>2. /\ SubSeq(s, 1, k) \in Seq(Bytes) /\ s[k + 1] \in Bytes
        /\ SubSeq(s, 1, k + 1) = Append(SubSeq(s, 1, k), s[k + 1])
    BY <1>0, PrefixNext
  <2>3. y = Show(s[k + 1], x)
    BY <2>1, <2>2, ShownAppend
  <2> QED
    BY <2>1, <2>2, <2>3, ShowType
<1> HIDE DEF T
<1>3. Nat \subseteq T
  BY <1>1, <1>2, SetInduction
<1>4. LET x == Shown(SubSeq(s, 1, Len(s))) IN x \in Screens /\ x.col <= Len(x.line)
  BY <1>0, <1>3 DEF T
<1> QED
  BY <1>0, <1>4, PrefixEnds

\* Joining sequences is associative.
LEMMA Associative ==
  ASSUME NEW S, NEW a \in Seq(S), NEW b \in Seq(S), NEW c \in Seq(S)
  PROVE  a \o b \in Seq(S) /\ (a \o b) \o c = a \o (b \o c)
OBVIOUS

\* It does not matter which two of three sequences are joined first.
Joins(a, b, c) == (a \o b) \o c = a \o (b \o c)

LEMMA ChunksJoin ==
  ASSUME NEW a \in Chunks, NEW b \in Chunks, NEW c \in Chunks PROVE Joins(a, b, c)
BY Associative DEF Joins, Chunks

\* A first member may as well be appended to what is before.
Moves(s, b, v) == Append(s, b) \in Chunks /\ s \o (<<b>> \o v) = Append(s, b) \o v

LEMMA ByteMoves ==
  ASSUME NEW s \in Chunks, NEW v \in Chunks, NEW b \in Bytes PROVE Moves(s, b, v)
<1>1. s \in Seq(Bytes) /\ <<b>> \in Seq(Bytes)
  BY DEF Chunks
<1>2. Append(s, b) \in Seq(Bytes) /\ Append(s, b) = s \o <<b>>
  BY <1>1
<1>3. Joins(s, <<b>>, v)
  <2>1. <<b>> \in Chunks
    BY <1>1 DEF Chunks
  <2> QED
    BY <2>1, ChunksJoin, Zenon
<1> QED
  BY <1>2, <1>3, Zenon DEF Moves, Joins, Chunks

\* From two screens that differ in the column at most, what starts a line leads to the same
\* screen.
LEMMA LineStartsAnew ==
  ASSUME NEW s \in Chunks, NEW t \in Chunks, NEW u \in Chunks, StartsLine(u),
         SameLines(Shown(s), Shown(t))
  PROVE  Shown(s \o u) = Shown(t \o u)
<1>0. s \in Seq(Bytes) /\ t \in Seq(Bytes) /\ u \in Seq(Bytes) /\ Len(u) \in Nat /\ u # <<>>
  BY DEF Chunks, StartsLine
<1>1. PICK b \in Bytes, v \in Seq(Bytes) : u = <<b>> \o v /\ b \in {"cr", "nl"}
  <2>1. /\ u[1] \in Bytes /\ Tail(u) \in Seq(Bytes) /\ u = <<u[1]>> \o Tail(u)
    BY <1>0
  <2> QED
    BY <2>1 DEF StartsLine
<1>2. /\ Append(s, b) \in Seq(Bytes) /\ Append(t, b) \in Seq(Bytes)
      /\ s \o u = Append(s, b) \o v /\ t \o u = Append(t, b) \o v
  <2>1. v \in Chunks
    BY DEF Chunks
  <2>2. Moves(s, b, v) /\ Moves(t, b, v)
    BY <2>1, ByteMoves, Zenon
  <2> QED
    BY <1>1, <2>2 DEF Moves, Chunks
<1>3. PICK x \in Screens, y \in Screens :
        /\ x = Shown(s) /\ y = Shown(t) /\ x.col <= Len(x.line) /\ y.col <= Len(y.line)
  BY ShownType
<1>4. x.done = y.done /\ x.line = y.line
  BY <1>3 DEF SameLines
<1>5. ASSUME b = "nl" PROVE Show(b, x) = Show(b, y)
  BY <1>4, <1>5 DEF Show
<1>6. ASSUME b = "cr" PROVE Show(b, x) = Show(b, y)
  <2>1. Show(b, x) = [done |-> x.done, line |-> x.line, col |-> 0]
    BY <1>3, <1>6, ShowType
  <2>2. Show(b, y) = [done |-> y.done, line |-> y.line, col |-> 0]
    BY <1>3, <1>6, ShowType
  <2> QED
    BY <1>4, <2>1, <2>2
<1>7. Show(b, x) = Show(b, y)
  BY <1>1, <1>5, <1>6
<1>8. Shown(Append(s, b)) = Shown(Append(t, b))
  <2>1. Shown(Append(s, b)) = Show(b, x)
    BY <1>0, <1>3, ShownAppend
  <2>2. Shown(Append(t, b)) = Show(b, y)
    BY <1>0, <1>3, ShownAppend
  <2> QED
    BY <1>7, <2>1, <2>2
<1>9. Append(s, b) \in Chunks /\ Append(t, b) \in Chunks /\ v \in Chunks
  BY <1>1, <1>2 DEF Chunks
<1>10. Shown(Append(s, b) \o v) = Shown(Append(t, b) \o v)
  BY <1>8, <1>9, ShownGoesOn
<1> QED
  BY <1>2, <1>10

\* What lies over something that lies over a third lies over it as the two do.
LEMMA OverlayTwice ==
  ASSUME NEW S, NEW p \in Seq(S), NEW q \in Seq(S), NEW old \in Seq(S)
  PROVE  /\ Overlay(p, Overlay(q, old)) = Overlay(Overlay(p, q), old)
         /\ Len(q) <= Len(p) => Overlay(p, q) = p
<1>0. Len(p) \in Nat /\ Len(q) \in Nat /\ Len(old) \in Nat
  OBVIOUS
<1>1. PICK qo \in Seq(S) :
        /\ qo = Overlay(q, old)
        /\ Len(qo) = IF Len(q) <= Len(old) THEN Len(old) ELSE Len(q)
        /\ \A i \in 1..Len(qo) : qo[i] = IF i <= Len(q) THEN q[i] ELSE old[i]
  BY OverlayFacts
<1>2. PICK pq \in Seq(S) :
        /\ pq = Overlay(p, q)
        /\ Len(pq) = IF Len(p) <= Len(q) THEN Len(q) ELSE Len(p)
        /\ \A i \in 1..Len(pq) : pq[i] = IF i <= Len(p) THEN p[i] ELSE q[i]
  BY OverlayFacts
<1>3. PICK a \in Seq(S) :
        /\ a = Overlay(p, qo)
        /\ Len(a) = IF Len(p) <= Len(qo) THEN Len(qo) ELSE Len(p)
        /\ \A i \in 1..Len(a) : a[i] = IF i <= Len(p) THEN p[i] ELSE qo[i]
  BY OverlayFacts
<1>4. PICK b \in Seq(S) :
        /\ b = Overlay(pq, old)
        /\ Len(b) = IF Len(pq) <= Len(old) THEN Len(old) ELSE Len(pq)
        /\ \A i \in 1..Len(b) : b[i] = IF i <= Len(pq) THEN pq[i] ELSE old[i]
  BY OverlayFacts
<1>5. Len(a) = Len(b) /\ Len(a) \in Nat
  BY <1>0, <1>1, <1>2, <1>3, <1>4
<1>6. ASSUME NEW i \in 1..Len(a) PROVE a[i] = b[i]
  <2>0. i \in 1..Len(b) /\ i \in Nat /\ i >= 1
    BY <1>5
  <2>1. CASE i <= Len(p)
    <3>1. i <= Len(pq) /\ i \in 1..Len(pq)
      BY <1>0, <1>2, <2>0, <2>1
    <3>2. b[i] = p[i]
      BY <1>2, <1>4, <2>0, <2>1, <3>1
    <3> QED
      BY <1>3, <2>1, <3>2
  <2>2. CASE ~(i <= Len(p)) /\ i <= Len(q)
    <3>1. i \in 1..Len(pq) /\ i \in 1..Len(qo) /\ i <= Len(pq)
      BY <1>0, <1>1, <1>2, <2>0, <2>2
    <3>2. a[i] = q[i]
      BY <1>1, <1>3, <2>2, <3>1
    <3>3. b[i] = q[i]
      BY <1>2, <1>4, <2>0, <2>2, <3>1
    <3> QED
      BY <3>2, <3>3
  <2>3. CASE ~(i <= Len(p)) /\ ~(i <= Len(q))
    <3>1. i \in 1..Len(qo) /\ ~(i <= Len(pq))
      BY <1>0, <1>1, <1>2, <1>3, <2>0, <2>3
    <3>2. a[i] = old[i]
      BY <1>1, <1>3, <2>3, <3>1
    <3>3. b[i] = old[i]
      BY <1>4, <2>0, <3>1
    <3> QED
      BY <3>2, <3>3
  <2> QED
    BY <2>1, <2>2, <2>3
<1>7. a = b
  BY <1>5, <1>6, SeqEqual
<1>8. ASSUME Len(q) <= Len(p) PROVE pq = p
  <2>1. Len(pq) = Len(p)
    BY <1>0, <1>2, <1>8
  <2>2. \A i \in 1..Len(pq) : pq[i] = p[i]
    BY <1>0, <1>2, <2>1
  <2> QED
    BY <2>1, <2>2, SeqEqual
<1> QED
  BY <1>1, <1>2, <1>3, <1>4, <1>7, <1>8

\* A byte more lies over the next place.
LEMMA OverlayNext ==
  ASSUME NEW S, NEW p \in Seq(S), NEW old \in Seq(S), NEW b \in S
  PROVE  LET l == Overlay(p, old) IN
           Overlay(SubSeq(l, 1, Len(p)) \o <<b>>, l) = Overlay(Append(p, b), old)
<1>0. Len(p) \in Nat /\ Len(old) \in Nat
  OBVIOUS
<1>1. PICK l \in Seq(S) :
        /\ l = Overlay(p, old)
        /\ Len(l) = IF Len(p) <= Len(old) THEN Len(old) ELSE Len(p)
        /\ \A i \in 1..Len(l) : l[i] = IF i <= Len(p) THEN p[i] ELSE old[i]
  BY OverlayFacts
<1>2. PICK f \in Seq(S) :
        f = SubSeq(l, 1, Len(p)) /\ Len(f) = Len(p) /\ \A i \in 1..Len(p) : f[i] = l[i]
  <2>1. Len(p) <= Len(l) /\ SubSeq(l, 1, Len(p)) \in Seq(S)
    BY <1>0, <1>1
  <2> QED
    BY <1>0, <2>1, FrontFacts
<1>3. \A i \in 1..Len(f) : f[i] = p[i]
  <2>1. Len(p) <= Len(l)
    BY <1>0, <1>1
  <2> QED
    BY <1>0, <1>1, <1>2, <2>1
<1>4. f = p
  BY <1>2, <1>3, SeqEqual
<1>5. PICK e \in Seq(S) : e = Append(p, b) /\ e = p \o <<b>> /\ Len(e) = Len(p) + 1
  <2>1. Append(p, b) \in Seq(S) /\ Append(p, b) = p \o <<b>> /\ Len(Append(p, b)) = Len(p) + 1
    OBVIOUS
  <2> QED
    BY <2>1
<1>6. Overlay(e, l) = Overlay(Overlay(e, p), old)
  BY <1>1, OverlayTwice
<1>7. Overlay(e, p) = e
  <2>1. Len(p) <= Len(e)
    BY <1>0, <1>5
  <2> QED
    BY <2>1, OverlayTwice
<1> QED
  BY <1>1, <1>2, <1>4, <1>5, <1>6, <1>7

\* No byte of it moves the cursor but forwards.
Plain(y) == \A i \in 1..Len(y) : y[i] \notin {"cr", "nl"}

\* What follows a carriage return lies over the line.
LEMMA LineOverwritten ==
  ASSUME NEW s \in Chunks, NEW y \in Chunks, Plain(y), "cr" \in Bytes
  PROVE  Shown(Append(s, "cr") \o y) =
           [done |-> Shown(s).done, line |-> Overlay(y, Shown(s).line), col |-> Len(y)]
<1>1. PICK x \in Screens : x = Shown(s) /\ x.col <= Len(x.line)
  BY ShownType
<1>2. x.line \in Seq(Bytes) /\ x.done \in Seq(Chunks)
  BY DEF Screens, Chunks
<1>0. s \in Seq(Bytes) /\ y \in Seq(Bytes) /\ Len(y) \in Nat
  BY DEF Chunks
<1>3. PICK t \in Seq(Bytes) : t = Append(s, "cr")
  BY <1>0, AppendFacts
<1>4. Shown(t) = [done |-> x.done, line |-> x.line, col |-> 0]
  <2>1. Shown(t) = Show("cr", x)
    BY <1>0, <1>1, <1>3, ShownAppend
  <2> QED
    BY <1>1, <2>1, ShowType
<1> DEFINE After(k) == [done |-> x.done, line |-> Overlay(SubSeq(y, 1, k), x.line), col |-> k]
           T == {k \in Nat : k <= Len(y) => Shown(t \o SubSeq(y, 1, k)) = After(k)}
<1>5. 0 \in T
  <2>1. SubSeq(y, 1, 0) = <<>> /\ t \o <<>> = t
    BY <1>0, PrefixEnds
  <2>2. Overlay(<<>>, x.line) = x.line
    <3>1. Overlay(<<>>, x.line) = <<>> \o SubSeq(x.line, 1, Len(x.line))
      BY DEF Overlay
    <3>2. SubSeq(x.line, 1, Len(x.line)) = x.line
      BY <1>2, PrefixEnds
    <3> QED
      BY <1>2, <3>1, <3>2
  <2> QED
    BY <1>4, <2>1, <2>2
<1>6. ASSUME NEW k \in Nat, k \in T PROVE k + 1 \in T
  <2> SUFFICES ASSUME k + 1 <= Len(y) PROVE Shown(t \o SubSeq(y, 1, k + 1)) = After(k + 1)
    OBVIOUS
  <2>1. Shown(t \o SubSeq(y, 1, k)) = After(k)
    BY <1>0, <1>6
  <2>2. PICK p \in Seq(Bytes), b \in Bytes :
          /\ p = SubSeq(y, 1, k) /\ b = y[k + 1] /\ Len(p) = k
          /\ SubSeq(y, 1, k + 1) = Append(p, b)
          /\ t \o SubSeq(y, 1, k + 1) = Append(t \o p, b)
    <3>1. /\ SubSeq(y, 1, k) \in Seq(Bytes) /\ y[k + 1] \in Bytes
          /\ SubSeq(y, 1, k + 1) = Append(SubSeq(y, 1, k), y[k + 1])
          /\ t \o SubSeq(y, 1, k + 1) = Append(t \o SubSeq(y, 1, k), y[k + 1])
      BY <1>0, PrefixNext
    <3>2. Len(SubSeq(y, 1, k)) = k
      BY <1>0, FrontFacts
    <3> QED
      BY <3>1, <3>2
  <2>3. b \notin {"cr", "nl"}
    BY <1>0, <2>2 DEF Plain
  <2>4. PICK l : l = Overlay(p, x.line)
    OBVIOUS
  <2>5. t \o p \in Seq(Bytes)
    OBVIOUS
  <2>6. Shown(Append(t \o p, b)) = Show(b, Shown(t \o p))
    BY <2>5, ShownAppend
  <2>7. Shown(t \o p) = [done |-> x.done, line |-> l, col |-> k]
    BY <2>1, <2>2, <2>4
  <2>8. Show(b, [done |-> x.done, line |-> l, col |-> k]) =
          [done |-> x.done, line |-> Overlay(SubSeq(l, 1, k) \o <<b>>, l), col |-> k + 1]
    BY <2>3 DEF Show
  <2>9. Overlay(SubSeq(l, 1, k) \o <<b>>, l) = Overlay(Append(p, b), x.line)
    <3>1. PICK old \in Seq(Bytes) : old = x.line
      BY <1>2
    <3>2. LET m == Overlay(p, old) IN
            Overlay(SubSeq(m, 1, Len(p)) \o <<b>>, m) = Overlay(Append(p, b), old)
      BY OverlayNext
    <3> QED
      BY <2>2, <2>4, <3>1, <3>2
  <2> QED
    BY <2>2, <2>6, <2>7, <2>8, <2>9
<1> HIDE DEF T
<1>7. Nat \subseteq T
  BY <1>5, <1>6, SetInduction
<1>8. Shown(t \o SubSeq(y, 1, Len(y))) = After(Len(y))
  BY <1>0, <1>7 DEF T
<1> QED
  BY <1>0, <1>1, <1>3, <1>8, PrefixEnds

\* A carriage return that is alone or not followed by the end of the line.
LEMMA RewritesFacts ==
  ASSUME NEW p \in Chunks, RewritesLine(p)
  PROVE  "cr" \in Bytes /\ \E y \in Chunks : Plain(y) /\ p = <<"cr">> \o y /\ Len(y) = Len(p) - 1
<1>1. p \in Seq(Bytes) /\ p # <<>> /\ p[1] = "cr" /\ Len(p) \in Nat /\ Len(p) >= 1
  BY DEF RewritesLine, Chunks
<1>2. "cr" \in Bytes
  BY <1>1
<1>3. PICK y \in Seq(Bytes) :
        /\ p = <<"cr">> \o y /\ Len(y) = Len(p) - 1
        /\ \A i \in 1..Len(y) : y[i] = p[i + 1]
  <2>1. /\ Tail(p) \in Seq(Bytes) /\ p = <<p[1]>> \o Tail(p) /\ Len(Tail(p)) = Len(p) - 1
        /\ \A i \in 1..(Len(p) - 1) : Tail(p)[i] = p[i + 1]
    BY <1>1
  <2> QED
    BY <1>1, <2>1
<1>4. \A i \in 1..Len(y) : i + 1 \in 2..Len(p)
  BY <1>1, <1>3
<1>5. Plain(y)
  BY <1>3, <1>4 DEF RewritesLine, Plain
<1>6. y \in Chunks
  BY DEF Chunks
<1> QED
  BY <1>2, <1>3, <1>5, <1>6

\* A carriage return and a line make a chunk that rewrites a line.
LEMMA RewritingPlain ==
  ASSUME NEW y \in Chunks, Plain(y), "cr" \in Bytes
  PROVE  <<"cr">> \o y \in Chunks /\ RewritesLine(<<"cr">> \o y)
<1>1. y \in Seq(Bytes) /\ <<"cr">> \in Seq(Bytes) /\ Len(y) \in Nat
  BY DEF Chunks
<1>2. PICK p \in Seq(Bytes) :
        /\ p = <<"cr">> \o y /\ Len(p) = Len(y) + 1 /\ p[1] = "cr"
        /\ \A i \in 2..Len(p) : p[i] = y[i - 1]
  <2>1. <<"cr">> \o y \in Seq(Bytes) /\ Len(<<"cr">> \o y) = Len(y) + 1
    BY <1>1
  <2>2. (<<"cr">> \o y)[1] = "cr" /\ \A i \in 2..(Len(y) + 1) : (<<"cr">> \o y)[i] = y[i - 1]
    BY <1>1
  <2> QED
    BY <2>1, <2>2
<1>3. p # <<>>
  BY <1>1, <1>2
<1>4. \A i \in 2..Len(p) : i - 1 \in 1..Len(y)
  BY <1>1, <1>2
<1>5. RewritesLine(p)
  BY <1>2, <1>3, <1>4 DEF Plain, RewritesLine
<1> QED
  BY <1>2, <1>5 DEF Chunks

\* A line that lies over another is a line.
LEMMA PlainOverlay ==
  ASSUME NEW y \in Chunks, NEW z \in Chunks, Plain(y), Plain(z)
  PROVE  Overlay(y, z) \in Chunks /\ Plain(Overlay(y, z))
<1>1. y \in Seq(Bytes) /\ z \in Seq(Bytes) /\ Len(y) \in Nat /\ Len(z) \in Nat
  BY DEF Chunks
<1>2. PICK o \in Seq(Bytes) :
        /\ o = Overlay(y, z) /\ Len(o) = IF Len(y) <= Len(z) THEN Len(z) ELSE Len(y)
        /\ \A i \in 1..Len(o) : o[i] = IF i <= Len(y) THEN y[i] ELSE z[i]
  BY <1>1, OverlayFacts
<1>3. \A i \in 1..Len(o) : IF i <= Len(y) THEN i \in 1..Len(y) ELSE i \in 1..Len(z)
  BY <1>1, <1>2
<1> QED
  BY <1>2, <1>3 DEF Plain, Chunks

\* A rewritten chunk shows the line that the two chunks show one after the other.
LEMMA RewrittenShown ==
  ASSUME NEW s \in Chunks, NEW p \in Chunks, NEW q \in Chunks, RewritesLine(p), RewritesLine(q)
  PROVE  /\ RewritesLine(Rewritten(p, q))
         /\ SameLines(Shown(s \o Rewritten(p, q)), Shown((s \o q) \o p))
<1>1. PICK x \in Chunks : Plain(x) /\ p = <<"cr">> \o x /\ Len(x) = Len(p) - 1
  BY RewritesFacts
<1>2. "cr" \in Bytes
  BY RewritesFacts
<1>3. PICK y \in Chunks : Plain(y) /\ q = <<"cr">> \o y /\ Len(y) = Len(q) - 1
  BY RewritesFacts
<1>4. /\ s \in Seq(Bytes) /\ p \in Seq(Bytes) /\ q \in Seq(Bytes) /\ x \in Seq(Bytes)
      /\ y \in Seq(Bytes) /\ Len(p) \in Nat /\ Len(q) \in Nat /\ Len(x) \in Nat /\ Len(y) \in Nat
      /\ Len(p) = Len(x) + 1 /\ Len(q) = Len(y) + 1
  BY <1>1, <1>3 DEF Chunks
<1>5. PICK o \in Chunks : o = Overlay(x, y) /\ Plain(o)
  BY <1>1, <1>3, PlainOverlay
<1>6. Rewritten(p, q) = <<"cr">> \o o
  <2>1. Len(<<"cr">>) = 1 /\ <<"cr">> \in Seq(Bytes)
    BY <1>2
  <2>2. CASE Len(p) <= Len(q)
    <3>1. Rewritten(p, q) = (<<"cr">> \o x) \o SubSeq(q, Len(p) + 1, Len(q))
      BY <1>1, <2>2 DEF Rewritten, Overlay
    <3>2. SubSeq(q, Len(p) + 1, Len(q)) = SubSeq(y, Len(x) + 1, Len(y))
      <4>1. /\ SubSeq(q, Len(p) + 1, Len(q)) \in Seq(Bytes)
            /\ Len(SubSeq(q, Len(p) + 1, Len(q))) = Len(q) - Len(p)
            /\ \A i \in 1..(Len(q) - Len(p)) : SubSeq(q, Len(p) + 1, Len(q))[i] = q[Len(p) + i]
        BY <1>4, <2>2
      <4>2. /\ SubSeq(y, Len(x) + 1, Len(y)) \in Seq(Bytes)
            /\ Len(SubSeq(y, Len(x) + 1, Len(y))) = Len(y) - Len(x)
            /\ \A i \in 1..(Len(y) - Len(x)) : SubSeq(y, Len(x) + 1, Len(y))[i] = y[Len(x) + i]
        BY <1>4, <2>2
      <4>3. \A i \in 1..(Len(q) - Len(p)) : q[Len(p) + i] = y[Len(x) + i]
        <5> SUFFICES ASSUME NEW i \in 1..(Len(q) - Len(p)) PROVE q[Len(p) + i] = y[Len(x) + i]
          OBVIOUS
        <5>1. /\ Len(p) + i \in 2..(Len(y) + 1) /\ (Len(p) + i) - 1 = Len(x) + i
          BY <1>4
        <5>2. \A j \in 2..(Len(y) + 1) : (<<"cr">> \o y)[j] = y[j - 1]
          BY <1>4, <2>1
        <5> QED
          BY <1>3, <5>1, <5>2
      <4>4. Len(q) - Len(p) = Len(y) - Len(x)
        BY <1>4
      <4> QED
        BY <4>1, <4>2, <4>3, <4>4, SeqEqual
    <3>3. SubSeq(y, Len(x) + 1, Len(y)) \in Seq(Bytes)
      BY <1>4, <2>2
    <3>4. PICK r \in Seq(Bytes) : r = SubSeq(y, Len(x) + 1, Len(y))
      BY <3>3
    <3>5. Joins(<<"cr">>, x, r)
      <4>1. r \in Chunks /\ <<"cr">> \in Chunks
        BY <2>1 DEF Chunks
      <4> QED
        BY <4>1, ChunksJoin, Zenon
    <3> QED
      BY <1>5, <3>1, <3>2, <3>4, <3>5 DEF Joins, Overlay
  <2>3. CASE ~(Len(p) <= Len(q))
    <3>1. Rewritten(p, q) = p
      BY <2>3 DEF Rewritten
    <3>2. Len(y) <= Len(x)
      BY <1>4, <2>3
    <3>3. o = x
      BY <1>4, <1>5, <3>2, OverlayTwice
    <3> QED
      BY <1>1, <3>1, <3>3
  <2> QED
    BY <2>2, <2>3
<1>7. PICK u \in Chunks : u = s \o q
  <2>1. s \o q \in Seq(Bytes)
    BY <1>4, Associative
  <2> QED
    BY <2>1 DEF Chunks
<1>8. s \o q = Append(s, "cr") \o y /\ u \o p = Append(u, "cr") \o x
      /\ s \o Rewritten(p, q) = Append(s, "cr") \o o
  <2>1. Moves(s, "cr", y) /\ Moves(u, "cr", x) /\ Moves(s, "cr", o)
    BY <1>2, ByteMoves, Zenon
  <2> QED
    BY <1>1, <1>3, <1>6, <2>1 DEF Moves
<1>9. PICK z \in Screens : z = Shown(s)
  BY ShownType
<1>10. Shown(u) = [done |-> z.done, line |-> Overlay(y, z.line), col |-> Len(y)]
  <2>1. Shown(Append(s, "cr") \o y)
          = [done |-> Shown(s).done, line |-> Overlay(y, Shown(s).line), col |-> Len(y)]
    BY <1>2, <1>3, LineOverwritten
  <2> QED
    BY <1>7, <1>8, <1>9, <2>1
<1>11. Shown(u \o p) = [done |-> Shown(u).done, line |-> Overlay(x, Shown(u).line), col |-> Len(x)]
  <2>1. Shown(Append(u, "cr") \o x)
          = [done |-> Shown(u).done, line |-> Overlay(x, Shown(u).line), col |-> Len(x)]
    BY <1>1, <1>2, LineOverwritten
  <2> QED
    BY <1>8, <2>1
<1>12. Shown(s \o Rewritten(p, q))
         = [done |-> z.done, line |-> Overlay(o, z.line), col |-> Len(o)]
  <2>1. Shown(Append(s, "cr") \o o)
          = [done |-> Shown(s).done, line |-> Overlay(o, Shown(s).line), col |-> Len(o)]
    BY <1>2, <1>5, LineOverwritten
  <2> QED
    BY <1>8, <1>9, <2>1
<1>13. Overlay(x, Overlay(y, z.line)) = Overlay(o, z.line)
  <2>1. z.line \in Seq(Bytes)
    BY DEF Screens, Chunks
  <2> QED
    BY <1>4, <1>5, <2>1, OverlayTwice
<1>14. SameLines(Shown(s \o Rewritten(p, q)), Shown(u \o p))
  BY <1>10, <1>11, <1>12, <1>13 DEF SameLines
<1>15. RewritesLine(<<"cr">> \o o)
  BY <1>2, <1>5, RewritingPlain
<1> QED
  BY <1>6, <1>7, <1>14, <1>15

-----------------------------------------------------------------------------
(* The screen: a chunk on its way. *)

\* An indented line after a carriage return stays one in a longer output.
LEMMA IndentKept ==
  ASSUME NEW p \in Chunks, NEW q \in Chunks, IndentIn(p) \/ IndentIn(q)
  PROVE  IndentIn(p \o q)
<1>1. p \in Seq(Bytes) /\ q \in Seq(Bytes) /\ Len(p) \in Nat /\ Len(q) \in Nat
  BY DEF Chunks
<1>2. PICK r \in Seq(Bytes) :
        /\ r = p \o q /\ Len(r) = Len(p) + Len(q)
        /\ \A i \in 1..Len(p) : r[i] = p[i]
        /\ \A i \in 1..Len(q) : r[Len(p) + i] = q[i]
  <2>1. p \o q \in Seq(Bytes) /\ Len(p \o q) = Len(p) + Len(q)
    BY <1>1
  <2>2. \A i \in 1..Len(p) : (p \o q)[i] = p[i]
    BY <1>1
  <2>3. \A i \in 1..Len(q) : (p \o q)[Len(p) + i] = q[i]
    BY <1>1
  <2> QED
    BY <2>1, <2>2, <2>3
<1>3. CASE IndentIn(p)
  <2>1. PICK i \in 1..Len(p), k \in 1..Len(p) :
          i < k /\ p[i] = "cr" /\ p[k] = "nl" /\ k + 1 <= Len(p) /\ p[k + 1] = "sp"
    BY <1>3 DEF IndentIn, IsIndent
  <2>2. /\ i \in 1..Len(r) /\ k \in 1..Len(r) /\ k + 1 \in 1..Len(p) /\ k + 1 <= Len(r)
    BY <1>1, <1>2, <2>1
  <2>3. r[i] = "cr" /\ r[k] = "nl" /\ r[k + 1] = "sp"
    BY <1>2, <2>1, <2>2
  <2>4. IndentIn(r)
    BY <2>1, <2>2, <2>3 DEF IndentIn, IsIndent
  <2> QED
    BY <1>2, <2>4
<1>4. CASE IndentIn(q)
  <2>1. PICK i \in 1..Len(q), k \in 1..Len(q) :
          i < k /\ q[i] = "cr" /\ q[k] = "nl" /\ k + 1 <= Len(q) /\ q[k + 1] = "sp"
    BY <1>4 DEF IndentIn, IsIndent
  <2> DEFINE a == Len(p) + i
             b == Len(p) + k
  <2>2. /\ a \in 1..Len(r) /\ b \in 1..Len(r) /\ a < b /\ b + 1 <= Len(r)
        /\ b + 1 = Len(p) + (k + 1) /\ k + 1 \in 1..Len(q)
    BY <1>1, <1>2, <2>1
  <2>3. r[a] = "cr" /\ r[b] = "nl" /\ r[b + 1] = "sp"
    BY <1>2, <2>1, <2>2
  <2>4. IndentIn(r)
    BY <2>2, <2>3 DEF IndentIn, IsIndent
  <2> QED
    BY <1>2, <2>4
<1> QED
  BY <1>3, <1>4

\* A chunk that starts with a carriage return has no line end but before an indented line.
LEMMA CutRewrites ==
  ASSUME NEW q \in Chunks, NEW k \in Nat, k <= Len(q), k = Len(q) \/ q[k + 1] \in {"cr", "nl"},
         \A i \in 1..k : i \notin Boundaries(q), CrPfx(SubSeq(q, 1, k)),
         ~ IndentIn(SubSeq(q, 1, k))
  PROVE  RewritesLine(SubSeq(q, 1, k))
<1>0. q \in Seq(Bytes) /\ Len(q) \in Nat
  BY DEF Chunks
<1>1. PICK c \in Seq(Bytes) :
        c = SubSeq(q, 1, k) /\ Len(c) = k /\ \A i \in 1..k : c[i] = q[i]
  <2>1. SubSeq(q, 1, k) \in Seq(Bytes)
    BY <1>0
  <2> QED
    BY <1>0, <2>1, FrontFacts
<1>2. k >= 1 /\ c[1] = "cr" /\ (k = 1 \/ c[2] # "nl")
  BY <1>1 DEF CrPfx
<1>3. ASSUME NEW i \in 2..k, c[i] \in {"cr", "nl"} PROVE FALSE
  <2>1. i \in 1..k /\ i \in 1..Len(q) /\ i > 1 /\ q[i] = c[i]
    BY <1>0, <1>1
  <2>2. ~ IsBoundary(q, i)
    BY <2>1 DEF Boundaries
  <2>3. c[i] = "nl" /\ i > 2
    <3>1. c[i] # "cr"
      BY <2>1, <2>2 DEF IsBoundary
    <3>2. i # 2
      BY <1>2, <1>3, <3>1
    <3> QED
      BY <1>3, <2>1, <3>1, <3>2
  <2>4. i + 1 <= Len(q) /\ q[i + 1] = "sp"
    BY <2>1, <2>2, <2>3 DEF IsBoundary, IsIndent
  <2>5. i + 1 <= k
    <3>1. i # k \/ k = Len(q)
      BY <2>4
    <3> QED
      BY <1>0, <2>4, <3>1
  <2>6. c[i + 1] = "sp" /\ 1 \in 1..Len(c) /\ i \in 1..Len(c) /\ 1 < i
    BY <1>1, <1>2, <2>1, <2>4, <2>5
  <2>7. IndentIn(c)
    BY <1>1, <1>2, <2>3, <2>5, <2>6 DEF IndentIn, IsIndent
  <2> QED
    BY <1>1, <2>7
<1>4. c # <<>>
  BY <1>1, <1>2
<1>5. RewritesLine(c)
  BY <1>1, <1>2, <1>3, <1>4 DEF RewritesLine
<1> QED
  BY <1>1, <1>5

\* A chunk more comes at the end of all that is sent and gathered.
ComesLast(pre, f, q) == pre \o Concat(Append(f, q)) = (pre \o Concat(f)) \o q

LEMMA JoinAppend ==
  ASSUME NEW pre \in Chunks, NEW f \in Seq(Chunks), NEW q \in Chunks PROVE ComesLast(pre, f, q)
<1>1. PICK g \in Chunks : g = Concat(f)
  BY ConcatType DEF Chunks
<1>2. Concat(Append(f, q)) = g \o q
  BY <1>1, ConcatAppend DEF Chunks
<1>3. Joins(pre, g, q)
  BY ChunksJoin, Zenon
<1> QED
  BY <1>1, <1>2, <1>3 DEF Joins, ComesLast

\* The chunk gathered last, which Write replaces.
EndsWith(f, l) ==
  /\ l = buf[Len(buf)] /\ buf = Append(f, l)
  /\ \A q \in Chunks : [buf EXCEPT ![Len(buf)] = q] = Append(f, q)

LEMMA LastChunk ==
  ASSUME buf \in Seq(Chunks), buf # <<>> PROVE \E f \in Seq(Chunks), l \in Chunks : EndsWith(f, l)
BY LastReplaced DEF EndsWith

\* What has been sent and gathered shows what was printed, b, and the chunk p goes on from it.
GoesOn(pre, b, p) ==
  /\ SameLines(Shown(pre \o Concat(buf)), Shown(b))
  /\ cr /\ buf # <<>> => RewritesLine(buf[Len(buf)])
  /\ CrPfx(p) => RewritesLine(p)
  /\ p = <<>> \/ StartsLine(p) \/ (pre \o Concat(buf) = <<>> /\ b = <<>>)

\* A chunk that Write gathers shows what it shows when it is printed.
LEMMA GatheredShown ==
  ASSUME buf \in Seq(Chunks), cr \in BOOLEAN,
         NEW pre \in Chunks, NEW b \in Chunks, NEW p \in Chunks, GoesOn(pre, b, p)
  PROVE  /\ SameLines(Shown(pre \o Concat(Gathered(p))), Shown(b \o p))
         /\ CrPfx(p) => RewritesLine(Gathered(p)[Len(Gathered(p))])
<1>0. /\ pre \in Seq(Bytes) /\ b \in Seq(Bytes) /\ p \in Seq(Bytes) /\ Concat(buf) \in Seq(Bytes)
      /\ buf \in Seq(Seq(Bytes))
  BY ConcatType DEF Chunks
<1>1. PICK o \in Seq(Bytes) : o = pre \o Concat(buf)
  BY <1>0, Associative
<1>2. SameLines(Shown(o \o p), Shown(b \o p))
  <2>1. CASE p = <<>>
    <3>1. o \o <<>> = o /\ b \o <<>> = b
      BY <1>0
    <3> QED
      BY <1>1, <2>1, <3>1 DEF GoesOn
  <2>2. CASE StartsLine(p)
    <3>1. o \in Chunks /\ SameLines(Shown(o), Shown(b))
      BY <1>1 DEF Chunks, GoesOn
    <3>2. Shown(o \o p) = Shown(b \o p)
      BY <2>2, <3>1, LineStartsAnew
    <3> QED
      BY <3>2 DEF SameLines
  <2>3. CASE o = <<>> /\ b = <<>>
    BY <2>3 DEF SameLines
  <2> QED
    BY <1>1, <2>1, <2>2, <2>3 DEF GoesOn
<1>3. CASE buf = <<>> \/ CrPfx(p) # cr
  <2>1. Gathered(p) = Append(buf, p)
    BY <1>3 DEF Gathered
  <2>2. pre \o Concat(Append(buf, p)) = o \o p
    <3>1. ComesLast(pre, buf, p)
      BY JoinAppend, Zenon
    <3> QED
      BY <1>1, <3>1 DEF ComesLast
  <2>3. Append(buf, p)[Len(Append(buf, p))] = p
    BY AppendFacts
  <2> QED
    BY <1>2, <2>1, <2>2, <2>3 DEF GoesOn
<1>4. CASE ~(buf = <<>> \/ CrPfx(p) # cr)
  <2>1. PICK f \in Seq(Chunks), l \in Chunks :
          /\ l = buf[Len(buf)] /\ buf = Append(f, l)
          /\ \A q \in Chunks : [buf EXCEPT ![Len(buf)] = q] = Append(f, q)
    <3>1. \E f \in Seq(Chunks), l \in Chunks : EndsWith(f, l)
      BY <1>4, LastChunk, Zenon
    <3> QED
      BY <3>1, Zenon DEF EndsWith
  <2>2. PICK s \in Chunks : s = pre \o Concat(f)
    <3>1. Concat(f) \in Seq(Bytes) /\ pre \o Concat(f) \in Seq(Bytes)
      <4>1. Concat(f) \in Seq(Bytes)
        BY ConcatType DEF Chunks
      <4> QED
        BY <1>0, <4>1
    <3> QED
      BY <3>1 DEF Chunks
  <2>3. ASSUME NEW q \in Chunks PROVE pre \o Concat(Append(f, q)) = s \o q
    <3>1. ComesLast(pre, f, q)
      BY JoinAppend, Zenon
    <3> QED
      BY <2>2, <3>1 DEF ComesLast
  <2>4. o = s \o l
    BY <1>1, <2>1, <2>3
  <2>5. CASE CrPfx(p)
    <3>1. RewritesLine(p) /\ RewritesLine(l)
      BY <1>4, <2>1, <2>5 DEF GoesOn
    <3>2. PICK r \in Chunks : r = Rewritten(p, l)
      BY RewrittenFacts
    <3>3. Gathered(p) = Append(f, r)
      <4>1. Gathered(p) = [buf EXCEPT ![Len(buf)] = Rewritten(p, l)]
        BY <1>4, <2>1, <2>5 DEF Gathered
      <4> QED
        BY <2>1, <3>2, <4>1
    <3>4. RewritesLine(r) /\ SameLines(Shown(s \o r), Shown((s \o l) \o p))
      BY <3>1, <3>2, RewrittenShown
    <3>5. SameLines(Shown(s \o r), Shown(b \o p))
      BY <1>2, <2>4, <3>4 DEF SameLines
    <3>6. Append(f, r)[Len(Append(f, r))] = r
      BY AppendFacts
    <3> QED
      BY <2>3, <3>3, <3>4, <3>5, <3>6
  <2>6. CASE ~CrPfx(p)
    <3>1. PICK r \in Chunks : r = l \o p
      <4>1. l \o p \in Chunks
        BY DEF Chunks
      <4> QED
        BY <4>1
    <3>2. Gathered(p) = Append(f, r)
      <4>1. Gathered(p) = [buf EXCEPT ![Len(buf)] = l \o p]
        BY <1>4, <2>1, <2>6 DEF Gathered
      <4> QED
        BY <2>1, <3>1, <4>1
    <3>3. s \o r = o \o p
      <4>1. Joins(s, l, p)
        BY ChunksJoin, Zenon
      <4> QED
        BY <2>4, <3>1, <4>1 DEF Joins
    <3> QED
      BY <1>2, <2>3, <2>6, <3>2, <3>3
  <2> QED
    BY <2>5, <2>6
<1> QED
  BY <1>3, <1>4

-----------------------------------------------------------------------------
(* The screen: the invariant. *)

IntactInv == StreamInv /\ SinkInv /\ ScreenInv

\* What is before the end of a sequence.
LEMMA FrontOf ==
  ASSUME NEW b \in Chunks, NEW q \in Chunks
  PROVE  SubSeq(b \o q, 1, Len(b \o q) - Len(q)) = b /\ Len(q) <= Len(b \o q)
<1>1. b \in Seq(Bytes) /\ q \in Seq(Bytes) /\ Len(b) \in Nat /\ Len(q) \in Nat
  BY DEF Chunks
<1>2. PICK r \in Seq(Bytes) :
        r = b \o q /\ Len(r) = Len(b) + Len(q) /\ \A i \in 1..Len(b) : r[i] = b[i]
  <2>1. b \o q \in Seq(Bytes) /\ Len(b \o q) = Len(b) + Len(q)
    BY <1>1
  <2>2. \A i \in 1..Len(b) : (b \o q)[i] = b[i]
    BY <1>1
  <2> QED
    BY <2>1, <2>2
<1>3. Len(r) - Len(q) = Len(b) /\ Len(b) <= Len(r) /\ Len(q) <= Len(r)
  BY <1>1, <1>2
<1>4. PICK f \in Seq(Bytes) :
        f = SubSeq(r, 1, Len(b)) /\ Len(f) = Len(b) /\ \A i \in 1..Len(b) : f[i] = r[i]
  <2>1. SubSeq(r, 1, Len(b)) \in Seq(Bytes)
    BY <1>1, <1>3
  <2> QED
    BY <1>1, <1>3, <2>1, FrontFacts
<1>5. f = b
  BY <1>1, <1>2, <1>4, SeqEqual
<1> QED
  BY <1>2, <1>3, <1>4, <1>5

\* The output is made of bytes.
LEMMA OutType ==
  ASSUME StreamTypes
  PROVE  /\ Concat(buf) \in Chunks /\ sent \o Concat(buf) \in Chunks /\ Out \in Chunks
         /\ exec # "answered" => Out = sent \o Concat(buf)
         /\ exec = "answered" => Out = sent
<1>1. Concat(buf) \in Seq(Bytes) /\ sent \in Seq(Bytes)
  BY ConcatType DEF StreamTypes, Chunks
<1>2. sent \o Concat(buf) \in Seq(Bytes) /\ sent \o <<>> = sent
  BY <1>1
<1> QED
  BY <1>1, <1>2 DEF Out, Chunks

\* What is printed before the pending bytes is made of bytes.
LEMMA BeforeType == ASSUME SinkInv, StreamTypes PROVE Before \in Chunks /\ pending \in Chunks
<1>1. /\ printed \in Seq(Bytes) /\ pending \in Seq(Bytes) /\ Len(pending) <= Len(printed)
      /\ Len(printed) \in Nat /\ Len(pending) \in Nat
  BY DEF SinkInv, StreamTypes, Chunks
<1>2. Len(printed) - Len(pending) \in Nat /\ Len(printed) - Len(pending) <= Len(printed)
  BY <1>1
<1>3. SubSeq(printed, 1, Len(printed) - Len(pending)) \in Seq(Bytes)
  BY <1>1, <1>2
<1> QED
  BY <1>1, <1>3 DEF Before, Chunks

\* What is printed and pending after a step that has b before what is pending.
LEMMA SinkFrom ==
  ASSUME NEW b \in Chunks, pending' \in Chunks, printed' = b \o pending',
         exec' = "closing" => Boundaries(pending') = {},
         exec' \notin {"running", "closing"} => pending' = <<>>
  PROVE  SinkInv' /\ Before' = b
<1>1. PICK q \in Chunks : q = pending'
  OBVIOUS
<1>2. PICK r \in Seq(Bytes) : r = printed' /\ r = b \o q
  <2>1. b \o q \in Seq(Bytes)
    BY DEF Chunks
  <2> QED
    BY <1>1, <2>1
<1>3. SubSeq(r, 1, Len(r) - Len(q)) = b /\ Len(q) <= Len(r)
  BY <1>2, FrontOf
<1>4. Before' = b
  BY <1>1, <1>2, <1>3 DEF Before
<1> QED
  BY <1>1, <1>2, <1>3, <1>4 DEF SinkInv

\* Write has gathered a chunk, and sent it or not.
LEMMA WriteSends ==
  ASSUME StreamInv, NEW chunk \in Chunks, StreamWrite(chunk)
  PROVE  /\ sent' \o Concat(buf') = sent \o Concat(Gathered(Filtered(chunk)))
         /\ cr' /\ buf' # <<>> => /\ buf' = Gathered(Filtered(chunk))
                                  /\ CrPfx(Filtered(chunk))
<1>1. PICK p \in Chunks : p = Filtered(chunk)
  BY FilteredType
<1>2. PICK g \in Seq(Chunks) : g = Gathered(p) /\ g # <<>>
  BY GatheredFacts DEF StreamInv, StreamTypes, GatheredBounded
<1>3. PICK a : /\ IF Counted(p) >= FlushSize
                  THEN /\ Flush(FALSE, g, a)
                       /\ cr' = IF streaming THEN FALSE ELSE CrPfx(p)
                  ELSE /\ buf' = g /\ cr' = CrPfx(p)
                       /\ UNCHANGED <<armed, sentVars>>
  <2> DEFINE a == IF Matched(chunk) THEN 1 ELSE 0
  <2>1. /\ IF Counted(p) >= FlushSize
           THEN /\ Flush(FALSE, g, attrs + a)
                /\ cr' = IF streaming THEN FALSE ELSE CrPfx(p)
           ELSE /\ buf' = g /\ cr' = CrPfx(p)
                /\ UNCHANGED <<armed, sentVars>>
    BY <1>1, <1>2 DEF StreamWrite
  <2> QED
    BY <2>1
<1>4. Concat(g) \in Seq(Bytes) /\ sent \in Seq(Bytes)
  BY ConcatType DEF StreamInv, StreamTypes, Chunks
<1>5. sent \o Concat(g) \in Seq(Bytes)
  BY <1>4
<1>6. CASE Counted(p) >= FlushSize /\ streaming
  <2>1. buf' = <<>> /\ sent' = sent \o Concat(g)
    BY <1>2, <1>3, <1>6 DEF Flush, Kept
  <2>2. sent' \o Concat(buf') = sent \o Concat(g)
    <3>1. Concat(buf') = <<>> /\ sent' \in Seq(Bytes)
      BY <1>5, <2>1, NothingGathered
    <3>2. sent' \o <<>> = sent'
      BY <3>1
    <3> QED
      BY <2>1, <3>1, <3>2
  <2> QED
    BY <1>1, <1>2, <2>1, <2>2
<1>7. CASE ~(Counted(p) >= FlushSize /\ streaming)
  <2>1. buf' = g /\ sent' = sent /\ cr' = CrPfx(p)
    BY <1>3, <1>7 DEF Flush, sentVars
  <2> QED
    BY <1>1, <1>2, <2>1
<1> QED
  BY <1>6, <1>7

\* A flush of what has been gathered moves it from the stream to the client.
LEMMA FlushSends ==
  ASSUME StreamTypes, NEW eof \in BOOLEAN, Flush(eof, buf, attrs),
         cr' = IF streaming THEN FALSE ELSE cr
  PROVE  /\ sent' \o Concat(buf') = sent \o Concat(buf)
         /\ cr' /\ buf' # <<>> => cr /\ buf' = buf
<1>1. Concat(buf) \in Seq(Bytes) /\ sent \in Seq(Bytes)
  BY ConcatType DEF StreamTypes, Chunks
<1>2. sent \o Concat(buf) \in Seq(Bytes)
  BY <1>1
<1>3. CASE streaming
  <2>1. buf' = <<>> /\ (sent' = sent \o Concat(buf) \/ (buf = <<>> /\ sent' = sent))
    BY <1>3 DEF Flush, Kept, sentVars
  <2>2. Concat(buf') = <<>> /\ sent' \in Seq(Bytes)
    BY <1>1, <1>2, <2>1, NothingGathered
  <2>3. sent' \o <<>> = sent'
    BY <2>2
  <2>4. buf = <<>> => sent \o Concat(buf) = sent
    <3>1. sent \o <<>> = sent
      BY <1>1
    <3> QED
      BY <3>1, NothingGathered
  <2>5. sent' \o Concat(buf') = sent \o Concat(buf)
    BY <2>1, <2>2, <2>3, <2>4
  <2> QED
    BY <2>1, <2>5
<1>4. CASE ~streaming
  BY <1>4 DEF Flush, sentVars
<1> QED
  BY <1>3, <1>4

\* A step that neither writes to the stream nor changes what is before the pending bytes.
LEMMA ScreenSame ==
  ASSUME ScreenInv, Out' = Out, Before' = Before,
         cr' /\ buf' # <<>> => cr /\ buf' = buf,
         exec' \in {"running", "closing"} =>
           /\ exec \in {"running", "closing"}
           /\ ~StartsLine(pending') => ~StartsLine(pending)
  PROVE  ScreenInv'
BY DEF ScreenInv

\* Nothing is printed and nothing shown at first.
LEMMA ScreenInit == Init => SinkInv /\ ScreenInv
<1> SUFFICES ASSUME Init PROVE SinkInv /\ ScreenInv
  OBVIOUS
<1>1. /\ printed = <<>> /\ pending = <<>> /\ buf = <<>> /\ sent = <<>> /\ exec = "running"
      /\ cr = FALSE
  BY DEF Init
<1>2. <<>> \in Seq(Bytes) /\ Len(<<>>) = 0 /\ <<>> \o <<>> = <<>> /\ SubSeq(<<>>, 1, 0) = <<>>
  BY PrefixEnds
<1>3. Before = <<>>
  BY <1>1, <1>2 DEF Before
<1>4. Out = <<>>
  BY <1>1, <1>2, NothingGathered DEF Out
<1>5. SinkInv
  BY <1>1, <1>2, <1>3 DEF SinkInv
<1>6. ScreenInv
  BY <1>1, <1>3, <1>4 DEF ScreenInv, SameLines
<1> QED
  BY <1>5, <1>6

\* A write to the sink only makes more pending.
LEMMA SinkWriteScreen == ASSUME IntactInv, SinkWrite PROVE SinkInv' /\ ScreenInv'
<1>1. StreamTypes /\ SinkInv /\ ScreenInv
  BY DEF IntactInv, StreamInv
<1>2. PICK b \in Chunks, q \in Chunks : b = Before /\ q = pending /\ printed = b \o q
  BY <1>1, BeforeType DEF SinkInv
<1>3. PICK p \in Chunks : printed' = printed \o p /\ pending' = pending \o p
  <2>1. PICK k \in 1..MaxWrite : \E p \in [1..k -> Bytes] :
                                   printed' = printed \o p /\ pending' = pending \o p
    BY DEF SinkWrite
  <2>2. PICK p \in [1..k -> Bytes] : printed' = printed \o p /\ pending' = pending \o p
    BY <2>1
  <2>3. p \in Chunks
    <3>1. k \in Nat
      OBVIOUS
    <3> QED
      BY <3>1 DEF Chunks
  <2> QED
    BY <2>2, <2>3
<1>4. /\ exec = "running" /\ exec' = "running" /\ buf' = buf /\ sent' = sent /\ cr' = cr
  BY DEF SinkWrite, streamVars, sentVars
<1>5. PICK r \in Chunks : r = q \o p /\ (q # <<>> => r # <<>> /\ r[1] = q[1])
  <2>1. q \o p \in Chunks /\ (q # <<>> => q \o p # <<>> /\ (q \o p)[1] = q[1])
    BY DEF Chunks
  <2> QED
    BY <2>1
<1>6. pending' = r /\ printed' = b \o r
  <2>1. Joins(b, q, p)
    BY ChunksJoin, Zenon
  <2> QED
    BY <1>2, <1>3, <1>5, <2>1 DEF Joins
<1>7. SinkInv' /\ Before' = b
  <2>1. /\ pending' \in Chunks /\ printed' = b \o pending'
        /\ exec' = "closing" => Boundaries(pending') = {}
        /\ exec' \notin {"running", "closing"} => pending' = <<>>
    BY <1>4, <1>6
  <2> QED
    BY <2>1, SinkFrom
<1>8. Out' = Out
  BY <1>4 DEF Out
<1>9. StartsLine(pending) => StartsLine(pending')
  BY <1>2, <1>5, <1>6 DEF StartsLine
<1> QED
  BY <1>1, <1>2, <1>4, <1>7, <1>8, <1>9, ScreenSame

\* There is no boundary before the first.
LEMMA NextChunkFirst ==
  ASSUME NEW p \in Chunks, Boundaries(p) # {}
  PROVE  \A i \in 1..NextChunk(p) : i \notin Boundaries(p)
<1> DEFINE B == Boundaries(p)
           first == CHOOSE i \in B : \A k \in B : i <= k
<1>1. B \subseteq Nat
  BY DEF Boundaries, Chunks
<1>2. \E i \in B : \A k \in B : i <= k
  BY <1>1, Least
<1>3. first \in B /\ \A k \in B : first <= k
  BY <1>2
<1>4. NextChunk(p) = first - 1
  BY DEF NextChunk
<1> HIDE DEF first
<1>5. \A i \in 1..(first - 1) : i \notin B
  <2> SUFFICES ASSUME NEW i \in 1..(first - 1), i \in B PROVE FALSE
    OBVIOUS
  <2>1. first \in Nat /\ first <= i
    BY <1>1, <1>3
  <2> QED
    BY <2>1
<1> QED
  BY <1>4, <1>5

\* The first k of the pending bytes are written to the stream.
LEMMA WriteScreen ==
  ASSUME IntactInv, NEW k \in Nat, k <= Len(pending),
         k = Len(pending) \/ pending[k + 1] \in {"cr", "nl"},
         \A i \in 1..k : i \notin Boundaries(pending),
         StreamWrite(SubSeq(pending, 1, k)),
         printed' = (Before \o Filtered(SubSeq(pending, 1, k))) \o pending',
         pending' \in Chunks, exec \in {"running", "closing"}, exec' \in {"running", "ending"},
         IF exec' = "running" THEN StartsLine(pending') ELSE pending' = <<>>
  PROVE  SinkInv' /\ ScreenInv'
<1>1. StreamTypes /\ StreamInv /\ SinkInv /\ ScreenInv
  BY DEF IntactInv, StreamInv
<1>2. PICK b \in Chunks, q \in Chunks : b = Before /\ q = pending
  BY <1>1, BeforeType
<1>3. PICK c \in Chunks : /\ c = SubSeq(q, 1, k) /\ Len(c) = k /\ \A i \in 1..k : c[i] = q[i]
  <2>1. q \in Seq(Bytes) /\ k <= Len(q)
    BY <1>2 DEF Chunks
  <2>2. SubSeq(q, 1, k) \in Seq(Bytes)
    BY <2>1
  <2>3. Len(SubSeq(q, 1, k)) = k /\ \A i \in 1..k : SubSeq(q, 1, k)[i] = q[i]
    BY <2>1, FrontFacts
  <2> QED
    BY <2>2, <2>3 DEF Chunks
<1>4. PICK p \in Chunks : p = Filtered(c) /\ (p = c \/ p = <<>>)
  <2>1. Filtered(c) \in Chunks /\ (Filtered(c) = c \/ Filtered(c) = <<>>)
    BY FilteredType DEF Filtered
  <2> QED
    BY <2>1
<1>5. PICK bp \in Chunks : bp = b \o p
  <2>1. b \o p \in Chunks
    BY DEF Chunks
  <2> QED
    BY <2>1
<1>6. SinkInv' /\ Before' = bp
  <2>1. /\ pending' \in Chunks /\ printed' = bp \o pending'
        /\ exec' = "closing" => Boundaries(pending') = {}
        /\ exec' \notin {"running", "closing"} => pending' = <<>>
    BY <1>2, <1>3, <1>4, <1>5
  <2> QED
    BY <2>1, SinkFrom
<1>7. cr' /\ buf' # <<>> => buf' = Gathered(p) /\ CrPfx(p)
  <2>1. StreamWrite(c)
    BY <1>2, <1>3
  <2> QED
    BY <1>1, <1>4, <2>1, WriteSends
<1>8. Out' = sent \o Concat(Gathered(p))
  <2>1. StreamWrite(c)
    BY <1>2, <1>3
  <2>2. sent' \o Concat(buf') = sent \o Concat(Gathered(Filtered(c)))
    BY <1>1, <2>1, WriteSends
  <2>3. Out' = sent' \o Concat(buf')
    BY DEF Out
  <2> QED
    BY <1>4, <2>2, <2>3
<1>9. CrPfx(p) /\ ~IndentIn(p) => RewritesLine(p)
  <2> SUFFICES ASSUME CrPfx(p), ~IndentIn(p) PROVE RewritesLine(p)
    OBVIOUS
  <2>1. p # <<>>
    BY DEF CrPfx
  <2>2. p = c
    BY <1>4, <2>1
  <2>3. /\ k <= Len(q) /\ (k = Len(q) \/ q[k + 1] \in {"cr", "nl"})
        /\ (\A i \in 1..k : i \notin Boundaries(q))
        /\ CrPfx(SubSeq(q, 1, k)) /\ ~ IndentIn(SubSeq(q, 1, k))
    BY <1>2, <1>3, <2>2
  <2>4. RewritesLine(SubSeq(q, 1, k))
    BY <2>3, CutRewrites
  <2> QED
    BY <1>3, <2>2, <2>4
<1>10. p = <<>> \/ StartsLine(p) \/ (sent \o Concat(buf) = <<>> /\ b = <<>>)
  <2>1. CASE StartsLine(q)
    <3>1. CASE k = 0
      <4>1. c = <<>>
        BY <1>3, <3>1 DEF Chunks
      <4> QED
        BY <1>4, <4>1
    <3>2. CASE k # 0
      <4>1. 1 \in 1..k /\ Len(<<>>) = 0
        BY <3>2
      <4>2. c # <<>>
        BY <1>3, <3>2, <4>1
      <4>3. c[1] = q[1]
        BY <1>3, <4>1
      <4> QED
        BY <1>4, <2>1, <4>2, <4>3 DEF StartsLine
    <3> QED
      BY <3>1, <3>2
  <2>2. CASE ~StartsLine(q)
    <3>1. Out = <<>> /\ Before = <<>>
      BY <1>1, <1>2, <2>2 DEF ScreenInv
    <3>2. Out = sent \o Concat(buf)
      BY <1>1, OutType
    <3> QED
      BY <1>2, <3>1, <3>2
  <2> QED
    BY <2>1, <2>2
<1>11. ASSUME ~IndentIn(Before')
       PROVE  /\ SameLines(Shown(Out'), Shown(Before'))
              /\ cr' /\ buf' # <<>> => RewritesLine(buf'[Len(buf')])
  <2>1. ~IndentIn(b) /\ ~IndentIn(p)
    BY <1>5, <1>6, <1>11, IndentKept
  <2>2. /\ SameLines(Shown(sent \o Concat(buf)), Shown(b))
        /\ cr /\ buf # <<>> => RewritesLine(buf[Len(buf)])
    <3>1. Out = sent \o Concat(buf)
      BY <1>1, OutType
    <3> QED
      BY <1>1, <1>2, <2>1, <3>1 DEF ScreenInv
  <2>3. buf \in Seq(Chunks) /\ cr \in BOOLEAN /\ sent \in Chunks
    BY <1>1 DEF StreamTypes
  <2>4. CrPfx(p) => RewritesLine(p)
    BY <1>9, <2>1
  <2>5. /\ SameLines(Shown(sent \o Concat(Gathered(p))), Shown(b \o p))
        /\ CrPfx(p) => RewritesLine(Gathered(p)[Len(Gathered(p))])
    BY <1>10, <2>2, <2>3, <2>4, GatheredShown DEF GoesOn
  <2> QED
    BY <1>5, <1>6, <1>7, <1>8, <2>5
<1>12. ~(exec' \in {"running", "closing"} /\ ~StartsLine(pending'))
  OBVIOUS
<1>13. ScreenInv'
  BY <1>11, <1>12 DEF ScreenInv
<1> QED
  BY <1>6, <1>13

\* The chunk that goes to the stream ends where the next line starts.
LEMMA SinkChunkScreen == ASSUME IntactInv, SinkChunk PROVE SinkInv' /\ ScreenInv'
<1>1. pending \in Chunks /\ Boundaries(pending) # {} /\ exec = "running" /\ exec' = "running"
  BY DEF SinkChunk, Writing, IntactInv, StreamInv, StreamTypes
<1>2. PICK k \in Nat : k = NextChunk(pending) /\ k + 1 \in 1..Len(pending)
                       /\ pending[k + 1] \in {"cr", "nl"}
  BY <1>1, NextChunkFacts
<1>3. /\ StreamWrite(SubSeq(pending, 1, k))
      /\ pending' = SubSeq(pending, k + 1, Len(pending))
      /\ printed' = (Before \o Filtered(SubSeq(pending, 1, k))) \o pending'
  BY <1>2 DEF SinkChunk
<1>4. pending' \in Chunks /\ pending' # <<>> /\ pending'[1] = pending[k + 1]
  BY <1>1, <1>2, <1>3, CutFacts DEF Chunks
<1>5. StartsLine(pending')
  BY <1>2, <1>4 DEF StartsLine
<1>6. \A i \in 1..k : i \notin Boundaries(pending)
  BY <1>1, <1>2, NextChunkFirst
<1>7. k <= Len(pending)
  BY <1>1, <1>2 DEF Chunks
<1> QED
  BY <1>1, <1>2, <1>3, <1>4, <1>5, <1>6, <1>7, WriteScreen

\* What is left goes to the stream as one chunk.
LEMMA SinkCloseScreen == ASSUME IntactInv, SinkClose PROVE SinkInv' /\ ScreenInv'
<1>1. /\ pending \in Chunks /\ Boundaries(pending) = {} /\ exec = "closing" /\ exec' = "ending"
      /\ pending' = <<>> /\ <<>> \in Chunks /\ StreamTypes /\ SinkInv /\ ScreenInv
  BY DEF SinkClose, IntactInv, StreamInv, StreamTypes, SinkInv, Chunks
<1>2. CASE pending # <<>>
  <2>1. StreamWrite(pending) /\ printed' = Before \o Filtered(pending)
    BY <1>2 DEF SinkClose
  <2>2. PICK k \in Nat : k = Len(pending) /\ SubSeq(pending, 1, k) = pending
    <3>1. Len(pending) \in Nat /\ SubSeq(pending, 1, Len(pending)) = pending
      BY <1>1, PrefixEnds DEF Chunks
    <3> QED
      BY <3>1
  <2>3. printed' = (Before \o Filtered(SubSeq(pending, 1, k))) \o pending'
    <3>1. PICK b \in Chunks, p \in Chunks : b = Before /\ p = Filtered(pending)
      BY <1>1, BeforeType, FilteredType
    <3>2. b \o p \in Seq(Bytes)
      BY DEF Chunks
    <3>3. (b \o p) \o <<>> = b \o p
      BY <3>2
    <3> QED
      BY <1>1, <2>1, <2>2, <3>1, <3>3
  <2>4. StreamWrite(SubSeq(pending, 1, k)) /\ \A i \in 1..k : i \notin Boundaries(pending)
    BY <1>1, <2>1, <2>2
  <2>5. k <= Len(pending) /\ k = Len(pending)
    BY <2>2
  <2> QED
    BY <1>1, <2>3, <2>4, <2>5, WriteScreen
<1>3. CASE pending = <<>>
  <2>1. printed' = printed /\ buf' = buf /\ cr' = cr /\ sent' = sent
    BY <1>3 DEF SinkClose, streamVars, sentVars
  <2>2. PICK b \in Chunks : b = Before /\ printed = b \o pending
    BY <1>1, BeforeType DEF SinkInv
  <2>3. SinkInv' /\ Before' = b
    <3>1. /\ pending' \in Chunks /\ printed' = b \o pending'
          /\ exec' = "closing" => Boundaries(pending') = {}
          /\ exec' \notin {"running", "closing"} => pending' = <<>>
      BY <1>1, <1>3, <2>1, <2>2
    <3> QED
      BY <3>1, SinkFrom
  <2>4. Out' = Out
    BY <1>1, <2>1 DEF Out
  <2> QED
    BY <1>1, <2>1, <2>2, <2>3, <2>4, ScreenSame
<1> QED
  BY <1>2, <1>3

\* A flush, the last or the timer's, of what has been gathered before the answer.
LEMMA FlushScreen ==
  ASSUME IntactInv, NEW eof \in BOOLEAN, Flush(eof, buf, attrs),
         cr' = IF streaming THEN FALSE ELSE cr, UNCHANGED sinkVars,
         exec # "answered", exec' # "answered",
         exec' = exec \/ (exec = "ending" /\ exec' = "ended")
  PROVE  SinkInv' /\ ScreenInv'
<1>1. StreamTypes /\ SinkInv /\ ScreenInv /\ printed' = printed /\ pending' = pending
  BY DEF IntactInv, StreamInv, sinkVars
<1>2. /\ sent' \o Concat(buf') = sent \o Concat(buf)
      /\ cr' /\ buf' # <<>> => cr /\ buf' = buf
  BY <1>1, FlushSends
<1>3. Out' = sent' \o Concat(buf') /\ Out = sent \o Concat(buf)
  BY DEF Out
<1>4. Before' = Before
  BY <1>1 DEF Before
<1>5. SinkInv'
  BY <1>1, <1>4 DEF SinkInv
<1>6. ScreenInv'
  BY <1>1, <1>2, <1>3, <1>4, ScreenSame
<1> QED
  BY <1>5, <1>6

\* The last flush sends what is gathered.
LEMMA StreamEndScreen == ASSUME IntactInv, StreamEnd PROVE SinkInv' /\ ScreenInv'
BY FlushScreen DEF StreamEnd

\* After the answer there is nothing for the timer to flush.
LEMMA TimerFlushScreen == ASSUME IntactInv, TimerFlush PROVE SinkInv' /\ ScreenInv'
<1>1. /\ Flush(FALSE, buf, attrs) /\ cr' = IF streaming THEN FALSE ELSE cr
      /\ UNCHANGED sinkVars /\ exec' = exec
  BY DEF TimerFlush
<1>2. CASE exec # "answered"
  BY <1>1, <1>2, FlushScreen
<1>3. CASE exec = "answered"
  <2>1. StreamTypes /\ SinkInv /\ ScreenInv /\ printed' = printed /\ pending' = pending
    BY <1>1 DEF IntactInv, StreamInv, sinkVars
  <2>2. streaming => buf = <<>>
    BY <1>3 DEF IntactInv, StreamInv, NothingAfterEnd
  <2>3. buf' = buf /\ sent' = sent /\ (cr' => cr)
    BY <1>1, <2>2 DEF Flush, Kept, sentVars
  <2>4. Out' = Out /\ Before' = Before
    BY <1>1, <2>1, <2>3 DEF Out, Before
  <2>5. SinkInv'
    BY <1>1, <2>1, <2>4 DEF SinkInv
  <2>6. ScreenInv'
    BY <1>1, <1>3, <2>1, <2>3, <2>4, ScreenSame
  <2> QED
    BY <2>5, <2>6
<1> QED
  BY <1>2, <1>3

\* The answer carries what is gathered.
LEMMA AnswerScreen == ASSUME IntactInv, Answer PROVE SinkInv' /\ ScreenInv'
<1>1. /\ StreamTypes /\ SinkInv /\ ScreenInv
      /\ printed' = printed /\ pending' = pending /\ buf' = buf /\ cr' = cr
      /\ exec = "closed" /\ exec' = "answered" /\ sent' = sent \o Concat(buf)
  BY DEF Answer, IntactInv, StreamInv, sinkVars, streamVars
<1>2. Out = sent \o Concat(buf)
  BY <1>1 DEF Out
<1>3. Out' = sent' \o <<>>
  BY <1>1 DEF Out
<1>4. sent' \in Seq(Bytes)
  BY <1>1, OutType DEF Chunks
<1>5. Out' = Out
  BY <1>1, <1>2, <1>3, <1>4
<1>6. Before' = Before
  BY <1>1 DEF Before
<1>7. SinkInv'
  BY <1>1, <1>6 DEF SinkInv
<1>8. ScreenInv'
  BY <1>1, <1>5, <1>6, ScreenSame
<1> QED
  BY <1>7, <1>8

\* Every step keeps the screen.
LEMMA IntactStep == IntactInv /\ [Next]_vars => IntactInv'
<1> SUFFICES ASSUME IntactInv, [Next]_vars PROVE SinkInv' /\ ScreenInv'
  BY InvStep DEF IntactInv
<1>1. CASE CommandEnds \/ StreamClose \/ TimerFires \/ TimerGoes \/ UNCHANGED vars
  <2>1. /\ UNCHANGED <<printed, pending, buf, cr, sent>>
        /\ \/ exec' = exec
           \/ exec = "running" /\ exec' = "closing" /\ Boundaries(pending) = {}
           \/ exec = "ended" /\ exec' = "closed"
    BY <1>1 DEF CommandEnds, Writing, StreamClose, TimerFires, TimerGoes, vars, sinkVars,
                streamVars, sentVars
  <2>2. Out' = Out /\ Before' = Before
    BY <2>1 DEF Out, Before
  <2>3. SinkInv /\ ScreenInv
    BY DEF IntactInv
  <2>4. Boundaries(pending') = Boundaries(pending)
    BY <2>1
  <2>5. SinkInv'
    BY <2>1, <2>2, <2>3, <2>4 DEF SinkInv
  <2>6. ScreenInv'
    BY <2>1, <2>2, <2>3, ScreenSame
  <2> QED
    BY <2>5, <2>6
<1> QED
  BY <1>1, SinkWriteScreen, SinkChunkScreen, SinkCloseScreen, StreamEndScreen, AnswerScreen,
     TimerFlushScreen DEF Next, Sink, Timer

\* What has left the sink, with what is pending, shows what was printed.
LEMMA IntactShown == IntactInv => OutputIntact
<1> SUFFICES ASSUME IntactInv, ~IndentAfterCr
             PROVE  LET answer == IF exec = "answered" THEN <<>> ELSE Concat(buf) IN
                    Screen(sent \o answer \o pending) = Screen(printed)
  BY DEF OutputIntact
<1>1. StreamTypes /\ SinkInv /\ ScreenInv
  BY DEF IntactInv, StreamInv
<1>2. PICK b \in Chunks, q \in Chunks : b = Before /\ q = pending /\ printed = b \o q
  BY <1>1, BeforeType DEF SinkInv
<1>3. PICK z \in Chunks : z = Out
  BY <1>1, OutType
<1>4. ~IndentIn(b)
  <2>1. ~IndentIn(printed)
    BY DEF IndentAfterCr, IndentIn
  <2> QED
    BY <1>2, <2>1, IndentKept
<1>5. SameLines(Shown(z), Shown(b))
  BY <1>1, <1>2, <1>3, <1>4 DEF ScreenInv
<1>6. SameLines(Shown(z \o q), Shown(b \o q))
  <2>1. CASE StartsLine(q)
    <3>1. Shown(z \o q) = Shown(b \o q)
      BY <1>5, <2>1, LineStartsAnew
    <3> QED
      BY <3>1 DEF SameLines
  <2>2. CASE ~StartsLine(q) /\ exec \in {"running", "closing"}
    <3>1. z = b
      BY <1>1, <1>2, <1>3, <2>2 DEF ScreenInv
    <3> QED
      BY <3>1 DEF SameLines
  <2>3. CASE exec \notin {"running", "closing"}
    <3>1. q = <<>>
      BY <1>1, <1>2, <2>3 DEF SinkInv
    <3>2. z \o <<>> = z /\ b \o <<>> = b
      BY DEF Chunks
    <3> QED
      BY <1>5, <3>1, <3>2
  <2> QED
    BY <2>1, <2>2, <2>3
<1>7. Screen(z \o q) = Screen(b \o q)
  BY <1>6, Zenon DEF Screen, Shown, Blank, SameLines
<1>8. z = sent \o (IF exec = "answered" THEN <<>> ELSE Concat(buf))
  BY <1>3 DEF Out
<1> QED
  BY <1>2, <1>7, <1>8

\* However the output is cut, discarded, rewritten and flushed, and whenever the timer
\* flushes, what the client has and what is still held show the screen that was printed,
\* unless an indented line follows a carriage return.
THEOREM ScreenIsIntact == Spec => []OutputIntact
<1>1. Init => IntactInv
  BY InvInit, ScreenInit DEF IntactInv
<1> QED
  BY <1>1, IntactStep, IntactShown, PTL DEF Spec
=============================================================================
