------------------------------- MODULE Stream -------------------------------
(***************************************************************************)
(* The output of one exec call on its way to the client (exec.go,          *)
(* stream.go, sink/writer.go).  The command's output is written to a sink, *)
(* which cuts it into chunks at line boundaries; a stream filters and      *)
(* collects the chunks and sends them when enough have gathered, when its  *)
(* timer fires and at the end.  Without a stream token nothing is sent     *)
(* before the response of the call, which then carries everything.         *)
(*                                                                         *)
(* Sink.Write and Sink.Close hold the sink's mutex, but the stream has its *)
(* own, taken for each chunk: the timer's flush can come between any two   *)
(* chunks.  Broker.Send is one step here (module Broker).                  *)
(***************************************************************************)
EXTENDS Naturals, Sequences, SequencesExt

CONSTANTS
  Modes,     \* the calls looked at: <<with a stream token, with a discarding switch>>
  Bytes,     \* what commands print: "cr", "nl", "sp" and letters
  Matching,  \* the letters that the call's switches match in a chunk
  MaxBytes,  \* bound: bytes printed, less what was discarded
  MaxMatches,\* bound: nothing is printed after as many matches
  MaxWrite,  \* bound: bytes in one write to the sink
  FlushSize  \* 32K: how many bytes gather before they are sent

ASSUME StreamAssumption ==
  /\ Modes \subseteq BOOLEAN \X BOOLEAN
  /\ Matching \subseteq Bytes \ {"cr", "nl", "sp"}
  /\ {MaxBytes, MaxMatches, MaxWrite, FlushSize} \subseteq Nat \ {0}

VARIABLES
  streaming, \* the call names a stream token
  discard,   \* its switches discard the chunks that they match
  exec,      \* where Exec.Call is
  printed,   \* all that was written to the sink, less what was discarded
  pending,   \* Sink.buf
  buf,       \* Stream.buf: the chunks gathered
  n,         \* Stream.n: their size, as the stream counts it
  cr,        \* Stream.cr: the last chunk starts with a carriage return
  attrs,     \* Exec.attrs.list: matches collected and not sent
  matches,   \* how many matches there have been
  armed,     \* the timer is running, or has fired and not been noticed
  flushing,  \* the timer's goroutine is about to flush, or has gone
  sent,      \* the bytes sent so far, by the stream and in the response
  sentAttrs, \* the matches sent so far
  ends       \* how often the stream has sent its end

sinkVars   == <<printed, pending>>
streamVars == <<buf, n, cr>>
attrVars   == <<attrs, matches>>
timerVars  == <<armed, flushing>>
sentVars   == <<sent, sentAttrs, ends>>
modeVars   == <<streaming, discard>>
vars == <<modeVars, exec, sinkVars, streamVars, attrVars, timerVars, sentVars>>

-----------------------------------------------------------------------------
(* nextChunk: the sink's idea of where a chunk ends. *)

IsIndent(p, i) == i <= Len(p) /\ p[i] = "sp"

\* Positions are counted from 1 here, from 0 in the code.
IsBoundary(p, i) ==
  \/ p[i] = "cr" /\ i > 1
  \/ p[i] = "nl" /\ i > 2 /\ ~IsIndent(p, i + 1)

Boundaries(p) == {i \in 1..Len(p) : IsBoundary(p, i)}

\* A mistake: the newline that follows a chunk is cut with it.
NextChunkWithNewline(p) == CHOOSE i \in Boundaries(p) : \A k \in Boundaries(p) : i <= k

\* The length of the first chunk of p, if p has a complete one.
NextChunk(p) == (CHOOSE i \in Boundaries(p) : \A k \in Boundaries(p) : i <= k) - 1

-----------------------------------------------------------------------------

Init ==
  /\ \E mode \in Modes : streaming = mode[1] /\ discard = mode[2]
  /\ exec = "running"
  /\ printed = <<>> /\ pending = <<>>
  /\ buf = <<>> /\ n = 0 /\ cr = FALSE
  /\ attrs = 0 /\ matches = 0
  /\ armed = TRUE /\ flushing = "no"
  /\ sent = <<>> /\ sentAttrs = 0 /\ ends = 0

-----------------------------------------------------------------------------
(* Stream.flush *)

Concat(chunks) == FlattenSeq(chunks)

\* A mistake: the timer is reset only when there is something to send.
RearmedWhenSent(eof, b) == eof \/ b # <<>>

\* flush resets the timer whether or not it sends anything.
Rearmed(eof, b) == TRUE

\* A mistake: the last flush leaves what it sends to the response of the call.
KeptAtEnd(eof, b) == IF eof THEN b ELSE <<>>

\* Nothing stays gathered after a flush.
Kept(eof, b) == <<>>

\* flush(eof) on the chunks b and the matches a collected by then.
Flush(eof, b, a) ==
  IF ~streaming
  THEN /\ buf' = b /\ attrs' = a
       /\ UNCHANGED <<armed, sentVars>>
  ELSE /\ armed' = (armed \/ Rearmed(eof, b))
       /\ IF eof \/ b # <<>>
          THEN /\ sent' = sent \o Concat(b)
               /\ sentAttrs' = sentAttrs + a
               /\ ends' = IF eof THEN ends + 1 ELSE ends
          ELSE UNCHANGED sentVars
       /\ buf' = Kept(eof, b) /\ attrs' = 0

-----------------------------------------------------------------------------
(* Stream.Write *)

\* crPfx: a lone carriage return, or one not followed by a newline.
CrPfx(p) == Len(p) >= 1 /\ p[1] = "cr" /\ (Len(p) = 1 \/ p[2] # "nl")

Matched(p) == \E i \in 1..Len(p) : p[i] \in Matching

\* What the filter (Exec.sw) leaves of a chunk.
Filtered(p) == IF discard /\ Matched(p) THEN <<>> ELSE p

\* copy(old, p): p overwrites the beginning of old.
Overlay(p, old) == p \o SubSeq(old, Len(p) + 1, Len(old))

\* A mistake: an overwritten line is replaced by the shorter one.
RewrittenShorter(p, old) == p

\* A carriage return makes p overwrite the line gathered last.
Rewritten(p, old) == IF Len(p) <= Len(old) THEN Overlay(p, old) ELSE p

\* A mistake: a discarded chunk is not gathered, not even as an empty one.
GatheredUnlessEmpty(p) ==
  IF p = <<>> THEN buf
  ELSE IF buf = <<>> \/ CrPfx(p) # cr THEN Append(buf, p)
  ELSE [buf EXCEPT ![Len(buf)] = IF CrPfx(p) THEN Rewritten(p, @) ELSE @ \o p]

\* The chunks gathered once p has been added: p is a chunk of its own if it does
\* not continue the last one in kind, it overwrites it or is appended to it.
Gathered(p) ==
  IF buf = <<>> \/ CrPfx(p) # cr THEN Append(buf, p)
  ELSE [buf EXCEPT ![Len(buf)] = IF CrPfx(p) THEN Rewritten(p, @) ELSE @ \o p]

\* A mistake: a rewritten line does not count.
CountedUnlessCr(p) == IF CrPfx(p) THEN n ELSE n + Len(p)

\* A line that is overwritten in place is not counted; one that is replaced by a
\* longer one stays counted beside it.
Counted(p) ==
  IF buf # <<>> /\ CrPfx(p) /\ cr /\ Len(p) <= Len(buf[Len(buf)]) THEN n
  ELSE n + Len(p)

StreamWrite(chunk) ==
  LET p == Filtered(chunk)
      a == IF Matched(chunk) THEN 1 ELSE 0 IN
  /\ matches' = matches + a
  /\ IF Counted(p) >= FlushSize
     THEN /\ Flush(FALSE, Gathered(p), attrs + a)
          /\ n'  = IF streaming THEN 0 ELSE Counted(p)
          /\ cr' = IF streaming THEN FALSE ELSE CrPfx(p)
     ELSE /\ buf' = Gathered(p) /\ attrs' = attrs + a
          /\ n' = Counted(p) /\ cr' = CrPfx(p)
          /\ UNCHANGED <<armed, sentVars>>

-----------------------------------------------------------------------------
(* The sink, and Exec.Call around it. *)

\* Sink.Write goes on, under the sink's mutex, while it finds complete chunks.
Writing == exec = "running" /\ Boundaries(pending) # {}

\* The command prints, in whatever pieces its output is read.
SinkWrite ==
  /\ exec = "running" /\ ~Writing
  /\ matches < MaxMatches
  /\ \E k \in 1..MaxWrite : \E p \in [1..k -> Bytes] :
       /\ Len(printed) + k <= MaxBytes
       /\ printed' = printed \o p
       /\ pending' = pending \o p
  /\ UNCHANGED <<modeVars, exec, streamVars, attrVars, timerVars, sentVars>>

\* What was printed before what is pending in the sink.
Before == SubSeq(printed, 1, Len(printed) - Len(pending))

\* One round of the loop of Sink.Write: a chunk goes to the stream.
SinkChunk ==
  /\ Writing
  /\ LET k == NextChunk(pending)
         chunk == SubSeq(pending, 1, k) IN
       /\ StreamWrite(chunk)
       /\ pending' = SubSeq(pending, k + 1, Len(pending))
       /\ printed' = Before \o Filtered(chunk) \o pending'
  /\ UNCHANGED <<modeVars, exec, flushing>>

\* The command has ended, and all of its output has been read.
CommandEnds ==
  /\ exec = "running" /\ ~Writing
  /\ exec' = "closing"
  /\ UNCHANGED <<modeVars, sinkVars, streamVars, attrVars, timerVars, sentVars>>

\* Sink.Close: what is left is a chunk, however it ends.
SinkClose ==
  /\ exec = "closing"
  /\ IF pending # <<>>
     THEN /\ StreamWrite(pending)
          /\ printed' = Before \o Filtered(pending)
     ELSE UNCHANGED <<printed, streamVars, attrVars, armed, sentVars>>
  /\ pending' = <<>>
  /\ exec' = "ending"
  /\ UNCHANGED <<modeVars, flushing>>

\* Stream.Close: the last flush ...
StreamEnd ==
  /\ exec = "ending"
  /\ Flush(TRUE, buf, attrs)
  /\ n'  = IF streaming THEN 0 ELSE n
  /\ cr' = IF streaming THEN FALSE ELSE cr
  /\ exec' = "ended"
  /\ UNCHANGED <<modeVars, sinkVars, matches, flushing>>

\* ... then the timer is stopped and its goroutine told to go.
StreamClose ==
  /\ exec = "ended"
  /\ armed' = FALSE
  /\ exec' = "closed"
  /\ UNCHANGED <<modeVars, sinkVars, streamVars, attrVars, flushing, sentVars>>

\* Call returns what has not been streamed.
Answer ==
  /\ exec = "closed"
  /\ sent' = sent \o Concat(buf)
  /\ sentAttrs' = sentAttrs + attrs
  /\ attrs' = 0
  /\ exec' = "answered"
  /\ UNCHANGED <<modeVars, sinkVars, streamVars, matches, timerVars, ends>>

-----------------------------------------------------------------------------
(* The timer and its goroutine. *)

Closed == exec \in {"closed", "answered"}

TimerFires ==
  /\ flushing = "no" /\ armed
  /\ armed' = FALSE
  /\ flushing' = "yes"
  /\ UNCHANGED <<modeVars, exec, sinkVars, streamVars, attrVars, sentVars>>

\* It may get the stream's mutex after Close has had it.
TimerFlush ==
  /\ flushing = "yes"
  /\ Flush(FALSE, buf, attrs)
  /\ n'  = IF streaming THEN 0 ELSE n
  /\ cr' = IF streaming THEN FALSE ELSE cr
  /\ flushing' = "no"
  /\ UNCHANGED <<modeVars, exec, sinkVars, matches>>

TimerGoes ==
  /\ flushing = "no" /\ Closed
  /\ flushing' = "gone"
  /\ UNCHANGED <<modeVars, exec, sinkVars, streamVars, attrVars, armed, sentVars>>

-----------------------------------------------------------------------------

Sink  == SinkChunk \/ SinkClose \/ StreamEnd \/ StreamClose \/ Answer
Timer == TimerFires \/ TimerFlush \/ TimerGoes

Next == SinkWrite \/ CommandEnds \/ Sink \/ Timer

Spec == Init /\ [][Next]_vars

\* Goroutines that can go on do, and a running timer fires.  A command need not
\* print, and need not end.
Fairness == WF_vars(Sink) /\ WF_vars(Timer)

FairSpec == Spec /\ Fairness

-----------------------------------------------------------------------------

\* The screen a terminal shows for some output: the finished lines and the last
\* one, with the column a carriage return goes back from.
Show(b, screen) ==
  CASE b = "nl" -> [done |-> Append(screen.done, screen.line), line |-> <<>>, col |-> 0]
    [] b = "cr" -> [screen EXCEPT !.col = 0]
    [] OTHER    -> [screen EXCEPT !.line = Overlay(SubSeq(@, 1, screen.col) \o <<b>>, @),
                                  !.col = @ + 1]

Screen(bytes) ==
  LET s == FoldLeft(LAMBDA screen, b : Show(b, screen),
                    [done |-> <<>>, line |-> <<>>, col |-> 0], bytes)
  IN <<s.done, s.line>>

\* An indented line continues the chunk of the line before it.  After a carriage
\* return the two are overwritten as if they were one: the code loses the first.
IndentAfterCr ==
  \E i, k \in 1..Len(printed) :
    i < k /\ printed[i] = "cr" /\ printed[k] = "nl" /\ IsIndent(printed, k + 1)

\* However the output is read, cut, rewritten, flushed by size and flushed by
\* the timer, what has been sent, what is gathered and what is pending show the
\* same screen as what was printed.
OutputIntact ==
  ~IndentAfterCr =>
    LET answer == IF exec = "answered" THEN <<>> ELSE Concat(buf) IN
    Screen(sent \o answer \o pending) = Screen(printed)

\* NewSink: "Each chunk will be aligned on newline boundaries".  What has been
\* gathered or sent ends where a line, or the output, ends.
ChunksAligned ==
  exec = "running" /\ pending # <<>> /\ (buf # <<>> \/ sent # <<>>) =>
    pending[1] \in {"cr", "nl"}

\* The timer cannot drop a match between the chunk it was found in being filtered
\* and being gathered: every match is sent or waiting to be sent.
MatchesKept == sentAttrs + attrs = matches

\* What a streaming call holds back stays below the flush size.
GatheredBounded ==
  /\ Len(Concat(buf)) <= n
  /\ streaming => n < FlushSize

\* The stream ends once, before the call's response: no late flush of the timer
\* sends anything afterwards, and the response has nothing left to carry.
EndIsLast == [][ends = 1 => UNCHANGED sentVars]_vars

\* A command that goes on running without a word has its output sent: the timer
\* never stops while the stream is open.
OutputIsSent == (streaming /\ buf # <<>>) ~> (buf = <<>>)
=============================================================================
