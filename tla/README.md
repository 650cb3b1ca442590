# GoSublime-next in TLA+

GoSublime is a Go plugin for Sublime Text. Its Python half lives in the editor
(`gosubl/`, the `gs*.py` commands); its Go half, **margo**, is a separate process
(`src/gosubli.me/`) that the plugin builds, starts and talks to over stdin and
stdout. This directory holds specifications of the parts where concurrency,
ordering and failure make the program hard to test, the TLC configurations that
check them, and proofs of what TLC can check only on small instances.

Paths below are relative to the repository's root, with two shorthands: `MG` for
`src/gosubli.me/mg` and `EX` for `src/gosubli.me/mg/meth/exec`.

## Contents

| file | what it is |
|------|------------|
| `ProcTable.tla` | margo's table of running commands: cids, replacement, cancel, the exit hook |
| `CidSlots.tla` | what the table promises: one exclusive slot per cid |
| `ProcTableProofs.tla` | the theorems about `ProcTable` |
| `Broker.tla` | margo's request broker, the goroutines that write to its stdout, `-wait`, its end |
| `Responder.tla` | what the broker promises its client |
| `BrokerProofs.tla` | the theorems about `Broker` |
| `Stream.tla` | the output of one exec call: sink, chunks, rewriting, the timer |
| `Mg9.tla` | the editor's end: installation, sending, receiving, killing and restarting margo |
| `Play.tla` | the virtual command `.play` beside the other commands of the table |
| `Signal.tla` | a debounced signal of the editor: callers, timer, listeners |
| `Nineo.tla` | the 9o command engine: chains of commands, their generators, their highlights |
| `Editor.tla` | a view: its signal, the hook it runs, the engine, and the thread they share |
| `PlayProofs.tla`, `StreamProofs.tla`, `Mg9Proofs.tla` | the theorems about `Play`, `Stream` and `Mg9` |
| `SignalProofs.tla`, `EditorProofs.tla` | the theorems about `Signal`, and about `Editor` with `Nineo` |
| `Synchk.tla` | syntax checks and the cache of parsed files |
| `PkgDirs.tla` | the walk of package directories and its cache |
| `PkgPaths.tla` | the walk of import paths by two goroutines for each root |
| `Imports.tla` | the toggling of imports and the automatic installation |
| `Methods.tla` | those four methods, called concurrently |
| `MethodsProofs.tla` | the theorems about the four methods |
| `MC*.tla`, `*.cfg` | bounded instances for TLC |
| `PROJECT.json` | components, runs, the map from definitions to source lines, hazards, theorems |

## Inventory

**The process table** (`EX/proc.go`, `EX/cancel.go`, `EX/sys.go`). State: a map
from cid to `*exec.Cmd` behind a mutex. Operations: `Run` (register, replacing
what is there; start; wait; remove), `Cancel` (a replacement by nothing), an exit
hook that kills everything. Callers are goroutines of the broker, one per
request. Hard: the replacement protocol takes and releases the mutex many times
and sleeps in between; commands end, ignore signals, or fail to start; margo may
exit or die at any step. Correct when no two commands of a cid run together,
`cancel` returns only on an idle cid, nothing is left in the table for ever, and
the exit hook misses nothing.

**The broker** (`MG/broker.go`, `MG/main.go`, `MG/oom.go`, `MG/chan.go`, `post` in
`MG/common.go`). State: the reader's position, a WaitGroup, a counter, a mutex in
front of stdout, the channel `sendCh`. One goroutine reads; one per call runs the
method and answers; others poll, say hello, and drain `sendCh`. Hard: everything
is written to one pipe by many goroutines; a response may not be encodable; a
method may panic; stdin may fail or end in the middle; the memory limit ends the
process anywhere. Correct when every response is a line, a call is answered once
and after what it streamed, posted messages keep their order, and `-wait` waits.

**exec's output** (`EX/exec.go`, `EX/stream.go`, `src/gosubli.me/sink/writer.go`).
State: the sink's pending bytes; the stream's chunks, their count and whether the
last one rewrites its line; the attributes found by switches; a timer. Hard: how
output is read decides where chunks end; a carriage return rewrites the last
chunk; the timer's goroutine flushes between any two steps, also late. Correct
when nothing is lost, doubled, reordered or sent after the end.

**mg9** (`gosubl/mg9.py`, with the attributes and queues of `gosubl/gs.py` and
the threads of `gosubl/gsq.py`). State: two queues, the attribute table (install
state, current process, callbacks by token). Threads: `_send`, `_recv`, a reader
per margo process, the installer at load time, `gs: build margo`, and whoever
calls `acall` and `bcall`. Hard: check-then-act on attributes, a closure over a
variable that the sender reassigns, three threads that may kill the server,
answers that never come. Correct when a callback is called once, an error means
that nothing was sent, and no margo is left behind.

**nineo** (`gosubl/nineo.py`, `nineo_builtins.py`): the 9o command engine. State: a
session's commands, each with a generator, a result, a sequence number, the
commands chained to it (`all`, `any`, `each`) and the matches it is to highlight.
Operations: `start`, the generator's steps, `resume`, `done`, `fail`, the builtins,
the answers of `exec`. Hard: a generator is resumed by whoever has ended its last step
(a builtin, mg9's thread with an answer, a child's callback, `gs.cmdebug`'s), through
a queue; two resumptions would start a command while the one before it runs, none
would stop the chain; successive runs end in any order and highlight one view.
Correct when a step is resumed once, chains do what the settings say, every chain
ends, and older highlights never replace newer ones.

**ev, kv** (`gosubl/ev.py`, `kv.py`): debounced signals and the shared maps they are
kept in. State of a signal: a deadline, a flag, a timer. Hard: deadline and flag are
set in two critical sections and read in a third, the listeners are called outside
of all; a map's `get` tests and stores in two. Correct when no call is forgotten
and there is one timer at a time.

**ui, hl, vu** (`gosubl/`): tasks shown in the status bar, highlights, views; mostly
calls of Sublime Text.

**Methods with state or goroutines** (`MG`): the cache of parsed files (`sa/file.go`)
that syntax checks, intel and declarations share; the cache of directories
(`m_pkgdirs.go`); the walks of `pkgpaths.go`, two goroutines for each root; the queue
of automatic installation (`g_autoinst.go`), which `m_imports.go` fills. The broker runs
each call in a goroutine. Correct when an error names the file it is about, a package that
is there is found, no file is lost between goroutines, the declaration of C is left
alone, and no call waits for `go install`.

**`.play`** (`EX/play.go`): saves a view in a temporary directory, builds it, and runs
what it has built as any other command. Hard: each of these may fail, and the build does
not go through the process table.

**The other methods of margo** (`MG/*.go`, `MG/meth/*`): stateless functions over
`go/ast`, and the gocode bridge.

**Editor commands** (`gs*.py`), **environment and subprocesses** (`gosubl/sh.py`),
**formatting patches** (`gosubl/gspatch.py`), and borrowed code
(`something_borrowed`, `src/code.google.com`, gocode, blake2b).

Who talks to whom: an editor command calls `mg9.acall`; `_send` writes a line to
margo; the broker starts a goroutine that runs the method; `exec` goes through
the process table, its output through sink and stream back to the broker's
stdout; the reader thread queues the line and `_recv` calls the callback, or the
stream handler that nineo registered with `mg9.on`. `gs.status`, `gs.view` and
the automatic installation post to `sendCh`; exec's streams do not, they take
the broker's mutex themselves.

## The modules

### ProcTable

A caller is an exec call or a cancel, with a program counter that follows
`Run` and `repl`: `look` (the first `set`), `retry` and `interrupt` (the loop of
two tries), `kill` (the last loop), `start`, `wait`, `delete`. One action is one
critical section or one system call: `Look`, `Retry`, `Interrupt`, `Kill`,
`LookAgain`, `Start`, `Wait`, `Delete`, plus `Call` (a request arrives), `Ends`
and `ProcessExit` (the command, the system), `LoopEnds`, `ByeHook` and `Exit`
(margo's way out; `Exit` also at any time). Sleeps are dropped: every
interleaving is possible without them. `kind` says whether a command ends by
itself, on SIGINT, or on SIGKILL only. A signal goes to a process group; the
group is its leader here.

`CidSlots` is the abstract specification: a slot per key with an owner, and a set
of live commands that must own a slot. `ImplementsSlots` maps `owner` to the table
and `live` to the unkilled processes.

`TableInv` is the inductive invariant. Its conjuncts say: an owner past its
registration is in the table (`OwnerStaysRegistered`), an entry has an owner that
will remove it (`EntryHasOwner`), a running unkilled process is awaited
(`RunningIsAwaited`), private keys are private (`UidIsPrivate`), and what a call is about
to interrupt was submitted under its own cid (`SeenHasSameCid`). Mutual exclusion does not
follow from the guard alone: `delete` removes by cid without looking whose
entry it is, and it is `OwnerStaysRegistered` that makes this harmless.

### Broker

`input` is what the client has written, a line reduced to what `accept` makes of
it: `blank` (no method, or undecodable), `unknown`, `badarg`, `call`, `bye-ni`. `call[r]`
follows a request into its goroutine; `outbox[s]` is the response that the
goroutine `s` is sending; a send is three steps under the mutex: the body
(`WriteBody`), the newline (`WriteNewline`), or giving up (`SendGivesUp`, when the
response cannot be encoded and has no token). `AcceptLine`, `AcceptEof`,
`ReadError` and `SayBye` are `accept` and `Loop`; `Serve`, `StreamOut`, `Return`,
`Done` are `call` with its two deferred functions; `Post`, `TakePost` and `Poll`
the goroutines of `Run`. `OutOfMemory` ends the process anywhere.

`Responder` is the promise: what was accepted is answered at most once, nothing
else is, and nothing after the end. `AnswersOnce` maps `answers` to the complete
bodies on the wire.

### Stream

Bytes are `cr`, `nl`, `sp` (any indentation) and letters. `SinkWrite` is a read
of the command's output in pieces of any size up to `MaxWrite`, `SinkChunk` one
round of the loop in `Sink.Write` (the sink's mutex is held, but the stream's is
taken per chunk, so the timer can come in between), then `CommandEnds`,
`SinkClose`, `StreamEnd`, `StreamClose`, `Answer`. `TimerFires`, `TimerFlush` and
`TimerGoes` are the goroutine of `NewStream`, whose last flush may come after
`Close`.

`OutputIntact` compares what a terminal would show for `sent`, `buf` and
`pending` together with what it would show for everything printed: the rewriting
may drop bytes, but only bytes that nobody would have seen. While writing it we
found that the code does not keep it for one kind of output: a line that starts
with a carriage return and is continued by an indented line is one chunk, and a
following rewrite overwrites both as if they were one. `IndentAfterCr` describes
those outputs and the property excepts them; no document says what should happen.

### Mg9

`sender` follows `_send` from taking a request to writing it; `install[i]`
follows `_install` in its two threads; `reader[p]` the thread that was started
for process `p`, and `reads[p]` the process that it does read (`Bound`: the
closure's variable when the thread gets to run). `KillSrv` is shared by
four callers. A margo process reads, answers in any order, may answer without a
token, exits when its stdin is closed, or dies. Closing stdout and stdin is one
step; an exception in `_send` outside the modelled places (a malformed queue entry) is
not modelled; nor are handlers that stay registered.

`bcall` (`Bcall`, `BcallReturns`) puts its request into the same queue and waits a
second for the callback. It refuses when margo is not installed. The second is not
counted: a caller may give up at any step, and its request goes on without it.

Two readers of one process read it byte by byte (`bufsize=0`), hence `Shared`
lines may be garbled; this needs a reader thread that starts only after its process
has died and been replaced.

### Play

`Play` extends `ProcTable`: a `.play` is an exec call that has steps before it enters
the table. `FindPackage` stands for `Pkg` (it may save the view, which needs the temporary
directory), `MainCmd` and `BuildEnds` for `mainCmd`, `RunPlay` for the entry into
`procs.Run`; `AnswerPlay` cleans up. Each of them may fail, and margo may end at
any step. `previous` remembers which commands were unfinished when a request
arrived, to state what a fixed cid promises.

### Signal

A caller looks the signal up (`Lookup`; `Store` if there was none, as `kv.M.get` does
it, in a second critical section), calls it (`Stamp` sets the deadline) and starts the
timer (`CallReturns`, with `_sched`). The timer `Ring`s, early or late; `_timedout` has
read the deadline and now calls the listeners (`Fire`), or starts a timer for what
remains (`NotYet`, `Again`). Time is a number of deadlines that have passed (`Elapse`), so
that a call can always move the deadline beyond what `_timedout` has read. Two threads that
look up a missing signal at once make two, of which the map keeps the last; the calls of both
are heard.

### Nineo

`at[c]` is where the generator of `c` is: not started, its function, the i-th command of a
chain, the callback, or over. `doq` is the queue of `gs.do`, whose entries are `next` of a
generator or `do_hl`. `Start` is `Cmd.start`: a command with errors fails before it has a
generator and before it has its callback. `Begin` calls the function, `ContinueChain` takes
over the result of the last command and starts the next, `Callback` resumes the command
and its parent, `Finish` asks for the highlights; `ExecAnswer` and `Chunk` come from
mg9's threads. Every message of a stream asks for the highlights, with matches or without, which
clears the older notes. `HlSkip` and `HlReport` are `do_hl` with the filter of `_clr`.

A program (which commands there are, what is chained to what, which the user and the hooks
run) is chosen in the initial state from `Programs`. In a program a command is started
at most once, so that a name is an instance: another run of one configured command is another
name with the same definition, as the hooks of `MCEditor` are. `NineoAssumption` demands this of
`Programs` (`StartedOnce`); the code has it because every run of a definition makes a `Cmd` of its
own (`sess.cmd`, `Cmd.merge` at `gosubl/nineo.py:136`), whose chained commands are made anew with it.

### Editor

`Editor` extends both and gives them the one thread that they share: a ringing timer
or the head of the queue, one at a time (`AsyncIdle`). An edit calls the signal; its
listener queues `view_updated`, whose hook starts the next hook command with the view as it is
then (`saw`). Edits are made by the main thread or by two threads that look the signal up at
once. `NotesSeeEveryEdit` and `EditsAreLinted` span all of it: from an edit
through signal, timer, queue, hook, margo's answer and the highlights' filter.
`NotesSeeEveryEdit` speaks of any program whose hooks' commands lint and which has no command
that fails its chain: when nothing is on its way any more, the notes shown are those of a
hook's command that has seen the last edit, or of a newer command of the user's. `MCEditor` has
programs in which the hooks' commands have chains, and in which the user's command is one
that highlights too (`LintChains`).

### Methods

Four modules for four methods, each with the calls of that method as actors, and
`Methods`, which lets a behaviour call one of them (they share no state).

* `Synchk`: `LookUpFile` and `ParseFile` are the two critical sections of `sa.lk` and
  `sa.mk`; the cache maps a text to the name it was parsed under. `ErrorsOf` is
  the loop of `synchk.go` that gives each error the name it was asked about.
* `PkgDirs`: a walk looks a path up in the cache (`LookUpPath`), asks the file system
  (`StatPath`), stores (`StorePath`) and opens (`Open`) in separate steps, while
  paths are removed, with all that is in them (`Below`), and made again. `Chosen` picks the file that stands for a package,
  from the names in any order.
* `PkgPaths`: `SendFile` and `CloseChan` are the walker, `ProcFile` and `GatherEnds` the gatherer,
  `Publish` and `EndPkgPaths` the joins. `Packages` is the reference: one pass over the
  tree (`PackagesOf` over its beginning).
* `Imports`: `Imp` edits the declarations as `imp` does (`Those` is the loop that leaves members
  out, `Missing` the `!imports` guard). A file that does not parse is left as it is, but may still
  ask for an installation of what could be read of it. `ImportsToggled` counts how often each path is imported
  (`Times`): as often as before, not at all if it was deleted, once if it was to be added and
  was missing then. `AutoInstall` is the `select` with a
  default, `TakeRequest`, `GoInstall` and `RequestDone` the goroutine, `MessageSent` the reader of
  `sendCh`.

## The runs

| run | instance | shows |
|-----|----------|-------|
| `proctable_safety` | 3 execs, 1 cancel, 1 cid, any kind of command | mutual exclusion, cancel, exit hook, `TableInv`, refinement of `CidSlots` |
| `proctable_live` | a `.play`, an exec, a cancel, 1 cid, fair | the temporary directory is there when needed and goes; every call returns if every command ends |
| `proctable_kill` | 2 execs, 1 cancel, fair | **violation**: the previous instance is never killed |
| `play_build` | a `.play`, an exec, 1 cid | **violation**: a build is not stopped by its replacement |
| `broker_calls` | 2 requests, 1 stream message each, `-wait`, fair | whole lines, WaitGroup, order of stream and answer, the goodbye comes last, every call finishes, refinement of `Responder` |
| `broker_channel` | 1 request, 3 posts, channel of 2, 1 poll, 1 read error | the calls' counter is never negative, order of posts |
| `broker_token` | 1 request | **violation**: an answer without the token |
| `stream_output` | every kind of call, 5 bytes of 5 kinds in pieces of 1 or 2, flush at 3, fair | output intact, aligned chunks, no match lost, bounded buffer, the end is last, what was gathered is sent |
| `mg9_requests` | 2 requests, one blocking, 2 margos, 1 death, 1 rebuild, fair | one callback, errors mean unsent, one server, it is read, every request is called back or known to be lost, blocking calls return |
| `mg9_install` | 1 request | **violation**: a request is sent while the installation goes on |
| `editor` | up to 3 edits by 1 thread or 2 by 2; every chain of two commands in each place and of each kind; nested chains; fair | no edit forgotten, one resumption, chains as documented and never stalled, newest highlights, which have seen every edit; everything ends |
| `margo_methods` | 2 calls of synchk on lists of 2 files; 2 of pkg_dirs on 3 paths; 1 of pkgpaths on 2 roots; 3 of imports on 2 declarations, or on a file that does not parse; queues of 1; fair | names of errors, complete walks, each import as often as it should be, C left alone, every call returns |

**Why the bounds are enough.** For a cid, three commands and a cancel are the least
in which a replaced, a replacing and a third command meet while a cancel waits;
cids do not interact except through private keys, which the instance has. In the
broker two calls suffice for two writers at once, and the hello message and the reader are writers
too. A channel of 2 with 3 posts fills, drains and fills again (the
code's is 100). A flush size of 3 in place of 32K is reached by one, two or three
chunks; 5 bytes are two rewritten lines and the start of a third. Two margos give a reader that
starts late another process to read. In the editor three edits give a burst, an edit
while the timer rings and one while the hook of the first has not answered; two threads
are what it takes to make two signals. A chain is continued by looking at its last command only,
so that two commands in one chain, or in two, and one chain inside another show every
transition. Two calls share a cache in both orders; a path removed once can come back between any two
steps of a walk; a queue of 1 with three requests is full, being served and refused (the
code's is 10).

**Fairness.** Goroutines and threads that can take a step do so (weak fairness per
goroutine, or per thread): Go's scheduler and the operating system run what is
runnable. The processes of commands are fair only if they are `finite`. Clients, users,
polls, posts, crashes and read errors are never obliged to do anything. In
`mg9_requests` a margo process is fair because `Broker` is. The editor's asynchronous thread
is one process with weak fairness (Sublime Text runs what was queued), timers ring, time
passes, and margo answers every `exec`, which is what `ChainsEnd` and `EditsAreLinted` depend on:
a command that never ends leaves its chain where it is. `Methods` is fair to the
goroutines of calls, not to `go install` nor to whoever reads margo's output. `Play`
lets every build end.

**Deadlock** is not checked: each system may stop (no more requests, margo gone,
a call answered). That no participant is stuck is what `CallsAnswered`,
`CallsFinish`, `OutputIsSent`, `AcallsAnswered`, `BcallsReturn`, `ChainsEnd`,
`EditsAreLinted` and `MethodsReturn` say.

## What the violations show

* `proctable_kill`: the last loop of `repl` (`EX/proc.go:63`) calls `kill(cmd)` where
  it waits for `c`. The settings (`GoSublime.sublime-settings:219-220`) promise that a previous
  unfinished instance is killed; one that survives two interrupts never is, and its
  replacement waits.
* `broker_token`: an unencodable response is replaced by one with only an error
  (`MG/broker.go:94`); `MG/USAGE.md:22` promises the request's token.
* `mg9_install`: `_install` says `done` before it kills the server
  (`gosubl/mg9.py:194`, `:212`); `CHANGELOG.md:392` says that requests wait for it.

* `play_build`: `mainCmd` runs `go build` itself (`EX/play.go:133`), before the call has an
  entry in the table: an instance that is being built is not stopped by the next one with its
  cid, nor by a cancel or the exit hook, and its program, when it is built, replaces the newer one.

Noticed while modelling, and not stated as a property because no document promises otherwise
or because the code in question is not modelled:

* A child command with errors in its definition (`gosubl/nineo.py:199-201`), or whose function raises,
  never resumes its parent: the rest of the chain and its callbacks do not run.
  `ChainsEnd` and `NoChainStalls` are about programs without such commands (`Sound`). The settings document `each` as
  `this ; cmd1 ; cmd2`, but tag the section on commands "N/I".
* The automatic installation looks for archives in `osArch + suffix` (`MG/g_autoinst.go:56`), the
  legacy import paths in `osArch + "_" + suffix` (`MG/m_import_paths.go:108`): with an install
  suffix no archive is found and every package is installed every time.
* `pkg_dirs` never forgets whether a path is a directory: `PkgDirsComplete` is about paths that
  keep their kind.

## The proofs

`ProcTableProofs` proves for any sets of execs, cancels and cids, of any size, from
`ProcTableAssumption` alone (execs, cancels, cids and `Nil` are distinct):

* `TableInvariant`: `Spec => []TableInv`. One step lemma per kind of action:
  `SetStepInv` for the actions that call `set`, `MoveInv` for those that only move a
  call on, and the cases of `NextInv`.
* `MutualExclusion` and `PrivateCommands`, which follow from the invariant.
* `CancelFindsIdleCid` and `HookKillsAll`, action properties: each step that returns
  from a cancel, or runs the hook, does so in a state where the invariant leaves
  nothing else to happen.
* `TableImplementsSlots`: every step of the table is a step of `CidSlots` or
  leaves it alone. The argument needs `OwnerStaysRegistered` for the removal, and
  `RunningIsAwaited` for the release of a slot whose command does not run any more.

`BrokerProofs` proves for any set of requests, any capacity of the channel and any
bounds, with and without `-wait`, from `BrokerAssumption` (the names of the other
goroutines and addressees are no requests):

* `CallsAreCounted`: `Spec => []WaitGroupCounts`. The invariant alone is not
  inductive: a line of `input` could name a call that is already in flight. `CountInv`
  adds `OnItsWay` (a request is on at most one line, and not accepted while it is) and
  that the calls in flight are finitely many. `FlightStarts` and `FlightEnds` count up and down; every
  other step of a call leaves the set alone (`MovesCount`, `FlightSame`).
* `StdoutIsWholeLines`: `Spec => []WholeLines`. `LinesInv` adds `MutexGuardsLines` (the number of
  pieces written is even exactly while the mutex is free) and that
  nobody sends a newline of its own; `WriteBodyLines` and `WriteNewlineLines` are the two
  steps that write.
* `TypesAreKept`: `Spec => []TypeOK`, from both invariants and `Bounded`: `wg.Done` never panics.
* `OutputPrecedesAnswer` and `PostsAreOrdered`: `Spec => []StreamBeforeAnswer` and
  `Spec => []PostsInOrder`. `SentInv` ties together what is on the wire, in `outbox`, in the channel and in
  `call`. Of a request (`AnswerInv`): before its answer, its bodies on the wire and the one
  that waits for the mutex are all that it has streamed; when the answer is on the wire, nothing of
  it waits any more. Of posts (`PostInv`): they are numbered from the wire through the
  hands of the taker to the end of the channel.
* `GoodByeIsLast`: `Spec => []WaitDrains`, from `ServedInv` (the counter counts the calls whose
  goroutine has started) and `DrainInv` (from the end of the wait on no call is in flight,
  so that the number in the goodbye stays right), which needs `CountInv`.
* `CallersAreAnswered`: `Spec => []CallersHear`, the part of `CallsFinish` that needs no fairness and what
  it means to have finished: the mutex is only ever held by a goroutine that has something to write
  (`SendersSay`), and a call with a token that is done, or refused, has been answered (`AnswerInv`).
* `BrokerImplementsResponder`: `Spec => AnswersOnce`. An answer is written only where
  `AnswerInv` says that there was none, to a request that has been accepted; every other step is
  one of `Responder` or leaves its variables alone.

`StreamProofs` proves for any kinds of calls, any flush size and any bounds, from `StreamAssumption`
(the bounds are positive, a switch matches no blanks and line ends), however the output is read:

* `ChunksAreAligned`, `MatchesAreKept` and `GatheredIsBounded`: `Spec => []` of the property of that
  name. The first follows from `PendingStartsLine`: what has left the sink ends where what is pending
  starts a line. `MatchesKept` is not inductive without `MatchesHaveChunks`: a flush that finds no chunk
  sends nothing and forgets the matches, which is harmless because there are none.
  `GatheredBounded` speaks of the concatenation of the chunks (`FlattenSeq`, a recursive
  definition): that its length grows by that of an appended chunk
  is an induction over data, done with the set of lengths for which it holds in the place of a predicate.
* `NothingIsSentAfterEnd`: `Spec => EndIsLast`, an action property. By `NothingAfterEnd` the buffer is empty
  once the stream has ended, and stays so: the timer's late flush finds nothing.
* `GatheredOutputIsAwaited`: `Spec => []GatheredIsAwaited`, the part of `OutputIsSent` that needs no
  fairness: as long as a streaming call has gathered something, its stream is open and its timer runs, or
  rings in a goroutine that has not gone. `TimerInv` says the same of every streaming call whose stream is open,
  gathered or not: each flush, from whichever thread, starts the timer anew.
* `ScreenIsIntact`: `Spec => []OutputIntact`. `Shown(Out)`, the screen of what has left the sink, has to show
  the lines of what was printed before the pending bytes; it may differ in the column. That is kept
  (`ScreenInv`) because the next chunk starts a line, which puts the column back (`LineStartsAnew`),
  and because the chunk gathered last, if it was rewritten, is a carriage return and one line
  (`RewritesLine`): writing two such lines is writing the one that lies over the other
  (`LineOverwritten`, `OverlayTwice`, `RewrittenShown`). That a chunk is one line is where the proof needs that no
  indented line follows a carriage return (`CutRewrites`), as the property has it.
  `SinkInv` ties `printed` to `pending`: none is left after the sink is closed.

`Mg9Proofs` proves for any set of requests and any number of margo processes, from `Mg9Assumption`:

* `OneMargo` and `CurrentMargoIsRead`: `Spec => []OneServer` and `Spec => []CurrentIsRead`, from
  `ServerInv`. Three threads kill the server; that none of them leaves one behind depends on
  whoever closes the pipes of a process taking it out of the attribute first (`NamedAreOpen`), and on the
  attribute naming none while the sender starts the next (`NoneWhileStarting`).
* `CallbacksAreCalledOnce` and `ErrorsAreOfUnsent`: `Spec => []CallbackOnce` and
  `Spec => []ErrorMeansUnsent`, from `RequestInv`: a request is in one place at a time, the queue or the
  sender's hands (`SenderHas`), a process and its pipes (`MargoHas`), or what has been read
  (`ReceiverHas`), and as long as it is in one its callback has not been called.
* `RequestsAreNotLost`: `Spec => NoRequestIsLost`, the part of `AcallsAnswered` that needs no fairness. A request
  that somebody has who is going to see to it (`Placed`: the queue or the sender, the process it was sent
  to, or the receiver, which finds it in `handlers`) goes from one to the next until its callback has been
  called, or until it is beyond answering: its margo has gone, or has answered without its token
  (`Unanswerable`, the exceptions of `AcallsAnswered`). `RegisteredInv` has what that takes: what
  has been sent stays registered until it is called back, and was sent to a process that was started by then.
* `BcallersGetTheirOwn`: `Spec => []BcallsGetTheirOwn`: what `bcall` returns, when it is not a timeout, is the one
  outcome of its own request, however late the answers of others come.
* `InstallationIsAwaitedFrom`: `Spec => []BusyMeansBuilding`: the sender's loop waits while the state is
  `busy`, and whenever it is, some thread is building margo that will end that.

`PlayProofs` builds on `ProcTableProofs` and proves, for any set of calls of `.play`, from
`PlayAssumption` (they are exec calls) and the table's own assumption:

* `PlayInvariant`: `PlaySpec => []PlayInv`. A `.play` gets its cid and its place in the table
  in two steps, which are no steps of `ProcTable`: `ArrivalInv` shows that they keep `TableInv` as
  long as the call is idle there, which `PlayInv` adds with what is known of its
  directory. The other steps are the table's (`NextInv`) or leave it alone.
* `DirectoriesAreRemoved` follows with `RunningIsAwaited`: a program that runs has a call that has
  not answered. `PlayedProgramsExclude` and `PlayImplementsSlots` carry mutual exclusion and
  the refinement of `CidSlots` over.

`SignalProofs` proves for any set of callers and any bound on the calls, from
`SignalAssumption` (no caller is the name for no signal):

* `SignalInvariant`: `SignalSpec => []SignalInv`, one lemma for each action. `NothingForgotten` is
  not inductive without `OneTimer`: that `_sched` may leave the timer alone when the flag is up
  depends on the flag's being up only while there is one, and that `Fire` may forget what it has
  read on `heard` being all the calls so far (`DeadlinesAreCalls`).
  `FiresBounded`, a part of it, says that the listeners are not called more often than the signal.
* `TimersAreSingle` and `CallsAreNotForgotten` are its conjuncts.

`EditorProofs` carries them over: `EditorImplementsSignal` shows that every step of the
editor, whatever the engine does in the thread they share, is a step of the signal or leaves
it alone; `EditsAreNotForgotten` and `EditorTimersAreSingle` follow for any set of programs.

It then proves the engine's promises, for any set of programs that `NineoAssumption` admits, any
hooks, and any answers of margo:

* `EngineIsConsistent`: `EditorSpec => []EngineInv`. `EngineTypes` has the types; `PlacesInv` says that
  commands are started in their turn: one whose turn is to come (`Coming`) is fresh, which
  together with `StartedOnce` keeps two places of a program from starting the same command.
  `ResumeInv` is what makes resumption single: a command that `c` has started and that is
  still running is the one that `c` is at, and then `c` is neither in the queue nor awaits an answer. The
  steps that start or end commands reach several of them: `StartKeeps`, `MoveKeeps`,
  `CallbackKeeps` and `NextAppended` say once what each does to the rest.
* `GeneratorsAreResumedOnce` and `HighlightsAreNewest`: `[]ResumedOnce` and `[]NewestHighlights`; the latter
  with `HlInv`: what is shown has the sequence number of the last clearing, no queued
  highlighting is forgotten, and numbers are handed out once.
* `ChainsDoAsDocumented`: `EditorSpec => []ChainsAsDocumented`, from `ChainsInv`. For every command: the
  commands of a chain before the place it is at have ended (`Behind`); of `all` and `any` it is in the
  one that its own result calls for, and those before its place have that result (`Within`); beyond
  it, the last one started gave its result or ended the chain, and none after it has begun
  (`Passed`); when it has ended, so has all of `each` (`EachEnded`).
* `ChainsDoNotStall`: `EditorSpec => []NoChainStalls`, the part of `ChainsEnd` that needs no fairness: when
  the queue is empty and margo owes no answer, nobody is left in the middle of a chain.
  `LiveInv` says that a generator that has begun and not ended is in the queue, is awaited from
  margo, or waits for a command that it has started and that runs. That such waiting
  never closes on itself is `SeqInv`: a command's number is larger than that of the one that started it,
  so that the newest of the waiting commands would wait for one that is newer still (`Greatest`, from
  the library's theorems on finite sets).
* `NotesAreOfTheLastEdit`: `EditorSpec => []NotesSeeEveryEdit`, which joins the signal's proof to the
  engine's. Every edit is still to be heard, or a call of the hooks is queued, or the
  hook started last has seen it (`EditInv`), which when all is quiet leaves the last
  (`NothingForgotten`); that hook is the newest (`HooksInv`, from `SeqInv`) and has ended
  (`NoChainStalls`); nothing is queued but steps of generators, calls of the hooks and
  highlights (`EngineQueue`), so that its own highlights have been done, and by `HlInv` and `ReportInv`
  what is shown is what the command that cleared the notes last has found, and is not older.

`MethodsProofs` proves the promises of the four methods, for any number of calls, files, paths and
roots, whatever the other methods do meanwhile:

* `ErrorsNameTheirFiles`: `MethodsSpec => []SynchkNamesFiles`, from `SynchkInv`: what a call has
  still to check is the end of its list, and its errors are those of the beginning. What the
  cache holds does not matter, because `ErrorsOf` names each error anew.
* `WalksAreWhole`: `MethodsSpec => []PkgPathsWhole`, from `PathsInv`. For each call and root, `PassInv`
  says that the gatherer has what one pass finds in the part of the tree that is neither in the
  channel nor to be walked; `JoinInv` that each goroutine ends after the one it waits for, and
  the result is published with its end.
* `PackagesAreFound`: `MethodsSpec => []PkgDirsComplete`, from `DirsInv`: what a call has not found of
  the packages that have been there all the time is below a name that it has still to look at, or
  below the path it is at (`Covered`), and no two of these are one below the other
  (`Apart`), so that nothing is found twice. Of the cache it needs that whatever it has of a path
  is what the path is (`FilesInv`). That paths form a tree (`Acyclic`, `Siblings`) follows from
  `PkgDirsAssumption`: every path is below the root.
* `TogglesAreExact`: `MethodsSpec => []ImportsToggled`, from `ImportsInv` (what a call has edited is
  what `Imp` makes of its file) and `ImpToggles`, which counts for any declarations how often `Imp`
  leaves each path imported. The places of a path in the declarations before and after a step of
  `imp` are matched one to one (`SameNumber`, with the places that `Selects` gives): `DeletedAreGone` for
  the loop over the declarations, `NewImports` and `NewDeclaration` for what is added, where the
  `!imports` guard and `NoneTwice` make it one, `EmptyDropped` for the last loop. `ImportsAssumption` has it that the editor never adds the
  package called C: it offers none of that name.

`Chosen`, `Packages` and `Those` are folds, which the library defines with a recursive function on sets of
indices. That such a function exists, and what it says of the last index, is proved with the set
of lengths for which it holds in the place of a predicate (`FoldExists`, `AddsExists`).

Only model-checked: the liveness properties, `CallsAnswered`, `CallsFinish`, `OutputIsSent`,
`AcallsAnswered`, `BcallsReturn`, `EditsAreLinted`, `ChainsEnd` and `MethodsReturn` (fairness and
`ENABLED` are beyond the prover). Every invariant, action property and refinement that a
run checks is a theorem. `CallersHear`, `GatheredIsAwaited`, `NoRequestIsLost`, `BcallsGetTheirOwn` and
`BusyMeansBuilding` say what the liveness properties of their modules come to without fairness; no run lists
them, but TLC checked each on the instance of its module's run before it was proved. `PrivateCommands` is a conjunct of `TableInv`, which
`proctable_safety` checks; `OneTimer` is one of `SignalInv`. Every inductive invariant was checked by TLC on the instances of the runs
before it was proved.

## Not modelled, and why

* Stateless methods (`Broker`'s `Return`, whatever they compute) and the method registry
  (read-only once margo runs).
* How a command is resolved (`Cmd.merge`, variables, `gs.which`): one thread's recursion
  over the user's configuration. `Programs` has what comes out of it.
* Tasks, status lines, views, menus and the drawing of highlights: calls of Sublime Text.
* `gosubl/gspatch.py`, `gosubl/sh.py` and settings: single-threaded text and environment handling.
* The legacy walk of import paths: one goroutine, no shared state.
* The gocode bridge: one mutex around a call of borrowed code.
* What a request for an installation without imports reads instead, a file `a.go` in margo's working
  directory (`MG/g_autoinst.go:39`): `Imports` takes it to be absent.
* Windows variants of signals, the building of command lines, `go test`'s output, regular
  expressions and their cache.
* Borrowed and vendored code (gocode, blake2b, go.tools, diff_match_patch), which is most of
  the lines under `src/`.
* Moments that no source line says anything about: memory exhaustion's effect on running
  commands (`MG/oom.go:29`), a read error that persists (`MG/broker.go:151`), and an exception
  in `build_mg` (`gosubl/mg9.py:192`).

## Plan

What is left, in the order of what it would add:

1. `Mg9`: handlers that stay registered, and margo processes as instances of `Responder`.
2. `Cmd.merge` (`gosubl/nineo.py:84-196`) as operators against a reference definition.
3. Composition: `ProcTable`, `Stream` and `Broker` under one exec call, seen from `Mg9`.
