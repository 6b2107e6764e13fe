# TLA+ models and proofs for h2stream

h2stream multiplexes byte streams over one connection with HTTP/2 framing. It is
the server code of `golang.org/x/net/http2`, reduced to streams and made
symmetric, so that either side may open streams. This directory holds a model of
one session and of the parts it is made of, the instances that TLC checks, and proofs
about the session, its flow control, the body of a stream and the priority tree.

## The system

| Part | Source | State | Operations |
|---|---|---|---|
| session | `session.go` | streams, stream counters and identifiers, windows, write flags, GOAWAY flags, shutdown timer | handshake, select loop, createStream, newStream, closeStream, goAway, Close |
| frame writing | `session_write.go`, `write.go` | `writingFrame`, `writingFrameAsync`, `needsFrameFlush`, `inFrameScheduleLoop` | writeFrame, scheduleFrameWrite, startFrameWrite, wroteFrame, sendWindowUpdate |
| frame reading | `session_read.go` | `sawFirstSettings`, peer settings | readFrames, one handler per frame type |
| stream | `stream.go` | state, windows, body, `replied`, `resetQueued`, `readyCh`, `cw` | Write, CloseWrite, Reply, WaitForReply, Close, Read |
| write scheduler | `writesched.go`, `writesched_priority.go` | one queue per stream, the root's queue, the priority tree | OpenStream, CloseStream, AdjustStream, Push, Pop, Consume |
| flow | `flow.go` | one int32 window per stream and per session, both ways | available, take, add |
| pipe | `pipe.go` | mutex, condition variable, the two errors, the channel of Done | Read, Write, CloseWithError, BreakWithError, Done |
| data buffer | `databuffer.go` | chunks, read and write position, size | Read, Write |
| the rest | `gotrack.go`, `utils.go`, `types.go`, `session_log.go`, `session_config.go` | - | debugging checks, small helpers, configuration |

Goroutines. *serve* owns the session and runs one handler per case of its
`select`. *readFrames* hands it one frame at a time and waits at a gate until the
frame is done with. *writeFrameAsync* writes one frame and reports on
`wroteFrameCh`. The *application* calls from goroutines of its own: it puts frames
into `wantWriteFrameCh` and messages into `serveMsgCh` (both of capacity 8) and waits for a
result, for `cw` (the stream is closed) or for `doneServing`. A timer ends the
session after GOAWAY.

What is hard here:

- `scheduleFrameWrite`, `wroteFrame`, `closeStream` and `sendWindowUpdate` call one
  another. Two flags decide whether an inner call may start a frame, and state
  read before such a call may have changed after it.
- A frame is queued, started, written and reported in four different steps, and
  between them the peer or another goroutine may end, reset or close its stream.
- Windows change through WINDOW_UPDATE, SETTINGS and data in any order, may become
  negative, and are 32 bits wide.
- The application reads `state`, `resetQueued`, `replied` and `sawFirstSettings` without
  a lock.
- A session ends by GOAWAY, by an error, by its timer, by the peer or by Close,
  while calls are waiting.

What makes the parts correct:

- writing: one frame at a time, a legal order of frames per stream, no frame
  left behind while it could be written;
- streams: counted once, closed once, identifiers never reused, the peer's limit kept;
- flow control: windows equal to the ledger of credit and bytes, both ways;
- shutdown: a session ends when it must and not before, and every call returns;
- scheduler: a tree at all times, bounded, and every queued frame within reach of Pop;
- pipe: every byte read once and in order, the error where it belongs, no lost wake-up.

`PROJECT.json` lists each such hazard with its line and the properties for it.

## The modules

| Module | Models | Used by |
|---|---|---|
| `Flow` | `flow.go`: windows of a chosen width with the wrap-around of int32 | all |
| `SendWindow` | the outbound ledger: Consume, WINDOW_UPDATE, SETTINGS_INITIAL_WINDOW_SIZE, newStream, closeStream | `Session`, runs, proofs |
| `SendWindowProofs` | theorems about `SendWindow` | `SessionLedger` |
| `SessionBase` | the state of a session and of the goroutines around it | `SessionWrite` |
| `SessionWrite` | the write side of serve | `SessionRead` |
| `SessionRead` | readFrames and serve's frame handlers | `Session` |
| `Session` | serve's loop, the API calls, the timer, the composition, the properties | `MCSession` |
| `SessionTypes`, `SessionStack`, `SessionStreams`, `SessionQueues`, `SessionLedger` | theorems about `Session` | each other, in this order, except that the last two both build on `SessionStreams` |
| `MCSession` | instances: what the application calls and what the peer may send | runs |
| `WriteScheduler` | the interface of `writesched.go`, as an abstract specification | `Session`, `PriorityScheduler` |
| `PriorityScheduler` | `writesched_priority.go`: the tree, retained nodes, PRIORITY, the walk of Pop | runs |
| `PrioritySchedulerProofs` | theorems about `PriorityScheduler` | - |
| `ByteStream` | what the comments of `pipe.go` promise, as an abstract specification | `Pipe` |
| `DataBuffer` | `databuffer.go`: one iteration of its loops per operator | `Pipe` |
| `Pipe` | `pipe.go`: the mutex, the condition variable, readers and writer | `MCPipe` |
| `PipeProofs` | theorems about `Pipe` and `DataBuffer` | - |
| `MCPipe` | an instance of `Pipe` | runs |

**Granularity.** serve is modelled as a call stack: the variable `pend` is the sequence of
calls that serve has still to make before it is back in its `select`. A handler
runs in one step up to the calls that it makes; each of those is a step of its
own, so that the other goroutines see serve in the middle of its recursion, and so
that `closeStream` inside `wroteFrame` inside `scheduleFrameWrite` is really what
the code does. The end of a handler, with `readMore` and the test that arms the
shutdown timer, is always on the stack behind it.

**State.** `sc` has the fields of `Session`; `st[id]` the fields of the stream object;
`q` the scheduler's queues, with the root's under 0; `want` and `msgs` the two channels;
`call[c]` how far the application's call c has come; `writer` and `reader` the two
goroutines; `life` the ends of the session. `sent`, `panic`, `life.fatal`, `st[id].read` and the ledger (`inc`, `spent`, `connInc`,
`connSent`, `misgrown`) are history: the frames started on a stream, why the program died, whether an error
was met, the bytes read, the credit granted and spent. A panic is a state of the model, and every property says
which panics it excludes. `st[id].stale` marks a stream object that was closed and
whose state field `endStream` has overwritten: it stays out of `sc.streams`.

**Data races** are choices: Reply is two steps, the test of `replied` and the close of
`readyCh`; ResetWithError reads serve's fields in any of its intermediate states; Close may
see `sawFirstSettings` as it was before the handshake.

**Abstractions.** A DATA frame is its length, padding and END_STREAM. Header blocks,
error codes other than "none or some", and the bytes of frames are left out. Whether a frame
fits the write buffer is a choice, except for the kinds that never do. In `Session` the
scheduler is what `writesched.go` promises of every scheduler: the
root first, frames of one stream in order, any ready stream next; RST_STREAM on an
unknown stream may go to the root or to a retained node. The tree has a module of its own
(below). The body of a stream is a number of bytes in `Session`, and a pipe in `Pipe`. The queued WINDOW_UPDATE
and its effect on the inbound window are one step. `http2.Framer` is external: what it refuses
reaches serve as one of four kinds of error.

**The tree.** `PriorityScheduler` keeps the links (`tree`: the parent of each node, the list of its kids)
apart from the other fields (`node`), the keys of `ws.nodes` (`known`), the two lists of retained nodes
and the queues. A node that was removed keeps its links, because nodes may still hang below it.
`open` and `used` are the caller's knowledge: which streams are open, and which identifiers may be
opened next. The windows are an input of Pop: any set of streams may be blocked, any number of bytes
allowed. Kids are sorted by the walk, as in the code, with the insertion sort that `sort.Sort` is for short
lists and with Less as it is, which is not an order when weight 255 wraps to 0.

**The pipe.** Taking the mutex and looking is one step; one iteration of the buffer's loops is one step with
the mutex held. Byte number i is the number i, so a byte that is lost, repeated or read from beyond the write
position shows. A chunk from the pool is filled with `Junk`.

## Refinement

Three specifications are abstract: they say what components promise, and detailed ones implement them.

- `WriteScheduler` has one queue per stream and one for the root: frames of one queue leave in order, the root's
  first, a frame that is sent in part keeps its place, CloseStream drops the queue of its stream and of no other open one,
  and which frames may be pushed where. `PriorityScheduler` implements it with the identity as mapping
  (`Implements`): the tree is only an order. `Session` implements it too (`ImplementsScheduler`), where a stream is
  open from newStream until the end of closeStream: whatever serve's nested calls do, they use the scheduler as its
  interface allows; `SessionQueues` proves that for every instance. `Session` therefore makes no use of the tree that the interface does not allow.
- `SendWindow` is the outbound flow control alone. `Session` implements it (`ImplementsSendWindow`, in the run `flow_control`): through the
  nested write loops, resets and closing streams the windows change only as `SendWindow` says, so that the ledgers proved of it
  are the session's; `SessionLedger` proves that for every instance. The credit and the bytes of the ledger are history fields of `sc` and `st`.
- `ByteStream` is a sequence of unread bytes, two flags and the results of Read, without locks or chunks. `Pipe`
  implements it (`Implements`). A Write takes effect when it takes the mutex, a Read when it returns: the unread bytes
  are what a Read in progress has copied, then the buffer's contents, then what a Write in progress has not
  copied yet. `PipeProofs` proves this refinement for any readers, sizes and chunks.

## Runs

Each passing run asks one question of one instance. Widths are scaled: `MaxInt32` is 3 or
7 and windows are 2 or 3, so that sums overflow, windows go negative and data is
split within a few steps. Channels hold 1 or 2 messages, so that they fill up.
The peer sends `PeerBudget` frames of a small set in any order and may vanish at any moment.

| Run | Instance | Shows |
|---|---|---|
| `send_window` | two streams, windows of 3 bits | `StreamLedger`, `ConnLedger`, `NeverOverruns`: the int32 windows are the exact ledger |
| `client_streams` | OpenStream, a write with END_STREAM and an OpenStream with no identifier left, on goroutines of their own, channels of capacity 1; padded DATA with END_STREAM, RST_STREAM, a lost connection | `OneFrameAtATime`, `OpensWithHeaders`, `BlockedCallReturns` |
| `server_streams` | a handler that replies, then writes END_STREAM while another goroutine writes on the stream and resets it, channels of capacity 1; padded DATA, trailers, self-dependency, RST_STREAM; a session window above the default | `ResetIsLast`, `EndIsLast`, `StreamCount`, `ClosedIsFinal`, `InflowAccount`, `NoInternalError`, `ImplementsScheduler` |
| `flow_control` | four bytes against windows of two; SETTINGS and WINDOW_UPDATE that shrink, grow and overflow them | `TypeOK`, `NoLostWakeup`, `ImplementsScheduler`, `ImplementsSendWindow` |
| `frames` | every kind of frame and of read error, before and after SETTINGS; two OpenStream calls against a limit of 1, a reply that is awaited with a deadline, a stream of the peer | `IdsAreFresh`, `WithinPeerLimit` |
| `shutdown` | Close, a connection error and a served stream, channels of capacity 1 | `GracefulWaits`, `ErrorEnds`, `GracefulEnds`, `HandshakeEnds`, `AllReleased` |
| `priority` | three streams of both sides, lists of retained nodes of length 1, three calls of Push and AdjustStream, weights that wrap | `TreeIsSound`, `KnowsOpen`, `RetentionBound`, `OnlyRemovalDetaches`, `Implements` |
| `pipe` | two readers, slices of 1 and 3, writes of 1, 3 and 5 bytes up to 7, chunks of 2 and 4 | `BufferAccount`, `WasteBound`, `NotAllAsleep`, `DoneTells`, `Implements`, `SomeReadReturns` |

Why the bounds are enough: the properties are about one stream or about two streams
sharing a connection; every nesting of the write loop occurs with one
stream that is written, reset and ended by both sides; two frames of the peer
after SETTINGS reach each handler in each state of such a stream. In the tree, three streams are what an
inversion needs (a stream, its new parent below it, and a bystander that an exclusive move takes along), and
lists of length 1 make every second closed or idle stream an eviction. In the pipe, writes of 5 bytes span two chunks,
reads of 3 end in the middle of one, and two readers are what a wrong Signal needs.

`priority` uses `CarefulSpec`: the peer's PRIORITY frames never evict the node of an open stream. The code does
not prevent that (below), and no promise of a scheduler holds after it. `OnlyRemovalDetaches` says that the one known way to
lose a subtree, removing a node with several kids, is the only one: `shed` records that it has happened.

Deadlock is checked, except in `shutdown` and `fatal_in_shutdown`: there a session
that is shutting down and has lost its reader really waits for ever, which is the
finding of the latter.

**Fairness** (`FairSpec`). Goroutines that can run do run (Go's scheduler): serve, the
reader at its gate, calls in progress. Timers expire, and so does the handshake's deadline,
after which ReadFrame fails; a closed connection makes ReadFrame fail. The
transport takes what writeFrameAsync writes: that is an assumption about the
peer, since after the handshake there is no write deadline - a peer that stops reading
keeps a session from ending. In `Pipe`, a goroutine that asks for the mutex again and again gets it (strong
fairness: `sync.Mutex` hands over to a waiter that has waited long), and nobody is assumed to write, close or read. Nothing is assumed about what the peer sends or when the
application calls or reads.

## Where the code and its comments disagree

Each of these is a run whose only property states what a comment or an
assertion says, and which TLC violates. `PROJECT.json` quotes the lines.

| Run | What happens |
|---|---|
| `padded_end` | closeStream runs the write loop before it drops the stream's queue; a WINDOW_UPDATE that waits there makes serve panic |
| `fatal_in_shutdown` | a connection error during a graceful shutdown is dropped and the session stays |
| `read_bytes` | bytes that the application reads are never given back to the peer |
| `lost_subtree` | removeNode moves only the first of several kids up; the frames of the others are never popped |

The model also reproduces the following, for which no run of its own is kept; the
hazards of `PROJECT.json` name most of the lines.

- With a negative window `flow.add` computes the room left in int32, which overflows, and refuses every
  WINDOW_UPDATE (`flow.go:46`).
- A write that closes its stream may return errStreamClosed although the frame was written (`session_write.go:103`, `287`).
- An idle node stays in `idleNodes` when its stream is opened; PRIORITY for ten more idle streams evicts it, its frames
  are dropped and CloseStream panics (`writesched_priority.go:263`, `438`).
- Weight 255 counts as 0 (`writesched_priority.go:217`), `subtreeBytes` is not moved with a subtree (`101`, `109`), and
  siblings of equal weight are served newest first, whatever they have sent (`183`).
- After a close only one of several blocked readers is woken (`pipe.go:113`).
- A second writer's frame queued behind END_STREAM makes serve panic (`session_write.go:218`).
- Close behind a write that waits for window never closes the stream (`stream.go:131`).
- With IdleTimeout set, closing the last stream dereferences a nil timer (`session.go:516`).
- A configured session window above the default is counted twice (`session.go:130-134`, `364`);
  `InflowAccount` takes the doubled value as the window at the start.
- OpenStream works after GOAWAY was received (`session_read.go:414`).
- CloseWrite resets the stream instead of half-closing it (`stream.go:126`, `session_write.go:285`).
- Reply and a second HEADERS frame may close `readyCh` twice (`stream.go:151`).

## Proofs

Everything below is proved for every value of the constants that satisfies the assumptions of the modules
(`MaxInt32Assumption`, `SendWindowAssumption`, `SessionAssumption`, `SizeClassesAssumption`, `PipeAssumption`,
`PriorityAssumption`): any width of the windows, any configuration whose windows fit that width, any set and order of application
calls, any frames of the peer in any number, any channel capacity of at least 1, any number of streams, readers, chunk sizes
and retained nodes. TLC evaluates the assumptions on every run.

### The outbound ledger: `SendWindowProofs`

- `TypeCorrect`: windows stay int32 values;
- `StreamLedgerHolds`, `ConnLedgerHolds`: the windows are the ledger;
- `NoOverrun`: no DATA byte is sent without credit on its stream and its connection.

A stream's ledger holds until one of the windows refuses a new initial size: the code then leaves some windows grown
and others not, and reports a connection error. What the theorems say of the connection window holds after that too.

The inductive invariant `Inv` is the conjunction of `TypeOK`, `StreamLedger`, `ConnLedger` and one strengthening, `Debt`.
The ledgers alone are not inductive: SETTINGS may lower the initial size below what has been sent, so a
window may be negative, and nothing would keep the lowered window within int32.
`Debt` says how far it can fall: on an open stream, while no window has refused a new initial size, the granted increments are at
most `MaxInt32` less than the bytes sent, because a stream never sends more than it was
granted under *some* initial size; on a stream not yet opened both are 0. From it the lemmas about `Wrap32`, `addOK` and `added` give that the
32-bit sum is the exact sum.

### The session

| Theorem | Module | States |
|---|---|---|
| `TypedHolds`, `TypeCorrect` | `SessionTypes` | every frame under way is well formed and names a stream that was created; `TypeOK` |
| `DisciplineHolds`, `WritesOneFrame`, `WriteLoopAsserts` | `SessionStack` | at most one scheduleFrameWrite loops; `OneFrameAtATime`; three assertions of the write loop never fail |
| `CountsStreams`, `IdsUsedOnce`, `KeepsPeerLimit` | `SessionStreams` | `StreamCount`, `IdsAreFresh`, `WithinPeerLimit` |
| `HandlersFinish`, `ShutdownWaits` | `SessionStreams` | the timer of a graceful shutdown is armed only when no stream of the peer is left; `GracefulWaits`, if nobody calls OpenStream |
| `ClosesForGood`, `HeadersComeFirst`, `UsesScheduler`, `NothingFollowsReset` | `SessionQueues` | `ClosedIsFinal`, `OpensWithHeaders`, `ImplementsScheduler`, `ResetIsLast` |
| `NeverSleepsOnWork`, `NothingFollowsEnd` | `SessionQueues` | `NoLostWakeup`, `EndIsLast`, unless goAway dropped a connection error |
| `InflowAccounted`, `AssertionsHold` | `SessionLedger` | `InflowAccount`; `NoInternalError`, if the doubled session window fits an int32 |
| `KeepsLedger`, `WindowsAreExact`, `NothingBeyondCredit` | `SessionLedger` | `ImplementsSendWindow`, and with it the ledgers and `NeverOverruns` for the session |

Each builds on the ones above it.

*`Typed`.* `TypeOK` is not inductive. When Consume splits a DATA frame, what is left is a natural number only if the
frame has a stream to take from, hence if no DATA frame is queued for the root; so only RST_STREAM may be
queued for a stream that is not there, and every frame in a channel, on serve's stack, in a queue or with writeFrameAsync must
name a stream that was created. `Typed` says all of that. Each action has a lemma.

*`Discipline`.* The flags `writingFrame` and `inFrameScheduleLoop` are related to the call stack: below a call that runs at
once (wroteFrame, closeStream, the handshake, the exit) there is at most one loop of scheduleFrameWrite, and there is one exactly
when the flag says so, and the rest of one stream's closeStream is there at most once; a frame is being written exactly when writeFrameAsync has it or wroteFrame is about to run. That
closeStream finds its stream in the map follows from it.

*Streams.* Most actions leave alone what the counts, the identifiers and the windows depend on. `Quiet` says so, and one
lemma per action shows it; the few others (`Loud`) are treated one by one. With `Discipline`, closeStream is only called of
a stream that is in the map, so the count goes down once per stream.

*`Closure`.* closeStream marks a stream closed, runs the write loop (through sendWindowUpdate), and only then drops the queue and closes the body and `cw`.
`ClosedIsFinal` speaks of serve in its select; the invariant says of every other state that a closed stream is
finished or the rest of its closeStream is still on the stack, however deep. What is pushed for it meanwhile goes with its queue; what is
pushed later is RST_STREAM.

*`HeadersFirst`.* While nothing was sent on a stream of this side, its HEADERS or an RST_STREAM come before any DATA or
WINDOW_UPDATE in its queue, or the HEADERS are about to be queued.

*`Untold`* is what the refinement of `WriteScheduler` needs: while the rest of a closeStream is on the stack, `cw` is not
closed, so that the scheduler still has the stream and CloseStream is called of an open one, once. It rests on `Discipline`, which has that call on
the stack at most once per stream. A frame that writeFrame does not ignore is RST_STREAM or of a stream that is in the map, hence open for the
scheduler; and the bytes that Consume leaves of a DATA frame are at least one, because Pop only serves a queue whose window is not empty.

*`ResetCloses`.* A stream on which RST_STREAM was started is closed, or the frame is still with writeFrameAsync, or wroteFrame or closeStream is about
to run for it. In the last three cases the write loop is not running (`LoopNotBusy`), and once the stream is closed startFrameWrite stops
the program on any frame but RST_STREAM.

*`Awake`* is what `NoLostWakeup` says of every state and not only of the select: while a frame could be started, a flush or a
control frame is due, and none is being written, some call that looks at the queues (the loop, the end of wroteFrame), or that leads to one
(processSettings, the goAway of an error), is on the stack. Each action either wakes the loop (`Woken`), or gives it nothing to do
(`Dozes`), or is one of the few in between: SETTINGS change windows one value at a time and schedule only at the end. The hypothesis `Heeded` of the theorem,
that a connection error was told to the peer, is where the code breaks the rule: goAway returns early if a graceful
GOAWAY was sent, so SETTINGS that enlarge a window and then fail leave frames that nothing starts. A fatal
error that is dropped in this way is the finding of `fatal_in_shutdown`.

*`Finale`* is the invariant of `NothingFollowsEnd`. `LastEnd` is like `ResetCloses`: once END_STREAM was started, the stream is
`halfClosedLocal` or closed, or the result of the write is still to be handled, and meanwhile no frame is started; startFrameWrite lets nothing but
WINDOW_UPDATE and RST_STREAM pass on such a stream. It is not inductive: endStream sets `halfClosedRemote` whatever the state was, and would
reopen a stream for writing. processData and processHeaders only call it of a stream that is open or not being reset;
`HalfClosed` says that a `halfClosedLocal` stream is being reset, or is about to be (`markReset` on the stack). But DATA returns the credit of its padding first, and
the write loop that this starts may finish this side's END_STREAM before endStream is called. `HalfEnd` says that it does not: while endStream is on the
stack, a frame is with writeFrameAsync all the time, or the loop has no HEADERS or DATA of that stream that it could start (`Stuck`), because serve was in its select before
(`Awake`), and the calls that are made meanwhile (`Companion`) neither queue such frames nor enlarge a window (`Shrink`). So the
theorem needs `Heeded` too.

*`TimerWaits`, `NoneLeft`.* The timer of a graceful shutdown is armed at the end of a handler, when no stream is open. Afterwards the
peer opens none, since serve ignores HEADERS of new streams in GOAWAY (`HandlersFinish`). OpenStream does not look at GOAWAY, so
`ShutdownWaits` has the hypothesis that no call of the application opens a stream.

*`Account`*. The connection's inbound window, what its streams hold (unread, or read and not yet returned), and what calls on the
stack are about to return, add up to `InitialSessionWindow` plus the surplus that serve grants when it starts. What a call
owes is a sum over the stack, what streams hold a sum over the streams; every action moves credit from one place to another or
leaves it where it is. `InflowAccount` is the case of an empty stack. With it no credit that is returned can overflow
a window (`CreditFits`), a stream's own by `StreamAccount`: it stays within `InitialStreamWindow`, and its credit is on the stack at most once. This is the last part of
`AssertionsHold`: panics of the write loop are excluded by `Discipline`, and "sent too many window updates" by the account.
`RoomForSurplus` is a condition on two constants, which a configured session window above about 2^30 does not satisfy.

*`LedgerInv`* is `Inv` of `SendWindowProofs`, under the refinement mapping, and `Budget`, which bounds the increments by what the
peer has sent. The refinement is proved under the hypothesis that startFrameWrite's assertion "write on a closed stream" has not
failed: the step that fails it has charged the windows for a frame it does not write, which `SendWindow` has no step for. The run
`padded_end` shows that the assertion can fail. `WindowsAreExact` states the same without a temporal hypothesis: the ledgers hold in every state in which
the assertion has not failed.

### The pipe: `PipeProofs`

`TypeCorrect`, `SizeIsExact` (`BufferAccount`), `WasteIsBounded` (`WasteBound`), `SignalIsNotLost` (`NotAllAsleep`), `DoneIsTold` (`DoneTells`), and
`PipeIsByteStream` (`Implements`): the pipe is a `ByteStream`.

The invariant `Inv` has five parts besides `DoneTells`: types; `Waiting`, the condition variable's list is exactly the readers that wait, each once;
`Reads`, what a Read holds in each of its stages, and that one reader at most copies, with the mutex; `Holding`, when the writer has the mutex and when
the buffer is given up; and `Sound`, the data buffer's positions: `r` lies within the first chunk, `w` within the last, and
`size + r` is the number of bytes in all chunks but the last plus `w`. The contents of a buffer are the concatenation of its chunks
(`FlattenSeq`), cut at both ends. What that concatenation is, is proved by induction on the number of chunks: `SetInduction` gets induction on
the natural numbers, for a set instead of a predicate, from the well-foundedness of the strict subset ordering.
From there `AllocKeeps`, `WriteKeeps` and `ReadKeeps` say what one iteration of the buffer's loops does to the contents, and each step of the pipe is a step
of `ByteStream` or a stutter.

### The tree: `PrioritySchedulerProofs`

`TreeIsBounded` (`RetentionBound`) holds of `Spec`, with a peer that may do anything; `FindsOpenStreams` (`KnowsOpen`) holds of
`CarefulSpec`, for the reason given under Runs. The invariant `Bookkeeping` adds to `RetentionBound` that the nodes on the list of closed ones belong to streams that
were used and are not open, so that closing a stream, which may evict the oldest of them, never forgets an open one.

`TreeStaysSound` (`TreeIsSound`) also holds of `Spec`. The invariant `Sound` says the same in a form that can be carried through a
step: `Linked`, the list of kids of every node has each node whose parent it is exactly once (`Lists`) and nothing else, and `Acyclic`, every nonempty set of nodes has a
member whose parent is outside. `Above`, which the model computes level by level, is shown to be the least set that holds the parent and
is closed under parents (`AboveIsLeast`), so that the test for a dependency on a descendant is what keeps a move from closing a cycle: `MovesKeepAcyclic`
covers the inversion and the exclusive move. removeNode moves only the first kid up to the parent of the removed node; the
others stay below the removed node, whose own parent becomes nil, so they are cut off from the root but still form a sound tree. The walk of Pop changes
nothing but the order of the kids, and the insertion sort keeps a list a list (`ListsSorted`).

`TypeCorrect` (`TypeOK`) and the refinement rest on what the operators of the model compute. Folds, `FlattenSeq` and the levels of `Walk`
are recursive functions: that such a function exists is proved first, by induction over the length (`SetInduction`, as in `PipeProofs`, and
`Recursion`), and then that it is the one that the definition chooses (`Flattened`, `Visits`, `WalkRecursion`).

`TreeSchedules` (`Implements`) holds of `CarefulSpec`. With `KnowsOpen` every push is to the queue that `WriteScheduler` names; Pop serves the
first node of the walk that is ready (`FirstReady`), the root first, and consumes no more than its queue's head
allows (`PopServes`); a removed node's queue is dropped only when its stream is closed.

`NothingElseDetaches` (`OnlyRemovalDetaches`) needs both directions: `Hanging`, every node of `ws.nodes` has a parent in `ws.nodes` or the root, as long
as no node with several kids was removed, and `WalkIsComplete`, the walk contains the root and whatever hangs on a node that it contains. The
latter counts: on each level the set of visited nodes grows until it is closed, and there are as many levels as nodes.

### What the proofs found

- `TypeOK` failed to be inductive on a DATA frame of length 0, which the model used to split by the window like any other. The code does not:
  FrameWriteRequest.Consume looks at the length first and takes such a frame whole (`writesched.go:103-120`). `Splits` now says so.
- What may follow END_STREAM and what may follow RST_STREAM used to be one invariant. Separated for the proof of the second, the first turned
  out not to depend on startFrameWrite's assertions in any run, because nobody wrote behind END_STREAM; `server_streams` now has a second writer.
- `GracefulWaits` is not an invariant for all constants: OpenStream works after GOAWAY, so a stream may be opened
  behind a graceful shutdown. `HandlersFinish` is what holds of every application, `ShutdownWaits` of one that opens nothing. The run `shutdown`, in which no call opens
  a stream, checks the latter.
- `NoLostWakeup` and `EndIsLast` have a corner that the runs do not reach: SETTINGS that grow some windows and then
  fail, after a graceful GOAWAY, end in goAway, which returns early, so that nothing schedules the writes. It is another form of what
  `fatal_in_shutdown` shows. The theorems exclude it by `Heeded`.
- `NoInternalError`, as far as it excludes "sent too many window updates", needs the doubled session window (see above)
  to fit an int32. The window starts at twice the configured size less the default, so a configured
  session window near 2^31 makes the first sendWindowUpdate of serve panic (`session.go:364`). The runs use windows whose double fits;
  the theorem has the bound as a hypothesis, and needs no other.
- `EndIsLast` holds for a subtle reason. endStream does not look at the state that it overwrites, and serve may be in the write loop between the test of
  processData and endStream. Only because a parked serve has nothing to send does no END_STREAM get through in between.

### Only model-checked

- Liveness (`BlockedCallReturns`, `SomeReadReturns`, `ErrorEnds`, `GracefulEnds`, `HandshakeEnds`, `AllReleased`): fairness and
  ENABLED are out of reach of the provers here.
- `NoLostWakeup` and `EndIsLast` after a connection error that goAway dropped, and `GracefulWaits` when the application opens
  streams: false in general (above), though the runs that check them do not reach a counterexample.
- The findings: that a run violates a property is a matter of one execution, which TLC prints.

## Not modelled

- code that nothing reaches: noteBodyRead and bodyReadCh, the idle timer's message, PUSH_PROMISE,
  100-continue, handlerPanicRST, the refusal at `advMaxStreams`, write throttling, `closeWithErrorAndCode` and `readFn`;
- the pools of queues and chunks, except that a chunk comes with old contents;
- HPACK, the framer, header encoding and its split into CONTINUATION frames: bytes without control of their own, in this model;
- `gotrack.go` (a debugging check that parses stack dumps), logging, sorting of header keys, frame summaries;
- two sessions joined to each other: the product of two session models is beyond TLC. Each session is checked against a
  peer that may send anything of a small set in any order, which another session is a special case of;
- WaitForReady, the header accessors, settings that only the framer or HPACK use.

## Plan

1. Done: `Flow`, `SendWindow`, the session with all its handlers, and the proofs of the ledger.
2. Done: the priority tree, the pipe and its buffer, the two abstract specifications, their refinements, and `Session` as
   an implementation of `SendWindow`.
3. Done: the proofs above. Every invariant and every action property that a passing run checks is a theorem, with
   the hypotheses named above where the code does not keep it without them; so are the four refinements.
4. What remains is to reduce the hypotheses, which the code has to do: a goAway that schedules the write loop in every
   case, an OpenStream that looks at `inGoAway`, and a check of the session window in the configuration would make `Heeded`, `NobodyOpens` and
   `RoomForSurplus` unnecessary.
