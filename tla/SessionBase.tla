------------------------------ MODULE SessionBase ------------------------------
(***************************************************************************)
(* The state of one h2stream session (session.go, stream.go, writesched.go)*)
(* and of the goroutines around it:                                        *)
(*                                                                         *)
(*   serve       owns sc, st and q; runs one handler per select case       *)
(*   readFrames  offers one frame at a time on readFrameCh                 *)
(*   writeFrameAsync  writes one frame and reports on wroteFrameCh         *)
(*   callers     the application's calls of the Session and Stream API     *)
(*                                                                         *)
(* serve is a call stack: pend is the sequence of calls it has still to    *)
(* make before it is back in its select.  scheduleFrameWrite, wroteFrame   *)
(* and closeStream call one another, and what other goroutines observe     *)
(* depends on where in that recursion serve is.                            *)
(***************************************************************************)
EXTENDS Flow, Sequences, FiniteSets

CONSTANTS
    IsServer,              \* sc.server
    HasHandler,            \* Serve was given a handler
    IdleTimeout,           \* config.IdleTimeout # 0
    StreamIDLimit,         \* 1 << 31 in createStream
    DefaultWindow,         \* defaultWindowSize
    InitialSessionWindow,  \* config.InitialSessionWindowSize
    InitialStreamWindow,   \* config.InitialStreamWindowSize
    MaxFrameSize,          \* config.MaxFrameSize
    ChanCap,               \* capacity of wantWriteFrameCh and of serveMsgCh
    Calls,                 \* the application's calls: positive numbers
    Script,                \* what each of them does
    PeerFrames,            \* what the reader may get to see
    PeerBudget             \* bound: how many of them

Ids == 1 .. StreamIDLimit - 1

Nobody == 0

(* A call of the API: its arguments, and the call after whose return the   *)
(* same goroutine makes it (0: a goroutine of its own).                    *)
CallScripts ==
    [api : {"open", "write", "reply", "reset", "waitReply", "close"},
     n : Nat, end : BOOLEAN, hdr : BOOLEAN, after : Calls \union {Nobody}]

(* A setting that Valid refuses is "invalid" here.                         *)
Settings ==
    {s \in [k : {"initWin", "maxStreams", "maxFrame", "other", "invalid"}, v : Nat] :
        s.k = "initWin" => s.v <= MaxInt32}

AnyFrames ==
    [t : {"settings", "settingsAck", "headers", "data", "windowUpdate", "rst",
          "ping", "pingAck", "goAway", "priority", "pushPromise", "unknown",
          "tooLarge", "streamError", "connError", "eof"},
     id : 0 .. StreamIDLimit - 1, n : Nat, pad : Nat, end : BOOLEAN,
     x : {"ok", "truncated", "selfDep", "pseudo"}, set : Seq(Settings)]

(* What the framer lets through: an increment is a positive 31-bit number, *)
(* and frames that need a stream name one.                                 *)
Frames ==
    {f \in AnyFrames :
        /\ f.t = "windowUpdate" => f.n \in 1 .. MaxInt32
        /\ f.t \in {"headers", "rst", "priority", "streamError"} => f.id # 0}

Frame(t, id) ==
    [t |-> t, id |-> id, n |-> 0, pad |-> 0, end |-> FALSE, x |-> "ok", set |-> <<>>]

ASSUME SessionAssumption ==
    /\ IsServer \in BOOLEAN /\ HasHandler \in BOOLEAN /\ IdleTimeout \in BOOLEAN
    /\ StreamIDLimit \in Nat \ {0, 1}
    /\ DefaultWindow \in 0 .. MaxInt32
    /\ InitialSessionWindow \in 0 .. MaxInt32
    /\ InitialStreamWindow \in 0 .. MaxInt32
    /\ MaxFrameSize \in Nat \ {0}
    /\ ChanCap \in Nat \ {0}
    /\ Calls \subseteq Nat \ {0}
    /\ Script \in [Calls -> CallScripts]
    /\ PeerFrames \subseteq Frames
    /\ PeerBudget \in Nat

VARIABLES
    sc,      \* the fields of Session; connInc, connSent and misgrown are history:
             \* credit and bytes of the connection, a refused initial size
    st,      \* st[id]: the fields of the stream object; inc and spent are
             \* history: the credit granted and the bytes sent
    q,       \* q[id]: the scheduler's queue of a stream; q[0]: of the root
    pend,    \* serve's call stack
    writer,  \* the writeFrameAsync goroutine
    reader,  \* the readFrames goroutine
    want,    \* wantWriteFrameCh
    msgs,    \* serveMsgCh
    call,    \* call[c]: how far the application's call c has come
    life,    \* doneServing, the connection, shutdownOnce; fatal is history:
             \* goAway was called with an error code
    sent,    \* history: sent[id], the frames started on a stream, in order
    peerLeft,\* how many frames the peer may still send
    panic    \* "none", or why the program died

vars == <<sc, st, q, pend, writer, reader, want, msgs, call, life, sent, peerLeft, panic>>

-------------------------------------------------------------------------------
(* FrameWriteRequest: the type of `write', StreamID(), the flow control    *)
(* bytes, END_STREAM, and the call that holds the other end of `done'.     *)
Kinds == {"settings", "settingsAck", "goAway", "ping", "flush",
          "windowUpdate", "headers", "data", "rst"}

WriteRequests ==
    [kind : Kinds, id : 0 .. StreamIDLimit - 1, n : Nat, end : BOOLEAN,
     by : Calls \union {Nobody}]

WR(kind, id, n, end, by) ==
    [kind |-> kind, id |-> id, n |-> n, end |-> end, by |-> by]

Control(kind) == WR(kind, 0, 0, FALSE, Nobody)

(* wr.stream # nil: resetStream and ResetWithError leave the field nil.    *)
HasStream(wr) == wr.id # 0 /\ wr.kind # "rst"

writeEndsStream(wr) == wr.kind \in {"data", "headers"} /\ wr.end

Ops == {"handshake", "startReader", "writeFrame", "sendWindowUpdate", "loop",
        "wroteFrame", "closeStream", "closeRest", "markReset", "reply",
        "processSettings", "endStream", "goAwayNo", "goAwayErr",
        "refuse", "handOver", "readMore", "iter", "exit", "closeAll"}

Pending ==
    [op : Ops, id : 0 .. StreamIDLimit - 1, n : Nat, wr : WriteRequests,
     set : Seq(Settings)]

Op(op, id, n) ==
    [op |-> op, id |-> id, n |-> n, wr |-> Control("flush"), set |-> <<>>]

OpOn(op, wr) == [Op(op, 0, 0) EXCEPT !.wr = wr]

-------------------------------------------------------------------------------
StreamStates == {"idle", "open", "halfClosedLocal", "halfClosedRemote", "closed"}

Live == {"open", "halfClosedLocal", "halfClosedRemote"}

(* Whether id is a key of sc.streams: newStream puts it there, closeStream *)
(* deletes it when it sets stateClosed.                                    *)
InMap(id) == st[id].state \in Live

isPushed(id) == id % 2 = 0

MaxStreamID(id) == IF isPushed(id) THEN sc.maxPushPromiseID ELSE sc.maxClientStreamID

(* Session.state *)
stateOf(id) ==
    IF InMap(id) THEN st[id].state
    ELSE IF id <= MaxStreamID(id) THEN "closed" ELSE "idle"

curOpenStreams == sc.curClientStreams + sc.curPushedStreams

(* Whether id is of the kind that this side opens.                         *)
Local(id) == isPushed(id) = IsServer

NoLimit == StreamIDLimit

-------------------------------------------------------------------------------
NewSession ==
    [sawFirstSettings |-> FALSE, needToSendSettingsAck |-> FALSE,
     unackedSettings |-> 0,
     initialStreamSendWindowSize |-> InitialStreamWindow,
     maxFrameSize |-> MaxFrameSize, peerMaxStreams |-> NoLimit,
     maxClientStreamID |-> 0, maxPushPromiseID |-> 0,
     curClientStreams |-> 0, curPushedStreams |-> 0,
     writingFrame |-> FALSE, writingFrameAsync |-> FALSE,
     needsFrameFlush |-> FALSE, inFrameScheduleLoop |-> FALSE,
     inGoAway |-> FALSE, needToSendGoAway |-> FALSE, goAwayCode |-> "No",
     shutdownTimer |-> "nil",
     flow |-> InitialSessionWindow, inflow |-> InitialSessionWindow,
     connInc |-> 0, connSent |-> 0, misgrown |-> FALSE]

NoStream ==
    [state |-> "idle", flow |-> 0, inflow |-> 0, body |-> 0, read |-> 0,
     bodyErr |-> FALSE, resetQueued |-> FALSE, replied |-> FALSE,
     ready |-> FALSE, gotTrailerHeader |-> FALSE, cw |-> FALSE, stale |-> FALSE,
     held |-> FALSE, inc |-> 0, spent |-> 0]

Init ==
    /\ sc = NewSession
    /\ st = [id \in Ids |-> NoStream]
    /\ q = [id \in Ids \union {0} |-> <<>>]
    /\ pend = <<Op("handshake", 0, 0)>>
    /\ writer = [stage |-> "idle", wr |-> Control("flush")]
    /\ reader = [stage |-> "off", f |-> Frame("eof", 0)]
    /\ want = <<>>
    /\ msgs = <<>>
    /\ call = [c \in Calls |-> [stage |-> "ready", id |-> 0, ch |-> FALSE, res |-> "none"]]
    /\ life = [doneServing |-> FALSE, connClosed |-> FALSE, once |-> FALSE, fatal |-> FALSE]
    /\ sent = [id \in Ids |-> <<>>]
    /\ peerLeft = PeerBudget
    /\ panic = "none"

-------------------------------------------------------------------------------
(* serve is about to make the call op.                                     *)
Running(op) == panic = "none" /\ pend # <<>> /\ Head(pend).op = op

Top == Head(pend)

(* serve is in its select.                                                 *)
Parked == pend = <<>> /\ ~life.doneServing

(* A panic that nobody recovers ends the program.                          *)
Panic(why) ==
    /\ panic' = why
    /\ UNCHANGED <<sc, st, q, pend, writer, reader, want, msgs, call, life, sent, peerLeft>>

================================================================================
