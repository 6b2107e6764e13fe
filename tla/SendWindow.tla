------------------------------ MODULE SendWindow -------------------------------
(***************************************************************************)
(* The outbound flow control ledger of one session: the connection window  *)
(* Session.flow, the window stream.flow of every open stream, and the      *)
(* initial stream window that the peer's SETTINGS announce.  The peer      *)
(* grants credit (WINDOW_UPDATE, SETTINGS_INITIAL_WINDOW_SIZE), the write  *)
(* scheduler spends it (FrameWriteRequest.Consume).                        *)
(*                                                                         *)
(* inc, sent, connInc and connSent are history variables: what the peer    *)
(* granted and what was put on the wire, counted without any width.        *)
(***************************************************************************)
EXTENDS Flow

CONSTANTS
    Streams,              \* the streams that may be opened
    InitialStreamWindow,  \* config.InitialStreamWindowSize
    InitialSessionWindow, \* config.InitialSessionWindowSize
    MaxFrameSize,         \* the peer's SETTINGS_MAX_FRAME_SIZE
    MaxGrant              \* bound: total WINDOW_UPDATE credit per window

ASSUME SendWindowAssumption ==
    /\ InitialStreamWindow \in 0 .. MaxInt32
    /\ InitialSessionWindow \in 0 .. MaxInt32
    /\ MaxFrameSize \in Nat \ {0}
    /\ MaxGrant \in Nat

VARIABLES
    open,      \* the streams in sc.streams
    used,      \* the streams that have ever been opened
    win,       \* win[s]: stream.flow.n
    conn,      \* sc.flow.n
    initWin,   \* sc.initialStreamSendWindowSize
    failed,    \* some window has refused a new initial size: a connection error
    inc, sent, connInc, connSent

vars == <<open, used, win, conn, initWin, failed, inc, sent, connInc, connSent>>

TypeOK ==
    /\ open \subseteq used
    /\ used \subseteq Streams
    /\ win \in [Streams -> Int32]
    /\ conn \in Int32
    /\ initWin \in 0 .. MaxInt32
    /\ failed \in BOOLEAN
    /\ inc \in [Streams -> Nat]
    /\ sent \in [Streams -> Nat]
    /\ connInc \in Nat
    /\ connSent \in Nat

Init ==
    /\ open = {}
    /\ used = {}
    /\ win = [s \in Streams |-> 0]
    /\ conn = InitialSessionWindow
    /\ initWin = InitialStreamWindow
    /\ failed = FALSE
    /\ inc = [s \in Streams |-> 0]
    /\ sent = [s \in Streams |-> 0]
    /\ connInc = 0
    /\ connSent = 0

-------------------------------------------------------------------------------
(* newStream: the stream's window starts at the current initial size.      *)
NewStream(s) ==
    /\ s \notin used
    /\ open' = open \union {s}
    /\ used' = used \union {s}
    /\ win' = [win EXCEPT ![s] = initWin]
    /\ UNCHANGED <<conn, initWin, failed, inc, sent, connInc, connSent>>

(* closeStream removes the stream; its window is never looked at again.    *)
CloseStream(s) ==
    /\ s \in open
    /\ open' = open \ {s}
    /\ UNCHANGED <<used, win, conn, initWin, failed, inc, sent, connInc, connSent>>

AllowedIgnoringStream(s) ==
    IF MaxFrameSize < conn THEN MaxFrameSize ELSE conn

(* Consume: the number of bytes that may go into the next DATA frame.      *)
Allowed(s) ==
    LET a == available(win[s], conn)
    IN  IF MaxFrameSize < a THEN MaxFrameSize ELSE a

TakenOnlyFromStream(n) == conn

(* flow.take deducts from the connection's window as well.                 *)
TakenFromConn(n) == conn - n

(* Consume on a DATA frame of len bytes: whole if it fits, else split.  A  *)
(* session that was shutting down gracefully goes on after an error.       *)
Consume(s, len) ==
    /\ s \in open
    /\ Allowed(s) > 0
    /\ LET n == IF len > Allowed(s) THEN Allowed(s) ELSE len
       IN  /\ win' = [win EXCEPT ![s] = @ - n]
           /\ conn' = TakenFromConn(n)
           /\ sent' = [sent EXCEPT ![s] = @ + n]
           /\ connSent' = connSent + n
    /\ UNCHANGED <<open, used, initWin, failed, inc, connInc>>

(* processWindowUpdate on a stream.  A refused increment is a stream       *)
(* error: the window stays, and the RST_STREAM closes the stream later.    *)
WindowUpdate(s, d) ==
    /\ s \in open
    /\ addOK(win[s], d) => inc[s] + d <= MaxGrant
    /\ win' = [win EXCEPT ![s] = added(@, d)]
    /\ inc' = [inc EXCEPT ![s] = IF addOK(win[s], d) THEN @ + d ELSE @]
    /\ UNCHANGED <<open, used, conn, initWin, failed, sent, connInc, connSent>>

(* processWindowUpdate on stream 0.                                        *)
ConnWindowUpdate(d) ==
    /\ addOK(conn, d) => connInc + d <= MaxGrant
    /\ conn' = added(conn, d)
    /\ connInc' = IF addOK(conn, d) THEN connInc + d ELSE connInc
    /\ UNCHANGED <<open, used, win, initWin, failed, inc, sent, connSent>>

GrowthFromConfig(v) == v - InitialStreamWindow

(* The change that a new initial window size makes to every window.        *)
Growth(v) == v - initWin

(* processSettingInitialWindowSize adjusts the streams in map order and    *)
(* stops at the first one whose window refuses: any set of the accepting   *)
(* streams may have been adjusted by then.                                 *)
InitialWindowSize(v) ==
    LET g == Growth(v)
        refusing == {s \in open : ~addOK(win[s], g)}
    IN  /\ initWin' = v
        /\ \E done \in SUBSET (open \ refusing) :
             /\ refusing = {} => done = open
             /\ win' = [s \in Streams |-> IF s \in done THEN added(win[s], g) ELSE win[s]]
        /\ failed' = (failed \/ refusing # {})
        /\ UNCHANGED <<open, used, conn, inc, sent, connInc, connSent>>

Next ==
    \/ \E s \in Streams : NewStream(s) \/ CloseStream(s)
    \/ \E s \in Streams, len \in 1 .. MaxInt32 : Consume(s, len)
    \/ \E s \in Streams, d \in 1 .. MaxInt32 : WindowUpdate(s, d)
    \/ \E d \in 1 .. MaxInt32 : ConnWindowUpdate(d)
    \/ \E v \in 0 .. MaxInt32 : InitialWindowSize(v)

Spec == Init /\ [][Next]_vars

-------------------------------------------------------------------------------
(* The stream window always is what RFC 7540 6.9.2 makes of it: today's    *)
(* initial size plus the increments minus the bytes sent - whatever order  *)
(* streams were opened, data was sent and SETTINGS arrived in, and although *)
(* the arithmetic of flow.go is 32 bits wide.                              *)
StreamLedger ==
    ~failed => \A s \in open : win[s] = initWin + inc[s] - sent[s]

(* The connection window equals credit granted minus bytes sent over all   *)
(* streams, and is never overdrawn by flow.take.                           *)
ConnLedger ==
    /\ conn = InitialSessionWindow + connInc - connSent
    /\ conn >= 0

(* Consume never puts a byte on the wire that the peer has not granted on  *)
(* the connection and, unless a new initial size was refused, on the       *)
(* stream.                                                                 *)
NeverOverruns ==
    [][\A s \in Streams : sent'[s] > sent[s] =>
          /\ ~failed => sent'[s] <= initWin + inc[s]
          /\ connSent' <= InitialSessionWindow + connInc]_vars

================================================================================
