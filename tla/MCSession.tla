------------------------------- MODULE MCSession -------------------------------
(***************************************************************************)
(* Small instances of Session: what the application calls, and which       *)
(* frames the peer may send.                                               *)
(***************************************************************************)
EXTENDS Session, TLC

Call(api, n, end, after) ==
    [api |-> api, n |-> n, end |-> end, hdr |-> FALSE, after |-> after]

ReplyCall(end, hdr, after) == [Call("reply", 0, end, after) EXCEPT !.hdr = hdr]

SettingsFrame(set) == [Frame("settings", 0) EXCEPT !.set = set]
Setting(k, v) == [k |-> k, v |-> v]
DataFrame(id, n, pad, end) == [Frame("data", id) EXCEPT !.n = n, !.pad = pad, !.end = end]
HeadersFrame(id, end, x) == [Frame("headers", id) EXCEPT !.end = end, !.x = x]
WindowUpdateFrame(id, n) == [Frame("windowUpdate", id) EXCEPT !.n = n]

Hello == SettingsFrame(<<>>)

-------------------------------------------------------------------------------
(* A client opens a stream and writes END_STREAM on it, while the peer     *)
(* ends or resets it; the second OpenStream finds no identifier left.  The *)
(* windows never hold the calls back: all must return.                     *)
ClientScript ==
    (1 :> Call("open", 0, FALSE, 0)) @@ (2 :> Call("write", 2, TRUE, 1)) @@
    (3 :> Call("open", 0, FALSE, 2))

ClientFrames == {Hello, DataFrame(1, 1, 1, TRUE), Frame("rst", 1)}

(* A server's handler replies; then one goroutine writes END_STREAM, while *)
(* another writes too and resets the stream; the client sends padded DATA, *)
(* trailers, END_STREAM, a self-dependency, RST_STREAM.                    *)
ServerScript ==
    (1 :> ReplyCall(FALSE, TRUE, 0)) @@ (2 :> Call("write", 1, TRUE, 1)) @@
    (3 :> Call("write", 1, FALSE, 1)) @@ (4 :> Call("reset", 0, FALSE, 3))

ServerFrames ==
    {Hello, HeadersFrame(1, FALSE, "ok"), HeadersFrame(1, TRUE, "ok"),
     HeadersFrame(1, FALSE, "selfDep"), HeadersFrame(1, TRUE, "pseudo"),
     DataFrame(1, 1, 1, TRUE), Frame("rst", 1)}

(* More data than the windows allow, and a peer that moves the windows.    *)
FlowScript ==
    (1 :> Call("open", 0, FALSE, 0)) @@ (2 :> Call("write", 4, TRUE, 1))

FlowFrames ==
    {Hello, SettingsFrame(<<Setting("maxFrame", 1), Setting("initWin", 0)>>),
     SettingsFrame(<<Setting("initWin", 7)>>), WindowUpdateFrame(1, 1),
     WindowUpdateFrame(1, 6), WindowUpdateFrame(0, 3), WindowUpdateFrame(0, 7)}

(* Every frame that the other instances leave out, on a stream that waits  *)
(* for its reply, and on a stream of the peer; a second stream, with       *)
(* END_STREAM at once, against the peer's limit.                           *)
FrameScript ==
    (1 :> Call("open", 0, FALSE, 0)) @@ (2 :> Call("waitReply", 1, FALSE, 1)) @@
    (3 :> Call("open", 0, TRUE, 2))

FrameFrames ==
    {SettingsFrame(<<Setting("maxStreams", 1)>>), Frame("rst", 1),
     SettingsFrame(<<Setting("other", 1), Setting("invalid", 0)>>),
     HeadersFrame(2, FALSE, "ok"), HeadersFrame(2, FALSE, "truncated"),
     HeadersFrame(1, FALSE, "ok"), DataFrame(2, 1, 0, FALSE)} \union
    {Frame(t, 0) : t \in {"settingsAck", "ping", "pingAck", "goAway", "pushPromise",
                          "unknown", "tooLarge"}} \union
    {Frame("streamError", 2), Frame("priority", 2), [Frame("priority", 2) EXCEPT !.x = "selfDep"]}

(* Session.Close and a connection error against a served stream.           *)
ShutdownScript ==
    (1 :> Call("close", 0, FALSE, 0)) @@ (2 :> ReplyCall(TRUE, FALSE, 0))

ShutdownFrames ==
    {Hello, HeadersFrame(1, TRUE, "ok"), Frame("connError", 0)}

-------------------------------------------------------------------------------
(* Instances on which the code and what it says of itself disagree.        *)

WriteScript ==
    (1 :> Call("open", 0, FALSE, 0)) @@ (2 :> Call("write", 2, TRUE, 1))

OneReply == 1 :> ReplyCall(FALSE, TRUE, 0)
OneClose == 1 :> Call("close", 0, FALSE, 0)

PaddedEnd == {Hello, DataFrame(1, 1, 1, TRUE)}
ErrorOnOpenStream == {Hello, HeadersFrame(1, FALSE, "ok"), Frame("connError", 0)}
OneRequest == {Hello, HeadersFrame(1, FALSE, "ok"), DataFrame(1, 1, 0, FALSE)}

================================================================================
