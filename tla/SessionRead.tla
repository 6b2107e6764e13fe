------------------------------ MODULE SessionRead ------------------------------
(***************************************************************************)
(* The read side (session_read.go): the readFrames goroutine, and serve's  *)
(* handler for each kind of frame.  A handler runs in one step up to the   *)
(* calls it leaves on serve's stack.  golang.org/x/net/http2 parses the    *)
(* frames; what it refuses reaches serve as an error (eof, tooLarge,       *)
(* streamError, connError).                                                *)
(***************************************************************************)
EXTENDS SessionWrite

(* readFrames: ReadFrame returns a frame of the peer, ...                  *)
ReadFrame(f) ==
    /\ panic = "none"
    /\ reader.stage = "reading"
    /\ peerLeft > 0 /\ ~life.connClosed
    /\ peerLeft' = peerLeft - 1
    /\ reader' = [stage |-> "offer", f |-> f]
    /\ UNCHANGED <<sc, st, q, pend, writer, want, msgs, call, life, sent, panic>>

ReadErrorWithoutDeadline ==
    /\ panic = "none"
    /\ reader.stage = "reading" /\ life.connClosed
    /\ reader' = [stage |-> "offer", f |-> Frame("eof", 0)]
    /\ UNCHANGED <<sc, st, q, pend, writer, want, msgs, call, life, sent, peerLeft, panic>>

(* ... or an error: the peer is gone, the connection was closed, or the    *)
(* handshake's deadline passed.                                            *)
ReadError ==
    /\ panic = "none"
    /\ reader.stage = "reading"
    /\ reader' = [stage |-> "offer", f |-> Frame("eof", 0)]
    /\ UNCHANGED <<sc, st, q, pend, writer, want, msgs, call, life, sent, peerLeft, panic>>

terminalReadFrameError(f) == f.t \in {"eof", "tooLarge", "connError"}

(* readMore opens the reader's gate; the frame is no longer valid.         *)
readMore ==
    /\ Running("readMore")
    /\ reader' = [stage |-> IF terminalReadFrameError(reader.f) THEN "stopped" ELSE "reading",
                  f |-> Frame("eof", 0)]
    /\ pend' = Tail(pend)
    /\ UNCHANGED <<sc, st, q, writer, want, msgs, call, life, sent, peerLeft, panic>>

(* doneServing ends a reader that waits for serve.                         *)
ReaderStops ==
    /\ panic = "none"
    /\ life.doneServing /\ reader.stage \in {"offer", "gate"}
    /\ reader' = [stage |-> "stopped", f |-> Frame("eof", 0)]
    /\ UNCHANGED <<sc, st, q, pend, writer, want, msgs, call, life, sent, peerLeft, panic>>

-------------------------------------------------------------------------------
(* serve selects readFrameCh and gets a frame of type t.                   *)
Receive(t) ==
    /\ panic = "none"
    /\ Parked
    /\ reader.stage = "offer" /\ reader.f.t = t
    /\ reader' = [reader EXCEPT !.stage = "gate"]

frame == reader.f

(* The handler's remaining calls, then readMore and the end of the loop.   *)
Then(calls) == pend' = calls \o <<Op("readMore", 0, 0), Op("iter", 0, 0)>>

(* What processFrameFromReader makes of a handler's error.                 *)
ConnError == <<Op("goAwayErr", 0, 0)>>

(* processFrame: the first frame must be SETTINGS.                         *)
TooEarly(t) ==
    /\ Receive(t)
    /\ ~sc.sawFirstSettings
    /\ Then(ConnError)
    /\ UNCHANGED <<sc, st, q, writer, want, msgs, call, life, sent, peerLeft, panic>>

Handled(t) == Receive(t) /\ sc.sawFirstSettings

(* Handlers of frames that change nothing but the call stack.              *)
Answer(calls) ==
    /\ Then(calls)
    /\ UNCHANGED <<sc, st, q, writer, want, msgs, call, life, sent, peerLeft, panic>>

GoingDown == sc.inGoAway /\ sc.goAwayCode # "No"

processPing ==
    /\ Handled("ping")
    /\ Answer(IF frame.id # 0 THEN ConnError
              ELSE IF GoingDown THEN <<>>
              ELSE <<OpOn("writeFrame", Control("ping"))>>)

(* ErrFrameTooLarge, a ConnectionError of the framer, PUSH_PROMISE.        *)
processFatal ==
    /\ \/ Receive("tooLarge") \/ Receive("connError")
       \/ Handled("pushPromise")
    /\ Answer(ConnError)

(* A StreamError of the framer, before SETTINGS too.                       *)
processStreamError ==
    /\ Receive("streamError")
    /\ Answer(resetStream(frame.id))

(* Frames that are ignored: a PING ack, an unknown type.                   *)
processIgnored ==
    /\ Handled("pingAck") \/ Handled("unknown")
    /\ Answer(<<>>)

(* AdjustStream moves the stream in the priority tree, which is abstracted.*)
processPriority ==
    /\ Handled("priority")
    /\ Answer(IF ~sc.inGoAway /\ frame.x = "selfDep" THEN resetStream(frame.id) ELSE <<>>)

processGoAway ==
    /\ Handled("goAway")
    /\ Answer(<<Op("goAwayNo", 0, 0)>>)

(* The peer is gone: serve returns.                                        *)
processEOF ==
    /\ Receive("eof")
    /\ pend' = <<Op("exit", 0, 0)>>
    /\ UNCHANGED <<sc, st, q, writer, want, msgs, call, life, sent, peerLeft, panic>>

processResetStream ==
    /\ Handled("rst")
    /\ Answer(IF stateOf(frame.id) = "idle" THEN ConnError
              ELSE IF InMap(frame.id) THEN <<Op("closeStream", frame.id, 0)>>
              ELSE <<>>)

-------------------------------------------------------------------------------
ThenWithoutSchedule(s) ==
    sc' = s /\ pend' = <<Op("readMore", 0, 0), Op("iter", 0, 0)>>

(* The handler ends with scheduleFrameWrite in the session state s.        *)
ThenSchedule(s) ==
    ScheduleFrameWrite(s, <<Op("readMore", 0, 0), Op("iter", 0, 0)>>)

processWindowUpdate ==
    /\ Handled("windowUpdate")
    /\ LET id == frame.id
       IN  \/ /\ id = 0 /\ addOK(sc.flow, frame.n)
              /\ ThenSchedule([sc EXCEPT !.flow = added(@, frame.n), !.connInc = @ + frame.n])
              /\ UNCHANGED st
           \/ /\ id # 0 /\ InMap(id) /\ addOK(st[id].flow, frame.n)
              /\ st' = [st EXCEPT ![id] = [@ EXCEPT !.flow = added(st[id].flow, frame.n),
                                                  !.inc = st[id].inc + frame.n]]
              /\ ThenSchedule(sc)
           \/ /\ id = 0 /\ ~addOK(sc.flow, frame.n)
              /\ Then(ConnError)
              /\ UNCHANGED <<sc, st>>
           \/ /\ id # 0 /\ ~(InMap(id) /\ addOK(st[id].flow, frame.n))
              /\ Then(IF stateOf(id) = "idle" THEN ConnError
                      ELSE IF InMap(id) THEN resetStream(id) ELSE <<>>)
              /\ UNCHANGED <<sc, st>>
    /\ UNCHANGED <<q, writer, want, msgs, call, life, sent, peerLeft, panic>>

(* processSettings on an ACK.                                              *)
processSettingsAck ==
    /\ Receive("settingsAck")
    /\ sc' = [sc EXCEPT !.sawFirstSettings = TRUE, !.unackedSettings = @ - 1]
    /\ Then(IF sc.unackedSettings <= 0 THEN ConnError ELSE <<>>)
    /\ UNCHANGED <<st, q, writer, want, msgs, call, life, sent, peerLeft, panic>>

receiveSettings ==
    /\ Receive("settings")
    /\ sc' = [sc EXCEPT !.sawFirstSettings = TRUE]
    /\ Then(<<[Op("processSettings", 0, 0) EXCEPT !.set = frame.set]>>)
    /\ UNCHANGED <<st, q, writer, want, msgs, call, life, sent, peerLeft, panic>>

(* All settings are processed: acknowledge them.                           *)
SettingsDone ==
    /\ Running("processSettings")
    /\ Top.set = <<>>
    /\ ScheduleFrameWrite([sc EXCEPT !.needToSendSettingsAck = TRUE], Tail(pend))
    /\ UNCHANGED <<st, q, writer, reader, want, msgs, call, life, sent, peerLeft, panic>>

NextSetting == <<[Top EXCEPT !.set = Tail(@)]>> \o Tail(pend)

(* processSetting on a setting other than SETTINGS_INITIAL_WINDOW_SIZE.    *)
processSetting ==
    /\ Running("processSettings")
    /\ Top.set # <<>>
    /\ LET s == Head(Top.set)
       IN  /\ s.k # "initWin"
           /\ sc' = CASE s.k = "maxStreams" -> [sc EXCEPT !.peerMaxStreams = s.v]
                      [] s.k = "maxFrame" -> [sc EXCEPT !.maxFrameSize = s.v]
                      [] OTHER -> sc
           /\ pend' = IF s.k = "invalid" THEN ConnError \o Tail(pend) ELSE NextSetting
    /\ UNCHANGED <<st, q, writer, reader, want, msgs, call, life, sent, peerLeft, panic>>

(* Every stream's window grows by the difference; map order decides which  *)
(* have grown when one refuses.                                            *)
processSettingInitialWindowSize ==
    /\ Running("processSettings")
    /\ Top.set # <<>> /\ Head(Top.set).k = "initWin"
    /\ LET v == Head(Top.set).v
           growth == v - sc.initialStreamSendWindowSize
           refusing == {id \in Ids : InMap(id) /\ ~addOK(st[id].flow, growth)}
           accepting == {id \in Ids : InMap(id)} \ refusing
       IN  /\ sc' = [sc EXCEPT !.initialStreamSendWindowSize = v,
                               !.misgrown = @ \/ refusing # {}]
           /\ \E grown \in SUBSET accepting :
                /\ refusing = {} => grown = accepting
                /\ st' = [id \in Ids |-> IF id \in grown
                                         THEN [st[id] EXCEPT !.flow = added(@, growth)]
                                         ELSE st[id]]
           /\ pend' = IF refusing = {} THEN NextSetting ELSE ConnError \o Tail(pend)
    /\ UNCHANGED <<q, writer, reader, want, msgs, call, life, sent, peerLeft, panic>>

-------------------------------------------------------------------------------
(* DATA that the stream no longer takes: charge and refund the connection  *)
(* window, and reset the stream unless that is under way.                  *)
Unwanted(id) ==
    ~InMap(id) \/ st[id].state # "open" \/ st[id].gotTrailerHeader \/ st[id].resetQueued

DiscardData ==
    /\ frame.id # 0 /\ stateOf(frame.id) # "idle" /\ Unwanted(frame.id)
    /\ LET length == frame.n + frame.pad
       IN  IF sc.inflow < length
           THEN UNCHANGED sc /\ Then(resetStream(frame.id))
           ELSE /\ sc' = [sc EXCEPT !.inflow = @ - length]
                /\ Then(<<Op("sendWindowUpdate", 0, length)>> \o
                        IF InMap(frame.id) /\ st[frame.id].resetQueued THEN <<>>
                        ELSE resetStream(frame.id))
    /\ UNCHANGED st

RefundStreamPadding(id, pad) ==
    IF pad = 0 THEN <<>> ELSE <<Op("sendWindowUpdate", id, pad)>>

(* Padding goes back to the windows of the connection and of the stream.   *)
RefundPadding(id, pad) ==
    IF pad = 0 THEN <<>>
    ELSE <<Op("sendWindowUpdate", 0, pad), Op("sendWindowUpdate", id, pad)>>

(* DATA into the stream's body: padding is refunded at once, the rest when *)
(* the application has read it or the stream is closed.                    *)
AcceptData ==
    /\ frame.id # 0 /\ InMap(frame.id) /\ ~Unwanted(frame.id)
    /\ LET id == frame.id
           length == frame.n + frame.pad
       IN  IF available(st[id].inflow, sc.inflow) < length
           THEN UNCHANGED <<sc, st>> /\ Then(resetStream(id))
           ELSE /\ sc' = [sc EXCEPT !.inflow = @ - length]
                /\ st' = [st EXCEPT ![id] = [@ EXCEPT !.inflow = st[id].inflow - length,
                                                    !.body = st[id].body + frame.n]]
                /\ Then(RefundPadding(id, frame.pad) \o IF frame.end THEN <<Op("endStream", id, 0)>> ELSE <<>>)

RefuseData ==
    /\ frame.id = 0 \/ stateOf(frame.id) = "idle"
    /\ Then(ConnError)
    /\ UNCHANGED <<sc, st>>

processData ==
    /\ Handled("data")
    /\ IF GoingDown THEN Then(<<>>) /\ UNCHANGED <<sc, st>>
       ELSE DiscardData \/ AcceptData \/ RefuseData
    /\ UNCHANGED <<q, writer, want, msgs, call, life, sent, peerLeft, panic>>

(* endStream: a stream that was closed meanwhile stays out of sc.streams,  *)
(* but its state field no longer says that it is closed (stale).           *)
endStream ==
    /\ Running("endStream")
    /\ st' = [st EXCEPT ![Top.id] =
                [@ EXCEPT !.bodyErr = TRUE, !.stale = ~InMap(Top.id),
                          !.state = IF InMap(Top.id) THEN "halfClosedRemote"
                                    ELSE st[Top.id].state]]
    /\ pend' = Tail(pend)
    /\ UNCHANGED <<sc, q, writer, reader, want, msgs, call, life, sent, peerLeft, panic>>

-------------------------------------------------------------------------------
(* newStream *)
NewStream(state, held) ==
    [NoStream EXCEPT !.state = state, !.flow = sc.initialStreamSendWindowSize,
                     !.inflow = InitialStreamWindow, !.held = held]

NotCounted(s, id) == s

(* newStream counts the stream on the side that opened it.                 *)
Counted(s, id) ==
    IF isPushed(id) THEN [s EXCEPT !.curPushedStreams = @ + 1]
    ELSE [s EXCEPT !.curClientStreams = @ + 1]

KeepMaxStreamID(s, id) == s

(* The highest identifier that either side has used.                       *)
SetMaxStreamID(s, id) ==
    IF isPushed(id) THEN [s EXCEPT !.maxPushPromiseID = id]
    ELSE [s EXCEPT !.maxClientStreamID = id]

(* HEADERS on a stream that is known: the reply, then the trailers.        *)
HeadersOnStream ==
    /\ InMap(frame.id)
    /\ LET id == frame.id
           s == st[id]
       IN  IF s.resetQueued THEN UNCHANGED st /\ Then(<<>>)
           ELSE IF ~s.replied
           THEN /\ st' = [st EXCEPT ![id] = [@ EXCEPT !.replied = TRUE, !.ready = TRUE]]
                /\ Then(<<>>)
           ELSE IF s.gotTrailerHeader THEN UNCHANGED st /\ Then(ConnError)
           ELSE /\ st' = [st EXCEPT ![id].gotTrailerHeader = TRUE]
                /\ Then(IF ~frame.end \/ frame.x = "pseudo" THEN resetStream(id)
                        ELSE <<Op("endStream", id, 0)>>)
    /\ UNCHANGED sc

(* HEADERS that open a stream: count it and run the handler, or refuse it. *)
(* A stream that depends on itself is reset, and its handler not run.      *)
HeadersOpenStream ==
    /\ ~InMap(frame.id)
    /\ LET id == frame.id
       IN  IF Local(id) \/ id <= MaxStreamID(id)
           THEN UNCHANGED <<sc, st>> /\ Then(ConnError)
           ELSE IF ~HasHandler
           THEN sc' = SetMaxStreamID(sc, id) /\ UNCHANGED st /\ Then(resetStream(id))
           ELSE /\ sc' = Counted(SetMaxStreamID(sc, id), id)
                /\ st' = [st EXCEPT ![id] =
                            NewStream(IF frame.end THEN "halfClosedRemote" ELSE "open",
                                      frame.x # "selfDep")]
                /\ Then(IF frame.x = "selfDep" THEN resetStream(id) ELSE <<>>)

processHeaders ==
    /\ Handled("headers")
    /\ IF sc.inGoAway THEN Then(<<>>) /\ UNCHANGED <<sc, st>>
       ELSE IF frame.x = "truncated" THEN Then(resetStream(frame.id)) /\ UNCHANGED <<sc, st>>
       ELSE HeadersOnStream \/ HeadersOpenStream
    /\ UNCHANGED <<q, writer, want, msgs, call, life, sent, peerLeft, panic>>

ReadStep ==
    \/ readMore
    \/ \E t \in {"headers", "data", "windowUpdate", "rst", "ping", "pingAck", "goAway",
                 "priority", "pushPromise", "unknown"} : TooEarly(t)
    \/ processPing \/ processFatal \/ processStreamError \/ processIgnored
    \/ processPriority \/ processGoAway \/ processEOF \/ processResetStream
    \/ processWindowUpdate \/ processSettingsAck \/ receiveSettings
    \/ SettingsDone \/ processSetting \/ processSettingInitialWindowSize
    \/ processData \/ endStream \/ processHeaders

================================================================================
