-------------------------------- MODULE Session --------------------------------
(***************************************************************************)
(* One session: serve's select loop (session.go), the application's calls  *)
(* of the Session and Stream API (session.go, stream.go,                   *)
(* session_write.go), the timer, and their composition with the write side *)
(* and the read side.                                                      *)
(***************************************************************************)
EXTENDS SessionRead

(* serve, up to its loop.  A handshake that fails is a return.             *)
handshake ==
    /\ Running("handshake")
    /\ \/ /\ pend' = <<OpOn("writeFrame", Control("settings"))>> \o
                     (IF sc.inflow > DefaultWindow
                      THEN <<Op("sendWindowUpdate", 0, sc.inflow - DefaultWindow)>> ELSE <<>>)
                     \o <<Op("startReader", 0, 0)>>
          /\ sc' = [sc EXCEPT !.unackedSettings = @ + 1]
       \/ pend' = <<Op("exit", 0, 0)>> /\ UNCHANGED sc
    /\ UNCHANGED <<st, q, writer, reader, want, msgs, call, life, sent, peerLeft, panic>>

startReader ==
    /\ Running("startReader")
    /\ reader' = [reader EXCEPT !.stage = "reading"]
    /\ pend' = Tail(pend)
    /\ UNCHANGED <<sc, st, q, writer, want, msgs, call, life, sent, peerLeft, panic>>

-------------------------------------------------------------------------------
(* serve's select: RST_STREAM goes through resetStream.                    *)
SelectWant ==
    /\ panic = "none"
    /\ Parked /\ want # <<>>
    /\ LET wr == Head(want)
       IN  pend' = (IF wr.kind = "rst" THEN resetStream(wr.id) ELSE <<OpOn("writeFrame", wr)>>)
                   \o <<Op("iter", 0, 0)>>
    /\ want' = Tail(want)
    /\ UNCHANGED <<sc, st, q, writer, reader, msgs, call, life, sent, peerLeft, panic>>

SelectWrote ==
    /\ panic = "none"
    /\ Parked /\ writer.stage = "wrote"
    /\ writer' = [stage |-> "idle", wr |-> Control("flush")]
    /\ pend' = <<OpOn("wroteFrame", writer.wr), Op("iter", 0, 0)>>
    /\ UNCHANGED <<sc, st, q, reader, want, msgs, call, life, sent, peerLeft, panic>>

SelectMsg(m) ==
    /\ panic = "none"
    /\ Parked /\ msgs # <<>> /\ Head(msgs).m = m
    /\ msgs' = Tail(msgs)

(* gracefulShutdownMsg *)
SelectShutdown ==
    /\ SelectMsg("graceful")
    /\ pend' = <<Op("goAwayNo", 0, 0), Op("iter", 0, 0)>>
    /\ UNCHANGED <<sc, st, q, writer, reader, want, call, life, sent, peerLeft, panic>>

(* shutdownTimerMsg: serve returns.                                        *)
SelectTimer ==
    /\ SelectMsg("timer")
    /\ pend' = <<Op("exit", 0, 0)>>
    /\ UNCHANGED <<sc, st, q, writer, reader, want, call, life, sent, peerLeft, panic>>

LastLocalID == IF IsServer THEN sc.maxPushPromiseID ELSE sc.maxClientStreamID

NextLocalID == IF ~IsServer /\ sc.maxClientStreamID = 0 THEN 1 ELSE LastLocalID + 2

curPushedOnly == sc.curPushedStreams

curLocalStreams == IF IsServer THEN sc.curPushedStreams ELSE sc.curClientStreams

(* createStream: over the peer's limit, out of identifiers, or a new       *)
(* stream whose HEADERS are queued before the caller gets it.              *)
createStream ==
    /\ SelectMsg("open")
    /\ LET c == Head(msgs).c
           end == Script[c].end
           id == NextLocalID
       IN  IF curLocalStreams + 1 > sc.peerMaxStreams
           THEN /\ pend' = <<Op("refuse", 0, c), Op("iter", 0, 0)>>
                /\ UNCHANGED <<sc, st>>
           ELSE IF LastLocalID + 2 >= StreamIDLimit
           THEN /\ pend' = <<Op("goAwayNo", 0, 0), Op("refuse", 0, c), Op("iter", 0, 0)>>
                /\ UNCHANGED <<sc, st>>
           ELSE /\ sc' = Counted(SetMaxStreamID(sc, id), id)
                /\ st' = [st EXCEPT ![id] =
                            NewStream(IF end THEN "halfClosedRemote" ELSE "open", FALSE)]
                /\ pend' = <<OpOn("writeFrame", WR("headers", id, 0, end, Nobody)),
                             Op("handOver", id, c), Op("iter", 0, 0)>>
    /\ UNCHANGED <<q, writer, reader, want, call, life, sent, peerLeft, panic>>

(* errCh, which is buffered, gets ErrStreamLimitReached.                   *)
refuse ==
    /\ Running("refuse")
    /\ call' = [call EXCEPT ![Top.n].ch = TRUE]
    /\ pend' = Tail(pend)
    /\ UNCHANGED <<sc, st, q, writer, reader, want, msgs, life, sent, peerLeft, panic>>

(* streamCh is not buffered: serve and OpenStream meet.                    *)
handOver ==
    /\ Running("handOver")
    /\ call[Top.n].stage = "wait"
    /\ call' = [call EXCEPT ![Top.n] = [@ EXCEPT !.stage = "returned", !.id = Top.id,
                                              !.res = "done"]]
    /\ st' = [st EXCEPT ![Top.id].held = TRUE]
    /\ pend' = Tail(pend)
    /\ UNCHANGED <<sc, q, writer, reader, want, msgs, life, sent, peerLeft, panic>>

ArmTimerAtOnce ==
    /\ sc.inGoAway /\ ~sc.needToSendGoAway /\ ~sc.writingFrame
    /\ sc.shutdownTimer = "nil"

ArmTimerWhenIdle == ArmTimerAtOnce /\ curOpenStreams = 0

ArmTimerOnError == ArmTimerAtOnce /\ sc.goAwayCode # "No"

(* The end of an iteration: start the shutdown timer once GOAWAY is out.   *)
ArmTimer ==
    /\ sc.inGoAway /\ ~sc.needToSendGoAway /\ ~sc.writingFrame
    /\ sc.shutdownTimer = "nil"
    /\ sc.goAwayCode # "No" \/ curOpenStreams = 0

iter ==
    /\ Running("iter")
    /\ sc' = IF ArmTimer THEN [sc EXCEPT !.shutdownTimer = "armed"] ELSE sc
    /\ pend' = Tail(pend)
    /\ UNCHANGED <<st, q, writer, reader, want, msgs, call, life, sent, peerLeft, panic>>

(* serve returns: its deferred calls run in reverse order.                 *)
exit ==
    /\ Running("exit")
    /\ life' = [life EXCEPT !.doneServing = TRUE]
    /\ pend' = <<Op("closeAll", 0, 0)>>
    /\ UNCHANGED <<sc, st, q, writer, reader, want, msgs, call, sent, peerLeft, panic>>

closeConnOnly ==
    /\ Running("closeAll")
    /\ pend' = Tail(pend) /\ life' = [life EXCEPT !.connClosed = TRUE]
    /\ UNCHANGED <<sc, st, q, writer, reader, want, msgs, call, sent, peerLeft, panic>>

(* closeAllStreamsOnConnClose, in map order, then conn.Close.              *)
closeAllStreamsOnConnClose ==
    /\ Running("closeAll")
    /\ IF \A id \in Ids : ~InMap(id)
       THEN pend' = Tail(pend) /\ life' = [life EXCEPT !.connClosed = TRUE]
       ELSE /\ \E id \in Ids : InMap(id) /\ pend' = <<Op("closeStream", id, 0)>> \o pend
            /\ UNCHANGED life
    /\ UNCHANGED <<sc, st, q, writer, reader, want, msgs, call, sent, peerLeft, panic>>

ServeStep ==
    \/ handshake \/ startReader
    \/ SelectWant \/ SelectWrote \/ SelectShutdown \/ SelectTimer \/ createStream
    \/ refuse \/ handOver \/ iter \/ exit \/ closeAllStreamsOnConnClose

(* onShutdownTimer, through sendServeMsg.                                  *)
onShutdownTimer ==
    /\ panic = "none"
    /\ sc.shutdownTimer = "armed" /\ ~life.doneServing
    /\ Len(msgs) < ChanCap
    /\ msgs' = Append(msgs, [m |-> "timer", c |-> Nobody])
    /\ sc' = [sc EXCEPT !.shutdownTimer = "fired"]
    /\ UNCHANGED <<st, q, pend, writer, reader, want, call, life, sent, peerLeft, panic>>

-------------------------------------------------------------------------------
(* The application.  A call starts when the call before it on the same     *)
(* goroutine has returned, on a stream that the application holds.         *)
Starts(c, api) ==
    /\ panic = "none"
    /\ call[c].stage = "ready" /\ Script[c].api = api
    /\ Script[c].after # Nobody => call[Script[c].after].stage = "returned"

Held(id) == st[id].held

Return(c, res) == [call EXCEPT ![c] = [@ EXCEPT !.stage = "returned", !.res = res]]

AppUnchanged == UNCHANGED <<sc, q, pend, writer, reader, sent, peerLeft>>

(* OpenStream, StartGracefulShutdown: a message for serve.                 *)
OpenStream(c) ==
    /\ Starts(c, "open")
    /\ Len(msgs) < ChanCap
    /\ msgs' = Append(msgs, [m |-> "open", c |-> c])
    /\ call' = [call EXCEPT ![c].stage = "wait"]
    /\ AppUnchanged /\ UNCHANGED <<st, want, life, panic>>

OpenStreamRefused(c) ==
    /\ panic = "none"
    /\ Script[c].api = "open" /\ call[c].stage = "wait" /\ call[c].ch
    /\ call' = Return(c, "refused")
    /\ AppUnchanged /\ UNCHANGED <<st, want, msgs, life, panic>>

(* writeDataFromHandler, writeHeaders: the frame is on its way to serve.   *)
WriteData(c, id) ==
    /\ Starts(c, "write")
    /\ Held(id) /\ Len(want) < ChanCap
    /\ want' = Append(want, WR("data", id, Script[c].n, Script[c].end, c))
    /\ call' = [call EXCEPT ![c] = [@ EXCEPT !.stage = "wait", !.id = id]]
    /\ AppUnchanged /\ UNCHANGED <<st, msgs, life, panic>>

(* Reply: first the test of st.replied, later the assignment and the close *)
(* of readyCh - nothing keeps serve from replying in between.              *)
Reply(c, id) ==
    /\ Starts(c, "reply")
    /\ Held(id) /\ ~Local(id)
    /\ call' = IF st[id].replied THEN Return(c, "replied")
               ELSE [call EXCEPT ![c] = [@ EXCEPT !.stage = "replying", !.id = id]]
    /\ AppUnchanged /\ UNCHANGED <<st, want, msgs, life, panic>>

ReplyReady(c) ==
    /\ panic = "none"
    /\ call[c].stage = "replying"
    /\ LET id == call[c].id
       IN  IF st[id].ready
           THEN panic' = "close of closed readyCh" /\ UNCHANGED <<st, call>>
           ELSE /\ st' = [st EXCEPT ![id] = [@ EXCEPT !.replied = TRUE, !.ready = TRUE]]
                /\ call' = [call EXCEPT ![c].stage = "sending"]
                /\ UNCHANGED panic
    /\ AppUnchanged /\ UNCHANGED <<want, msgs, life>>

(* ResetWithError reads serve's fields without a lock.                     *)
ResetWithError(c, id) ==
    /\ Starts(c, "reset")
    /\ Held(id)
    /\ IF (st[id].state = "closed" /\ ~st[id].stale) \/ st[id].resetQueued
       THEN call' = Return(c, "dead") /\ UNCHANGED st
       ELSE /\ call' = [call EXCEPT ![c] = [@ EXCEPT !.stage = "sending", !.id = id]]
            /\ st' = [st EXCEPT ![id].replied = TRUE]
    /\ AppUnchanged /\ UNCHANGED <<want, msgs, life, panic>>

(* writeFrameFromHandler for Reply, which waits if it was given a header,  *)
(* and for ResetWithError, which does not wait.                            *)
Send(c) ==
    /\ panic = "none"
    /\ call[c].stage = "sending" /\ Len(want) < ChanCap
    /\ LET isReply == Script[c].api = "reply"
           waits == isReply /\ Script[c].hdr
       IN  /\ want' = Append(want, WR(IF isReply THEN "headers" ELSE "rst", call[c].id, 0,
                                     isReply /\ Script[c].end, IF waits THEN c ELSE Nobody))
           /\ call' = IF waits THEN [call EXCEPT ![c].stage = "wait"] ELSE Return(c, "done")
    /\ AppUnchanged /\ UNCHANGED <<st, msgs, life, panic>>

(* The frame was written, or the stream was closed: writeDataFromHandler   *)
(* then looks once more for the result, writeHeaders does not.             *)
WriteReturns(c) ==
    /\ panic = "none"
    /\ Script[c].api \in {"write", "reply"} /\ call[c].stage = "wait"
    /\ \/ call[c].ch /\ call' = Return(c, "done")
       \/ /\ st[call[c].id].cw /\ (Script[c].api = "write" => ~call[c].ch)
          /\ call' = Return(c, "closed")
    /\ AppUnchanged /\ UNCHANGED <<st, want, msgs, life, panic>>

(* WaitForReply: the script's n is positive if ctx has a deadline.         *)
WaitForReply(c, id) ==
    /\ Starts(c, "waitReply")
    /\ Held(id) /\ Local(id)
    /\ call' = [call EXCEPT ![c] = [@ EXCEPT !.stage = "wait", !.id = id]]
    /\ AppUnchanged /\ UNCHANGED <<st, want, msgs, life, panic>>

WaitForReplyReturns(c) ==
    /\ panic = "none"
    /\ Script[c].api = "waitReply" /\ call[c].stage = "wait"
    /\ \/ st[call[c].id].ready /\ call' = Return(c, "done")
       \/ st[call[c].id].cw /\ call' = Return(c, "closed")
       \/ Script[c].n > 0 /\ call' = Return(c, "timeout")
    /\ AppUnchanged /\ UNCHANGED <<st, want, msgs, life, panic>>

(* Session.Close: before the handshake is over it closes the connection,   *)
(* afterwards it asks for a graceful shutdown, once.  sawFirstSettings is  *)
(* read without a lock: Close may see the value of before the handshake.   *)
Close(c) ==
    /\ Starts(c, "close")
    /\ ~life.doneServing
    /\ \/ /\ life' = [life EXCEPT !.connClosed = TRUE]
          /\ call' = Return(c, "done")
          /\ UNCHANGED msgs
       \/ /\ sc.sawFirstSettings
          /\ life.once \/ Len(msgs) < ChanCap
          /\ msgs' = IF life.once THEN msgs ELSE Append(msgs, [m |-> "graceful", c |-> Nobody])
          /\ life' = [life EXCEPT !.once = TRUE]
          /\ call' = [call EXCEPT ![c].stage = "wait"]
    /\ AppUnchanged /\ UNCHANGED <<st, want, panic>>

(* Close gives up after goAwayTimeout and a second.                        *)
CloseTimeout(c) ==
    /\ panic = "none"
    /\ Script[c].api = "close" /\ call[c].stage = "wait"
    /\ call' = Return(c, "timeout")
    /\ AppUnchanged /\ UNCHANGED <<st, want, msgs, life, panic>>

(* doneServing ends every attempt to send and every wait but WaitForReply's,*)
(* which ends when serve's return closes the stream.                       *)
Disconnected(c) ==
    /\ panic = "none" /\ life.doneServing
    /\ \/ call[c].stage \in {"wait", "sending"} /\ Script[c].api # "waitReply"
       \/ Starts(c, "open") \/ Starts(c, "close")
       \/ Starts(c, "write") /\ \E id \in Ids : Held(id)
    /\ call' = Return(c, "disconnected")
    /\ AppUnchanged /\ UNCHANGED <<st, want, msgs, life, panic>>

(* Stream.Read takes what the body holds; serve is not told.               *)
Read(id) ==
    /\ panic = "none"
    /\ Held(id) /\ st[id].body > 0
    /\ LET counted == IF InMap(id) THEN st[id].body ELSE 0
       IN  st' = [st EXCEPT ![id] = [@ EXCEPT !.body = 0, !.read = st[id].read + counted]]
    /\ AppUnchanged /\ UNCHANGED <<want, msgs, call, life, panic>>

AppStep ==
    \/ \E c \in Calls :
         \/ OpenStream(c) \/ OpenStreamRefused(c) \/ ReplyReady(c) \/ Send(c)
         \/ WriteReturns(c) \/ WaitForReplyReturns(c) \/ Close(c) \/ CloseTimeout(c)
         \/ Disconnected(c)
         \/ \E id \in Ids : WriteData(c, id) \/ Reply(c, id) \/ ResetWithError(c, id)
                            \/ WaitForReply(c, id)
    \/ \E id \in Ids : Read(id)

(* The session is over, and nobody waits for it.                           *)
Over ==
    /\ \/ panic # "none"
       \/ /\ life.doneServing /\ pend = <<>>
          /\ reader.stage \in {"off", "stopped"} /\ writer.stage # "writing"
          /\ \A c \in Calls : call[c].stage \in {"ready", "returned"}
    /\ UNCHANGED vars

Next ==
    \/ WriteStep \/ writeFrameAsync
    \/ ReadStep \/ (\E fr \in PeerFrames : ReadFrame(fr)) \/ ReadError \/ ReaderStops
    \/ ServeStep \/ onShutdownTimer
    \/ AppStep
    \/ Over

Spec == Init /\ [][Next]_vars

-------------------------------------------------------------------------------
(* The calls in progress go on when they can.                              *)
CallProgress(c) ==
    \/ OpenStreamRefused(c) \/ ReplyReady(c) \/ Send(c) \/ WriteReturns(c)
    \/ WaitForReplyReturns(c) \/ CloseTimeout(c)
    \/ call[c].stage # "ready" /\ Disconnected(c)

(* Goroutines that can run do run, the transport takes what is written,    *)
(* timers and deadlines expire.  Nothing is assumed of the peer, nor of    *)
(* when the application makes a call or reads.                             *)
Fairness ==
    /\ WF_vars(WriteStep \/ ReadStep \/ ServeStep)
    /\ WF_vars(writeFrameAsync)
    /\ WF_vars(ReaderStops)
    /\ WF_vars((life.connClosed \/ ~sc.sawFirstSettings) /\ ReadError)
    /\ WF_vars(onShutdownTimer)
    /\ \A c \in Calls : WF_vars(CallProgress(c))

FairSpec == Spec /\ Fairness

-------------------------------------------------------------------------------
Sessions ==
    [sawFirstSettings : BOOLEAN, needToSendSettingsAck : BOOLEAN,
     unackedSettings : Int, initialStreamSendWindowSize : 0 .. MaxInt32,
     maxFrameSize : Nat, peerMaxStreams : Nat,
     maxClientStreamID : {id \in Ids : ~isPushed(id)} \union {0},
     maxPushPromiseID : {id \in Ids : isPushed(id)} \union {0},
     curClientStreams : Int, curPushedStreams : Int,
     writingFrame : BOOLEAN, writingFrameAsync : BOOLEAN,
     needsFrameFlush : BOOLEAN, inFrameScheduleLoop : BOOLEAN,
     inGoAway : BOOLEAN, needToSendGoAway : BOOLEAN, goAwayCode : {"No", "Err"},
     shutdownTimer : {"nil", "armed", "fired"}, flow : Int, inflow : Int,
     connInc : Nat, connSent : Nat, misgrown : BOOLEAN]

StreamObjects ==
    [state : StreamStates, flow : Int, inflow : Int, body : Nat, read : Nat,
     bodyErr : BOOLEAN, resetQueued : BOOLEAN, replied : BOOLEAN,
     ready : BOOLEAN, gotTrailerHeader : BOOLEAN, cw : BOOLEAN,
     stale : BOOLEAN, held : BOOLEAN, inc : Nat, spent : Nat]

Writers == [stage : {"idle", "writing", "wrote"}, wr : WriteRequests]

FrameReaders == [stage : {"off", "reading", "offer", "gate", "stopped"}, f : Frames]

Messages == [m : {"open", "graceful", "timer"}, c : Calls \union {Nobody}]

CallStates ==
    [stage : {"ready", "replying", "sending", "wait", "returned"},
     id : Ids \union {0}, ch : BOOLEAN,
     res : {"none", "done", "closed", "disconnected", "refused", "replied", "dead", "timeout"}]

Lives == [doneServing : BOOLEAN, connClosed : BOOLEAN, once : BOOLEAN, fatal : BOOLEAN]

Marks == {"headers", "headersEnd", "data", "dataEnd", "windowUpdate", "rst", "stray"}

TypeOK ==
    /\ sc \in Sessions
    /\ st \in [Ids -> StreamObjects]
    /\ q \in [Ids \union {0} -> Seq(WriteRequests)]
    /\ pend \in Seq(Pending)
    /\ writer \in Writers
    /\ reader \in FrameReaders
    /\ want \in Seq(WriteRequests)
    /\ msgs \in Seq(Messages)
    /\ call \in [Calls -> CallStates]
    /\ life \in Lives
    /\ sent \in [Ids -> Seq(Marks)]
    /\ peerLeft \in Nat

(* "At most one goroutine can be running writeFrameAsync at a time": the   *)
(* flags that guard startFrameWrite and wroteFrame always agree with the   *)
(* goroutine, through every nesting of scheduleFrameWrite, and a result    *)
(* that is waited for in select does arrive.                               *)
OneFrameAtATime ==
    /\ writer.stage # "idle" => sc.writingFrame
    /\ Running("loop") => ~sc.writingFrame
    /\ Running("wroteFrame") => sc.writingFrame /\ writer.stage = "idle"
    /\ Parked => /\ sc.writingFrame <=> writer.stage # "idle"
                 /\ ~sc.inFrameScheduleLoop

(* serve never parks in its select with a frame it could start and no      *)
(* write under way whose end would make it look again.                     *)
NoLostWakeup ==
    panic = "none" /\ Parked /\ ~sc.writingFrame =>
        ~Urgent /\ NothingToPop /\ ~sc.needsFrameFlush

(* The counters that createStream compares with the peer's limit, and that *)
(* hold up a graceful shutdown, count the streams in sc.streams.           *)
StreamCount ==
    /\ sc.curClientStreams = Cardinality({id \in Ids : InMap(id) /\ ~isPushed(id)})
    /\ sc.curPushedStreams = Cardinality({id \in Ids : InMap(id) /\ isPushed(id)})

(* RST_STREAM ends what this side sends on a stream: whatever is queued    *)
(* behind it, and whatever closeStream's own write loop pops, only another *)
(* RST_STREAM is ever started after it (RFC 7540 5.1).                     *)
ResetIsLast ==
    \A id \in Ids : \A i, j \in DOMAIN sent[id] :
        i < j /\ sent[id][i] = "rst" => sent[id][j] = "rst"

(* After END_STREAM only RST_STREAM or WINDOW_UPDATE is started on a       *)
(* stream, whoever queued frames behind it.                                *)
EndIsLast ==
    \A id \in Ids : \A i, j \in DOMAIN sent[id] :
        i < j /\ sent[id][i] \in {"headersEnd", "dataEnd"} => sent[id][j] \in {"rst", "windowUpdate"}

(* On a stream of this side HEADERS come before DATA and WINDOW_UPDATE,    *)
(* although the application may write as soon as it holds the stream.      *)
OpensWithHeaders ==
    \A id \in Ids : Local(id) /\ sent[id] # <<>> =>
        sent[id][1] \notin {"data", "dataEnd", "windowUpdate"}

Scheduler == INSTANCE WriteScheduler WITH open <- {id \in Ids : Scheduled(id)}

(* serve uses the scheduler as writesched.go asks: streams are opened and  *)
(* closed once, only RST_STREAM is pushed on a stream that is not open,    *)
(* and through the nested write loops every queue is consumed in order.    *)
ImplementsScheduler == Scheduler!Spec

SendLedger == INSTANCE SendWindow WITH
    Streams      <- Ids,
    MaxFrameSize <- MaxInt32,
    MaxGrant     <- PeerBudget * MaxInt32,
    open         <- {id \in Ids : InMap(id)},
    used         <- {id \in Ids : st[id].state # "idle"},
    win          <- [id \in Ids |-> st[id].flow],
    conn         <- sc.flow,
    initWin      <- sc.initialStreamSendWindowSize,
    failed       <- sc.misgrown,
    inc          <- [id \in Ids |-> st[id].inc],
    sent         <- [id \in Ids |-> st[id].spent],
    connInc      <- sc.connInc,
    connSent     <- sc.connSent

(* The outbound windows change only as the ledger of SendWindow does,      *)
(* whatever the write loop, resets and closing streams do around them:     *)
(* what is proved of SendWindow holds of the session.                      *)
ImplementsSendWindow == SendLedger!Spec

(* When closeStream is over, the application knows (cw, the body) and the  *)
(* scheduler holds nothing of the stream but RST_STREAM.                   *)
ClosedIsFinal ==
    Parked => \A id \in Ids : st[id].state = "closed" =>
        /\ st[id].cw /\ st[id].bodyErr
        /\ \A i \in DOMAIN q[id] : q[id][i].kind = "rst"

(* The assertions of session.go and session_write.go that guard the write  *)
(* loop, closeStream and the inbound windows never fail.                   *)
NoInternalError ==
    panic \notin {"already writing", "not writing", "cannot close stream",
                  "too many window updates"}

(* Bytes of the connection's inbound window that the streams up to i hold: *)
(* unread, or read while the stream was known.                             *)
HeldBytes[i \in 0 .. StreamIDLimit - 1] ==
    IF i = 0 THEN 0
    ELSE HeldBytes[i - 1] + st[i].read + (IF InMap(i) THEN st[i].body ELSE 0)

(* No byte of the connection's inbound window is lost or refunded twice:   *)
(* what is missing is in the bodies of open streams or has been read.      *)
InflowAccount ==
    Parked => sc.inflow + HeldBytes[StreamIDLimit - 1] =
              InitialSessionWindow +
              (IF InitialSessionWindow > DefaultWindow
               THEN InitialSessionWindow - DefaultWindow ELSE 0)

(* Identifiers are never used twice: a closed stream stays closed, and a   *)
(* new stream's identifier is above all that its side has used.            *)
IdsAreFresh ==
    [][\A id \in Ids :
         /\ st[id].state = "closed" => st'[id].state = "closed"
         /\ ~InMap(id) /\ st'[id].state \in Live =>
              \A used \in Ids : st[used].state # "idle" /\ isPushed(used) = isPushed(id)
                               => used < id]_vars

(* OpenStream never takes this side above the limit that the peer had set  *)
(* with SETTINGS_MAX_CONCURRENT_STREAMS when the stream was created.       *)
WithinPeerLimit ==
    [][\A id \in Ids : Local(id) /\ ~InMap(id) /\ st'[id].state \in Live =>
         Cardinality({i \in Ids : Local(i) /\ st'[i].state \in Live}) <= sc.peerMaxStreams]_vars

(* A graceful shutdown does not cut streams off: the timer that closes the *)
(* connection is not started while one is open.                            *)
GracefulWaits ==
    sc.shutdownTimer # "nil" /\ sc.goAwayCode = "No" => curOpenStreams = 0

Ended == life.doneServing \/ panic # "none"

(* GOAWAY with an error ends the session, whatever is still queued.        *)
ErrorEnds == sc.inGoAway /\ sc.goAwayCode = "Err" ~> Ended

(* A graceful shutdown ends the session once no stream is open.            *)
GracefulEnds == sc.inGoAway /\ curOpenStreams = 0 ~> Ended \/ curOpenStreams > 0

(* The deadline ends a handshake that the peer does not complete.          *)
HandshakeEnds == <>(sc.sawFirstSettings \/ Ended)

(* When serve returns, every stream is closed and says so, every blocked   *)
(* call returns, the reader stops and the connection is closed.            *)
AllReleased ==
    life.doneServing ~>
        \/ panic # "none"
        \/ /\ \A id \in Ids : ~InMap(id) /\ (st[id].state = "closed" => st[id].cw)
           /\ \A c \in Calls : call[c].stage \in {"ready", "returned"}
           /\ reader.stage \in {"off", "stopped"} /\ life.connClosed

(* While flow control does not hold the data back, a call that waits for   *)
(* serve returns: a frame is written, refused, or dropped with its stream. *)
BlockedCallReturns ==
    \A c \in Calls : call[c].stage \in {"replying", "sending", "wait"} ~>
                        call[c].stage = "returned" \/ panic # "none"

-------------------------------------------------------------------------------
(* Statements of the repository's comments and assertions that the code    *)
(* does not keep.                                                          *)

(* startFrameWrite: "internal error: attempt to send frame on a closed     *)
(* stream".                                                                *)
NoFrameOnClosedStream == panic # "frame on closed stream"

(* "goAway will handle shutdown": a connection error ends the session.     *)
FatalEnds == life.fatal ~> Ended

(* "Notes that the handler for the given stream ID read n bytes of its     *)
(* body and schedules flow control tokens to be sent."                     *)
ReadBytesReturned ==
    \A id \in Ids : st[id].read > 0 /\ InMap(id) ~>
        sc.inflow = InitialSessionWindow \/ ~InMap(id) \/ Ended

================================================================================
