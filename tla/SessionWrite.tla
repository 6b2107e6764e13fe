------------------------------ MODULE SessionWrite -----------------------------
(***************************************************************************)
(* The write side of serve (session_write.go, writesched.go and the calls  *)
(* of session.go that it makes): queueing a frame, choosing the next one,  *)
(* starting it, and what follows when it has been written.                 *)
(*                                                                         *)
(* The priority tree is abstracted to what writesched.go promises of every *)
(* WriteScheduler: the root's queue first, frames of one stream in order,  *)
(* and any ready stream next.                                              *)
(***************************************************************************)
EXTENDS SessionBase

ScheduleInsideLoop(s, rest) ==
    IF s.writingFrame
    THEN sc' = s /\ pend' = rest
    ELSE /\ sc' = [s EXCEPT !.inFrameScheduleLoop = TRUE]
         /\ pend' = <<Op("loop", 0, 0)>> \o rest

(* scheduleFrameWrite, up to its loop, in the session state s.             *)
ScheduleFrameWrite(s, rest) ==
    IF s.writingFrame \/ s.inFrameScheduleLoop
    THEN sc' = s /\ pend' = rest
    ELSE /\ sc' = [s EXCEPT !.inFrameScheduleLoop = TRUE]
         /\ pend' = <<Op("loop", 0, 0)>> \o rest

(* The scheduler has a node for id, and will discard it in closeRest.      *)
Scheduled(id) == st[id].state # "idle" /\ ~st[id].cw

PushTargetsRoot(wr) == IF wr.kind = "rst" THEN {0} ELSE {wr.id}

(* The queues that Push may choose: RST_STREAM on a stream that is not     *)
(* open goes to the root, unless the tree still has a node for it.         *)
PushTargets(wr) == IF wr.id # 0 /\ ~Scheduled(wr.id) THEN {0, wr.id} ELSE {wr.id}

(* writeFrame drops what is not RST_STREAM on a closed stream.             *)
IgnoreWrite(wr) == wr.id # 0 /\ stateOf(wr.id) = "closed" /\ wr.kind # "rst"

PushInFront(wr) ==
    IF IgnoreWrite(wr) THEN UNCHANGED q
    ELSE \E t \in PushTargets(wr) : q' = [q EXCEPT ![t] = <<wr>> \o @]

(* Push appends to one of the queues.                                      *)
Push(wr) ==
    IF IgnoreWrite(wr) THEN UNCHANGED q
    ELSE \E t \in PushTargets(wr) : q' = [q EXCEPT ![t] = Append(@, wr)]

writeFrame ==
    /\ Running("writeFrame")
    /\ Push(Top.wr)
    /\ ScheduleFrameWrite(sc, Tail(pend))
    /\ UNCHANGED <<st, writer, reader, want, msgs, call, life, sent, peerLeft, panic>>

(* sendWindowUpdate: queue WINDOW_UPDATE and count it in the inbound       *)
(* window of the stream, or of the connection if id is 0.                  *)
sendWindowUpdate ==
    /\ Running("sendWindowUpdate")
    /\ LET id == Top.id
           n == Top.n
           inflow == IF id = 0 THEN sc.inflow ELSE st[id].inflow
       IN  IF n = 0
           THEN pend' = Tail(pend) /\ UNCHANGED <<sc, st, q, panic>>
           ELSE IF ~addOK(inflow, n)
           THEN panic' = "too many window updates" /\ UNCHANGED <<sc, st, q, pend>>
           ELSE /\ Push(WR("windowUpdate", id, n, FALSE, Nobody))
                /\ st' = IF id = 0 THEN st ELSE [st EXCEPT ![id].inflow = added(@, n)]
                /\ ScheduleFrameWrite(IF id = 0 THEN [sc EXCEPT !.inflow = added(@, n)] ELSE sc,
                                      Tail(pend))
                /\ UNCHANGED panic
    /\ UNCHANGED <<writer, reader, want, msgs, call, life, sent, peerLeft>>

-------------------------------------------------------------------------------
AllowedByConn(id) == IF sc.maxFrameSize < sc.flow THEN sc.maxFrameSize ELSE sc.flow

(* The bytes that Consume may put into the next DATA frame of a stream.    *)
Allowed(id) ==
    LET a == available(st[id].flow, sc.flow)
    IN  IF sc.maxFrameSize < a THEN sc.maxFrameSize ELSE a

ConsumableAlways(wr) == TRUE

(* Consume returns at least one frame.                                     *)
Consumable(wr) == wr.kind = "data" /\ wr.n > 0 => Allowed(wr.id) > 0

(* The queues that Pop may serve now.                                      *)
ReadyQueues ==
    IF q[0] # <<>> THEN {0}
    ELSE {id \in Ids : q[id] # <<>> /\ Consumable(Head(q[id]))}

MayPop == ~sc.inGoAway \/ sc.goAwayCode = "No"

StartPanicOnlyBusy(wr) == IF sc.writingFrame THEN "already writing" ELSE "none"

(* The assertions at the head of startFrameWrite.                          *)
StartPanic(wr) ==
    IF sc.writingFrame THEN "already writing"
    ELSE IF HasStream(wr) /\ st[wr.id].state = "halfClosedLocal" /\ wr.kind # "windowUpdate"
    THEN "frame on half-closed-local stream"
    ELSE IF HasStream(wr) /\ st[wr.id].state = "closed" THEN "frame on closed stream"
    ELSE "none"

(* staysWithinBuffer is false whatever the buffer holds.                   *)
NeverInBuffer(wr) == wr.kind \in {"headers", "goAway", "flush"}

(* What the history remembers of a frame: END_STREAM, and whether the      *)
(* stream of an RST_STREAM was ever created.                               *)
Mark(wr) ==
    IF wr.kind = "rst" /\ st[wr.id].state = "idle" THEN "stray"
    ELSE IF ~writeEndsStream(wr) THEN wr.kind
    ELSE IF wr.kind = "headers" THEN "headersEnd" ELSE "dataEnd"

Sending(wr) == IF wr.id = 0 THEN sent ELSE [sent EXCEPT ![wr.id] = Append(@, Mark(wr))]

(* startFrameWrite in the session state s, from the loop: the frame is     *)
(* written at once if it fits the buffer; otherwise in a goroutine, and    *)
(* the loop ends.                                                          *)
startFrameWrite(s, wr) ==
    IF StartPanic(wr) # "none"
    THEN panic' = StartPanic(wr) /\ sc' = s /\ UNCHANGED <<pend, writer, sent>>
    ELSE LET on == [s EXCEPT !.writingFrame = TRUE, !.needsFrameFlush = (wr.kind # "flush")]
         IN  /\ sent' = Sending(wr)
             /\ UNCHANGED panic
             /\ \/ /\ ~NeverInBuffer(wr)
                   /\ sc' = on
                   /\ pend' = <<OpOn("wroteFrame", wr)>> \o pend
                   /\ UNCHANGED writer
                \/ /\ sc' = [on EXCEPT !.writingFrameAsync = TRUE,
                                       !.inFrameScheduleLoop = FALSE]
                   /\ pend' = Tail(pend)
                   /\ writer' = [stage |-> "writing", wr |-> wr]

LoopGoAway ==
    /\ Running("loop")
    /\ sc.needToSendGoAway
    /\ startFrameWrite([sc EXCEPT !.needToSendGoAway = FALSE], Control("goAway"))
    /\ UNCHANGED <<st, q, reader, want, msgs, call, life, peerLeft>>

LoopSettingsAck ==
    /\ Running("loop")
    /\ ~sc.needToSendGoAway /\ sc.needToSendSettingsAck
    /\ startFrameWrite([sc EXCEPT !.needToSendSettingsAck = FALSE], Control("settingsAck"))
    /\ UNCHANGED <<st, q, reader, want, msgs, call, life, peerLeft>>

Urgent == sc.needToSendGoAway \/ sc.needToSendSettingsAck

(* Consume splits a DATA frame; one without bytes is consumed whole.       *)
Splits(wr) == wr.kind = "data" /\ wr.n > 0 /\ wr.n > Allowed(wr.id)

(* Consume: the part of wr that is written now.                            *)
Consumed(wr) ==
    IF Splits(wr)
    THEN [wr EXCEPT !.n = Allowed(wr.id), !.end = FALSE, !.by = Nobody]
    ELSE wr

RemainingUnowned(wr) ==
    IF Splits(wr)
    THEN <<[wr EXCEPT !.n = @ - Allowed(wr.id), !.by = Nobody]>>
    ELSE <<>>

(* The part that stays keeps END_STREAM and the caller.                    *)
Remaining(wr) ==
    IF Splits(wr)
    THEN <<[wr EXCEPT !.n = @ - Allowed(wr.id)]>>
    ELSE <<>>

(* Pop a frame from queue i, charge the windows, start it.                 *)
LoopPop(i) ==
    /\ Running("loop")
    /\ ~Urgent /\ MayPop /\ i \in ReadyQueues
    /\ LET wr == Consumed(Head(q[i]))
           n == IF wr.kind = "data" THEN wr.n ELSE 0
       IN  /\ startFrameWrite([sc EXCEPT !.flow = @ - n, !.connSent = @ + n], wr)
           /\ q' = [q EXCEPT ![i] = Remaining(Head(@)) \o Tail(@)]
           /\ st' = IF n = 0 THEN st ELSE [st EXCEPT ![i] = [@ EXCEPT !.flow = st[i].flow - n,
                                                                !.spent = st[i].spent + n]]
    /\ UNCHANGED <<reader, want, msgs, call, life, peerLeft>>

NothingToPop == ~(MayPop /\ ReadyQueues # {})

LoopFlush ==
    /\ Running("loop")
    /\ ~Urgent /\ NothingToPop /\ sc.needsFrameFlush
    /\ startFrameWrite(sc, Control("flush"))
    /\ UNCHANGED <<st, q, reader, want, msgs, call, life, peerLeft>>

LoopExit ==
    /\ Running("loop")
    /\ ~Urgent /\ NothingToPop /\ ~sc.needsFrameFlush
    /\ sc' = [sc EXCEPT !.inFrameScheduleLoop = FALSE]
    /\ pend' = Tail(pend)
    /\ UNCHANGED <<st, q, writer, reader, want, msgs, call, life, sent, peerLeft, panic>>

-------------------------------------------------------------------------------
(* resetStream: queue RST_STREAM, then mark the stream if it is still known.*)
resetStream(id) ==
    <<OpOn("writeFrame", WR("rst", id, 0, FALSE, Nobody)), Op("markReset", id, 0)>>

markReset ==
    /\ Running("markReset")
    /\ st' = IF InMap(Top.id) THEN [st EXCEPT ![Top.id].resetQueued = TRUE] ELSE st
    /\ pend' = Tail(pend)
    /\ UNCHANGED <<sc, q, writer, reader, want, msgs, call, life, sent, peerLeft, panic>>

(* The state of the stream once its END_STREAM frame has been written.     *)
AfterEndStream(state) == IF state = "open" THEN "halfClosedLocal" ELSE state

WroteCallsUnchecked(wr) ==
    CASE writeEndsStream(wr) /\ st[wr.id].state = "open" -> resetStream(wr.id)
      [] writeEndsStream(wr) /\ st[wr.id].state = "halfClosedRemote"
           -> <<Op("closeStream", wr.id, 0)>>
      [] wr.kind = "rst" -> <<Op("closeStream", wr.id, 0)>>
      [] OTHER -> <<>>

WroteCallsEndOnly(wr) ==
    CASE writeEndsStream(wr) /\ st[wr.id].state = "open" -> resetStream(wr.id)
      [] writeEndsStream(wr) /\ st[wr.id].state = "halfClosedRemote"
           -> <<Op("closeStream", wr.id, 0)>>
      [] OTHER -> <<>>

(* What wroteFrame calls for the frame wr.                                 *)
WroteCalls(wr) ==
    CASE writeEndsStream(wr) /\ st[wr.id].state = "open" -> resetStream(wr.id)
      [] writeEndsStream(wr) /\ st[wr.id].state = "halfClosedRemote"
           -> <<Op("closeStream", wr.id, 0)>>
      [] wr.kind = "rst" /\ InMap(wr.id) -> <<Op("closeStream", wr.id, 0)>>
      [] OTHER -> <<>>

wroteFrame ==
    /\ Running("wroteFrame")
    /\ LET wr == Top.wr
       IN  IF ~sc.writingFrame THEN Panic("not writing")
           ELSE /\ sc' = [sc EXCEPT !.writingFrame = FALSE, !.writingFrameAsync = FALSE]
                /\ st' = IF writeEndsStream(wr)
                         THEN [st EXCEPT ![wr.id].state = AfterEndStream(@)]
                         ELSE st
                /\ pend' = WroteCalls(wr) \o <<OpOn("reply", wr)>> \o Tail(pend)
                /\ UNCHANGED <<q, writer, reader, want, msgs, call, life, sent, peerLeft, panic>>

(* The end of wroteFrame: unblock the caller, schedule the next frame.     *)
reply ==
    /\ Running("reply")
    /\ LET c == Top.wr.by
       IN  call' = IF c = Nobody THEN call ELSE [call EXCEPT ![c].ch = TRUE]
    /\ ScheduleFrameWrite(sc, Tail(pend))
    /\ UNCHANGED <<st, q, writer, reader, want, msgs, life, sent, peerLeft, panic>>

(* closeStream stops the program: the stream is not open, or the idle      *)
(* timer, which nothing ever creates, has to be reset.                     *)
ClosePanic(id) ==
    IF ~InMap(id) THEN "cannot close stream"
    ELSE IF IdleTimeout /\ {i \in Ids : InMap(i)} = {id} THEN "idleTimer is nil"
    ELSE "none"

(* closeStream, up to sendWindowUpdate: what the application has not read  *)
(* by now goes back to the connection's window.                            *)
closeStream ==
    /\ Running("closeStream")
    /\ LET id == Top.id
       IN  IF ClosePanic(id) # "none" THEN Panic(ClosePanic(id))
           ELSE /\ st' = [st EXCEPT ![id].state = "closed"]
                /\ sc' = IF isPushed(id) THEN [sc EXCEPT !.curPushedStreams = @ - 1]
                         ELSE [sc EXCEPT !.curClientStreams = @ - 1]
                /\ pend' = <<Op("sendWindowUpdate", 0, st[id].body),
                             Op("closeRest", id, 0)>> \o Tail(pend)
                /\ UNCHANGED <<q, writer, reader, want, msgs, call, life, sent, peerLeft, panic>>

closeRestSilently ==
    /\ Running("closeRest")
    /\ st' = [st EXCEPT ![Top.id].bodyErr = TRUE]
    /\ q' = [q EXCEPT ![Top.id] = <<>>]
    /\ pend' = Tail(pend)
    /\ UNCHANGED <<sc, writer, reader, want, msgs, call, life, sent, peerLeft, panic>>

closeRestBodyOpen ==
    /\ Running("closeRest")
    /\ st' = [st EXCEPT ![Top.id].cw = TRUE]
    /\ q' = [q EXCEPT ![Top.id] = <<>>]
    /\ pend' = Tail(pend)
    /\ UNCHANGED <<sc, writer, reader, want, msgs, call, life, sent, peerLeft, panic>>

(* The rest of closeStream: close the body and cw, drop the queue.         *)
closeRest ==
    /\ Running("closeRest")
    /\ st' = [st EXCEPT ![Top.id] = [@ EXCEPT !.bodyErr = TRUE, !.cw = TRUE]]
    /\ q' = [q EXCEPT ![Top.id] = <<>>]
    /\ pend' = Tail(pend)
    /\ UNCHANGED <<sc, writer, reader, want, msgs, call, life, sent, peerLeft, panic>>

(* goAway with ErrCodeNo, or with an error; only the first call counts.    *)
goAway(op, code) ==
    /\ Running(op)
    /\ life' = [life EXCEPT !.fatal = @ \/ code = "Err"]
    /\ IF sc.inGoAway
       THEN pend' = Tail(pend) /\ UNCHANGED sc
       ELSE ScheduleFrameWrite([sc EXCEPT !.inGoAway = TRUE, !.needToSendGoAway = TRUE,
                                          !.goAwayCode = code], Tail(pend))
    /\ UNCHANGED <<st, q, writer, reader, want, msgs, call, sent, peerLeft, panic>>

WriteStep ==
    \/ writeFrame \/ sendWindowUpdate
    \/ LoopGoAway \/ LoopSettingsAck \/ LoopFlush \/ LoopExit
    \/ \E i \in Ids \union {0} : LoopPop(i)
    \/ markReset \/ wroteFrame \/ reply \/ closeStream \/ closeRest
    \/ goAway("goAwayNo", "No") \/ goAway("goAwayErr", "Err")

(* writeFrameAsync: the transport takes the frame; the result is in        *)
(* wroteFrameCh until serve selects it.                                    *)
writeFrameAsync ==
    /\ panic = "none"
    /\ writer.stage = "writing"
    /\ writer' = [writer EXCEPT !.stage = "wrote"]
    /\ UNCHANGED <<sc, st, q, pend, reader, want, msgs, call, life, sent, peerLeft, panic>>

================================================================================
