----------------------------- MODULE SessionStreams ----------------------------
(***************************************************************************)
(* The streams of a session, for every script, every peer and every        *)
(* configuration: their identifiers, their number, and the limit that the  *)
(* peer sets.                                                              *)
(*                                                                         *)
(* Few of serve's actions change what these are about.  The first part     *)
(* shows that all the others leave it alone (Quiet); the second what the   *)
(* few do to it.                                                           *)
(***************************************************************************)
EXTENDS SessionStack, FiniteSetTheorems

(* What a step leaves alone of a stream, and of the session.               *)
SameOn(r, s) ==
    /\ r.state = s.state /\ r.cw = s.cw /\ r.bodyErr = s.bodyErr
    /\ r.flow = s.flow /\ r.inc = s.inc /\ r.spent = s.spent
    /\ s.resetQueued => r.resetQueued

SameSums(s, t) ==
    /\ s.curClientStreams = t.curClientStreams /\ s.curPushedStreams = t.curPushedStreams
    /\ s.maxClientStreamID = t.maxClientStreamID /\ s.maxPushPromiseID = t.maxPushPromiseID
    /\ s.flow = t.flow /\ s.connInc = t.connInc /\ s.connSent = t.connSent
    /\ s.initialStreamSendWindowSize = t.initialStreamSendWindowSize
    /\ s.misgrown = t.misgrown /\ s.maxFrameSize = t.maxFrameSize

SameStreams == \A id \in Ids : SameOn(st'[id], st[id])

Quiet == SameStreams /\ SameSums(sc', sc)

-------------------------------------------------------------------------------
LEMMA SameSumsSelf == \A s : SameSums(s, s)
BY DEF SameSums

LEMMA SameStreamsSelf == ASSUME st' = st PROVE SameStreams
BY DEF SameStreams, SameOn

(* An update of one stream that leaves those fields alone.                 *)
LEMMA OneQuiet ==
    ASSUME st \in [Ids -> StreamObjects], NEW i \in Ids, NEW r, st' = [st EXCEPT ![i] = r],
           SameOn(r, st[i])
    PROVE  SameStreams
BY DEF SameStreams, SameOn

LEMMA SameFields ==
    ASSUME NEW r \in StreamObjects, NEW v, NEW w
    PROVE  /\ SameOn([r EXCEPT !.inflow = v], r)
           /\ SameOn([r EXCEPT !.resetQueued = TRUE], r)
           /\ SameOn([r EXCEPT !.gotTrailerHeader = v], r)
           /\ SameOn([r EXCEPT !.held = v], r)
           /\ SameOn([r EXCEPT !.replied = v], r)
           /\ SameOn([r EXCEPT !.replied = v, !.ready = w], r)
           /\ SameOn([r EXCEPT !.inflow = v, !.body = w], r)
           /\ SameOn([r EXCEPT !.body = v, !.read = w], r)
BY DEF SameOn, StreamObjects

(* scheduleFrameWrite and startFrameWrite change flags only.               *)
LEMMA ScheduleQuiet ==
    ASSUME NEW s \in Sessions, NEW rest, ScheduleFrameWrite(s, rest), SameSums(s, sc)
    PROVE  SameSums(sc', sc)
BY DEF ScheduleFrameWrite, SameSums, Sessions

LEMMA StartQuiet ==
    ASSUME NEW s \in Sessions, NEW wr, startFrameWrite(s, wr)
    PROVE  SameSums(sc', s)
<1>1. \/ sc' = s
      \/ sc' = [s EXCEPT !.writingFrame = TRUE, !.needsFrameFlush = (wr.kind # "flush")]
      \/ sc' = [[s EXCEPT !.writingFrame = TRUE, !.needsFrameFlush = (wr.kind # "flush")]
                EXCEPT !.writingFrameAsync = TRUE, !.inFrameScheduleLoop = FALSE]
  BY DEF startFrameWrite
<1> QED BY <1>1 DEF SameSums, Sessions

LEMMA WriteQuiet ==
    ASSUME Typed, writeFrame \/ reply \/ markReset
                  \/ goAway("goAwayNo", "No") \/ goAway("goAwayErr", "Err") \/ writeFrameAsync
    PROVE  Quiet
<1>1. sc \in Sessions /\ st \in [Ids -> StreamObjects]
  BY DEF Typed
<1>2. CASE writeFrame \/ reply
  <2>1. ScheduleFrameWrite(sc, Tail(pend)) /\ st' = st
    BY <1>2 DEF writeFrame, reply
  <2> QED BY <1>1, <2>1, ScheduleQuiet, SameSumsSelf, SameStreamsSelf DEF Quiet
<1>3. CASE markReset
  <2>1. sc' = sc /\ pend # <<>> /\ Top.op = "markReset"
    BY <1>3 DEF markReset, Running, Top
  <2>2. CASE st' = st
    BY <2>1, <2>2, SameSumsSelf, SameStreamsSelf DEF Quiet
  <2>3. CASE st' # st
    <3>1. Top.id \in Ids
      BY <2>1, TopTyped DEF Stackable, Pending, Ids
    <3>2. st' = [st EXCEPT ![Top.id] = [st[Top.id] EXCEPT !.resetQueued = TRUE]]
      BY <1>3, <2>3 DEF markReset
    <3>3. SameStreams
      BY <1>1, <3>1, <3>2, OneQuiet, SameFields
    <3> QED BY <2>1, <3>3, SameSumsSelf DEF Quiet
  <2> QED BY <2>2, <2>3
<1>4. ASSUME NEW op, NEW code \in {"No", "Err"}, goAway(op, code) PROVE Quiet
  <2>1. st' = st
    BY <1>4 DEF goAway
  <2>2. CASE sc' = sc
    BY <2>1, <2>2, SameSumsSelf, SameStreamsSelf DEF Quiet
  <2>3. CASE sc' # sc
    <3>1. PICK s : s = [sc EXCEPT !.inGoAway = TRUE, !.needToSendGoAway = TRUE, !.goAwayCode = code]
      OBVIOUS
    <3>2. ScheduleFrameWrite(s, Tail(pend))
      BY <1>4, <2>3, <3>1 DEF goAway
    <3>3. s \in Sessions /\ SameSums(s, sc)
      BY <1>1, <3>1 DEF Sessions, SameSums
    <3> QED BY <2>1, <3>2, <3>3, ScheduleQuiet, SameStreamsSelf DEF Quiet
  <2> QED BY <2>2, <2>3
<1>5. CASE writeFrameAsync
  BY <1>5, SameSumsSelf, SameStreamsSelf DEF writeFrameAsync, Quiet
<1> QED BY <1>2, <1>3, <1>4, <1>5

LEMMA sendWindowUpdateQuiet == ASSUME Typed, sendWindowUpdate PROVE Quiet
<1>1. sc \in Sessions /\ st \in [Ids -> StreamObjects]
  BY DEF Typed
<1>2. Top.id \in Ids \union {0}
  BY TopTyped DEF Stackable, Known, sendWindowUpdate, Running, Top
<1>3. SameSums(sc', sc)
  <2>1. CASE sc' = sc
    BY <2>1, SameSumsSelf
  <2>2. CASE ScheduleFrameWrite(sc, Tail(pend))
    BY <1>1, <2>2, ScheduleQuiet, SameSumsSelf
  <2>3. CASE Top.id = 0 /\ ScheduleFrameWrite([sc EXCEPT !.inflow = added(sc.inflow, Top.n)], Tail(pend))
    <3>1. added(sc.inflow, Top.n) \in Int
      <4>1. Top.n \in Int /\ sc.inflow \in Int
        <5>1. pend # <<>>
          BY DEF sendWindowUpdate, Running
        <5> QED BY <1>1, <5>1, TopTyped DEF Pending, Sessions
      <4> QED BY <4>1, AddedInt, Zenon
    <3>2. PICK a \in Int : a = added(sc.inflow, Top.n)
      BY <3>1
    <3>3. PICK s : s = [sc EXCEPT !.inflow = a]
      OBVIOUS
    <3>4. s \in Sessions /\ SameSums(s, sc) /\ ScheduleFrameWrite(s, Tail(pend))
      BY <1>1, <2>3, <3>2, <3>3 DEF Sessions, SameSums
    <3> QED BY <3>4, ScheduleQuiet
  <2>4. CASE Top.id = 0
    <3>1. \/ sc' = sc
          \/ ScheduleFrameWrite([sc EXCEPT !.inflow = added(sc.inflow, Top.n)], Tail(pend))
      BY <2>4, Zenon DEF sendWindowUpdate
    <3> QED BY <2>1, <2>3, <2>4, <3>1
  <2>5. CASE Top.id # 0
    <3>1. sc' = sc \/ ScheduleFrameWrite(sc, Tail(pend))
      BY <2>5, Zenon DEF sendWindowUpdate
    <3> QED BY <2>1, <2>2, <3>1
  <2> QED BY <2>4, <2>5
<1>4. SameStreams
  <2>1. CASE st' = st
    BY <2>1, SameStreamsSelf
  <2>2. CASE st' # st
    <3>1. Top.id # 0 /\ st' = [st EXCEPT ![Top.id] = [st[Top.id] EXCEPT !.inflow = added(@, Top.n)]]
      BY <2>2 DEF sendWindowUpdate
    <3>2. PICK a : a = added(st[Top.id].inflow, Top.n)
      OBVIOUS
    <3>3. PICK r : r = [st[Top.id] EXCEPT !.inflow = a]
      OBVIOUS
    <3>4. Top.id \in Ids /\ SameOn(r, st[Top.id])
      BY <1>1, <1>2, <3>1, <3>3, SameFields
    <3>5. st' = [st EXCEPT ![Top.id] = r]
      BY <3>1, <3>2, <3>3
    <3> QED BY <1>1, <3>4, <3>5, OneQuiet
  <2> QED BY <2>1, <2>2
<1> QED BY <1>3, <1>4 DEF Quiet

LEMMA LoopQuiet ==
    ASSUME Typed, LoopGoAway \/ LoopSettingsAck \/ LoopFlush \/ LoopExit
    PROVE  Quiet
<1>1. sc \in Sessions /\ st' = st
  BY DEF Typed, LoopGoAway, LoopSettingsAck, LoopFlush, LoopExit
<1>2. CASE LoopGoAway
  <2>1. PICK s : s = [sc EXCEPT !.needToSendGoAway = FALSE]
    OBVIOUS
  <2>2. s \in Sessions /\ SameSums(s, sc) /\ startFrameWrite(s, Control("goAway"))
    BY <1>1, <1>2, <2>1 DEF LoopGoAway, Sessions, SameSums
  <2>3. SameSums(sc', s)
    BY <2>2, StartQuiet
  <2> QED BY <1>1, <2>2, <2>3, SameStreamsSelf DEF Quiet, SameSums
<1>3. CASE LoopSettingsAck
  <2>1. PICK s : s = [sc EXCEPT !.needToSendSettingsAck = FALSE]
    OBVIOUS
  <2>2. s \in Sessions /\ SameSums(s, sc) /\ startFrameWrite(s, Control("settingsAck"))
    BY <1>1, <1>3, <2>1 DEF LoopSettingsAck, Sessions, SameSums
  <2>3. SameSums(sc', s)
    BY <2>2, StartQuiet
  <2> QED BY <1>1, <2>2, <2>3, SameStreamsSelf DEF Quiet, SameSums
<1>4. CASE LoopFlush
  BY <1>1, <1>4, StartQuiet, SameStreamsSelf DEF LoopFlush, Quiet
<1>5. CASE LoopExit
  <2>1. SameSums(sc', sc)
    BY <1>1, <1>5 DEF LoopExit, SameSums, Sessions
  <2> QED BY <1>1, <2>1, SameStreamsSelf DEF Quiet
<1> QED BY <1>2, <1>3, <1>4, <1>5

-------------------------------------------------------------------------------
LEMMA FramesQuiet ==
    ASSUME Typed,
           \/ \E t : TooEarly(t)
           \/ processPing \/ processFatal \/ processStreamError \/ processIgnored
           \/ processPriority \/ processGoAway \/ processEOF \/ processResetStream
           \/ processSettingsAck \/ receiveSettings \/ SettingsDone \/ readMore
    PROVE  Quiet
<1>1. sc \in Sessions
  BY DEF Typed
<1>2. st' = st
  BY DEF TooEarly, processPing, processFatal, processStreamError, processIgnored, Answer,
         processPriority, processGoAway, processEOF, processResetStream, processSettingsAck,
         receiveSettings, SettingsDone, readMore
<1>3. \/ sc' = sc \/ processSettingsAck \/ receiveSettings \/ SettingsDone
  BY DEF TooEarly, processPing, processFatal, processStreamError, processIgnored, Answer,
         processPriority, processGoAway, processEOF, processResetStream, readMore
<1>4. CASE processSettingsAck \/ receiveSettings
  <2>1. SameSums(sc', sc)
    BY <1>1, <1>4 DEF processSettingsAck, receiveSettings, SameSums, Sessions
  <2> QED BY <1>2, <2>1, SameStreamsSelf DEF Quiet
<1>5. CASE SettingsDone
  <2>1. PICK s : s = [sc EXCEPT !.needToSendSettingsAck = TRUE]
    OBVIOUS
  <2>2. s \in Sessions /\ SameSums(s, sc) /\ ScheduleFrameWrite(s, Tail(pend))
    BY <1>1, <1>5, <2>1 DEF SettingsDone, Sessions, SameSums
  <2> QED BY <1>2, <2>2, ScheduleQuiet, SameStreamsSelf DEF Quiet
<1> QED BY <1>2, <1>3, <1>4, <1>5, SameSumsSelf, SameStreamsSelf DEF Quiet

LEMMA processDataQuiet == ASSUME Typed, processData PROVE Quiet
<1>1. sc \in Sessions /\ st \in [Ids -> StreamObjects]
  BY DEF Typed
<1>2. \/ sc' = sc \/ sc' = [sc EXCEPT !.inflow = @ - (frame.n + frame.pad)]
  BY DEF processData, DiscardData, AcceptData, RefuseData
<1>3. SameSums(sc', sc)
  BY <1>1, <1>2 DEF SameSums, Sessions
<1>4. \/ st' = st
      \/ /\ frame.id \in Ids
         /\ \E a, b : st' = [st EXCEPT ![frame.id] = [@ EXCEPT !.inflow = a, !.body = b]]
  <2>1. frame.id \in Ids \union {0}
    BY ReceiveTyped DEF processData, Handled
  <2>2. CASE AcceptData
    <3>1. \/ st' = st
          \/ st' = [st EXCEPT ![frame.id] = [@ EXCEPT
                      !.inflow = st[frame.id].inflow - (frame.n + frame.pad),
                      !.body = st[frame.id].body + frame.n]]
      BY <2>2, Zenon DEF AcceptData
    <3> QED BY <2>1, <2>2, <3>1 DEF AcceptData
  <2>3. CASE ~AcceptData
    BY <2>3 DEF processData, DiscardData, RefuseData
  <2> QED BY <2>2, <2>3
<1>5. SameStreams
  <2>1. CASE st' = st
    BY <2>1, SameStreamsSelf
  <2>2. CASE st' # st
    <3>1. PICK a, b : st' = [st EXCEPT ![frame.id] = [@ EXCEPT !.inflow = a, !.body = b]]
      BY <1>4, <2>2
    <3>2. PICK r : r = [st[frame.id] EXCEPT !.inflow = a, !.body = b]
      OBVIOUS
    <3>3. SameOn(r, st[frame.id]) /\ frame.id \in Ids
      BY <1>1, <1>4, <2>2, <3>2, SameFields
    <3> QED BY <1>1, <3>1, <3>2, <3>3, OneQuiet
  <2> QED BY <2>1, <2>2
<1> QED BY <1>3, <1>5 DEF Quiet

(* HEADERS open a stream, or change nothing of this.                       *)
LEMMA processHeadersQuiet ==
    ASSUME Typed, processHeaders
    PROVE  Quiet \/ (~sc.inGoAway /\ HeadersOpenStream)
<1>1. sc \in Sessions /\ st \in [Ids -> StreamObjects] /\ frame.id \in Ids
  <2>1. frame.id \in Ids
    BY FrameIdTyped DEF processHeaders, Handled, Receive, frame
  <2> QED BY <2>1 DEF Typed
<1>2. (sc' = sc /\ st' = st) \/ HeadersOnStream \/ (~sc.inGoAway /\ HeadersOpenStream)
  BY DEF processHeaders
<1>3. CASE sc' = sc /\ st' = st
  BY <1>3, SameSumsSelf, SameStreamsSelf DEF Quiet
<1>4. CASE HeadersOnStream
  <2>1. PICK id : id = frame.id
    OBVIOUS
  <2>2. /\ sc' = sc
        /\ \/ st' = st
           \/ st' = [st EXCEPT ![id] = [@ EXCEPT !.replied = TRUE, !.ready = TRUE]]
           \/ st' = [st EXCEPT ![id] = [@ EXCEPT !.gotTrailerHeader = TRUE]]
    BY <1>4, <2>1 DEF HeadersOnStream
  <2>3. ASSUME NEW r, st' = [st EXCEPT ![id] = r], SameOn(r, st[id]) PROVE Quiet
    BY <1>1, <2>1, <2>2, <2>3, OneQuiet, SameSumsSelf DEF Quiet
  <2>4. CASE st' = st
    BY <2>2, <2>4, SameSumsSelf, SameStreamsSelf DEF Quiet
  <2>5. CASE st' = [st EXCEPT ![id] = [@ EXCEPT !.replied = TRUE, !.ready = TRUE]]
    <3>1. PICK r : r = [st[id] EXCEPT !.replied = TRUE, !.ready = TRUE]
      OBVIOUS
    <3> QED BY <1>1, <2>1, <2>3, <2>5, <3>1, SameFields
  <2>6. CASE st' = [st EXCEPT ![id] = [@ EXCEPT !.gotTrailerHeader = TRUE]]
    <3>1. PICK r : r = [st[id] EXCEPT !.gotTrailerHeader = TRUE]
      OBVIOUS
    <3> QED BY <1>1, <2>1, <2>3, <2>6, <3>1, SameFields
  <2> QED BY <2>2, <2>4, <2>5, <2>6
<1> QED BY <1>2, <1>3, <1>4

-------------------------------------------------------------------------------
LEMMA ServeQuiet ==
    ASSUME Typed,
           \/ handshake \/ startReader \/ SelectWant \/ SelectWrote \/ SelectShutdown
           \/ SelectTimer \/ refuse \/ handOver \/ iter \/ exit \/ closeAllStreamsOnConnClose
           \/ onShutdownTimer
    PROVE  Quiet
<1>1. sc \in Sessions /\ st \in [Ids -> StreamObjects]
  BY DEF Typed
<1>2. \/ sc' = sc \/ sc' = [sc EXCEPT !.unackedSettings = @ + 1]
      \/ sc' = [sc EXCEPT !.shutdownTimer = "armed"]
      \/ sc' = [sc EXCEPT !.shutdownTimer = "fired"]
  BY DEF handshake, startReader, SelectWant, SelectWrote, SelectShutdown, SelectTimer, refuse,
         handOver, iter, exit, closeAllStreamsOnConnClose, onShutdownTimer
<1>3. SameSums(sc', sc)
  BY <1>1, <1>2 DEF SameSums, Sessions
<1>4. st' = st \/ handOver
  BY DEF handshake, startReader, SelectWant, SelectWrote, SelectShutdown, SelectTimer, refuse,
         iter, exit, closeAllStreamsOnConnClose, onShutdownTimer
<1>5. CASE st' = st
  BY <1>3, <1>5, SameStreamsSelf DEF Quiet
<1>6. CASE handOver
  <2>1. Top.id \in Ids
    BY <1>6, TopTyped DEF handOver, Running, Top, Stackable, Known
  <2>2. PICK r : r = [st[Top.id] EXCEPT !.held = TRUE]
    OBVIOUS
  <2>3. st' = [st EXCEPT ![Top.id] = r] /\ SameOn(r, st[Top.id])
    BY <1>1, <1>6, <2>1, <2>2, SameFields DEF handOver
  <2> QED BY <1>1, <1>3, <2>1, <2>3, OneQuiet DEF Quiet
<1> QED BY <1>4, <1>5, <1>6

LEMMA OthersQuiet ==
    ASSUME Typed, \/ (\E f \in PeerFrames : ReadFrame(f)) \/ ReadError \/ ReaderStops
                  \/ AppStep \/ Over \/ UNCHANGED vars
    PROVE  Quiet
<1>1. CASE AppStep
  BY <1>1, AppFrame, AppStreams, SameSumsSelf DEF Quiet, SameStreams, SameOn
<1>2. CASE ~AppStep
  <2>1. sc' = sc /\ st' = st
    BY <1>2 DEF ReadFrame, ReadError, ReaderStops, Over, vars
  <2> QED BY <2>1, SameSumsSelf, SameStreamsSelf DEF Quiet
<1> QED BY <1>1, <1>2

(* A program that has died does nothing.                                   *)
LEMMA DeadStops == ASSUME [Next]_vars, panic # "none" PROVE UNCHANGED vars
<1>1. ~WriteStep
  BY DEF WriteStep, writeFrame, sendWindowUpdate, LoopGoAway, LoopSettingsAck, LoopFlush, LoopExit,
         LoopPop, markReset, wroteFrame, reply, closeStream, closeRest, goAway, Running
<1>2. ~ReadStep
  BY DEF ReadStep, readMore, TooEarly, processPing, processFatal, processStreamError,
         processIgnored, processPriority, processGoAway, processEOF, processResetStream,
         processWindowUpdate, processSettingsAck, receiveSettings, SettingsDone,
         processSetting, processSettingInitialWindowSize, processData, endStream,
         processHeaders, Handled, Receive, Running
<1>3. ~ServeStep /\ ~onShutdownTimer
  BY DEF ServeStep, handshake, startReader, SelectWant, SelectWrote, SelectShutdown,
         SelectTimer, createStream, refuse, handOver, iter, exit,
         closeAllStreamsOnConnClose, SelectMsg, Running, onShutdownTimer
<1>4. ~AppStep
  <2>1. ASSUME NEW c \in Calls,
               \/ OpenStream(c) \/ OpenStreamRefused(c) \/ ReplyReady(c) \/ Send(c)
               \/ WriteReturns(c) \/ WaitForReplyReturns(c) \/ Close(c) \/ CloseTimeout(c)
               \/ Disconnected(c)
        PROVE  FALSE
    BY <2>1 DEF OpenStream, OpenStreamRefused, ReplyReady, Send, WriteReturns,
           WaitForReplyReturns, Close, CloseTimeout, Disconnected, Starts
  <2>2. ASSUME NEW c \in Calls, NEW id \in Ids,
               WriteData(c, id) \/ Reply(c, id) \/ ResetWithError(c, id) \/ WaitForReply(c, id)
        PROVE  FALSE
    BY <2>2 DEF WriteData, Reply, ResetWithError, WaitForReply, Starts
  <2>3. ASSUME NEW id \in Ids, Read(id) PROVE FALSE
    BY <2>3 DEF Read
  <2> QED BY <2>1, <2>2, <2>3 DEF AppStep
<1> QED BY <1>1, <1>2, <1>3, <1>4 DEF Next, writeFrameAsync, ReadFrame, ReadError, ReaderStops, Over

(* The actions that are not quiet.                                         *)
Loud ==
    \/ \E i \in Ids \union {0} : LoopPop(i)
    \/ wroteFrame \/ closeStream \/ closeRest
    \/ processWindowUpdate \/ processSetting \/ processSettingInitialWindowSize \/ endStream
    \/ processHeaders /\ ~sc.inGoAway /\ HeadersOpenStream
    \/ createStream

LEMMA QuietOrLoud == ASSUME Typed, [Next]_vars PROVE Quiet \/ Loud
<1>1. CASE WriteStep \/ writeFrameAsync
  BY <1>1, WriteQuiet, sendWindowUpdateQuiet, LoopQuiet DEF WriteStep, Loud
<1>2. CASE ReadStep
  BY <1>2, FramesQuiet, processDataQuiet, processHeadersQuiet DEF ReadStep, Loud
<1>3. CASE ServeStep \/ onShutdownTimer
  BY <1>3, ServeQuiet DEF ServeStep, Loud
<1> QED BY <1>1, <1>2, <1>3, OthersQuiet DEF Next

-------------------------------------------------------------------------------
(* What a step does to sc.streams and to its counters.                     *)
SameCounts ==
    /\ sc'.curClientStreams = sc.curClientStreams
    /\ sc'.curPushedStreams = sc.curPushedStreams

(* What the application has been told, it has been told; that a stream is  *)
(* over, only the end of closeStream tells it; that RST_STREAM is queued   *)
(* is not forgotten.                                                       *)
Told(id) ==
    /\ (st[id].cw => st'[id].cw) /\ (st[id].bodyErr => st'[id].bodyErr)
    /\ st'[id].cw => st[id].cw \/ (closeRest /\ Top.id = id)
    /\ st[id].resetQueued => st'[id].resetQueued

(* One side of a stream ends: this one with the END_STREAM that wroteFrame *)
(* handles, or the peer's.                                                 *)
HalfDone(id) ==
    /\ InMap(id) /\ st'[id].state \in Live
    /\ \/ /\ wroteFrame /\ writeEndsStream(Top.wr) /\ Top.wr.id = id
          /\ st[id].state = "open" /\ st'[id].state = "halfClosedLocal"
       \/ endStream /\ Top.id = id /\ st'[id].state = "halfClosedRemote"

Steady ==
    /\ \A id \in Ids : st'[id].state = st[id].state \/ HalfDone(id)
    /\ \A id \in Ids : Told(id)
    /\ SameCounts

Change(id, d) ==
    /\ \A i \in Ids : i # id => st'[i].state = st[i].state /\ Told(i)
    /\ sc'.curClientStreams = sc.curClientStreams + (IF isPushed(id) THEN 0 ELSE d)
    /\ sc'.curPushedStreams = sc.curPushedStreams + (IF isPushed(id) THEN d ELSE 0)

Opened(id) ==
    /\ id > MaxStreamID(id) /\ st[id].state = "idle"
    /\ st'[id].state \in {"open", "halfClosedRemote"}
    /\ Change(id, 1)
    /\ Local(id) => /\ createStream /\ id = NextLocalID /\ LastLocalID + 2 < StreamIDLimit
                    /\ curLocalStreams + 1 <= sc.peerMaxStreams
    /\ ~Local(id) => ~sc.inGoAway

Ends(id) ==
    /\ InMap(id) /\ st'[id].state = "closed" /\ Told(id) /\ Change(id, -1)
    /\ Awaits(pend', id)

LEMMA QuietSteady == ASSUME Quiet PROVE Steady
BY DEF Quiet, SameStreams, SameOn, SameSums, Steady, SameCounts, Told

LEMMA LoopPopSteady == ASSUME Typed, NEW i \in Ids \union {0}, LoopPop(i) PROVE Steady
<1>1. PICK wr : wr = Consumed(Head(q[i]))
  OBVIOUS
<1>2. PICK n : n = IF wr.kind = "data" THEN wr.n ELSE 0
  OBVIOUS
<1>3. PICK s : s = [sc EXCEPT !.flow = @ - n, !.connSent = @ + n]
  OBVIOUS
<1>4. /\ startFrameWrite(s, wr) /\ i \in ReadyQueues
      /\ st' = IF n = 0 THEN st
               ELSE [st EXCEPT ![i] = [@ EXCEPT !.flow = st[i].flow - n, !.spent = st[i].spent + n]]
  BY <1>1, <1>2, <1>3 DEF LoopPop
<1>5. wr \in Requests(Known) /\ (wr.kind = "data" => i \in Ids)
  <2>1. wr.kind = "data" => i \in Known
    BY <1>1, <1>4, PoppedTyped
  <2> QED BY <1>1, <1>4, <2>1, PoppedTyped DEF Known
<1>6. sc \in Sessions /\ n \in Nat
  BY <1>2, <1>5 DEF Typed, Requests, WriteRequests
<1>7. s \in Sessions
  <2>1. sc.flow \in Int /\ sc.connSent \in Nat
    BY <1>6 DEF Sessions
  <2>2. sc.flow - n \in Int /\ sc.connSent + n \in Nat
    BY <1>6, <2>1
  <2> QED BY <1>3, <1>6, <2>2, ChargeTyped
<1>8. SameSums(sc', s)
  BY <1>4, <1>7, StartQuiet
<1>9. SameCounts
  BY <1>3, <1>6, <1>8 DEF SameSums, SameCounts, Sessions
<1>10. \A id \in Ids : st'[id].state = st[id].state /\ Told(id)
  <2>1. CASE n = 0
    BY <1>4, <2>1 DEF Told
  <2>2. CASE n # 0
    <3>1. PICK a, b : a = st[i].flow - n /\ b = st[i].spent + n
      OBVIOUS
    <3>2. st' = [st EXCEPT ![i] = [st[i] EXCEPT !.flow = a, !.spent = b]] /\ i \in Ids
      BY <1>2, <1>4, <1>5, <2>2, <3>1
    <3> QED BY <3>2 DEF Typed, StreamObjects, Told
  <2> QED BY <2>1, <2>2
<1> QED BY <1>9, <1>10 DEF Steady

LEMMA wroteFrameSteady == ASSUME Typed, Discipline, wroteFrame PROVE Steady
<1>1. PICK wr : wr = Top.wr
  OBVIOUS
<1>2. pend # <<>> /\ sc.writingFrame
  BY DEF wroteFrame, Running, Discipline, OnTop, Top
<1>3. /\ sc' = [sc EXCEPT !.writingFrame = FALSE, !.writingFrameAsync = FALSE]
      /\ st' = IF writeEndsStream(wr) THEN [st EXCEPT ![wr.id].state = AfterEndStream(@)] ELSE st
  BY <1>1, <1>2 DEF wroteFrame
<1>4. SameCounts
  BY <1>3 DEF SameCounts, Typed, Sessions
<1>5. writeEndsStream(wr) => wr.id \in Ids
  <2>1. wr \in Requests(Known)
    BY <1>1, <1>2, TopTyped
  <2> QED BY <2>1 DEF Requests, HasStream, Known, writeEndsStream
<1>6. \A id \in Ids : /\ Told(id)
                      /\ st'[id].state = st[id].state \/ HalfDone(id)
  <2>1. CASE ~writeEndsStream(wr)
    BY <1>3, <2>1 DEF Told
  <2>2. CASE writeEndsStream(wr)
    <3>1. st \in [Ids -> StreamObjects] /\ wr.id \in Ids
      BY <1>5, <2>2 DEF Typed
    <3>2. \A id \in Ids : Told(id) /\ (id # wr.id => st'[id].state = st[id].state)
      BY <1>3, <2>2, <3>1 DEF StreamObjects, Told
    <3>3. st'[wr.id].state = AfterEndStream(st[wr.id].state)
      BY <1>3, <2>2, <3>1 DEF StreamObjects
    <3>4. st'[wr.id].state = st[wr.id].state \/ HalfDone(wr.id)
      BY <1>1, <2>2, <3>1, <3>3 DEF AfterEndStream, HalfDone, InMap, Live
    <3> QED BY <3>1, <3>2, <3>4
  <2> QED BY <2>1, <2>2
<1> QED BY <1>4, <1>6 DEF Steady

LEMMA StreamEndSteady == ASSUME Typed, closeRest \/ endStream PROVE Steady
<1>1. sc' = sc /\ Top.id \in Ids /\ st \in [Ids -> StreamObjects]
  <2>1. pend # <<>> /\ Top.op \in {"closeRest", "endStream"} /\ sc' = sc
    BY DEF closeRest, endStream, Running, Top
  <2> QED BY <2>1, TopTyped DEF Stackable, Known, Typed
<1>2. CASE closeRest
  <2>1. st' = [st EXCEPT ![Top.id] = [st[Top.id] EXCEPT !.bodyErr = TRUE, !.cw = TRUE]]
    BY <1>2 DEF closeRest
  <2>2. \A id \in Ids : /\ st'[id].state = st[id].state
                        /\ (st[id].cw => st'[id].cw) /\ (st[id].bodyErr => st'[id].bodyErr)
                        /\ (st[id].resetQueued => st'[id].resetQueued)
                        /\ id # Top.id => st'[id] = st[id]
    BY <1>1, <2>1 DEF StreamObjects
  <2> QED BY <1>1, <1>2, <2>2 DEF Steady, SameCounts, Told
<1>3. CASE endStream
  <2>1. PICK b, x : /\ b = ~InMap(Top.id)
                    /\ x = IF InMap(Top.id) THEN "halfClosedRemote" ELSE st[Top.id].state
    OBVIOUS
  <2>2. st' = [st EXCEPT ![Top.id] = [st[Top.id] EXCEPT !.bodyErr = TRUE, !.stale = b, !.state = x]]
    BY <1>3, <2>1 DEF endStream
  <2>3. \A id \in Ids : Told(id) /\ st'[id].state = IF id = Top.id THEN x ELSE st[id].state
    BY <1>1, <2>2 DEF StreamObjects, Told
  <2>4. \A id \in Ids : st'[id].state = st[id].state \/ HalfDone(id)
    BY <1>3, <2>1, <2>3 DEF HalfDone, Live
  <2> QED BY <1>1, <2>3, <2>4 DEF Steady, SameCounts
<1> QED BY <1>2, <1>3

LEMMA CreditSteady ==
    ASSUME Typed, processWindowUpdate \/ processSetting \/ processSettingInitialWindowSize
    PROVE  Steady
<1>1. sc \in Sessions /\ st \in [Ids -> StreamObjects]
  BY DEF Typed
<1>2. CASE processWindowUpdate
  <2>1. frame.id \in Ids \union {0} /\ frame.n \in Nat
    BY <1>2, ReceiveTyped DEF processWindowUpdate, Handled
  <2>2. SameCounts
    <3>1. CASE sc' = sc
      BY <3>1 DEF SameCounts
    <3>2. CASE ThenSchedule(sc)
      BY <1>1, <3>2 DEF ThenSchedule, ScheduleFrameWrite, SameCounts, Sessions
    <3>3. ASSUME NEW a, NEW b, ThenSchedule([sc EXCEPT !.flow = a, !.connInc = b])
          PROVE  SameCounts
      BY <1>1, <3>3 DEF ThenSchedule, ScheduleFrameWrite, SameCounts, Sessions
    <3>4. \/ sc' = sc \/ ThenSchedule(sc)
          \/ ThenSchedule([sc EXCEPT !.flow = added(sc.flow, frame.n),
                                     !.connInc = sc.connInc + frame.n])
      BY <1>2, Zenon DEF processWindowUpdate
    <3> QED BY <3>1, <3>2, <3>3, <3>4
  <2>3. \/ st' = st
        \/ /\ frame.id # 0
           /\ \E a, b : st' = [st EXCEPT ![frame.id] = [st[frame.id] EXCEPT !.flow = a, !.inc = b]]
    BY <1>2, Zenon DEF processWindowUpdate
  <2>4. \A id \in Ids : st'[id].state = st[id].state /\ Told(id)
    <3>1. CASE st' # st
      <4>1. PICK a, b : st' = [st EXCEPT ![frame.id] = [st[frame.id] EXCEPT !.flow = a, !.inc = b]]
        BY <2>3, <3>1
      <4>2. PICK i, r : i = frame.id /\ i \in Ids /\ r = [st[i] EXCEPT !.flow = a, !.inc = b]
        BY <2>1, <2>3, <3>1
      <4>3. /\ r.state = st[i].state /\ r.cw = st[i].cw /\ r.bodyErr = st[i].bodyErr
            /\ r.resetQueued = st[i].resetQueued /\ st' = [st EXCEPT ![i] = r]
        BY <1>1, <4>1, <4>2 DEF StreamObjects
      <4> QED BY <1>1, <4>3 DEF Told
    <3> QED BY <3>1 DEF Told
  <2> QED BY <2>2, <2>4 DEF Steady
<1>3. CASE processSettingInitialWindowSize
  <2>1. \E v, b : sc' = [sc EXCEPT !.initialStreamSendWindowSize = v, !.misgrown = b]
    BY <1>3 DEF processSettingInitialWindowSize
  <2>2. SameCounts
    BY <1>1, <2>1 DEF SameCounts, Sessions
  <2>3. PICK d : d = Head(Top.set).v - sc.initialStreamSendWindowSize
    OBVIOUS
  <2>4. PICK grown : st' = [id \in Ids |-> IF id \in grown
                                            THEN [st[id] EXCEPT !.flow = added(@, d)]
                                            ELSE st[id]]
    <3>1. \E grown :
            st' = [id \in Ids |-> IF id \in grown
                                  THEN [st[id] EXCEPT !.flow =
                                          added(@, Head(Top.set).v - sc.initialStreamSendWindowSize)]
                                  ELSE st[id]]
      BY <1>3, Zenon DEF processSettingInitialWindowSize
    <3> QED BY <2>3, <3>1
  <2>5. ASSUME NEW id \in Ids PROVE st'[id].state = st[id].state /\ Told(id)
    <3>1. PICK a : a = added(st[id].flow, d)
      OBVIOUS
    <3>2. st'[id] = st[id] \/ st'[id] = [st[id] EXCEPT !.flow = a]
      BY <2>4, <3>1
    <3> QED BY <1>1, <3>2 DEF StreamObjects, Told
  <2> QED BY <2>2, <2>5 DEF Steady
<1>4. CASE processSetting
  <2>1. \E v : \/ sc' = sc \/ sc' = [sc EXCEPT !.peerMaxStreams = v]
               \/ sc' = [sc EXCEPT !.maxFrameSize = v]
    BY <1>4 DEF processSetting
  <2> QED BY <1>1, <1>4, <2>1 DEF processSetting, Steady, SameCounts, Told, Sessions
<1> QED BY <1>2, <1>3, <1>4

LEMMA closeStreamEnds == ASSUME Typed, Discipline, closeStream PROVE Steady \/ \E id \in Ids : Ends(id)
<1>1. pend # <<>> /\ Top.op = "closeStream" /\ InMap(Top.id)
  BY DEF closeStream, Running, Discipline, OnTop, Top
<1>2. sc \in Sessions /\ st \in [Ids -> StreamObjects] /\ Top.id \in Ids
  BY <1>1, TopTyped DEF Typed, Stackable, Known
<1>3. CASE ClosePanic(Top.id) # "none"
  BY <1>3, QuietSteady, SameSumsSelf, SameStreamsSelf DEF closeStream, Panic, Quiet
<1>4. CASE ClosePanic(Top.id) = "none"
  <2>1. PICK id \in Ids : id = Top.id
    BY <1>2
  <2>2. /\ st' = [st EXCEPT ![id] = [st[id] EXCEPT !.state = "closed"]]
        /\ sc' = IF isPushed(id) THEN [sc EXCEPT !.curPushedStreams = sc.curPushedStreams - 1]
                 ELSE [sc EXCEPT !.curClientStreams = sc.curClientStreams - 1]
    BY <1>4, <2>1 DEF closeStream
  <2>3. sc.curPushedStreams \in Int /\ sc.curClientStreams \in Int
    BY <1>2 DEF Sessions
  <2>4. PICK a, b : a = sc.curPushedStreams - 1 /\ b = sc.curClientStreams - 1
    OBVIOUS
  <2>5. /\ isPushed(id) => sc'.curPushedStreams = a /\ sc'.curClientStreams = sc.curClientStreams
        /\ ~isPushed(id) => sc'.curClientStreams = b /\ sc'.curPushedStreams = sc.curPushedStreams
    BY <1>2, <2>2, <2>4 DEF Sessions
  <2>6. \A i \in Ids : Told(i) /\ st'[i].state = IF i = id THEN "closed" ELSE st[i].state
    BY <1>2, <2>2 DEF StreamObjects, Told
  <2>7. PICK p, r : p = Op("sendWindowUpdate", 0, st[id].body) /\ r = Op("closeRest", id, 0)
    OBVIOUS
  <2>8. pend' = <<p, r>> \o Tail(pend) /\ r.op = "closeRest" /\ r.id = id
    BY <1>4, <2>1, <2>7, OpFields DEF closeStream
  <2>9. Tail(pend) \in Seq(Stackable(Known, Closed))
    BY <1>1, TopTyped
  <2>10. pend'[2] = r /\ 2 \in 1 .. Len(pend')
    BY <2>8, <2>9
  <2>11. Awaits(pend', id)
    BY <2>8, <2>10 DEF Awaits
  <2> QED BY <1>1, <2>1, <2>3, <2>4, <2>5, <2>6, <2>11 DEF Ends, Change
<1> QED BY <1>3, <1>4

(* A stream is created: Counted(SetMaxStreamID(sc, id), id) counts it.     *)
LEMMA CreatedOpens ==
    ASSUME Typed, NEW id \in Ids, id > MaxStreamID(id),
           NEW state \in {"open", "halfClosedRemote"}, NEW held \in BOOLEAN,
           st' = [st EXCEPT ![id] = NewStream(state, held)],
           sc' = Counted(SetMaxStreamID(sc, id), id),
           Local(id) => /\ createStream /\ id = NextLocalID /\ LastLocalID + 2 < StreamIDLimit
                        /\ curLocalStreams + 1 <= sc.peerMaxStreams,
           ~Local(id) => ~sc.inGoAway
    PROVE  Opened(id)
<1>1. sc \in Sessions /\ st \in [Ids -> StreamObjects]
  BY DEF Typed
<1>2. PICK s : s = SetMaxStreamID(sc, id)
  OBVIOUS
<1>3. s \in Sessions
  BY <1>1, <1>2, SetMaxStreamIDTyped
<1>4. s.curClientStreams = sc.curClientStreams /\ s.curPushedStreams = sc.curPushedStreams
  BY <1>1, <1>2 DEF SetMaxStreamID, Sessions
<1>5. s.curPushedStreams \in Int /\ s.curClientStreams \in Int
  BY <1>3 DEF Sessions
<1>6. PICK a, b : a = s.curPushedStreams + 1 /\ b = s.curClientStreams + 1
  OBVIOUS
<1>7. sc' = IF isPushed(id) THEN [s EXCEPT !.curPushedStreams = a]
            ELSE [s EXCEPT !.curClientStreams = b]
  BY <1>2, <1>6 DEF Counted
<1>8. /\ isPushed(id) => sc'.curPushedStreams = a /\ sc'.curClientStreams = s.curClientStreams
      /\ ~isPushed(id) => sc'.curClientStreams = b /\ sc'.curPushedStreams = s.curPushedStreams
  BY <1>3, <1>7 DEF Sessions
<1>9. NewStream(state, held).state = state
  BY NewStreamTyped
<1>10. /\ \A i \in Ids : i # id => st'[i] = st[i] /\ Told(i)
       /\ st'[id].state = state
  BY <1>1, <1>9 DEF Told
<1>11. st[id].state = "idle"
  <2>1. id \in Nat /\ MaxStreamID(id) \in Nat
    BY <1>1, MaxStreamIDNat DEF Ids, MaxStreamID
  <2>2. id \notin Known
    BY <2>1 DEF Typed, StreamsOK
  <2> QED BY <2>2 DEF Known
<1> QED BY <1>4, <1>5, <1>6, <1>8, <1>10, <1>11 DEF Opened, Change, Live

LEMMA HeadersOpen ==
    ASSUME Typed, processHeaders, ~sc.inGoAway, HeadersOpenStream
    PROVE  Steady \/ \E id \in Ids : Opened(id)
<1>1. PICK id \in Ids : id = frame.id
  BY FrameIdTyped DEF processHeaders, Handled
<1>2. CASE Local(id) \/ id <= MaxStreamID(id)
  <2>1. sc' = sc /\ st' = st
    BY <1>1, <1>2 DEF HeadersOpenStream
  <2> QED BY <2>1, QuietSteady, SameSumsSelf, SameStreamsSelf DEF Quiet
<1>3. CASE ~(Local(id) \/ id <= MaxStreamID(id)) /\ ~HasHandler
  <2>1. sc' = SetMaxStreamID(sc, id) /\ st' = st
    BY <1>1, <1>3 DEF HeadersOpenStream
  <2>2. SameCounts
    BY <2>1 DEF SetMaxStreamID, SameCounts, Typed, Sessions
  <2> QED BY <2>1, <2>2 DEF Steady, Told
<1>4. CASE ~(Local(id) \/ id <= MaxStreamID(id)) /\ HasHandler
  <2>1. PICK state, held : /\ state = IF frame.end THEN "halfClosedRemote" ELSE "open"
                           /\ held = (frame.x # "selfDep")
    OBVIOUS
  <2>2. /\ sc' = Counted(SetMaxStreamID(sc, id), id)
        /\ st' = [st EXCEPT ![id] = NewStream(state, held)]
    BY <1>1, <1>4, <2>1 DEF HeadersOpenStream
  <2>3. id > MaxStreamID(id)
    <3>1. id \in Nat /\ MaxStreamID(id) \in Nat
      BY MaxStreamIDNat DEF Ids, MaxStreamID, Typed
    <3> QED BY <1>4, <3>1
  <2>4. state \in {"open", "halfClosedRemote"} /\ held \in BOOLEAN
    BY <2>1
  <2>5. Opened(id)
    BY <1>4, <2>2, <2>3, <2>4, CreatedOpens
  <2> QED BY <2>5
<1> QED BY <1>2, <1>3, <1>4

LEMMA createStreamOpens == ASSUME Typed, createStream PROVE Steady \/ \E id \in Ids : Opened(id)
<1>1. CASE curLocalStreams + 1 > sc.peerMaxStreams \/ LastLocalID + 2 >= StreamIDLimit
  <2>1. sc' = sc /\ st' = st
    BY <1>1 DEF createStream
  <2> QED BY <2>1, QuietSteady, SameSumsSelf, SameStreamsSelf DEF Quiet
<1>2. CASE ~(curLocalStreams + 1 > sc.peerMaxStreams \/ LastLocalID + 2 >= StreamIDLimit)
  <2>1. sc \in Sessions
    BY DEF Typed
  <2>2. LastLocalID \in Nat /\ StreamIDLimit \in Nat
    BY <2>1, MaxStreamIDNat, SessionAssumption DEF LastLocalID
  <2>3. curLocalStreams \in Int /\ sc.peerMaxStreams \in Int
    BY <2>1 DEF curLocalStreams, Sessions
  <2>4. LastLocalID + 2 < StreamIDLimit /\ curLocalStreams + 1 <= sc.peerMaxStreams
    BY <1>2, <2>2, <2>3
  <2>5. NextLocalID \in Ids /\ NextLocalID > MaxStreamID(NextLocalID) /\ Local(NextLocalID)
    BY <2>1, <2>4, NextLocalIDFresh
  <2>6. PICK id \in Ids : id = NextLocalID
    BY <2>5
  <2>7. PICK state : state = IF Script[Head(msgs).c].end THEN "halfClosedRemote" ELSE "open"
    OBVIOUS
  <2>8. /\ sc' = Counted(SetMaxStreamID(sc, id), id)
        /\ st' = [st EXCEPT ![id] = NewStream(state, FALSE)]
    BY <1>2, <2>6, <2>7 DEF createStream
  <2>9. Opened(id)
    BY <2>4, <2>5, <2>6, <2>7, <2>8, CreatedOpens
  <2> QED BY <2>9
<1> QED BY <1>1, <1>2

LEMMA StreamSteps ==
    ASSUME Typed, Discipline, [Next]_vars
    PROVE  Steady \/ \E id \in Ids : Opened(id) \/ Ends(id)
<1>1. Quiet \/ Loud
  BY QuietOrLoud
<1> QED BY <1>1, QuietSteady, LoopPopSteady, wroteFrameSteady, StreamEndSteady, CreditSteady,
           closeStreamEnds, HeadersOpen, createStreamOpens DEF Loud

-------------------------------------------------------------------------------
(* The streams in sc.streams, of one side.                                 *)
Clients == {id \in Ids : InMap(id) /\ ~isPushed(id)}

Pushed == {id \in Ids : InMap(id) /\ isPushed(id)}

LEMMA StreamsFinite == IsFiniteSet(Clients) /\ IsFiniteSet(Pushed)
<1>1. IsFiniteSet(Ids)
  <2>1. 1 \in Int /\ StreamIDLimit - 1 \in Int
    BY SessionAssumption
  <2> QED BY <2>1, FS_Interval DEF Ids
<1>2. Clients \in SUBSET Ids /\ Pushed \in SUBSET Ids
  BY DEF Clients, Pushed
<1> QED BY <1>1, <1>2, FS_Subset

LEMMA CountsKept ==
    ASSUME Typed, Typed', StreamCount, Steady \/ \E id \in Ids : Opened(id) \/ Ends(id)
    PROVE  StreamCount'
<1>1. IsFiniteSet(Clients) /\ IsFiniteSet(Pushed)
  BY StreamsFinite
<1>2. Cardinality(Clients) \in Nat /\ Cardinality(Pushed) \in Nat
  BY <1>1, FS_CardinalityType
<1>3. sc.curClientStreams = Cardinality(Clients) /\ sc.curPushedStreams = Cardinality(Pushed)
  BY DEF StreamCount, Clients, Pushed
<1>4. SUFFICES /\ sc'.curClientStreams = Cardinality(Clients')
               /\ sc'.curPushedStreams = Cardinality(Pushed')
  BY DEF StreamCount, Clients, Pushed
<1>5. CASE Steady
  <2>1. \A id \in Ids : InMap(id)' <=> InMap(id)
    BY <1>5 DEF Steady, HalfDone, InMap
  <2>2. Clients' = Clients /\ Pushed' = Pushed
    BY <2>1 DEF Clients, Pushed
  <2> QED BY <1>3, <1>5, <2>2 DEF Steady, SameCounts
<1>6. ASSUME NEW id \in Ids, Opened(id)
      PROVE  /\ sc'.curClientStreams = Cardinality(Clients')
             /\ sc'.curPushedStreams = Cardinality(Pushed')
  <2>1. ~InMap(id) /\ InMap(id)' /\ \A i \in Ids : i # id => (InMap(i)' <=> InMap(i))
    BY <1>6 DEF Opened, Change, InMap, Live
  <2>2. CASE isPushed(id)
    <3>1. Pushed' = Pushed \union {id} /\ id \notin Pushed /\ Clients' = Clients
      BY <2>1, <2>2 DEF Pushed, Clients
    <3>2. Cardinality(Pushed') = Cardinality(Pushed) + 1
      BY <1>1, <3>1, FS_AddElement
    <3> QED BY <1>2, <1>3, <1>6, <2>2, <3>1, <3>2 DEF Opened, Change
  <2>3. CASE ~isPushed(id)
    <3>1. Clients' = Clients \union {id} /\ id \notin Clients /\ Pushed' = Pushed
      BY <2>1, <2>3 DEF Pushed, Clients
    <3>2. Cardinality(Clients') = Cardinality(Clients) + 1
      BY <1>1, <3>1, FS_AddElement
    <3> QED BY <1>2, <1>3, <1>6, <2>3, <3>1, <3>2 DEF Opened, Change
  <2> QED BY <2>2, <2>3
<1>7. ASSUME NEW id \in Ids, Ends(id)
      PROVE  /\ sc'.curClientStreams = Cardinality(Clients')
             /\ sc'.curPushedStreams = Cardinality(Pushed')
  <2>1. InMap(id) /\ ~InMap(id)' /\ \A i \in Ids : i # id => (InMap(i)' <=> InMap(i))
    BY <1>7 DEF Ends, Change, InMap, Live
  <2>2. CASE isPushed(id)
    <3>1. Pushed' = Pushed \ {id} /\ id \in Pushed /\ Clients' = Clients
      BY <2>1, <2>2 DEF Pushed, Clients
    <3>2. Cardinality(Pushed') = Cardinality(Pushed) - 1
      BY <1>1, <3>1, FS_RemoveElement
    <3> QED BY <1>2, <1>3, <1>7, <2>2, <3>1, <3>2 DEF Ends, Change
  <2>3. CASE ~isPushed(id)
    <3>1. Clients' = Clients \ {id} /\ id \in Clients /\ Pushed' = Pushed
      BY <2>1, <2>3 DEF Pushed, Clients
    <3>2. Cardinality(Clients') = Cardinality(Clients) - 1
      BY <1>1, <3>1, FS_RemoveElement
    <3> QED BY <1>2, <1>3, <1>7, <2>3, <3>1, <3>2 DEF Ends, Change
  <2> QED BY <2>2, <2>3
<1> QED BY <1>5, <1>6, <1>7

LEMMA InitCounts == Init => StreamCount
<1> SUFFICES ASSUME Init PROVE StreamCount
  OBVIOUS
<1>1. \A id \in Ids : ~InMap(id)
  BY DEF Init, InMap, NoStream, Live
<1>2. Clients = {} /\ Pushed = {}
  BY <1>1 DEF Clients, Pushed
<1>3. sc.curClientStreams = 0 /\ sc.curPushedStreams = 0
  BY DEF Init, NewSession
<1> QED BY <1>2, <1>3, FS_EmptySet DEF StreamCount, Clients, Pushed

(* curClientStreams and curPushedStreams, which createStream compares with *)
(* the peer's limit and which hold up a graceful shutdown, are the numbers *)
(* of streams in sc.streams, however streams are opened, reset and closed. *)
THEOREM CountsStreams == Spec => []StreamCount
<1>1. Init => StreamCount
  BY InitCounts
<1>2. Typed /\ Discipline /\ Typed' /\ StreamCount /\ [Next]_vars => StreamCount'
  BY StreamSteps, CountsKept
<1> QED BY <1>1, <1>2, TypedHolds, DisciplineHolds, PTL DEF Spec

(* An identifier is used once: createStream and processHeaders take one    *)
(* above all that its side has used, and no step revives a closed stream.  *)
THEOREM IdsUsedOnce == Spec => IdsAreFresh
<1>1. Typed /\ Discipline /\ [Next]_vars =>
        [\A id \in Ids :
           /\ st[id].state = "closed" => st'[id].state = "closed"
           /\ ~InMap(id) /\ st'[id].state \in Live =>
                \A used \in Ids : st[used].state # "idle" /\ isPushed(used) = isPushed(id)
                                 => used < id]_vars
  <2> SUFFICES ASSUME Typed, Discipline, [Next]_vars, NEW id \in Ids
               PROVE  /\ st[id].state = "closed" => st'[id].state = "closed"
                      /\ ~InMap(id) /\ st'[id].state \in Live =>
                           \A used \in Ids : st[used].state # "idle" /\ isPushed(used) = isPushed(id)
                                            => used < id
    OBVIOUS
  <2>1. Steady \/ \E i \in Ids : Opened(i) \/ Ends(i)
    BY StreamSteps
  <2>2. st[id].state = "closed" => st'[id].state = "closed"
    BY <2>1 DEF Steady, HalfDone, Opened, Ends, Change, InMap, Live
  <2>3. ASSUME ~InMap(id), st'[id].state \in Live PROVE Opened(id)
    BY <2>1, <2>3 DEF Steady, HalfDone, Opened, Ends, Change, InMap, Live
  <2>4. ASSUME ~InMap(id), st'[id].state \in Live, NEW used \in Ids,
               st[used].state # "idle", isPushed(used) = isPushed(id)
        PROVE  used < id
    <3>1. id > MaxStreamID(id)
      BY <2>3, <2>4 DEF Opened
    <3>2. used <= MaxStreamID(used)
      BY <2>4 DEF Typed, StreamsOK, Known
    <3>3. MaxStreamID(used) = MaxStreamID(id)
      BY <2>4 DEF MaxStreamID
    <3>4. used \in Nat /\ id \in Nat /\ MaxStreamID(id) \in Nat
      BY MaxStreamIDNat DEF Ids, MaxStreamID, Typed
    <3> QED BY <3>1, <3>2, <3>3, <3>4
  <2> QED BY <2>2, <2>4
<1> QED BY <1>1, TypedHolds, DisciplineHolds, PTL DEF Spec, IdsAreFresh

(* OpenStream does not take this side above the limit that the peer has    *)
(* set when createStream creates the stream.                               *)
THEOREM KeepsPeerLimit == Spec => WithinPeerLimit
<1>1. Typed /\ Discipline /\ Typed' /\ StreamCount /\ StreamCount' /\ [Next]_vars =>
        [\A id \in Ids : Local(id) /\ ~InMap(id) /\ st'[id].state \in Live =>
           Cardinality({i \in Ids : Local(i) /\ st'[i].state \in Live}) <= sc.peerMaxStreams]_vars
  <2> SUFFICES ASSUME Typed, Discipline, Typed', StreamCount, StreamCount', [Next]_vars,
                      NEW id \in Ids, Local(id), ~InMap(id), st'[id].state \in Live
               PROVE  Cardinality({i \in Ids : Local(i) /\ st'[i].state \in Live})
                        <= sc.peerMaxStreams
    OBVIOUS
  <2>1. Opened(id)
    <3>1. Steady \/ \E i \in Ids : Opened(i) \/ Ends(i)
      BY StreamSteps
    <3> QED BY <3>1 DEF Steady, HalfDone, Opened, Ends, Change, InMap, Live
  <2>2. curLocalStreams + 1 <= sc.peerMaxStreams
    BY <2>1 DEF Opened
  <2>3. IsServer \in BOOLEAN
    BY SessionAssumption
  <2>4. CASE IsServer
    <3>1. \A i \in Ids : Local(i) <=> isPushed(i)
      BY <2>3, <2>4, Zenon DEF Local, isPushed
    <3>2. {i \in Ids : Local(i) /\ st'[i].state \in Live} = Pushed'
      BY <3>1 DEF Pushed, InMap, isPushed
    <3>3. Cardinality(Pushed') = sc'.curPushedStreams
      BY DEF StreamCount, Pushed
    <3>4. sc'.curPushedStreams = curLocalStreams + 1
      BY <2>1, <2>4, <3>1 DEF Opened, Change, curLocalStreams
    <3> QED BY <2>2, <3>2, <3>3, <3>4
  <2>5. CASE ~IsServer
    <3>1. \A i \in Ids : Local(i) <=> ~isPushed(i)
      BY <2>3, <2>5, Zenon DEF Local, isPushed
    <3>2. {i \in Ids : Local(i) /\ st'[i].state \in Live} = Clients'
      BY <3>1 DEF Clients, InMap, isPushed
    <3>3. Cardinality(Clients') = sc'.curClientStreams
      BY DEF StreamCount, Clients
    <3>4. sc'.curClientStreams = curLocalStreams + 1
      BY <2>1, <2>5, <3>1 DEF Opened, Change, curLocalStreams
    <3> QED BY <2>2, <3>2, <3>3, <3>4
  <2> QED BY <2>4, <2>5
<1> QED BY <1>1, TypedHolds, DisciplineHolds, CountsStreams, PTL DEF Spec, WithinPeerLimit

-------------------------------------------------------------------------------
(* The shutdown: what a step does to GOAWAY and to the timer.              *)
SameShutdown(s, t) ==
    /\ s.inGoAway = t.inGoAway /\ s.goAwayCode = t.goAwayCode
    /\ s.shutdownTimer = t.shutdownTimer

(* goAway was called for the first time.                                   *)
GoesAway ==
    /\ ~sc.inGoAway /\ sc'.inGoAway
    /\ sc'.shutdownTimer = sc.shutdownTimer

(* iter starts the timer, or the timer fires.                              *)
TimerRuns ==
    /\ sc'.inGoAway = sc.inGoAway /\ sc'.goAwayCode = sc.goAwayCode
    /\ (iter /\ ArmTimer) \/ sc.shutdownTimer # "nil"

ShutdownStep == SameShutdown(sc', sc) \/ GoesAway \/ TimerRuns

LEMMA SameShutdownSelf == \A s : SameShutdown(s, s)
BY DEF SameShutdown

LEMMA ScheduleShutdown ==
    ASSUME NEW s \in Sessions, NEW rest, ScheduleFrameWrite(s, rest)
    PROVE  SameShutdown(sc', s)
BY DEF ScheduleFrameWrite, SameShutdown, Sessions

LEMMA StartShutdown ==
    ASSUME NEW s \in Sessions, NEW wr, startFrameWrite(s, wr)
    PROVE  SameShutdown(sc', s)
<1>1. \/ sc' = s
      \/ sc' = [s EXCEPT !.writingFrame = TRUE, !.needsFrameFlush = (wr.kind # "flush")]
      \/ sc' = [[s EXCEPT !.writingFrame = TRUE, !.needsFrameFlush = (wr.kind # "flush")]
                EXCEPT !.writingFrameAsync = TRUE, !.inFrameScheduleLoop = FALSE]
  BY DEF startFrameWrite
<1> QED BY <1>1 DEF SameShutdown, Sessions

LEMMA WriteShutdown == ASSUME Typed, Discipline, WriteStep \/ writeFrameAsync PROVE ShutdownStep
<1>1. sc \in Sessions
  BY DEF Typed
<1>2. CASE writeFrame \/ reply
  <2>1. ScheduleFrameWrite(sc, Tail(pend))
    BY <1>2 DEF writeFrame, reply
  <2> QED BY <1>1, <2>1, ScheduleShutdown DEF ShutdownStep
<1>3. CASE sendWindowUpdate
  <2>1. PICK a : a = added(sc.inflow, Top.n)
    OBVIOUS
  <2>2. PICK s : s = [sc EXCEPT !.inflow = a]
    OBVIOUS
  <2>3. \/ sc' = sc \/ ScheduleFrameWrite(sc, Tail(pend))
        \/ Top.id = 0 /\ ScheduleFrameWrite(s, Tail(pend))
    BY <1>3, <2>1, <2>2, Zenon DEF sendWindowUpdate
  <2>4. SameShutdown(s, sc)
    BY <1>1, <2>2 DEF Sessions, SameShutdown
  <2>5. Top.id = 0 => s \in Sessions
    <3>1. Top.n \in Int /\ sc.inflow \in Int
      <4>1. pend # <<>>
        BY <1>3 DEF sendWindowUpdate, Running
      <4> QED BY <1>1, <4>1, TopTyped DEF Pending, Sessions
    <3>2. a \in Int
      BY <2>1, <3>1, AddedInt, Zenon
    <3> QED BY <1>1, <2>2, <3>2 DEF Sessions
  <2> QED BY <1>1, <2>3, <2>4, <2>5, ScheduleShutdown, SameShutdownSelf
          DEF ShutdownStep, SameShutdown
<1>4. CASE LoopGoAway
  <2>1. PICK s : s = [sc EXCEPT !.needToSendGoAway = FALSE]
    OBVIOUS
  <2>2. s \in Sessions /\ SameShutdown(s, sc) /\ startFrameWrite(s, Control("goAway"))
    BY <1>1, <1>4, <2>1 DEF LoopGoAway, Sessions, SameShutdown
  <2>3. SameShutdown(sc', s)
    BY <2>2, StartShutdown
  <2> QED BY <2>2, <2>3 DEF ShutdownStep, SameShutdown
<1>5. CASE LoopSettingsAck
  <2>1. PICK s : s = [sc EXCEPT !.needToSendSettingsAck = FALSE]
    OBVIOUS
  <2>2. s \in Sessions /\ SameShutdown(s, sc) /\ startFrameWrite(s, Control("settingsAck"))
    BY <1>1, <1>5, <2>1 DEF LoopSettingsAck, Sessions, SameShutdown
  <2>3. SameShutdown(sc', s)
    BY <2>2, StartShutdown
  <2> QED BY <2>2, <2>3 DEF ShutdownStep, SameShutdown
<1>6. CASE LoopFlush
  BY <1>1, <1>6, StartShutdown DEF LoopFlush, ShutdownStep
<1>7. ASSUME NEW i \in Ids \union {0}, LoopPop(i) PROVE ShutdownStep
  <2>1. PICK wr, n : /\ wr = Consumed(Head(q[i])) /\ n = IF wr.kind = "data" THEN wr.n ELSE 0
    OBVIOUS
  <2>2. PICK s : s = [sc EXCEPT !.flow = @ - n, !.connSent = @ + n]
    OBVIOUS
  <2>3. startFrameWrite(s, wr)
    BY <1>7, <2>1, <2>2 DEF LoopPop
  <2>4. SameShutdown(s, sc)
    BY <1>1, <2>2 DEF Sessions, SameShutdown
  <2>5. \/ sc' = s
        \/ sc' = [s EXCEPT !.writingFrame = TRUE, !.needsFrameFlush = (wr.kind # "flush")]
        \/ sc' = [[s EXCEPT !.writingFrame = TRUE, !.needsFrameFlush = (wr.kind # "flush")]
                  EXCEPT !.writingFrameAsync = TRUE, !.inFrameScheduleLoop = FALSE]
    BY <2>3 DEF startFrameWrite
  <2>6. SameShutdown(sc', sc)
    BY <1>1, <2>2, <2>5 DEF Sessions, SameShutdown
  <2> QED BY <2>6 DEF ShutdownStep
<1>8. CASE LoopExit \/ markReset \/ wroteFrame \/ closeStream \/ closeRest \/ writeFrameAsync
  <2>1. \/ sc' = sc \/ sc' = [sc EXCEPT !.inFrameScheduleLoop = FALSE]
        \/ sc' = [sc EXCEPT !.writingFrame = FALSE, !.writingFrameAsync = FALSE]
        \/ sc' = [sc EXCEPT !.curPushedStreams = @ - 1]
        \/ sc' = [sc EXCEPT !.curClientStreams = @ - 1]
    BY <1>8 DEF LoopExit, markReset, wroteFrame, closeStream, closeRest, writeFrameAsync, Panic
  <2> QED BY <1>1, <2>1 DEF ShutdownStep, SameShutdown, Sessions
<1>9. ASSUME NEW op, NEW code \in {"No", "Err"}, goAway(op, code) PROVE ShutdownStep
  <2>1. CASE sc' = sc
    BY <2>1, SameShutdownSelf DEF ShutdownStep
  <2>2. CASE sc' # sc
    <3>1. PICK s : s = [sc EXCEPT !.inGoAway = TRUE, !.needToSendGoAway = TRUE,
                                  !.goAwayCode = code]
      OBVIOUS
    <3>2. ~sc.inGoAway /\ ScheduleFrameWrite(s, Tail(pend))
      BY <1>9, <2>2, <3>1 DEF goAway
    <3>3. s \in Sessions /\ s.inGoAway /\ s.shutdownTimer = sc.shutdownTimer
      BY <1>1, <3>1 DEF Sessions
    <3>4. SameShutdown(sc', s)
      BY <3>2, <3>3, ScheduleShutdown
    <3> QED BY <3>2, <3>3, <3>4 DEF ShutdownStep, GoesAway, SameShutdown
  <2> QED BY <2>1, <2>2
<1> QED BY <1>2, <1>3, <1>4, <1>5, <1>6, <1>7, <1>8, <1>9 DEF WriteStep

LEMMA ReadShutdown == ASSUME Typed, ReadStep PROVE SameShutdown(sc', sc)
<1>1. sc \in Sessions
  BY DEF Typed
<1>2. CASE SettingsDone
  <2>1. PICK s : s = [sc EXCEPT !.needToSendSettingsAck = TRUE]
    OBVIOUS
  <2>2. s \in Sessions /\ SameShutdown(s, sc) /\ ScheduleFrameWrite(s, Tail(pend))
    BY <1>1, <1>2, <2>1 DEF SettingsDone, Sessions, SameShutdown
  <2>3. SameShutdown(sc', s)
    BY <2>2, ScheduleShutdown
  <2> QED BY <2>2, <2>3 DEF SameShutdown
<1>3. CASE processWindowUpdate
  <2>1. \/ sc' = sc \/ ThenSchedule(sc)
        \/ \E a, b : ThenSchedule([sc EXCEPT !.flow = a, !.connInc = b])
    BY <1>3, Zenon DEF processWindowUpdate
  <2>2. ASSUME NEW a, NEW b, ThenSchedule([sc EXCEPT !.flow = a, !.connInc = b])
        PROVE  SameShutdown(sc', sc)
    BY <1>1, <2>2 DEF ThenSchedule, ScheduleFrameWrite, SameShutdown, Sessions
  <2>3. ThenSchedule(sc) => SameShutdown(sc', sc)
    BY <1>1, ScheduleShutdown DEF ThenSchedule
  <2> QED BY <2>1, <2>2, <2>3, SameShutdownSelf
<1>4. CASE processSetting
  <2>1. \E v : \/ sc' = sc \/ sc' = [sc EXCEPT !.peerMaxStreams = v]
               \/ sc' = [sc EXCEPT !.maxFrameSize = v]
    BY <1>4 DEF processSetting
  <2> QED BY <1>1, <2>1 DEF SameShutdown, Sessions
<1>5. CASE processSettingInitialWindowSize
  <2>1. \E v, b : sc' = [sc EXCEPT !.initialStreamSendWindowSize = v, !.misgrown = b]
    BY <1>5 DEF processSettingInitialWindowSize
  <2> QED BY <1>1, <2>1 DEF SameShutdown, Sessions
<1>6. CASE processData
  <2>1. \E a : sc' = sc \/ sc' = [sc EXCEPT !.inflow = a]
    BY <1>6 DEF processData, DiscardData, AcceptData, RefuseData
  <2> QED BY <1>1, <2>1 DEF SameShutdown, Sessions
<1>7. CASE processHeaders
  <2>1. PICK id : id = frame.id
    OBVIOUS
  <2>2. \/ sc' = sc \/ sc' = SetMaxStreamID(sc, id) \/ sc' = Counted(SetMaxStreamID(sc, id), id)
    BY <1>7, <2>1 DEF processHeaders, HeadersOnStream, HeadersOpenStream
  <2> QED BY <1>1, <2>2 DEF SetMaxStreamID, Counted, SameShutdown, Sessions
<1>8. CASE processSettingsAck \/ receiveSettings
  BY <1>1, <1>8 DEF processSettingsAck, receiveSettings, SameShutdown, Sessions
<1>9. CASE ~SettingsDone /\ ~processWindowUpdate /\ ~processSetting /\ ~processHeaders
           /\ ~processSettingInitialWindowSize /\ ~processData /\ ~processSettingsAck
           /\ ~receiveSettings
  <2>1. sc' = sc
    BY <1>9 DEF ReadStep, readMore, TooEarly, processPing, processFatal, processStreamError,
                processIgnored, processPriority, processGoAway, processEOF, processResetStream,
                Answer, endStream
  <2> QED BY <2>1, SameShutdownSelf
<1> QED BY <1>2, <1>3, <1>4, <1>5, <1>6, <1>7, <1>8, <1>9

LEMMA ServeShutdown == ASSUME Typed, ServeStep \/ onShutdownTimer PROVE ShutdownStep
<1>1. sc \in Sessions
  BY DEF Typed
<1>2. CASE iter
  <2>1. sc' = sc \/ (ArmTimer /\ sc' = [sc EXCEPT !.shutdownTimer = "armed"])
    BY <1>2 DEF iter
  <2> QED BY <1>1, <1>2, <2>1 DEF ShutdownStep, SameShutdown, TimerRuns, Sessions
<1>3. CASE onShutdownTimer
  BY <1>1, <1>3 DEF onShutdownTimer, ShutdownStep, TimerRuns, Sessions
<1>4. CASE createStream
  <2>1. PICK id : id = NextLocalID
    OBVIOUS
  <2>2. sc' = sc \/ sc' = Counted(SetMaxStreamID(sc, id), id)
    BY <1>4, <2>1 DEF createStream
  <2>3. SameShutdown(sc', sc)
    BY <1>1, <2>2 DEF SetMaxStreamID, Counted, SameShutdown, Sessions
  <2> QED BY <2>3 DEF ShutdownStep
<1>5. CASE ServeStep /\ ~iter /\ ~createStream
  <2>1. sc' = sc \/ sc' = [sc EXCEPT !.unackedSettings = @ + 1]
    BY <1>5 DEF ServeStep, handshake, startReader, SelectWant, SelectWrote, SelectShutdown,
                SelectTimer, refuse, handOver, exit, closeAllStreamsOnConnClose
  <2>2. SameShutdown(sc', sc)
    BY <1>1, <2>1 DEF SameShutdown, Sessions
  <2> QED BY <2>2 DEF ShutdownStep
<1> QED BY <1>2, <1>3, <1>4, <1>5

LEMMA ShutdownSteps == ASSUME Typed, Discipline, [Next]_vars PROVE ShutdownStep
<1>1. CASE AppStep
  BY <1>1, AppFrame, SameShutdownSelf DEF ShutdownStep
<1>2. CASE \/ (\E f \in PeerFrames : ReadFrame(f)) \/ ReadError \/ ReaderStops
           \/ Over \/ UNCHANGED vars
  <2>1. sc' = sc
    BY <1>2 DEF ReadFrame, ReadError, ReaderStops, Over, vars
  <2> QED BY <2>1, SameShutdownSelf DEF ShutdownStep
<1> QED BY <1>1, <1>2, WriteShutdown, ReadShutdown, ServeShutdown DEF Next, ShutdownStep

-------------------------------------------------------------------------------
(* The streams that the peer opened, whose handlers a shutdown waits for,  *)
(* are over.                                                               *)
HandlersDone == \A id \in Ids : InMap(id) => Local(id)

NothingOpen == \A id \in Ids : ~InMap(id)

(* The timer of a graceful shutdown runs once no stream is open, and the   *)
(* peer opens none after GOAWAY.                                           *)
TimerWaits ==
    /\ sc.shutdownTimer # "nil" => sc.inGoAway
    /\ sc.shutdownTimer # "nil" /\ sc.goAwayCode = "No" => HandlersDone

(* The application has no call of OpenStream to make.                      *)
NobodyOpens == \A c \in Calls : Script[c].api # "open"

NoOpenMessage == \A k \in 1 .. Len(msgs) : msgs[k].m # "open"

LEMMA NoneCounted == ASSUME Typed, StreamCount, curOpenStreams = 0 PROVE NothingOpen
<1>1. IsFiniteSet(Clients) /\ IsFiniteSet(Pushed)
  BY StreamsFinite
<1>2. Cardinality(Clients) \in Nat /\ Cardinality(Pushed) \in Nat
  BY <1>1, FS_CardinalityType
<1>3. Cardinality(Clients) + Cardinality(Pushed) = 0
  BY DEF StreamCount, Clients, Pushed, curOpenStreams
<1>4. Clients = {} /\ Pushed = {}
  BY <1>1, <1>2, <1>3, FS_EmptySet
<1> QED BY <1>4 DEF Clients, Pushed, NothingOpen

LEMMA CountedNone == ASSUME StreamCount, NothingOpen PROVE curOpenStreams = 0
<1>1. Clients = {} /\ Pushed = {}
  BY DEF Clients, Pushed, NothingOpen
<1>2. sc.curClientStreams = 0 /\ sc.curPushedStreams = 0
  BY <1>1, FS_EmptySet DEF StreamCount, Clients, Pushed
<1> QED BY <1>2 DEF curOpenStreams

LEMMA TimerWaitsKept ==
    ASSUME Typed, Discipline, StreamCount, TimerWaits, [Next]_vars
    PROVE  TimerWaits'
<1>1. ShutdownStep
  BY ShutdownSteps
<1>2. sc'.shutdownTimer # "nil" => sc'.inGoAway
  BY <1>1 DEF ShutdownStep, SameShutdown, GoesAway, TimerRuns, TimerWaits, ArmTimer
<1>3. ASSUME sc'.shutdownTimer # "nil", sc'.goAwayCode = "No" PROVE HandlersDone'
  <2>1. sc.inGoAway /\ HandlersDone
    <3>1. CASE sc.shutdownTimer # "nil"
      BY <1>1, <1>3, <3>1
         DEF ShutdownStep, SameShutdown, GoesAway, TimerRuns, TimerWaits
    <3>2. CASE sc.shutdownTimer = "nil"
      <4>1. ArmTimer /\ sc.goAwayCode = "No"
        BY <1>1, <1>3, <3>2 DEF ShutdownStep, SameShutdown, GoesAway, TimerRuns
      <4>2. NothingOpen
        BY <4>1, NoneCounted DEF ArmTimer
      <4> QED BY <4>1, <4>2 DEF ArmTimer, NothingOpen, HandlersDone
    <3> QED BY <3>1, <3>2
  <2>2. ASSUME NEW id \in Ids, InMap(id)', ~InMap(id) PROVE Local(id)
    <3>1. Opened(id)
      <4>1. Steady \/ \E i \in Ids : Opened(i) \/ Ends(i)
        BY StreamSteps
      <4> QED BY <2>2, <4>1 DEF Steady, HalfDone, Opened, Ends, Change, InMap, Live
    <3> QED BY <2>1, <3>1 DEF Opened
  <2> QED BY <2>1, <2>2 DEF HandlersDone, Local, isPushed
<1> QED BY <1>2, <1>3 DEF TimerWaits

(* A graceful shutdown never cuts off a handler: once the timer that       *)
(* closes the connection runs, every stream that is open is one that the   *)
(* application opened itself, after GOAWAY.                                *)
THEOREM HandlersFinish ==
    Spec => [](sc.shutdownTimer # "nil" /\ sc.goAwayCode = "No" => HandlersDone)
<1>1. Init => TimerWaits
  BY DEF Init, NewSession, TimerWaits
<1>2. Typed /\ Discipline /\ StreamCount /\ TimerWaits /\ [Next]_vars => TimerWaits'
  BY TimerWaitsKept
<1>3. TimerWaits => (sc.shutdownTimer # "nil" /\ sc.goAwayCode = "No" => HandlersDone)
  BY DEF TimerWaits
<1> QED BY <1>1, <1>2, <1>3, TypedHolds, DisciplineHolds, CountsStreams, PTL DEF Spec

-------------------------------------------------------------------------------
LEMMA AppendMessage ==
    ASSUME Typed, NoOpenMessage, NEW m, m.m # "open", msgs' = Append(msgs, m)
    PROVE  NoOpenMessage'
<1>1. PICK S : S = GoodMessages \union {m}
  OBVIOUS
<1>2. msgs \in Seq(S) /\ m \in S
  BY <1>1 DEF Typed
<1>3. /\ Len(msgs') = Len(msgs) + 1 /\ Len(msgs) \in Nat
      /\ \A k \in 1 .. Len(msgs) : msgs'[k] = msgs[k]
      /\ msgs'[Len(msgs) + 1] = m
  BY <1>2
<1> QED BY <1>3 DEF NoOpenMessage

LEMMA NoOpenMessageKept ==
    ASSUME Typed, NobodyOpens, NoOpenMessage, [Next]_vars
    PROVE  NoOpenMessage' /\ ~createStream
<1>1. msgs \in Seq(GoodMessages)
  BY DEF Typed
<1>2. msgs # <<>> => Head(msgs).m # "open"
  BY <1>1 DEF NoOpenMessage
<1>3. ~createStream
  BY <1>2 DEF createStream, SelectMsg
<1>4. CASE SelectShutdown \/ SelectTimer
  <2>1. msgs # <<>> /\ msgs' = Tail(msgs)
    BY <1>4 DEF SelectShutdown, SelectTimer, SelectMsg
  <2> QED BY <1>1, <1>3, <2>1 DEF NoOpenMessage
<1>5. CASE onShutdownTimer
  <2>1. PICK m : m = [m |-> "timer", c |-> Nobody]
    OBVIOUS
  <2> QED BY <1>3, <1>5, <2>1, AppendMessage DEF onShutdownTimer
<1>6. CASE AppStep
  <2>1. PICK m : m = [m |-> "graceful", c |-> Nobody]
    OBVIOUS
  <2>2. ASSUME NEW c \in Calls PROVE ~OpenStream(c)
    BY <2>2 DEF OpenStream, Starts, NobodyOpens
  <2>3. msgs' = msgs \/ msgs' = Append(msgs, m)
    BY <1>6, <2>1, <2>2 DEF AppStep, OpenStreamRefused, ReplyReady, Send, WriteReturns,
       WaitForReplyReturns, Close, CloseTimeout, Disconnected, WriteData, Reply, ResetWithError,
       WaitForReply, Read
  <2> QED BY <1>3, <2>1, <2>3, AppendMessage DEF NoOpenMessage
<1>7. CASE ~SelectShutdown /\ ~SelectTimer /\ ~onShutdownTimer /\ ~AppStep
  <2>1. CASE WriteStep \/ writeFrameAsync
    BY <1>3, <2>1 DEF WriteStep, writeFrame, sendWindowUpdate, LoopGoAway, LoopSettingsAck,
       LoopFlush, LoopExit, LoopPop, markReset, wroteFrame, reply, closeStream, closeRest, goAway,
       Panic, writeFrameAsync, NoOpenMessage
  <2>2. CASE ReadStep
    BY <1>3, <2>2 DEF ReadStep, readMore, TooEarly, processPing, processFatal,
       processStreamError, processIgnored, processPriority, processGoAway, processEOF,
       processResetStream, Answer, processWindowUpdate, processSettingsAck, receiveSettings,
       SettingsDone, processSetting, processSettingInitialWindowSize, processData, endStream,
       processHeaders, NoOpenMessage
  <2>3. CASE ServeStep
    BY <1>3, <1>7, <2>3 DEF ServeStep, handshake, startReader, SelectWant, SelectWrote, refuse,
       handOver, iter, exit, closeAllStreamsOnConnClose, NoOpenMessage
  <2>4. CASE \/ (\E f \in PeerFrames : ReadFrame(f)) \/ ReadError \/ ReaderStops
             \/ Over \/ UNCHANGED vars
    BY <1>3, <2>4 DEF ReadFrame, ReadError, ReaderStops, Over, vars, NoOpenMessage
  <2> QED BY <1>7, <2>1, <2>2, <2>3, <2>4 DEF Next
<1> QED BY <1>4, <1>5, <1>6, <1>7

(* No call of OpenStream is on its way, so a stream that is open when the  *)
(* timer runs would be the peer's.                                         *)
NoneLeft ==
    /\ NoOpenMessage
    /\ sc.shutdownTimer # "nil" => sc.inGoAway
    /\ sc.shutdownTimer # "nil" /\ sc.goAwayCode = "No" => NothingOpen

LEMMA NoneLeftKept ==
    ASSUME Typed, Discipline, StreamCount, NobodyOpens, NoneLeft, [Next]_vars
    PROVE  NoneLeft'
<1>1. ShutdownStep /\ NoOpenMessage' /\ ~createStream
  BY ShutdownSteps, NoOpenMessageKept DEF NoneLeft
<1>2. sc'.shutdownTimer # "nil" => sc'.inGoAway
  BY <1>1 DEF ShutdownStep, SameShutdown, GoesAway, TimerRuns, NoneLeft, ArmTimer
<1>3. ASSUME sc'.shutdownTimer # "nil", sc'.goAwayCode = "No" PROVE NothingOpen'
  <2>1. sc.inGoAway /\ NothingOpen
    <3>1. CASE sc.shutdownTimer # "nil"
      BY <1>1, <1>3, <3>1
         DEF ShutdownStep, SameShutdown, GoesAway, TimerRuns, NoneLeft
    <3>2. CASE sc.shutdownTimer = "nil"
      <4>1. ArmTimer /\ sc.goAwayCode = "No"
        BY <1>1, <1>3, <3>2 DEF ShutdownStep, SameShutdown, GoesAway, TimerRuns
      <4> QED BY <4>1, NoneCounted DEF ArmTimer
    <3> QED BY <3>1, <3>2
  <2>2. ASSUME NEW id \in Ids, InMap(id)', ~InMap(id) PROVE FALSE
    <3>1. Opened(id)
      <4>1. Steady \/ \E i \in Ids : Opened(i) \/ Ends(i)
        BY StreamSteps
      <4> QED BY <2>2, <4>1 DEF Steady, HalfDone, Opened, Ends, Change, InMap, Live
    <3> QED BY <1>1, <2>1, <3>1 DEF Opened
  <2> QED BY <2>1, <2>2 DEF NothingOpen
<1> QED BY <1>1, <1>2, <1>3 DEF NoneLeft

(* A graceful shutdown cuts no stream off, if the application opens none:  *)
(* what OpenStream opens after GOAWAY is the only exception.               *)
THEOREM ShutdownWaits == Spec /\ NobodyOpens => []GracefulWaits
<1>1. Init => NoneLeft
  BY DEF Init, NewSession, NoneLeft, NoOpenMessage
<1>2. Typed /\ Discipline /\ StreamCount /\ NobodyOpens /\ NoneLeft /\ [Next]_vars => NoneLeft'
  BY NoneLeftKept
<1>3. StreamCount /\ NoneLeft => GracefulWaits
  BY CountedNone DEF NoneLeft, GracefulWaits
<1>4. NobodyOpens => NobodyOpens'
  OBVIOUS
<1> QED BY <1>1, <1>2, <1>3, <1>4, TypedHolds, DisciplineHolds, CountsStreams, PTL DEF Spec

===============================================================================
