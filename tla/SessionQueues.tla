------------------------------ MODULE SessionQueues ----------------------------
(***************************************************************************)
(* The scheduler's queues as serve uses them, for every script, every peer *)
(* and every configuration: what is left of a closed stream, what goes out *)
(* first on a stream of this side, what may follow RST_STREAM and          *)
(* END_STREAM, and that serve never parks with a frame it could start.     *)
(***************************************************************************)
EXTENDS SessionStreams

(* How a step changes serve's stack.                                       *)
StackStep ==
    \/ pend' = pend
    \/ pend = <<>>
    \/ /\ pend # <<>>
       /\ \/ Top.op \in {"exit", "handshake"}
          \/ Top.op \in {"loop", "closeAll"} /\ \E p : pend' = <<p>> \o pend
          \/ /\ Top.op = "closeRest" => closeRest
             /\ Top.op = "writeFrame" => writeFrame
             /\ Top.op = "wroteFrame" => wroteFrame
             /\ Top.op = "closeStream" => closeStream
             /\ pend' = Tail(pend) \/ \E A : \E c \in Seq(A) : pend' = c \o Tail(pend)

(* The calls that StackStep tells apart.                                   *)
Marked == {"closeRest", "writeFrame", "wroteFrame", "closeStream"}

LEMMA ScheduleStack ==
    ASSUME NEW s, NEW rest, ScheduleFrameWrite(s, rest)
    PROVE  pend' = rest \/ \E A : \E c \in Seq(A) : pend' = c \o rest
<1>1. PICK p : p = Op("loop", 0, 0)
  OBVIOUS
<1>2. <<p>> \in Seq({p})
  OBVIOUS
<1>3. pend' = rest \/ pend' = <<p>> \o rest
  BY <1>1 DEF ScheduleFrameWrite
<1> QED BY <1>2, <1>3

LEMMA WriteStack == ASSUME Typed, Discipline, WriteStep \/ writeFrameAsync PROVE StackStep
<1>1. ASSUME NEW op, Running(op), op \notin Marked,
             pend' = Tail(pend) \/ \E A : \E c \in Seq(A) : pend' = c \o Tail(pend)
      PROVE  StackStep
  BY <1>1, RunningTop DEF StackStep, Marked
<1>2. CASE writeFrame
  <2>1. Running("writeFrame") /\ ScheduleFrameWrite(sc, Tail(pend))
    BY <1>2 DEF writeFrame
  <2>2. pend # <<>> /\ Top.op = "writeFrame"
    BY <2>1, RunningTop
  <2>3. pend' = Tail(pend) \/ \E A : \E c \in Seq(A) : pend' = c \o Tail(pend)
    BY <2>1, ScheduleStack
  <2> QED BY <1>2, <2>2, <2>3 DEF StackStep
<1>3. CASE sendWindowUpdate
  <2>1. Running("sendWindowUpdate")
    BY <1>3 DEF sendWindowUpdate
  <2>2. pend' = pend \/ pend' = Tail(pend) \/ \E s : ScheduleFrameWrite(s, Tail(pend))
    BY <1>3, Zenon DEF sendWindowUpdate
  <2> QED BY <1>1, <2>1, <2>2, ScheduleStack DEF StackStep, Marked
<1>4. ASSUME NEW s, NEW wr, Running("loop"), startFrameWrite(s, wr) PROVE StackStep
  <2>1. pend' = pend \/ pend' = Tail(pend) \/ \E p : pend' = <<p>> \o pend
    BY <1>4 DEF startFrameWrite
  <2> QED BY <1>1, <1>4, <2>1, RunningTop DEF StackStep, Marked
<1>5. CASE LoopGoAway \/ LoopSettingsAck \/ LoopFlush
  <2>1. Running("loop") /\ \E s, wr : startFrameWrite(s, wr)
    BY <1>5 DEF LoopGoAway, LoopSettingsAck, LoopFlush
  <2> QED BY <1>4, <2>1
<1>6. ASSUME NEW i \in Ids \union {0}, LoopPop(i) PROVE StackStep
  <2>1. Running("loop") /\ \E s, wr : startFrameWrite(s, wr)
    BY <1>6, Zenon DEF LoopPop
  <2> QED BY <1>4, <2>1
<1>7. CASE LoopExit \/ markReset
  <2>1. (Running("loop") \/ Running("markReset")) /\ pend' = Tail(pend)
    BY <1>7 DEF LoopExit, markReset
  <2> QED BY <1>1, <2>1 DEF Marked
<1>8. CASE wroteFrame
  <2>1. PICK wr, r : wr = Top.wr /\ r = OpOn("reply", wr)
    OBVIOUS
  <2>2. Running("wroteFrame") /\ (pend' = pend \/ pend' = WroteCalls(wr) \o <<r>> \o Tail(pend))
    BY <1>8, <2>1 DEF wroteFrame, Panic
  <2>3. wr \in Requests(Known)
    BY <2>1, <2>2, RunningTop, TopTyped
  <2>4. WroteCalls(wr) \in Seq(Stackable(Known, Closed))
    BY <2>3, WroteCallsTyped
  <2>5. WroteCalls(wr) \o <<r>> \in Seq(Stackable(Known, Closed) \union {r})
    BY <2>4
  <2>6. pend # <<>> /\ Top.op = "wroteFrame"
    BY <2>2, RunningTop
  <2> QED BY <1>8, <2>2, <2>5, <2>6 DEF StackStep
<1>9. CASE reply
  BY <1>1, <1>9, ScheduleStack DEF reply, Marked
<1>10. CASE closeStream
  <2>1. PICK p, r : /\ p = Op("sendWindowUpdate", 0, st[Top.id].body)
                    /\ r = Op("closeRest", Top.id, 0)
    OBVIOUS
  <2>2. Running("closeStream") /\ (pend' = pend \/ pend' = <<p, r>> \o Tail(pend))
    BY <1>10, <2>1 DEF closeStream, Panic
  <2>3. <<p, r>> \in Seq({p, r})
    OBVIOUS
  <2>4. pend # <<>> /\ Top.op = "closeStream"
    BY <2>2, RunningTop
  <2> QED BY <1>10, <2>2, <2>3, <2>4 DEF StackStep
<1>11. CASE closeRest
  BY <1>11, RunningTop DEF closeRest, StackStep
<1>12. CASE goAway("goAwayNo", "No") \/ goAway("goAwayErr", "Err")
  <2>1. ASSUME NEW op, NEW code, op \notin Marked, goAway(op, code)
        PROVE  StackStep
    <3>1. Running(op) /\ (pend' = Tail(pend) \/ \E s : ScheduleFrameWrite(s, Tail(pend)))
      BY <2>1, Zenon DEF goAway
    <3> QED BY <1>1, <2>1, <3>1, ScheduleStack
  <2> QED BY <1>12, <2>1 DEF Marked
<1>13. CASE writeFrameAsync
  BY <1>13 DEF writeFrameAsync, StackStep
<1> QED BY <1>2, <1>3, <1>5, <1>6, <1>7, <1>8, <1>9, <1>10, <1>11, <1>12, <1>13 DEF WriteStep

LEMMA ReadStack == ASSUME Typed, ReadStep PROVE StackStep
<1>1. ASSUME NEW op, Running(op), op \notin Marked,
             pend' = Tail(pend) \/ \E A : \E c \in Seq(A) : pend' = c \o Tail(pend)
      PROVE  StackStep
  BY <1>1, RunningTop DEF StackStep, Marked
<1>2. CASE readMore \/ endStream
  BY <1>1, <1>2 DEF readMore, endStream, Marked
<1>3. CASE SettingsDone
  BY <1>1, <1>3, ScheduleStack DEF SettingsDone, Marked
<1>4. CASE processSetting \/ processSettingInitialWindowSize
  <2>1. PICK p, r : p = [Top EXCEPT !.set = Tail(@)] /\ r = Op("goAwayErr", 0, 0)
    OBVIOUS
  <2>2. Running("processSettings") /\ (pend' = <<p>> \o Tail(pend) \/ pend' = <<r>> \o Tail(pend))
    BY <1>4, <2>1 DEF processSetting, processSettingInitialWindowSize, NextSetting, ConnError
  <2>3. <<p>> \in Seq({p}) /\ <<r>> \in Seq({r})
    OBVIOUS
  <2> QED BY <1>1, <2>2, <2>3 DEF Marked
<1>5. pend = <<>> \/ readMore \/ endStream \/ SettingsDone \/ processSetting
        \/ processSettingInitialWindowSize
  BY DEF ReadStep, TooEarly, processPing, processFatal, processStreamError, processIgnored,
         processPriority, processGoAway, processEOF, processResetStream, processWindowUpdate,
         processSettingsAck, receiveSettings, processData, processHeaders, Handled, Receive, Parked
<1> QED BY <1>2, <1>3, <1>4, <1>5 DEF StackStep

LEMMA ServeStack == ASSUME Typed, ServeStep PROVE StackStep
<1>1. ASSUME NEW op, Running(op), op \notin Marked, pend' = Tail(pend)
      PROVE  StackStep
  BY <1>1, RunningTop DEF StackStep, Marked
<1>2. CASE startReader \/ refuse \/ handOver \/ iter
  <2>1. /\ pend' = Tail(pend)
        /\ Running("startReader") \/ Running("refuse") \/ Running("handOver") \/ Running("iter")
    BY <1>2 DEF startReader, refuse, handOver, iter
  <2> QED BY <1>1, <2>1 DEF Marked
<1>3. CASE handshake \/ exit
  BY <1>3, RunningTop DEF handshake, exit, StackStep
<1>4. CASE closeAllStreamsOnConnClose
  <2>1. Running("closeAll") /\ (pend' = Tail(pend) \/ \E p : pend' = <<p>> \o pend)
    BY <1>4 DEF closeAllStreamsOnConnClose
  <2> QED BY <1>1, <2>1, RunningTop DEF StackStep, Marked
<1>5. CASE SelectWant \/ SelectWrote \/ SelectShutdown \/ SelectTimer \/ createStream
  BY <1>5 DEF SelectWant, SelectWrote, SelectShutdown, SelectTimer, createStream, SelectMsg,
              Parked, StackStep
<1> QED BY <1>2, <1>3, <1>4, <1>5 DEF ServeStep

LEMMA StackSteps == ASSUME Typed, Discipline, [Next]_vars PROVE StackStep
<1>1. CASE AppStep
  BY <1>1, AppFrame DEF StackStep
<1>2. CASE \/ (\E f \in PeerFrames : ReadFrame(f)) \/ ReadError \/ ReaderStops \/ onShutdownTimer
           \/ Over \/ UNCHANGED vars
  BY <1>2 DEF ReadFrame, ReadError, ReaderStops, onShutdownTimer, Over, vars, StackStep
<1> QED BY <1>1, <1>2, WriteStack, ReadStack, ServeStack DEF Next

-------------------------------------------------------------------------------
LEMMA AwaitsTail ==
    ASSUME NEW S, NEW s \in Seq(S), s # <<>>, NEW id, Awaits(s, id),
           ~(Head(s).op = "closeRest" /\ Head(s).id = id)
    PROVE  Awaits(Tail(s), id)
<1>1. PICK k \in 1 .. Len(s) : s[k].op = "closeRest" /\ s[k].id = id
  BY DEF Awaits
<1>2. k # 1 /\ k - 1 \in 1 .. Len(Tail(s)) /\ Tail(s)[k - 1] = s[k]
  BY <1>1
<1> QED BY <1>1, <1>2 DEF Awaits

LEMMA AwaitsJoined ==
    ASSUME NEW S, NEW s \in Seq(S), NEW A, NEW c \in Seq(A), NEW id, Awaits(s, id)
    PROVE  Awaits(c \o s, id)
<1>1. PICK k \in 1 .. Len(s) : s[k].op = "closeRest" /\ s[k].id = id
  BY DEF Awaits
<1>2. PICK t : t = c \o s
  OBVIOUS
<1>3. c \in Seq(A \union S) /\ s \in Seq(A \union S)
  OBVIOUS
<1>4. k + Len(c) \in 1 .. Len(t) /\ t[k + Len(c)] = s[k]
  BY <1>1, <1>2, <1>3
<1> QED BY <1>1, <1>2, <1>4 DEF Awaits

(* Only closeRest takes the end of a stream off the stack.                 *)
LEMMA AwaitsKept ==
    ASSUME Typed, Discipline, StackStep, NEW id, Awaits(pend, id), ~(closeRest /\ Top.id = id)
    PROVE  Awaits(pend', id)
<1>1. pend \in Seq(Stackable(Known, Closed)) /\ pend # <<>>
  BY DEF Typed, Awaits
<1>2. CASE pend' = pend
  BY <1>2
<1>3. CASE Top.op \in {"exit", "handshake"}
  <2>1. Tail(pend) = <<>>
    BY <1>1, <1>3 DEF Discipline, OnTop, Below, Tops
  <2>2. Awaits(Tail(pend), id)
    BY <1>1, <1>3, AwaitsTail DEF Top
  <2> QED BY <2>1, <2>2 DEF Awaits
<1>4. CASE \E p : pend' = <<p>> \o pend
  <2>1. PICK p : pend' = <<p>> \o pend
    BY <1>4
  <2>2. <<p>> \in Seq({p})
    OBVIOUS
  <2> QED BY <1>1, <2>1, <2>2, AwaitsJoined
<1>5. CASE /\ Top.op = "closeRest" => closeRest
           /\ pend' = Tail(pend) \/ \E A : \E c \in Seq(A) : pend' = c \o Tail(pend)
  <2>1. Awaits(Tail(pend), id)
    BY <1>1, <1>5, AwaitsTail DEF Top
  <2>2. Tail(pend) \in Seq(Stackable(Known, Closed))
    BY <1>1
  <2> QED BY <1>5, <2>1, <2>2, AwaitsJoined
<1> QED BY <1>1, <1>2, <1>3, <1>4, <1>5 DEF StackStep

-------------------------------------------------------------------------------
(* Push appends a frame that writeFrame does not ignore.                   *)
Adds(wr) ==
    /\ ~IgnoreWrite(wr) /\ sent' = sent
    /\ \E t \in PushTargets(wr) : q' = [q EXCEPT ![t] = Append(q[t], wr)]

(* What a step does to the queues.                                         *)
QueueStep ==
    \/ q' = q /\ sent' = sent /\ (writeFrame => IgnoreWrite(Top.wr))
    \/ writeFrame /\ Adds(Top.wr)
    \/ sendWindowUpdate /\ Adds(WR("windowUpdate", Top.id, Top.n, FALSE, Nobody))
    \/ closeRest
    \/ \E i \in Ids \union {0} : LoopPop(i)

LEMMA OnlyWriteFrame ==
    ASSUME pend = <<>> \/ panic # "none" \/ (pend # <<>> /\ Top.op # "writeFrame")
    PROVE  ~writeFrame
BY DEF writeFrame, Running, Top

LEMMA WriteQueues == ASSUME WriteStep PROVE QueueStep
<1>1. CASE writeFrame
  <2>1. Push(Top.wr) /\ sent' = sent
    BY <1>1 DEF writeFrame
  <2> QED BY <1>1, <2>1 DEF QueueStep, Push, Adds
<1>2. CASE sendWindowUpdate
  <2>1. PICK wr : wr = WR("windowUpdate", Top.id, Top.n, FALSE, Nobody)
    OBVIOUS
  <2>2. sent' = sent /\ (q' = q \/ Push(wr)) /\ ~writeFrame
    <3>1. Running("sendWindowUpdate") /\ sent' = sent
      BY <1>2 DEF sendWindowUpdate
    <3>2. q' = q \/ Push(WR("windowUpdate", Top.id, Top.n, FALSE, Nobody))
      BY <1>2, Zenon DEF sendWindowUpdate
    <3>3. ~writeFrame
      BY <3>1, RunningTop, OnlyWriteFrame
    <3>4. q' = q \/ Push(wr)
      BY <2>1, <3>2
    <3> QED BY <3>1, <3>3, <3>4
  <2> QED BY <1>2, <2>1, <2>2 DEF QueueStep, Push, Adds
<1>3. CASE LoopGoAway \/ LoopSettingsAck \/ LoopFlush
  <2>1. Running("loop") /\ q' = q /\ \E s, kind : startFrameWrite(s, Control(kind))
    BY <1>3 DEF LoopGoAway, LoopSettingsAck, LoopFlush
  <2>2. \A kind : Control(kind).id = 0
    BY DEF Control, WR
  <2>3. sent' = sent
    BY <2>1, <2>2 DEF startFrameWrite, Sending
  <2>4. ~writeFrame
    BY <2>1, RunningTop, OnlyWriteFrame
  <2> QED BY <2>1, <2>3, <2>4 DEF QueueStep
<1>4. CASE LoopExit \/ markReset \/ wroteFrame \/ reply \/ closeStream
           \/ goAway("goAwayNo", "No") \/ goAway("goAwayErr", "Err")
  <2>1. q' = q /\ sent' = sent
    BY <1>4 DEF LoopExit, markReset, wroteFrame, reply, closeStream, goAway, Panic
  <2>2. \E op : op # "writeFrame" /\ Running(op)
    BY <1>4 DEF LoopExit, markReset, wroteFrame, reply, closeStream, goAway
  <2> QED BY <2>1, <2>2, RunningTop, OnlyWriteFrame DEF QueueStep
<1> QED BY <1>1, <1>2, <1>3, <1>4 DEF WriteStep, QueueStep

LEMMA OtherQueues ==
    ASSUME ReadStep \/ ServeStep
    PROVE  q' = q /\ sent' = sent /\ ~writeFrame
<1>1. CASE ReadStep
  <2>1. q' = q /\ sent' = sent
    BY <1>1 DEF ReadStep, readMore, TooEarly, processPing, processFatal, processStreamError,
                processIgnored, processPriority, processGoAway, processEOF, processResetStream,
                Answer, processWindowUpdate, processSettingsAck, receiveSettings, SettingsDone,
                processSetting, processSettingInitialWindowSize, processData, endStream,
                processHeaders
  <2>2. pend = <<>> \/ Running("readMore") \/ Running("processSettings") \/ Running("endStream")
    BY <1>1 DEF ReadStep, readMore, TooEarly, processPing, processFatal, processStreamError,
                processIgnored, processPriority, processGoAway, processEOF, processResetStream,
                processWindowUpdate, processSettingsAck, receiveSettings, SettingsDone,
                processSetting, processSettingInitialWindowSize, processData, endStream,
                processHeaders, Handled, Receive, Parked
  <2> QED BY <2>1, <2>2, RunningTop, OnlyWriteFrame
<1>2. CASE ServeStep
  <2>1. q' = q /\ sent' = sent
    BY <1>2 DEF ServeStep, handshake, startReader, SelectWant, SelectWrote, SelectShutdown,
                SelectTimer, createStream, refuse, handOver, iter, exit,
                closeAllStreamsOnConnClose
  <2>2. \/ pend = <<>>
        \/ \E op \in {"handshake", "startReader", "refuse", "handOver", "iter", "exit",
                      "closeAll"} : Running(op)
    BY <1>2 DEF ServeStep, handshake, startReader, SelectWant, SelectWrote, SelectShutdown,
                SelectTimer, createStream, refuse, handOver, iter, exit,
                closeAllStreamsOnConnClose, SelectMsg, Parked
  <2> QED BY <2>1, <2>2, RunningTop, OnlyWriteFrame
<1> QED BY <1>1, <1>2

LEMMA QueueSteps == ASSUME Typed, Discipline, [Next]_vars PROVE QueueStep
<1>1. CASE WriteStep
  BY <1>1, WriteQueues
<1>2. CASE ReadStep \/ ServeStep
  BY <1>2, OtherQueues DEF QueueStep
<1>3. CASE ~WriteStep /\ ~ReadStep /\ ~ServeStep
  <2>1. ~writeFrame
    BY <1>3 DEF WriteStep
  <2>2. q' = q /\ sent' = sent
    <3>1. CASE AppStep
      BY <3>1, AppFrame
    <3>2. CASE ~AppStep
      BY <1>3, <3>2 DEF Next, writeFrameAsync, ReadFrame, ReadError, ReaderStops, onShutdownTimer,
                        Over, vars
    <3> QED BY <3>1, <3>2
  <2> QED BY <2>1, <2>2 DEF QueueStep
<1> QED BY <1>1, <1>2, <1>3

(* The frames that are added name a stream that was created, if they are   *)
(* not RST_STREAM.                                                         *)
LEMMA AddedTyped ==
    ASSUME Typed
    PROVE  /\ writeFrame => Top.wr \in Requests(Known)
           /\ sendWindowUpdate =>
                WR("windowUpdate", Top.id, Top.n, FALSE, Nobody) \in Requests(Known)
<1>1. ASSUME writeFrame PROVE Top.wr \in Requests(Known)
  BY <1>1, RunningTop, TopTyped DEF writeFrame
<1>2. ASSUME sendWindowUpdate
      PROVE  WR("windowUpdate", Top.id, Top.n, FALSE, Nobody) \in Requests(Known)
  <2>1. pend # <<>> /\ Top.op = "sendWindowUpdate"
    BY <1>2, RunningTop DEF sendWindowUpdate
  <2>2. Top.id \in Known \union {0} /\ Top.n \in Nat
    BY <2>1, TopTyped DEF Stackable, Pending
  <2>3. Known \subseteq 0 .. StreamIDLimit - 1 /\ 0 \in 0 .. StreamIDLimit - 1
    BY IdsFacts, SessionAssumption DEF Known
  <2> QED BY <2>2, <2>3 DEF WR, Requests, WriteRequests, HasStream, Kinds, Nobody
<1> QED BY <1>1, <1>2

-------------------------------------------------------------------------------
(* Nothing is left of a stream: the application knows, and at most         *)
(* RST_STREAM is queued.                                                   *)
Finished(id) ==
    /\ st[id].cw /\ st[id].bodyErr
    /\ \A k \in 1 .. Len(q[id]) : q[id][k].kind = "rst"

(* A closed stream is finished, or closeStream is about to finish it.      *)
Closure == \A id \in Ids : st[id].state = "closed" => Awaits(pend, id) \/ Finished(id)

LEMMA PushedWhere == ASSUME NEW wr, NEW t \in PushTargets(wr) PROVE t \in {0, wr.id}
BY DEF PushTargets

LEMMA QueueTyped ==
    ASSUME Typed, NEW i \in Ids \union {0}
    PROVE  /\ q \in [Ids \union {0} -> Seq(WriteRequests)]
           /\ q[i] \in Seq(WriteRequests) /\ q[i] \in Seq(Queueable(i, Known))
BY DEF Typed, QueuesOK

LEMMA AppendOne ==
    ASSUME NEW S, NEW s \in Seq(S), NEW x \in S
    PROVE  /\ Len(Append(s, x)) = Len(s) + 1 /\ Len(s) \in Nat
           /\ Append(s, x)[Len(s) + 1] = x
           /\ \A k \in 1 .. Len(s) : Append(s, x)[k] = s[k]
           /\ Append(s, x) \in Seq(S)
OBVIOUS

LEMMA AppendFirst ==
    ASSUME NEW S, NEW s \in Seq(S), NEW x
    PROVE  Append(s, x) # <<>> /\ Append(s, x)[1] = IF s = <<>> THEN x ELSE s[1]
<1>1. PICK T : T = S \union {x}
  OBVIOUS
<1>2. PICK t : t = Append(s, x)
  OBVIOUS
<1>3. s \in Seq(T) /\ x \in T
  BY <1>1
<1>4. /\ Len(t) = Len(s) + 1 /\ Len(s) \in Nat /\ t[Len(s) + 1] = x
      /\ \A k \in 1 .. Len(s) : t[k] = s[k]
  BY <1>2, <1>3, AppendOne
<1>5. t # <<>>
  BY <1>4
<1>6. CASE s = <<>>
  BY <1>2, <1>4, <1>5, <1>6
<1>7. CASE s # <<>>
  BY <1>2, <1>4, <1>5, <1>7
<1> QED BY <1>6, <1>7

(* Only RST_STREAM joins the queue of a closed stream.                     *)
LEMMA ClosedQueue ==
    ASSUME Typed, QueueStep, NEW id \in Ids, st[id].state = "closed",
           \A k \in 1 .. Len(q[id]) : q[id][k].kind = "rst"
    PROVE  \A k \in 1 .. Len(q'[id]) : q'[id][k].kind = "rst"
<1>1. q \in [Ids \union {0} -> Seq(WriteRequests)] /\ q[id] \in Seq(WriteRequests)
  BY QueueTyped
<1>2. id # 0 /\ stateOf(id) = "closed"
  <2>1. id <= MaxStreamID(id)
    BY DEF Typed, StreamsOK, Known
  <2> QED BY <2>1, IdsFacts DEF stateOf, InMap, Live
<1>3. ASSUME NEW wr \in Requests(Known), Adds(wr)
      PROVE  \A k \in 1 .. Len(q'[id]) : q'[id][k].kind = "rst"
  <2>1. PICK t \in PushTargets(wr) : q' = [q EXCEPT ![t] = Append(q[t], wr)]
    BY <1>3 DEF Adds
  <2>2. t \in {0, wr.id} /\ wr \in WriteRequests
    BY <2>1, PushedWhere DEF Requests
  <2>3. CASE t # id
    BY <1>1, <2>1, <2>3
  <2>4. CASE t = id
    <3>1. wr.kind = "rst"
      BY <1>2, <1>3, <2>2, <2>4 DEF Adds, IgnoreWrite
    <3>2. q'[id] = Append(q[id], wr)
      BY <1>1, <2>1, <2>4
    <3> QED BY <1>1, <2>2, <3>1, <3>2, AppendOne
  <2> QED BY <2>3, <2>4
<1>4. CASE closeRest
  <2>1. q' = [q EXCEPT ![Top.id] = <<>>]
    BY <1>4 DEF closeRest
  <2> QED BY <1>1, <2>1
<1>5. ASSUME NEW i \in Ids \union {0}, LoopPop(i)
      PROVE  \A k \in 1 .. Len(q'[id]) : q'[id][k].kind = "rst"
  <2>1. q' = [q EXCEPT ![i] = Remaining(Head(q[i])) \o Tail(q[i])] /\ i \in ReadyQueues
    BY <1>5 DEF LoopPop
  <2>2. CASE i # id
    BY <1>1, <2>1, <2>2
  <2>3. CASE i = id
    <3>1. q[id] # <<>>
      BY <2>1, <2>3, PoppedTyped
    <3>2. Head(q[id]).kind = "rst"
      BY <1>1, <3>1
    <3>3. Remaining(Head(q[id])) = <<>>
      BY <3>2 DEF Remaining, Splits
    <3>4. q'[id] = Tail(q[id])
      BY <1>1, <2>1, <2>3, <3>1, <3>3
    <3> QED BY <1>1, <3>1, <3>4
  <2> QED BY <2>2, <2>3
<1> QED BY <1>3, <1>4, <1>5, AddedTyped DEF QueueStep

LEMMA ClosureKept == ASSUME Typed, Discipline, Closure, [Next]_vars PROVE Closure'
<1>1. Steady \/ \E i \in Ids : Opened(i) \/ Ends(i)
  BY StreamSteps
<1>2. StackStep /\ QueueStep
  BY StackSteps, QueueSteps
<1> SUFFICES ASSUME NEW id \in Ids, st'[id].state = "closed"
             PROVE  Awaits(pend', id) \/ Finished(id)'
  BY DEF Closure
<1>3. CASE st[id].state # "closed"
  <2>1. Ends(id)
    BY <1>1, <1>3 DEF Steady, HalfDone, Opened, Ends, Change, InMap, Live
  <2> QED BY <2>1 DEF Ends
<1>4. CASE st[id].state = "closed" /\ closeRest /\ Top.id = id
  <2>1. /\ st' = [st EXCEPT ![id] = [st[id] EXCEPT !.bodyErr = TRUE, !.cw = TRUE]]
        /\ q' = [q EXCEPT ![id] = <<>>]
    BY <1>4 DEF closeRest
  <2>2. st'[id].cw /\ st'[id].bodyErr
    BY <2>1 DEF Typed, StreamObjects
  <2>3. q'[id] = <<>>
    BY <2>1, QueueTyped
  <2> QED BY <2>2, <2>3 DEF Finished
<1>5. CASE st[id].state = "closed" /\ ~(closeRest /\ Top.id = id) /\ Awaits(pend, id)
  BY <1>2, <1>5, AwaitsKept
<1>6. CASE st[id].state = "closed" /\ ~(closeRest /\ Top.id = id) /\ ~Awaits(pend, id)
  <2>1. Finished(id)
    BY <1>6 DEF Closure
  <2>2. Told(id)
    BY <1>1, <1>6 DEF Steady, HalfDone, Opened, Ends, Change, InMap, Live
  <2>3. \A k \in 1 .. Len(q'[id]) : q'[id][k].kind = "rst"
    BY <1>2, <1>6, <2>1, ClosedQueue DEF Finished
  <2> QED BY <2>1, <2>2, <2>3 DEF Finished, Told
<1> QED BY <1>3, <1>4, <1>5, <1>6

(* A stream that closeStream has closed is over once serve is back in its  *)
(* select, whatever was queued, on its way or being written meanwhile: cw  *)
(* and the body are closed, and the scheduler has only RST_STREAM of it.   *)
THEOREM ClosesForGood == Spec => []ClosedIsFinal
<1>1. Init => Closure
  BY DEF Init, Closure, NoStream
<1>2. Typed /\ Discipline /\ Closure /\ [Next]_vars => Closure'
  BY ClosureKept
<1>3. Typed /\ Closure => ClosedIsFinal
  <2> SUFFICES ASSUME Typed, Closure, Parked, NEW id \in Ids, st[id].state = "closed"
               PROVE  /\ st[id].cw /\ st[id].bodyErr
                      /\ \A i \in DOMAIN q[id] : q[id][i].kind = "rst"
    BY DEF ClosedIsFinal
  <2>1. ~Awaits(pend, id)
    BY DEF Parked, Awaits
  <2>2. Finished(id)
    BY <2>1 DEF Closure
  <2>3. DOMAIN q[id] = 1 .. Len(q[id])
    BY QueueTyped
  <2> QED BY <2>2, <2>3 DEF Finished
<1> QED BY <1>1, <1>2, <1>3, TypedHolds, DisciplineHolds, PTL DEF Spec

-------------------------------------------------------------------------------
(* Frames that may not be the first on a stream of this side.              *)
Late == {"data", "windowUpdate"}

(* A queue in which they do not come first, and one that holds them back.  *)
Guarded(s) ==
    \A j \in 1 .. Len(s) : s[j].kind \in Late =>
        \E i \in 1 .. Len(s) : i < j /\ s[i].kind \notin Late

Guarding(s) == \E i \in 1 .. Len(s) : s[i].kind \notin Late

(* createStream is about to queue the HEADERS of the stream.               *)
Opening(id) == OnTop("writeFrame") /\ Top.wr.id = id /\ Top.wr.kind = "headers"

First(id) ==
    /\ sent[id] # <<>> => sent[id][1] \notin {"data", "dataEnd", "windowUpdate"}
    /\ panic = "none" /\ sent[id] = <<>> =>
         /\ Guarded(q[id])
         /\ InMap(id) => Opening(id) \/ Guarding(q[id])

(* As long as nothing has been sent on a stream of this side, its HEADERS  *)
(* or an RST_STREAM are ahead of whatever the application has written.     *)
HeadersFirst == \A id \in Ids : Local(id) => First(id)

LEMMA GuardedAppend ==
    ASSUME NEW S, NEW s \in Seq(S), NEW wr \in S, Guarded(s), Guarding(s) \/ wr.kind \notin Late
    PROVE  Guarded(Append(s, wr)) /\ Guarding(Append(s, wr))
<1>1. PICK t : t = Append(s, wr)
  OBVIOUS
<1>2. /\ Len(t) = Len(s) + 1 /\ Len(s) \in Nat /\ t[Len(s) + 1] = wr
      /\ \A k \in 1 .. Len(s) : t[k] = s[k]
  BY <1>1, AppendOne
<1>3. Guarding(t)
  BY <1>2 DEF Guarding
<1>4. ASSUME NEW j \in 1 .. Len(t), t[j].kind \in Late
      PROVE  \E i \in 1 .. Len(t) : i < j /\ t[i].kind \notin Late
  <2>1. CASE j \in 1 .. Len(s)
    <3>1. PICK i \in 1 .. Len(s) : i < j /\ s[i].kind \notin Late
      BY <1>2, <1>4, <2>1 DEF Guarded
    <3> QED BY <1>2, <3>1
  <2>2. CASE j = Len(s) + 1
    <3>1. PICK i \in 1 .. Len(s) : s[i].kind \notin Late
      BY <1>2, <1>4, <2>2 DEF Guarding
    <3> QED BY <1>2, <2>2, <3>1
  <2> QED BY <1>2, <2>1, <2>2
<1> QED BY <1>1, <1>3, <1>4 DEF Guarded

LEMMA GuardedHead ==
    ASSUME NEW S, NEW s \in Seq(S), s # <<>>, Guarded(s)
    PROVE  Head(s).kind \notin Late
BY DEF Guarded

(* What LoopPop starts, it counts as sent on its stream.                   *)
LEMMA PopSends ==
    ASSUME Typed, NEW i \in Ids \union {0}, LoopPop(i)
    PROVE  \E h \in Queueable(i, Known) :
             /\ q[i] # <<>> /\ h = Head(q[i]) /\ h \in Requests(Known)
             /\ \/ panic' # "none" /\ sent' = sent
                \/ h.id = 0 /\ sent' = sent
                \/ /\ h.id \in Ids
                   /\ sent' = [sent EXCEPT ![h.id] = Append(sent[h.id], Mark(Consumed(h)))]
<1>1. i \in ReadyQueues
  BY DEF LoopPop
<1>2. PICK h : h = Head(q[i])
  OBVIOUS
<1>3. PICK wr : wr = Consumed(h)
  OBVIOUS
<1>4. /\ h \in Queueable(i, Known) /\ h \in Requests(Known) /\ q[i] # <<>>
  BY <1>1, <1>2, PoppedTyped DEF Queueable
<1>5. wr.id = h.id /\ h.id \in Ids \union {0}
  <2>1. h \in WriteRequests
    BY <1>4 DEF Requests
  <2>2. wr = h \/ \E a : wr = [h EXCEPT !.n = a, !.end = FALSE, !.by = Nobody]
    BY <1>3 DEF Consumed
  <2>3. h.id \in 0 .. StreamIDLimit - 1
    BY <2>1 DEF WriteRequests
  <2>4. wr.id = h.id
    BY <2>1, <2>2 DEF WriteRequests
  <2>5. h.id \in Ids \union {0}
    BY <2>3, SessionAssumption DEF Ids
  <2> QED BY <2>4, <2>5
<1>6. \E s : startFrameWrite(s, wr)
  BY <1>2, <1>3, Zenon DEF LoopPop
<1>7. \/ panic' # "none" /\ sent' = sent
      \/ sent' = Sending(wr)
  BY <1>6 DEF startFrameWrite
<1> QED BY <1>2, <1>3, <1>4, <1>5, <1>7 DEF Sending

(* What is popped from a guarded queue may be the first frame.             *)
LEMMA MarkFirst ==
    ASSUME Typed, NEW h \in Requests(Known), h.kind \notin Late
    PROVE  Mark(Consumed(h)) \notin {"data", "dataEnd", "windowUpdate"}
<1>1. ~Splits(h)
  BY DEF Splits, Late
<1>2. Consumed(h) = h
  BY <1>1 DEF Consumed
<1>3. h.kind \in Kinds
  BY DEF Requests, WriteRequests
<1> QED BY <1>2, <1>3 DEF Mark, writeEndsStream, Late, Kinds

LEMMA OpeningKept ==
    ASSUME Typed, Discipline, StackStep, NEW id, Opening(id), ~writeFrame
    PROVE  Opening(id)'
<1>1. pend # <<>> /\ Top.op = "writeFrame"
  BY DEF Opening, OnTop
<1>2. pend' = pend
  BY <1>1 DEF StackStep
<1> QED BY <1>2 DEF Opening, OnTop, Top

(* createStream leaves the HEADERS of the new stream on the stack.         *)
LEMMA OpenedOpening ==
    ASSUME Typed, NEW id \in Ids, Local(id), Opened(id)
    PROVE  Opening(id)' /\ pend = <<>>
<1>1. /\ createStream /\ id = NextLocalID /\ LastLocalID + 2 < StreamIDLimit
      /\ curLocalStreams + 1 <= sc.peerMaxStreams
  BY DEF Opened
<1>2. LastLocalID \in Nat /\ StreamIDLimit \in Nat /\ curLocalStreams \in Int
      /\ sc.peerMaxStreams \in Int
  BY MaxStreamIDNat, SessionAssumption DEF LastLocalID, Typed, curLocalStreams, Sessions
<1>3. ~(curLocalStreams + 1 > sc.peerMaxStreams) /\ ~(LastLocalID + 2 >= StreamIDLimit)
  BY <1>1, <1>2
<1>4. PICK c, wr : c = Head(msgs).c /\ wr = WR("headers", id, 0, Script[c].end, Nobody)
  OBVIOUS
<1>5. pend' = <<OpOn("writeFrame", wr), Op("handOver", id, c), Op("iter", 0, 0)>>
  BY <1>1, <1>3, <1>4 DEF createStream
<1>6. PICK p, a, b : p = OpOn("writeFrame", wr) /\ a = Op("handOver", id, c) /\ b = Op("iter", 0, 0)
  OBVIOUS
<1>7. pend' # <<>> /\ Head(pend') = p
  BY <1>5, <1>6
<1>8. p.op = "writeFrame" /\ p.wr.id = id /\ p.wr.kind = "headers"
  BY <1>4, <1>6 DEF OpOn, Op, WR
<1>9. pend = <<>>
  BY <1>1 DEF createStream, SelectMsg, Parked
<1> QED BY <1>7, <1>8, <1>9 DEF Opening, OnTop, Top

(* The first frame of a stream, when it goes out.                          *)
LEMMA FirstSent ==
    ASSUME Typed, QueueStep, NEW id \in Ids, First(id)
    PROVE  /\ sent'[id] # <<>> => sent'[id][1] \notin {"data", "dataEnd", "windowUpdate"}
           /\ sent'[id] = <<>> => sent[id] = <<>>
<1>1. sent \in [Ids -> Seq(Marks)]
  BY DEF Typed
<1>2. CASE sent' = sent
  BY <1>2 DEF First
<1>3. CASE sent' # sent
  <2>1. PICK i \in Ids \union {0} : LoopPop(i)
    BY <1>3 DEF QueueStep, Adds, closeRest
  <2>2. PICK h \in Queueable(i, Known) :
             /\ q[i] # <<>> /\ h = Head(q[i]) /\ h \in Requests(Known)
             /\ h.id \in Ids
             /\ sent' = [sent EXCEPT ![h.id] = Append(sent[h.id], Mark(Consumed(h)))]
    BY <1>3, <2>1, PopSends
  <2>3. PICK m : m = Mark(Consumed(h))
    OBVIOUS
  <2>4. CASE h.id # id
    BY <1>1, <2>2, <2>4 DEF First
  <2>5. CASE h.id = id
    <3>1. sent'[id] = Append(sent[id], m)
      BY <1>1, <2>2, <2>3, <2>5
    <3>2. sent'[id] # <<>> /\ sent'[id][1] = IF sent[id] = <<>> THEN m ELSE sent[id][1]
      <4>1. PICK u \in Seq(Marks) : u = sent[id]
        BY <1>1
      <4>2. Append(u, m) # <<>> /\ Append(u, m)[1] = IF u = <<>> THEN m ELSE u[1]
        BY AppendFirst
      <4> QED BY <3>1, <4>1, <4>2
    <3>3. CASE sent[id] = <<>>
      <4>1. h.kind \notin Late
        <5>1. i = id \/ h.kind = "rst"
          BY <2>2, <2>5 DEF Queueable
        <5>2. CASE i = id
          <6>1. Guarded(q[id])
            <7>1. panic = "none"
              BY <2>1 DEF LoopPop, Running
            <7> QED BY <3>3, <7>1 DEF First
          <6> QED BY <2>2, <5>2, <6>1, GuardedHead, QueueTyped
        <5> QED BY <5>1, <5>2 DEF Late
      <4>2. m \notin {"data", "dataEnd", "windowUpdate"}
        BY <2>2, <2>3, <4>1, MarkFirst
      <4> QED BY <3>2, <3>3, <4>2
    <3>4. CASE sent[id] # <<>>
      BY <3>2, <3>4 DEF First
    <3> QED BY <3>3, <3>4
  <2> QED BY <2>4, <2>5
<1> QED BY <1>2, <1>3

LEMMA HeadersFirstKept ==
    ASSUME Typed, Discipline, HeadersFirst, [Next]_vars, NEW id \in Ids, Local(id)
    PROVE  First(id)'
<1>1. Steady \/ \E i \in Ids : Opened(i) \/ Ends(i)
  BY StreamSteps
<1>2. StackStep /\ QueueStep
  BY StackSteps, QueueSteps
<1>3. First(id)
  BY DEF HeadersFirst
<1>4. CASE panic # "none"
  <2>1. UNCHANGED vars
    BY <1>4, DeadStops
  <2> QED BY <1>3, <2>1 DEF vars, First, InMap, Opening, OnTop, Top
<1>5. CASE sent'[id] # <<>> \/ panic' # "none"
  BY <1>2, <1>3, <1>5, FirstSent DEF First
<1>6. CASE panic = "none" /\ panic' = "none" /\ sent'[id] = <<>>
  <2>1. sent[id] = <<>>
    BY <1>2, <1>3, <1>6, FirstSent
  <2>2. Guarded(q[id]) /\ (InMap(id) => Opening(id) \/ Guarding(q[id]))
    BY <1>3, <1>6, <2>1 DEF First
  <2>3. /\ q \in [Ids \union {0} -> Seq(WriteRequests)]
        /\ q[id] \in Seq(WriteRequests) /\ q[id] \in Seq(Queueable(id, Known))
    BY QueueTyped
  <2>4. ASSUME InMap(id)', ~InMap(id) PROVE Opening(id)' /\ pend = <<>>
    <3>1. Opened(id)
      BY <1>1, <2>4 DEF Steady, HalfDone, Opened, Ends, Change, InMap, Live
    <3> QED BY <3>1, OpenedOpening
  <2>5. SUFFICES Guarded(q'[id]) /\ (InMap(id)' => Opening(id)' \/ Guarding(q'[id]))
    BY <1>2, <1>3, FirstSent DEF First
  <2>6. CASE q'[id] = q[id] /\ (Opening(id) => ~writeFrame \/ ~InMap(id))
    <3>1. ASSUME InMap(id)', InMap(id) PROVE Opening(id)' \/ Guarding(q'[id])
      BY <1>2, <2>2, <2>6, <3>1, OpeningKept
    <3> QED BY <2>2, <2>4, <2>6, <3>1
  <2>7. CASE q' = q /\ (writeFrame => IgnoreWrite(Top.wr))
    <3>1. ASSUME Opening(id), writeFrame PROVE ~InMap(id)
      BY <2>7, <3>1 DEF Opening, IgnoreWrite, stateOf, InMap, Live
    <3> QED BY <2>6, <2>7, <3>1
  <2>8. ASSUME NEW wr \in Requests(Known), Adds(wr), ~createStream,
               Opening(id) => wr.id = id /\ wr.kind = "headers"
        PROVE  Guarded(q'[id]) /\ (InMap(id)' => Opening(id)' \/ Guarding(q'[id]))
    <3>1. PICK t \in PushTargets(wr) : q' = [q EXCEPT ![t] = Append(q[t], wr)]
      BY <2>8 DEF Adds
    <3>2. t \in {0, wr.id} /\ wr \in WriteRequests /\ id # 0
      BY <3>1, PushedWhere, IdsFacts DEF Requests
    <3>3. InMap(id)' => InMap(id)
      <4>1. ASSUME Opened(id) PROVE FALSE
        BY <2>8, <4>1 DEF Opened
      <4> QED BY <1>1, <4>1 DEF Steady, HalfDone, Opened, Ends, Change, InMap, Live
    <3>4. CASE t # id
      <4>1. q'[id] = q[id]
        BY <2>3, <3>1, <3>4
      <4>2. ASSUME InMap(id), Opening(id) PROVE FALSE
        <5>1. Scheduled(id)
          BY <4>2 DEF Scheduled, InMap, Live, Typed, StreamsOK
        <5> QED BY <2>8, <3>1, <3>4, <4>2, <5>1 DEF PushTargets
      <4> QED BY <2>2, <3>3, <4>1, <4>2
    <3>5. CASE t = id
      <4>1. wr.id = id /\ q'[id] = Append(q[id], wr)
        BY <2>3, <3>1, <3>2, <3>5
      <4>2. Guarding(q[id]) \/ wr.kind \notin Late
        <5>1. ASSUME wr.kind \in Late PROVE InMap(id)
          <6>1. id \in Known /\ stateOf(id) # "closed"
            BY <2>8, <3>2, <4>1, <5>1 DEF Late, Requests, HasStream, Adds, IgnoreWrite
          <6>2. id <= MaxStreamID(id)
            BY <6>1 DEF Typed, StreamsOK
          <6> QED BY <6>1, <6>2 DEF stateOf
        <5>2. ASSUME wr.kind \in Late PROVE ~Opening(id)
          BY <2>8, <5>2 DEF Late
        <5> QED BY <2>2, <5>1, <5>2
      <4> QED BY <2>2, <2>3, <3>2, <4>1, <4>2, GuardedAppend
    <3> QED BY <3>4, <3>5
  <2>9. ASSUME pend # <<>> PROVE ~createStream
    BY <2>9 DEF createStream, SelectMsg, Parked
  <2>10. CASE writeFrame /\ Adds(Top.wr)
    BY <2>8, <2>9, <2>10, AddedTyped DEF writeFrame, Running, Opening
  <2>11. CASE sendWindowUpdate /\ Adds(WR("windowUpdate", Top.id, Top.n, FALSE, Nobody))
    <3>1. pend # <<>> /\ Top.op = "sendWindowUpdate"
      BY <2>11, RunningTop DEF sendWindowUpdate
    <3>2. ~Opening(id)
      BY <3>1 DEF Opening, OnTop
    <3> QED BY <2>8, <2>9, <2>11, <3>1, <3>2, AddedTyped
  <2>12. CASE closeRest
    <3>1. pend # <<>> /\ Top.op = "closeRest" /\ q' = [q EXCEPT ![Top.id] = <<>>]
      BY <2>12, RunningTop DEF closeRest
    <3>2. ~Opening(id) /\ Top.id \in Closed
      BY <3>1, TopTyped DEF Opening, OnTop, Stackable
    <3>3. CASE Top.id # id
      BY <2>3, <2>6, <3>1, <3>2, <3>3
    <3>4. CASE Top.id = id
      <4>1. q'[id] = <<>>
        BY <2>3, <3>1, <3>4
      <4>2. ~InMap(id) /\ ~InMap(id)'
        BY <2>4, <3>1, <3>2, <3>4 DEF Closed, InMap, Live
      <4> QED BY <4>1, <4>2 DEF Guarded
    <3> QED BY <3>3, <3>4
  <2>13. ASSUME NEW i \in Ids \union {0}, LoopPop(i)
         PROVE  Guarded(q'[id]) /\ (InMap(id)' => Opening(id)' \/ Guarding(q'[id]))
    <3>1. PICK h \in Queueable(i, Known) :
             /\ q[i] # <<>> /\ h = Head(q[i]) /\ h \in Requests(Known)
             /\ \/ panic' # "none" /\ sent' = sent
                \/ h.id = 0 /\ sent' = sent
                \/ /\ h.id \in Ids
                   /\ sent' = [sent EXCEPT ![h.id] = Append(sent[h.id], Mark(Consumed(h)))]
      BY <2>13, PopSends
    <3>2. i # id
      <4>1. ASSUME i = id PROVE FALSE
        <5>1. h.id = id /\ id # 0
          BY <3>1, <4>1, IdsFacts DEF Queueable
        <5>2. PICK m : sent' = [sent EXCEPT ![id] = Append(sent[id], m)]
          BY <1>6, <3>1, <5>1
        <5>3. sent'[id] = Append(sent[id], m) /\ sent[id] \in Seq(Marks)
          BY <5>2 DEF Typed
        <5> QED BY <1>6, <5>3, AppendFirst
      <4> QED BY <4>1
    <3>3. q' = [q EXCEPT ![i] = Remaining(Head(q[i])) \o Tail(q[i])] /\ Running("loop")
      BY <2>13 DEF LoopPop
    <3>4. Top.op = "loop" /\ q'[id] = q[id]
      BY <2>3, <3>2, <3>3, RunningTop
    <3>5. ~Opening(id)
      BY <3>4 DEF Opening, OnTop
    <3> QED BY <2>6, <3>4, <3>5
  <2> QED BY <1>2, <2>7, <2>10, <2>11, <2>12, <2>13 DEF QueueStep
<1> QED BY <1>4, <1>5, <1>6

(* On a stream of this side nothing is written before its HEADERS but an   *)
(* RST_STREAM: createStream queues them before the application gets the    *)
(* stream, and the scheduler keeps the order of a stream's frames.         *)
THEOREM HeadersComeFirst == Spec => []OpensWithHeaders
<1>1. Init => HeadersFirst
  <2> SUFFICES ASSUME Init, NEW id \in Ids PROVE First(id)
    BY DEF HeadersFirst
  <2>1. sent[id] = <<>> /\ q[id] = <<>> /\ ~InMap(id)
    BY DEF Init, InMap, NoStream, Live
  <2> QED BY <2>1 DEF First, Guarded
<1>2. Typed /\ Discipline /\ HeadersFirst /\ [Next]_vars => HeadersFirst'
  <2>1. \A id \in Ids : Local(id)' <=> Local(id)
    BY DEF Local, isPushed
  <2> QED BY <2>1, HeadersFirstKept DEF HeadersFirst
<1>3. HeadersFirst => OpensWithHeaders
  BY DEF HeadersFirst, First, OpensWithHeaders
<1> QED BY <1>1, <1>2, <1>3, TypedHolds, DisciplineHolds, PTL DEF Spec

-------------------------------------------------------------------------------
(* While the rest of a closeStream is on the stack, the application has    *)
(* not been told: the scheduler still has the stream.                      *)
Untold == \A id \in Ids : Awaits(pend, id) => ~st[id].cw

LEMMA OnlyRestTells ==
    ASSUME Typed, Typed', Discipline, [Next]_vars, NEW id \in Ids
    PROVE  /\ st[id].cw => st'[id].cw
           /\ st'[id].cw => st[id].cw \/ (closeRest /\ Top.id = id)
<1>1. Steady \/ \E i \in Ids : Opened(i) \/ Ends(i)
  BY StreamSteps
<1>2. CASE Opened(id)
  <2>1. st[id].state = "idle" /\ st'[id].state \in Live
    BY <1>2 DEF Opened, Live
  <2>2. st[id].cw => st[id].state = "closed"
    BY DEF Typed, StreamsOK
  <2>3. st'[id].cw => st'[id].state = "closed"
    BY DEF Typed, StreamsOK
  <2> QED BY <2>1, <2>2, <2>3 DEF Live
<1>3. CASE ~Opened(id)
  <2>1. Told(id)
    BY <1>1, <1>3 DEF Steady, HalfDone, Opened, Ends, Change
  <2> QED BY <2>1 DEF Told
<1> QED BY <1>2, <1>3

(* closeRest finishes the only closeStream of its stream.                  *)
LEMMA RestOnce == ASSUME Typed, Discipline, closeRest PROVE ~Awaits(pend', Top.id)
<1>1. pend # <<>> /\ Top.op = "closeRest" /\ pend' = Tail(pend)
  BY RunningTop DEF closeRest
<1>2. pend \in Seq(Stackable(Known, Closed)) /\ Below = pend
  BY <1>1 DEF Typed, Below, Tops
<1>3. \A j, k \in 1 .. Len(pend) :
        pend[j].op = "closeRest" /\ pend[k].op = "closeRest" /\ pend[j].id = pend[k].id => j = k
  <2>1. PICK loops : Inner(Below, loops)
    BY DEF Discipline
  <2> QED BY <1>2, <2>1 DEF Inner
<1>4. ASSUME NEW k \in 1 .. Len(Tail(pend)), Tail(pend)[k].op = "closeRest",
             Tail(pend)[k].id = Top.id
      PROVE  FALSE
  <2>1. /\ 1 \in 1 .. Len(pend) /\ k + 1 \in 1 .. Len(pend) /\ k + 1 # 1
        /\ pend[k + 1] = Tail(pend)[k] /\ pend[1] = Top
    BY <1>1, <1>2 DEF Top
  <2> QED BY <1>1, <1>3, <1>4, <2>1
<1> QED BY <1>1, <1>4 DEF Awaits

LEMMA UntoldKept == ASSUME Typed, Typed', Discipline, Untold, [Next]_vars PROVE Untold'
<1> SUFFICES ASSUME NEW id \in Ids, Awaits(pend', id), st'[id].cw PROVE FALSE
  BY DEF Untold
<1>1. Kept
  BY NextKeeps
<1>2. CASE closeRest /\ Top.id = id
  BY <1>2, RestOnce
<1>3. CASE ~(closeRest /\ Top.id = id)
  <2>1. st[id].cw
    BY <1>3, OnlyRestTells
  <2>2. ~Awaits(pend, id)
    BY <2>1 DEF Untold
  <2>3. closeStream
    BY <1>1, <2>2 DEF Kept, NoNewRest
  <2>4. pend # <<>> /\ Top.op = "closeStream" /\ InMap(Top.id)
    <3>1. pend # <<>> /\ Top.op = "closeStream"
      BY <2>3, RunningTop DEF closeStream
    <3>2. OnTop("closeStream") => InMap(Top.id)
      BY DEF Discipline
    <3> QED BY <3>1, <3>2 DEF OnTop
  <2>5. Top.id # id
    BY <2>1, <2>4 DEF InMap, Live, Typed, StreamsOK
  <2>6. PICK p, r : p = Op("sendWindowUpdate", 0, st[Top.id].body) /\ r = Op("closeRest", Top.id, 0)
    OBVIOUS
  <2>7. pend' = pend \/ pend' = <<p, r>> \o Tail(pend)
    BY <2>3, <2>6 DEF closeStream, Panic
  <2>8. p.op = "sendWindowUpdate" /\ r.id = Top.id
    BY <2>6, OpFields
  <2>9. pend \in Seq(Stackable(Known, Closed)) /\ Tail(pend) \in Seq(Stackable(Known, Closed))
    BY <2>4 DEF Typed
  <2>10. CASE pend' = <<p, r>> \o Tail(pend)
    <3>1. PICK s \in Seq(Stackable(Known, Closed)) : s = Tail(pend)
      BY <2>9
    <3>2. PICK k \in 1 .. Len(<<p, r>> \o s) :
               (<<p, r>> \o s)[k].op = "closeRest" /\ (<<p, r>> \o s)[k].id = id
      BY <2>10, <3>1 DEF Awaits
    <3>3. k # 1 /\ k # 2
      BY <2>5, <2>8, <3>2
    <3>4. k - 2 \in 1 .. Len(s) /\ s[k - 2] = (<<p, r>> \o s)[k]
      BY <3>2, <3>3
    <3>5. Awaits(s, id)
      BY <3>2, <3>4 DEF Awaits
    <3> QED BY <2>2, <2>4, <2>9, <3>1, <3>5, AwaitsBelow
  <2> QED BY <2>2, <2>7, <2>10
<1> QED BY <1>2, <1>3

-------------------------------------------------------------------------------
(* The streams that the scheduler has, after a step.                       *)
SchedulerKeeps == \A id \in Ids : Scheduled(id)' <=> Scheduled(id)

(* The queues change without a stream being created.                       *)
LEMMA QueuesSteady == ASSUME Typed, QueueStep PROVE q' = q \/ Steady
<1>1. writeFrame => Steady
  BY WriteQuiet, QuietSteady
<1>2. sendWindowUpdate => Steady
  BY sendWindowUpdateQuiet, QuietSteady
<1>3. closeRest => Steady
  BY StreamEndSteady
<1>4. (\E i \in Ids \union {0} : LoopPop(i)) => Steady
  BY LoopPopSteady
<1> QED BY <1>1, <1>2, <1>3, <1>4 DEF QueueStep

LEMMA SteadyKeeps ==
    ASSUME Typed, Typed', Discipline, [Next]_vars, Steady, ~closeRest
    PROVE  SchedulerKeeps
<1> SUFFICES ASSUME NEW id \in Ids PROVE Scheduled(id)' <=> Scheduled(id)
  BY DEF SchedulerKeeps
<1>1. st[id].cw <=> st'[id].cw
  BY OnlyRestTells
<1>2. st[id].state = "idle" <=> st'[id].state = "idle"
  BY DEF Steady, HalfDone, InMap, Live
<1> QED BY <1>1, <1>2 DEF Scheduled

LEMMA OpenedSchedules ==
    ASSUME Typed, Typed', Discipline, [Next]_vars, ~closeRest, NEW id \in Ids, Opened(id), q' = q
    PROVE  Scheduler!OpenStream(id)
<1>1. \A i \in Ids : st[i].cw <=> st'[i].cw
  BY OnlyRestTells
<1>2. \A i \in Ids \ {id} : st'[i].state = st[i].state
  BY DEF Opened, Change
<1>3. \A i \in Ids \ {id} : Scheduled(i)' <=> Scheduled(i)
  BY <1>1, <1>2 DEF Scheduled
<1>4. st[id].state = "idle" /\ st'[id].state # "idle" /\ ~st[id].cw
  BY DEF Opened, Live, Typed, StreamsOK
<1>5. ~Scheduled(id) /\ Scheduled(id)'
  BY <1>1, <1>4 DEF Scheduled
<1> QED BY <1>3, <1>5 DEF Scheduler!OpenStream

LEMMA EndedKeeps ==
    ASSUME Typed, Typed', Discipline, [Next]_vars, ~closeRest, NEW id \in Ids, Ends(id)
    PROVE  SchedulerKeeps
<1>1. \A i \in Ids : st[i].cw <=> st'[i].cw
  BY OnlyRestTells
<1>2. \A i \in Ids : st'[i].state = "idle" <=> st[i].state = "idle"
  BY DEF Ends, Change, InMap, Live
<1> QED BY <1>1, <1>2 DEF SchedulerKeeps, Scheduled

LEMMA RestCloses ==
    ASSUME Typed, Typed', Discipline, Untold, [Next]_vars, closeRest
    PROVE  Top.id \in Ids /\ Scheduler!CloseStream(Top.id)
<1>1. pend # <<>> /\ Top.op = "closeRest" /\ q' = [q EXCEPT ![Top.id] = <<>>]
  BY RunningTop DEF closeRest
<1>2. Top.id \in Ids /\ st[Top.id].state = "closed"
  BY <1>1, TopTyped DEF Stackable, Closed
<1>3. PICK id \in Ids : id = Top.id
  BY <1>2
<1>4. Awaits(pend, id)
  <2>1. pend \in Seq(Stackable(Known, Closed))
    BY DEF Typed
  <2>2. 1 \in 1 .. Len(pend) /\ pend[1] = Top
    BY <1>1, <2>1 DEF Top
  <2> QED BY <1>1, <1>3, <2>2 DEF Awaits
<1>5. Scheduled(id)
  BY <1>2, <1>3, <1>4 DEF Untold, Scheduled
<1>6. Steady
  BY StreamEndSteady
<1>7. \A i \in Ids : i # id => (Scheduled(i)' <=> Scheduled(i))
  <2>1. \A i \in Ids : i # id => (st[i].cw <=> st'[i].cw)
    BY <1>3, OnlyRestTells
  <2>2. \A i \in Ids : st'[i].state = "idle" <=> st[i].state = "idle"
    BY <1>6 DEF Steady, HalfDone, InMap, Live
  <2> QED BY <2>1, <2>2 DEF Scheduled
<1>8. ~Scheduled(id)'
  <2>1. st' = [st EXCEPT ![id] = [st[id] EXCEPT !.bodyErr = TRUE, !.cw = TRUE]]
    BY <1>3 DEF closeRest
  <2> QED BY <2>1 DEF Scheduled, Typed, StreamObjects
<1>9. q'[id] = <<>> /\ \A i \in (Ids \union {0}) \ {id} : q'[i] = q[i]
  BY <1>1, <1>3, QueueTyped
<1> QED BY <1>3, <1>5, <1>7, <1>8, <1>9 DEF Scheduler!CloseStream

LEMMA AddsPushes ==
    ASSUME Typed, SchedulerKeeps, NEW wr \in Requests(Known), Adds(wr)
    PROVE  \E i \in Ids \union {0} : Scheduler!Push(i)
<1>1. PICK t \in PushTargets(wr) : q' = [q EXCEPT ![t] = Append(q[t], wr)]
  BY DEF Adds
<1>2. wr.id \in Ids \union {0} /\ wr \in WriteRequests
  <2>1. wr.id \in 0 .. StreamIDLimit - 1
    BY DEF Requests, WriteRequests
  <2> QED BY <2>1, SessionAssumption DEF Ids, Requests
<1>3. t \in Ids \union {0}
  BY <1>1, <1>2, PushedWhere
<1>4. ASSUME wr.id # 0, ~Scheduled(wr.id) PROVE wr.kind = "rst"
  <2> SUFFICES ASSUME wr.kind # "rst" PROVE FALSE
    OBVIOUS
  <2>1. wr.id \in Known
    BY <1>4 DEF Requests, HasStream
  <2>2. wr.id \in Ids /\ wr.id <= MaxStreamID(wr.id) /\ stateOf(wr.id) # "closed"
    BY <1>4, <2>1 DEF Typed, StreamsOK, Known, Adds, IgnoreWrite
  <2>3. InMap(wr.id)
    BY <2>2 DEF stateOf
  <2> QED BY <1>4, <2>2, <2>3 DEF InMap, Live, Scheduled, Typed, StreamsOK
<1>5. PICK u \in Seq(WriteRequests) : u = q[t]
  BY <1>3, QueueTyped
<1>6. q'[t] = Append(u, wr)
  BY <1>1, <1>3, <1>5, QueueTyped
<1>7. Len(q'[t]) = Len(q[t]) + 1 /\ q'[t][Len(q'[t])] = wr
  BY <1>2, <1>5, <1>6, AppendOne
<1>8. Scheduler!Last(q'[t]) = wr
  BY <1>7 DEF Scheduler!Last
<1>9. t \in Scheduler!Targets(wr)
  BY <1>1, <1>2, <1>4 DEF PushTargets, Scheduler!Targets
<1>10. {id \in Ids : Scheduled(id)}' = {id \in Ids : Scheduled(id)}
  BY DEF SchedulerKeeps
<1> QED BY <1>1, <1>3, <1>7, <1>8, <1>9, <1>10 DEF Scheduler!Push

LEMMA PopPops ==
    ASSUME Typed, SchedulerKeeps, NEW i \in Ids \union {0}, LoopPop(i)
    PROVE  Scheduler!Pop(i)
<1>1. i \in ReadyQueues /\ q' = [q EXCEPT ![i] = Remaining(Head(q[i])) \o Tail(q[i])]
  BY DEF LoopPop
<1>2. PICK h : h = Head(q[i])
  OBVIOUS
<1>3. /\ q[i] # <<>> /\ h \in WriteRequests /\ (h.kind = "data" => i \in Known /\ h.id = i)
      /\ q[i] \in Seq(WriteRequests)
  BY <1>1, <1>2, PoppedTyped, QueueTyped DEF Queueable, Requests
<1>4. PICK u \in Seq(WriteRequests) : u = Tail(q[i])
  <2>1. ASSUME NEW s \in Seq(WriteRequests), s # <<>> PROVE Tail(s) \in Seq(WriteRequests)
    BY <2>1
  <2> QED BY <1>3, <2>1
<1>5. q[0] # <<>> => i = 0
  BY <1>1 DEF ReadyQueues
<1>6. {id \in Ids : Scheduled(id)}' = {id \in Ids : Scheduled(id)}
  BY DEF SchedulerKeeps
<1>7. CASE ~Splits(h)
  <2>1. Remaining(h) \o u = u
    BY <1>7 DEF Remaining
  <2>2. q' = [q EXCEPT ![i] = Tail(q[i])]
    BY <1>1, <1>2, <1>4, <2>1
  <2> QED BY <1>3, <1>5, <1>6, <2>2 DEF Scheduler!Pop
<1>8. CASE Splits(h)
  <2>1. h.kind = "data" /\ h.n > 0 /\ h.n > Allowed(h.id) /\ h.id = i /\ i \in Ids /\ i # 0
    BY <1>3, <1>8, IdsFacts DEF Splits, Known
  <2>2. Consumable(h)
    BY <1>1, <1>2, <2>1 DEF ReadyQueues
  <2>3. PICK a : a = Allowed(h.id)
    OBVIOUS
  <2>4. a \in Int /\ h.n \in Nat
    BY <1>3, <2>1, <2>3, AllowedInt DEF WriteRequests
  <2>5. a > 0
    BY <2>1, <2>2, <2>3 DEF Consumable
  <2>6. PICK k : k = h.n - a
    OBVIOUS
  <2>7. k \in 1 .. h.n - 1
    BY <2>1, <2>3, <2>4, <2>5, <2>6
  <2>8. Remaining(h) = <<[h EXCEPT !.n = k]>>
    BY <1>8, <2>3, <2>6 DEF Remaining
  <2>9. q' = [q EXCEPT ![i] = <<[Head(q[i]) EXCEPT !.n = k]>> \o Tail(q[i])]
    BY <1>1, <1>2, <2>8
  <2> QED BY <1>2, <1>3, <1>5, <1>6, <2>1, <2>7, <2>9 DEF Scheduler!Pop
<1> QED BY <1>7, <1>8

LEMMA SchedulerSteps ==
    ASSUME Typed, Typed', Discipline, Untold, [Next]_vars
    PROVE  [Scheduler!Next]_(Scheduler!vars)
<1>1. QueueStep /\ (Steady \/ \E id \in Ids : Opened(id) \/ Ends(id))
  BY QueueSteps, StreamSteps
<1>2. CASE closeRest
  BY <1>2, RestCloses DEF Scheduler!Next
<1>3. CASE ~closeRest /\ \E id \in Ids : Opened(id)
  <2>1. PICK id \in Ids : Opened(id)
    BY <1>3
  <2>2. ~Steady
    BY <2>1 DEF Opened, Steady, HalfDone, InMap, Live
  <2>3. q' = q
    BY <1>1, <2>2, QueuesSteady
  <2> QED BY <1>3, <2>1, <2>3, OpenedSchedules DEF Scheduler!Next
<1>4. CASE ~closeRest /\ ~\E id \in Ids : Opened(id)
  <2>1. SchedulerKeeps
    BY <1>1, <1>4, SteadyKeeps, EndedKeeps
  <2>2. CASE q' = q
    <3>1. {id \in Ids : Scheduled(id)}' = {id \in Ids : Scheduled(id)}
      BY <2>1 DEF SchedulerKeeps
    <3> QED BY <2>2, <3>1 DEF Scheduler!vars
  <2>3. ASSUME NEW wr \in Requests(Known), Adds(wr) PROVE Scheduler!Next
    BY <2>1, <2>3, AddsPushes DEF Scheduler!Next
  <2>4. ASSUME NEW i \in Ids \union {0}, LoopPop(i) PROVE Scheduler!Next
    BY <2>1, <2>4, PopPops DEF Scheduler!Next
  <2> QED BY <1>1, <1>4, <2>2, <2>3, <2>4, AddedTyped DEF QueueStep
<1> QED BY <1>2, <1>3, <1>4

(* serve uses its scheduler as WriteScheduler asks, whatever it is asked   *)
(* and from however deep a call: it opens a stream once and closes it      *)
(* once, pushes nothing but RST_STREAM on a stream that is not open, and   *)
(* what it pops leaves its queue in order, the rest of a DATA frame that   *)
(* was split staying in front.                                             *)
THEOREM UsesScheduler == Spec => ImplementsScheduler
<1>1. Init => Scheduler!Init /\ Untold
  BY DEF Init, Scheduler!Init, Scheduled, NoStream, Untold
<1>2. Typed /\ Typed' /\ Discipline /\ Untold /\ [Next]_vars
        => Untold' /\ [Scheduler!Next]_(Scheduler!vars)
  BY UntoldKept, SchedulerSteps
<1> QED BY <1>1, <1>2, TypedHolds, DisciplineHolds, PTL
        DEF Spec, ImplementsScheduler, Scheduler!Spec

-------------------------------------------------------------------------------
(* RST_STREAM has been started on a stream that was created.               *)
Reset(id) == \E k \in 1 .. Len(sent[id]) : sent[id][k] = "rst"

(* RST_STREAM is being written, or has been and closeStream comes next.    *)
Resetting(id) ==
    \/ writer.stage # "idle" /\ writer.wr.kind = "rst" /\ writer.wr.id = id
    \/ OnTop("wroteFrame") /\ Top.wr.kind = "rst" /\ Top.wr.id = id
    \/ OnTop("closeStream") /\ Top.id = id

LastReset(id) ==
    /\ \A i, j \in 1 .. Len(sent[id]) : i < j /\ sent[id][i] = "rst" => sent[id][j] = "rst"
    /\ panic = "none" /\ Reset(id) => st[id].state = "closed" \/ (InMap(id) /\ Resetting(id))

(* A stream on which RST_STREAM was started is closed, unless the result   *)
(* of that write has not been handled: until then no frame is started.     *)
ResetCloses == \A id \in Ids : LastReset(id)

(* While a frame is being written, serve is not in its loop.               *)
LEMMA LoopNotBusy == ASSUME Typed, Discipline, Running("loop") PROVE writer.stage = "idle"
<1>1. pend # <<>> /\ Top.op = "loop"
  BY RunningTop
<1>2. pend \in Seq(Stackable(Known, Closed)) /\ Below = pend
  BY <1>1 DEF Typed, Below, Tops
<1>3. 1 \in 1 .. Len(pend) /\ pend[1].op = "loop"
  BY <1>1, <1>2 DEF Top
<1>4. Inner(Below, sc.inFrameScheduleLoop)
  BY DEF Discipline
<1>5. sc.inFrameScheduleLoop
  BY <1>2, <1>3, <1>4 DEF Inner
<1> QED BY <1>5 DEF Discipline

LEMMA BusyWriter ==
    ASSUME Typed, Discipline, [Next]_vars, writer.stage # "idle"
    PROVE  writer' = writer \/ writeFrameAsync \/ SelectWrote
<1>1. ~Running("loop")
  BY LoopNotBusy
<1>2. CASE WriteStep
  BY <1>1, <1>2 DEF WriteStep, writeFrame, sendWindowUpdate, LoopGoAway, LoopSettingsAck, LoopFlush,
                    LoopExit, LoopPop, markReset, wroteFrame, reply, closeStream, closeRest, goAway,
                    Panic
<1>3. CASE ReadStep
  BY <1>3 DEF ReadStep, readMore, TooEarly, processPing, processFatal, processStreamError,
              processIgnored, processPriority, processGoAway, processEOF, processResetStream,
              Answer, processWindowUpdate, processSettingsAck, receiveSettings, SettingsDone,
              processSetting, processSettingInitialWindowSize, processData, endStream,
              processHeaders
<1>4. CASE ServeStep
  BY <1>4 DEF ServeStep, handshake, startReader, SelectWant, SelectShutdown, SelectTimer,
              createStream, refuse, handOver, iter, exit, closeAllStreamsOnConnClose
<1>5. CASE AppStep
  BY <1>5, AppFrame
<1>6. CASE \/ writeFrameAsync \/ (\E f \in PeerFrames : ReadFrame(f)) \/ ReadError \/ ReaderStops
           \/ onShutdownTimer \/ Over \/ UNCHANGED vars
  BY <1>6 DEF ReadFrame, ReadError, ReaderStops, onShutdownTimer, Over, vars
<1> QED BY <1>2, <1>3, <1>4, <1>5, <1>6 DEF Next

LEMMA ResettingKept ==
    ASSUME Typed, Discipline, [Next]_vars, panic' = "none", NEW id \in Ids, InMap(id), InMap(id)',
           Resetting(id)
    PROVE  Resetting(id)'
<1>1. StackStep
  BY StackSteps
<1>2. CASE writer.stage # "idle" /\ writer.wr.kind = "rst" /\ writer.wr.id = id
  <2>1. CASE writeFrameAsync
    <3>1. writer' = [writer EXCEPT !.stage = "wrote"] /\ writer \in Writers
      BY <2>1 DEF writeFrameAsync, Typed, WriterOK
    <3>2. writer'.stage = "wrote" /\ writer'.wr = writer.wr
      BY <3>1 DEF Writers
    <3> QED BY <1>2, <3>2 DEF Resetting
  <2>2. CASE SelectWrote
    <3>1. PICK p, r : p = OpOn("wroteFrame", writer.wr) /\ r = Op("iter", 0, 0)
      OBVIOUS
    <3>2. pend' = <<p, r>>
      BY <2>2, <3>1 DEF SelectWrote
    <3>3. pend' # <<>> /\ Head(pend') = p
      BY <3>2
    <3>4. p.op = "wroteFrame" /\ p.wr = writer.wr
      BY <3>1 DEF OpOn, Op
    <3> QED BY <1>2, <3>3, <3>4 DEF Resetting, OnTop, Top
  <2>3. CASE writer' = writer
    BY <1>2, <2>3 DEF Resetting
  <2> QED BY <1>2, <2>1, <2>2, <2>3, BusyWriter
<1>3. CASE OnTop("wroteFrame") /\ Top.wr.kind = "rst" /\ Top.wr.id = id /\ pend' # pend
  <2>1. wroteFrame /\ pend # <<>>
    BY <1>1, <1>3 DEF StackStep, OnTop
  <2>2. sc.writingFrame
    BY <1>3 DEF Discipline
  <2>3. PICK wr, r : wr = Top.wr /\ r = OpOn("reply", wr)
    OBVIOUS
  <2>4. pend' = WroteCalls(wr) \o <<r>> \o Tail(pend)
    BY <2>1, <2>2, <2>3 DEF wroteFrame
  <2>5. PICK p : p = Op("closeStream", id, 0)
    OBVIOUS
  <2>6. WroteCalls(wr) = <<p>>
    BY <1>3, <2>3, <2>5 DEF WroteCalls, writeEndsStream
  <2>7. PICK s \in Seq(Stackable(Known, Closed)) : s = Tail(pend)
    BY <2>1, TopTyped
  <2>8. pend' = <<p>> \o <<r>> \o s
    BY <2>4, <2>6, <2>7
  <2>9. pend' # <<>> /\ Head(pend') = p
    BY <2>8
  <2>10. p.op = "closeStream" /\ p.id = id
    BY <2>5, OpFields
  <2> QED BY <2>9, <2>10 DEF Resetting, OnTop, Top
<1>4. CASE OnTop("closeStream") /\ Top.id = id /\ pend' # pend
  <2>1. closeStream
    BY <1>1, <1>4 DEF StackStep, OnTop
  <2>2. CASE ClosePanic(id) # "none"
    BY <1>4, <2>1, <2>2 DEF closeStream, Panic
  <2>3. CASE ClosePanic(id) = "none"
    <3>1. st' = [st EXCEPT ![id] = [st[id] EXCEPT !.state = "closed"]]
      BY <1>4, <2>1, <2>3 DEF closeStream
    <3>2. st'[id].state = "closed"
      BY <3>1 DEF Typed, StreamObjects
    <3> QED BY <3>2 DEF InMap, Live
  <2> QED BY <2>2, <2>3
<1>5. CASE pend' = pend /\ (OnTop("wroteFrame") \/ OnTop("closeStream"))
           /\ ~(writer.stage # "idle" /\ writer.wr.kind = "rst" /\ writer.wr.id = id)
  BY <1>5 DEF Resetting, OnTop, Top
<1> QED BY <1>2, <1>3, <1>4, <1>5 DEF Resetting

(* The pop that puts a frame on a stream starts it.                        *)
LEMMA PopStarts ==
    ASSUME Typed, NEW i \in Ids \union {0}, LoopPop(i), sent' # sent
    PROVE  \E wr \in Requests(Known) :
             /\ wr.id \in Ids /\ StartPanic(wr) = "none"
             /\ sent' = [sent EXCEPT ![wr.id] = Append(sent[wr.id], Mark(wr))]
             /\ pend' = <<OpOn("wroteFrame", wr)>> \o pend
                  \/ writer' = [stage |-> "writing", wr |-> wr]
<1>1. PICK wr : wr = Consumed(Head(q[i]))
  OBVIOUS
<1>2. i \in ReadyQueues /\ \E s : startFrameWrite(s, wr)
  BY <1>1, Zenon DEF LoopPop
<1>3. wr \in Requests(Known)
  BY <1>1, <1>2, PoppedTyped
<1>4. /\ StartPanic(wr) = "none" /\ sent' = Sending(wr)
      /\ pend' = <<OpOn("wroteFrame", wr)>> \o pend \/ writer' = [stage |-> "writing", wr |-> wr]
  BY <1>2 DEF startFrameWrite
<1>5. wr.id # 0 /\ sent' = [sent EXCEPT ![wr.id] = Append(sent[wr.id], Mark(wr))]
  BY <1>4 DEF Sending
<1>6. wr.id \in Ids
  BY <1>3, <1>5, IdsFacts DEF Requests, WriteRequests
<1> QED BY <1>3, <1>4, <1>5, <1>6

LEMMA ResetKept ==
    ASSUME Typed, Discipline, ResetCloses, [Next]_vars, NEW id \in Ids
    PROVE  LastReset(id)'
<1>1. LastReset(id)
  BY DEF ResetCloses
<1>2. Steady \/ \E i \in Ids : Opened(i) \/ Ends(i)
  BY StreamSteps
<1>3. /\ st[id].state = "closed" => st'[id].state = "closed"
      /\ InMap(id) => InMap(id)' \/ st'[id].state = "closed"
  BY <1>2 DEF Steady, HalfDone, Opened, Ends, Change, InMap, Live
<1>4. CASE panic # "none"
  <2>1. UNCHANGED vars
    BY <1>4, DeadStops
  <2>2. sent' = sent /\ panic' # "none"
    BY <1>4, <2>1 DEF vars
  <2> QED BY <1>1, <2>2 DEF LastReset
<1>5. CASE panic = "none" /\ sent'[id] = sent[id]
  <2>1. ASSUME panic' = "none", Reset(id)
        PROVE  st'[id].state = "closed" \/ (InMap(id)' /\ Resetting(id)')
    <3>1. st[id].state = "closed" \/ (InMap(id) /\ Resetting(id))
      BY <1>1, <1>5, <2>1 DEF LastReset
    <3> QED BY <1>3, <2>1, <3>1, ResettingKept
  <2>2. Reset(id)' <=> Reset(id)
    BY <1>5 DEF Reset
  <2>3. \A i, j \in 1 .. Len(sent'[id]) : i < j /\ sent'[id][i] = "rst" => sent'[id][j] = "rst"
    BY <1>1, <1>5 DEF LastReset
  <2> QED BY <2>1, <2>2, <2>3 DEF LastReset
<1>6. CASE panic = "none" /\ sent'[id] # sent[id]
  <2>1. QueueStep
    BY QueueSteps
  <2>2. PICK i \in Ids \union {0} : LoopPop(i)
    BY <1>6, <2>1 DEF QueueStep, Adds, closeRest
  <2>3. PICK wr \in Requests(Known) :
             /\ wr.id \in Ids /\ StartPanic(wr) = "none"
             /\ sent' = [sent EXCEPT ![wr.id] = Append(sent[wr.id], Mark(wr))]
             /\ pend' = <<OpOn("wroteFrame", wr)>> \o pend
                  \/ writer' = [stage |-> "writing", wr |-> wr]
    BY <1>6, <2>2, PopStarts
  <2>4. sent \in [Ids -> Seq(Marks)] /\ pend \in Seq(Stackable(Known, Closed))
    BY DEF Typed
  <2>5. wr.id = id
    BY <1>6, <2>3, <2>4
  <2>6. PICK u \in Seq(Marks) : u = sent[id]
    BY <2>4
  <2>7. PICK m : m = Mark(wr)
    OBVIOUS
  <2>8. sent'[id] = Append(u, m)
    BY <2>3, <2>4, <2>5, <2>6, <2>7
  <2>9. PICK t : t = sent'[id]
    OBVIOUS
  <2>10. /\ Len(t) = Len(u) + 1 /\ Len(u) \in Nat /\ t[Len(u) + 1] = m
         /\ \A k \in 1 .. Len(u) : t[k] = u[k]
    <3>1. PICK T : T = Marks \union {m}
      OBVIOUS
    <3>2. u \in Seq(T) /\ m \in T
      BY <3>1
    <3> QED BY <2>8, <2>9, <3>2, AppendOne
  <2>11. Running("loop")
    BY <2>2 DEF LoopPop
  <2>12. ~Resetting(id)
    <3>1. pend # <<>> /\ Top.op = "loop" /\ writer.stage = "idle"
      BY <2>11, RunningTop, LoopNotBusy
    <3> QED BY <3>1 DEF Resetting, OnTop
  <2>13. ASSUME Reset(id) PROVE m = "rst" /\ st[id].state = "closed"
    <3>1. st[id].state = "closed"
      BY <1>1, <1>6, <2>12, <2>13 DEF LastReset
    <3>2. wr.kind = "rst"
      <4>1. ~HasStream(wr)
        BY <2>3, <2>5, <3>1 DEF StartPanic
      <4> QED BY <2>5, <4>1, IdsFacts DEF HasStream
    <3> QED BY <2>5, <2>7, <3>1, <3>2 DEF Mark, writeEndsStream
  <2>14. \A a, j \in 1 .. Len(t) : a < j /\ t[a] = "rst" => t[j] = "rst"
    <3> SUFFICES ASSUME NEW a \in 1 .. Len(t), NEW b \in 1 .. Len(t), a < b, t[a] = "rst"
                 PROVE  t[b] = "rst"
      OBVIOUS
    <3>1. a \in 1 .. Len(u) /\ u[a] = "rst"
      BY <2>10
    <3>2. m = "rst"
      BY <2>6, <2>13, <3>1 DEF Reset
    <3>3. CASE b \in 1 .. Len(u)
      BY <1>1, <2>6, <2>10, <3>1, <3>3 DEF LastReset
    <3>4. CASE b = Len(u) + 1
      BY <2>10, <3>2, <3>4
    <3> QED BY <2>10, <3>3, <3>4
  <2>15. ASSUME Reset(id)' PROVE m = "rst"
    <3>1. PICK k \in 1 .. Len(t) : t[k] = "rst"
      BY <2>9, <2>15 DEF Reset
    <3>2. CASE k \in 1 .. Len(u)
      BY <2>6, <2>10, <2>13, <3>1, <3>2 DEF Reset
    <3> QED BY <2>10, <3>1, <3>2
  <2>16. ASSUME m = "rst" PROVE st'[id].state = "closed" \/ (InMap(id)' /\ Resetting(id)')
    <3>1. wr.kind = "rst" /\ st[id].state # "idle"
      BY <2>5, <2>7, <2>16 DEF Mark
    <3>2. st[id].state \in StreamStates
      BY DEF Typed, StreamObjects
    <3>3. InMap(id)' \/ st'[id].state = "closed"
      BY <1>3, <3>1, <3>2 DEF StreamStates, InMap, Live
    <3>4. CASE writer' = [stage |-> "writing", wr |-> wr]
      BY <2>5, <3>1, <3>3, <3>4 DEF Resetting
    <3>5. CASE pend' = <<OpOn("wroteFrame", wr)>> \o pend
      <4>1. PICK p : p = OpOn("wroteFrame", wr)
        OBVIOUS
      <4>2. pend' # <<>> /\ Head(pend') = p
        BY <2>4, <3>5, <4>1
      <4>3. p.op = "wroteFrame" /\ p.wr = wr
        BY <4>1 DEF OpOn, Op
      <4>4. Resetting(id)'
        BY <2>5, <3>1, <4>2, <4>3 DEF Resetting, OnTop, Top
      <4> QED BY <3>3, <4>4
    <3> QED BY <2>3, <3>4, <3>5
  <2> QED BY <2>9, <2>14, <2>15, <2>16 DEF LastReset
<1> QED BY <1>4, <1>5, <1>6

(* After RST_STREAM nothing but RST_STREAM is started on a stream that was *)
(* created.  closeStream only runs when the result of the write has been   *)
(* handled, and then runs the write loop before it drops the queue: the    *)
(* flags keep the loop off in between, and startFrameWrite stops the       *)
(* program rather than write on a closed stream.                           *)
THEOREM NothingFollowsReset == Spec => []ResetIsLast
<1>1. Init => ResetCloses
  BY DEF Init, ResetCloses, LastReset, Reset
<1>2. Typed /\ Discipline /\ ResetCloses /\ [Next]_vars => ResetCloses'
  BY ResetKept DEF ResetCloses
<1>3. Typed /\ ResetCloses => ResetIsLast
  BY DEF Typed, ResetCloses, LastReset, ResetIsLast
<1> QED BY <1>1, <1>2, <1>3, TypedHolds, DisciplineHolds, PTL DEF Spec

-------------------------------------------------------------------------------
(* serve never goes to sleep with work to do.                              *)

(* One of the calls ops is on the stack.                                   *)
Occurs(s, ops) == \E k \in 1 .. Len(s) : s[k].op \in ops

(* The calls that look for the next frame, and those that lead to such a   *)
(* call.                                                                   *)
Looks == {"loop", "reply"}

Wakers == Looks \union {"processSettings", "goAwayErr"}

(* Every connection error was told to the peer, and stops the scheduler.   *)
(* goAway drops one that comes after a graceful GOAWAY.                    *)
Heeded == life.fatal => sc.goAwayCode = "Err"

Free == panic = "none" /\ Heeded /\ ~life.doneServing /\ ~sc.writingFrame

(* What could be written now, a call on the stack will find.               *)
Alert ==
    /\ Urgent \/ sc.needsFrameFlush => Occurs(pend, Looks)
    /\ NothingToPop \/ Occurs(pend, Wakers)

Awake ==
    /\ life.fatal => sc.inGoAway
    /\ Free => Alert

-------------------------------------------------------------------------------
LEMMA OccursIn == ASSUME NEW s, NEW O, NEW P, O \subseteq P, Occurs(s, O) PROVE Occurs(s, P)
BY DEF Occurs

LEMMA OccursFirst == ASSUME NEW p, NEW S, NEW s \in Seq(S), NEW O, p.op \in O PROVE Occurs(<<p>> \o s, O)
<1>1. PICK t : t = <<p>> \o s
  OBVIOUS
<1>2. 1 \in 1 .. Len(t) /\ t[1] = p
  BY <1>1
<1> QED BY <1>1, <1>2 DEF Occurs

LEMMA OccursTail ==
    ASSUME NEW S, NEW s \in Seq(S), s # <<>>, NEW O, Occurs(s, O), Head(s).op \notin O
    PROVE  Occurs(Tail(s), O)
<1>1. PICK k \in 1 .. Len(s) : s[k].op \in O
  BY DEF Occurs
<1>2. k # 1 /\ k - 1 \in 1 .. Len(Tail(s)) /\ Tail(s)[k - 1] = s[k]
  BY <1>1
<1> QED BY <1>1, <1>2 DEF Occurs

LEMMA OccursJoined ==
    ASSUME NEW S, NEW s \in Seq(S), NEW A, NEW c \in Seq(A), NEW O, Occurs(s, O)
    PROVE  Occurs(c \o s, O)
<1>1. PICK k \in 1 .. Len(s) : s[k].op \in O
  BY DEF Occurs
<1>2. PICK t : t = c \o s
  OBVIOUS
<1>3. c \in Seq(A \union S) /\ s \in Seq(A \union S)
  OBVIOUS
<1>4. k + Len(c) \in 1 .. Len(t) /\ t[k + Len(c)] = s[k]
  BY <1>1, <1>2, <1>3
<1> QED BY <1>1, <1>2, <1>4 DEF Occurs

(* A call stays on the stack until it is made.                             *)
LEMMA OccursKept ==
    ASSUME Typed, Discipline, StackStep, NEW O, Occurs(pend, O),
           pend' = pend \/ Top.op \notin O
    PROVE  Occurs(pend', O)
<1>1. pend \in Seq(Stackable(Known, Closed)) /\ pend # <<>>
  BY DEF Typed, Occurs
<1>2. CASE pend' = pend
  BY <1>2
<1>3. CASE pend' # pend
  <2>1. Tail(pend) \in Seq(Stackable(Known, Closed)) /\ Occurs(Tail(pend), O)
    BY <1>1, <1>3, OccursTail DEF Top
  <2>2. CASE Top.op \in {"exit", "handshake"}
    <3>1. Tail(pend) = <<>>
      BY <1>1, <2>2 DEF Discipline, OnTop, Below, Tops
    <3> QED BY <2>1, <3>1 DEF Occurs
  <2>3. CASE \E p : pend' = <<p>> \o pend
    <3>1. PICK p : pend' = <<p>> \o pend
      BY <2>3
    <3>2. <<p>> \in Seq({p})
      OBVIOUS
    <3> QED BY <1>1, <3>1, <3>2, OccursJoined
  <2>4. CASE pend' = Tail(pend) \/ \E A : \E c \in Seq(A) : pend' = c \o Tail(pend)
    BY <2>1, <2>4, OccursJoined
  <2> QED BY <1>1, <1>3, <2>2, <2>3, <2>4 DEF StackStep
<1> QED BY <1>2, <1>3

-------------------------------------------------------------------------------
(* What a step does that matters to the write loop.                        *)
SameDuties(s, t) ==
    /\ s.needToSendGoAway = t.needToSendGoAway
    /\ s.needToSendSettingsAck = t.needToSendSettingsAck
    /\ s.needsFrameFlush = t.needsFrameFlush /\ s.writingFrame = t.writingFrame
    /\ s.inGoAway = t.inGoAway /\ s.goAwayCode = t.goAwayCode

(* It looks for a frame, or leaves that to the end of a write.             *)
Woken == panic' # "none" \/ sc'.writingFrame \/ life'.doneServing \/ Occurs(pend', Looks)

(* It gives no reason to look for one.                                     *)
Dozes ==
    /\ SameDuties(sc', sc)
    /\ NothingToPop => NothingToPop'
    /\ pend' = pend \/ pend = <<>> \/ Top.op \notin Wakers

(* It changes windows or the frame size, and is not done.                  *)
Configures ==
    /\ SameDuties(sc', sc) /\ Top.op = "processSettings"
    /\ Occurs(pend', {"processSettings", "goAwayErr"})

(* goAway drops a connection error, after another GOAWAY.                  *)
Swallows ==
    /\ sc' = sc /\ sc.inGoAway /\ life'.fatal /\ Top.op = "goAwayErr"

WakeStep == Woken \/ Dozes \/ LoopExit \/ Configures \/ Swallows

LEMMA SameDutiesSelf == \A s : SameDuties(s, s)
BY DEF SameDuties

(* Which frames may be popped, if windows and queues stay.                 *)
LEMMA ReadySame ==
    ASSUME Typed, q' = q, sc'.flow = sc.flow, sc'.maxFrameSize = sc.maxFrameSize,
           \A id \in Known : st'[id].flow = st[id].flow
    PROVE  ReadyQueues' = ReadyQueues
<1>1. ASSUME NEW id \in Ids, q[id] # <<>>
      PROVE  Consumable(Head(q[id]))' <=> Consumable(Head(q[id]))
  <2>1. q[id] \in Seq(Queueable(id, Known))
    BY QueueTyped
  <2>2. PICK h : h = Head(q[id])
    OBVIOUS
  <2>3. h \in Requests(Known)
    BY <1>1, <2>1, <2>2 DEF Queueable
  <2>4. h.kind = "data" => h.id \in Known
    BY <2>3 DEF Requests, HasStream
  <2>5. h.kind = "data" => Allowed(h.id)' = Allowed(h.id)
    BY <2>4 DEF Allowed, available
  <2> QED BY <2>2, <2>5 DEF Consumable
<1> QED BY <1>1 DEF ReadyQueues

LEMMA ReadyShrinks ==
    ASSUME Typed, NEW i \in Ids, q' = [q EXCEPT ![i] = <<>>], sc' = sc,
           \A id \in Ids : st'[id].flow = st[id].flow
    PROVE  ReadyQueues' \subseteq ReadyQueues
<1>1. q \in [Ids \union {0} -> Seq(WriteRequests)] /\ i # 0
  BY IdsFacts DEF Typed, QueuesOK
<1>2. q'[0] = q[0] /\ \A id \in Ids : q'[id] # <<>> => q'[id] = q[id]
  BY <1>1
<1>3. ASSUME NEW id \in Ids, q'[id] # <<>>, Consumable(Head(q[id]))'
      PROVE  Consumable(Head(q[id]))
  <2>1. q[id] \in Seq(Queueable(id, Known)) /\ q[id] # <<>> /\ q'[id] = q[id]
    BY <1>2, <1>3, QueueTyped
  <2>2. PICK h : h = Head(q[id])
    OBVIOUS
  <2>3. h \in Requests(Known)
    BY <2>1, <2>2 DEF Queueable
  <2>4. h.kind = "data" => h.id \in Ids
    BY <2>3 DEF Requests, HasStream, Known
  <2>5. h.kind = "data" => Allowed(h.id)' = Allowed(h.id)
    BY <2>4 DEF Allowed, available
  <2>6. h' = h
    BY <2>1, <2>2
  <2> QED BY <1>3, <2>1, <2>2, <2>5 DEF Consumable
<1> QED BY <1>2, <1>3 DEF ReadyQueues

LEMMA ReadyDozes ==
    ASSUME SameDuties(sc', sc), ReadyQueues' \subseteq ReadyQueues,
           pend' = pend \/ pend = <<>> \/ Top.op \notin Wakers
    PROVE  Dozes
BY DEF Dozes, SameDuties, NothingToPop, MayPop

LEMMA QuietDozes ==
    ASSUME Typed, Quiet, q' = q, SameDuties(sc', sc),
           pend' = pend \/ pend = <<>> \/ Top.op \notin Wakers
    PROVE  Dozes
<1>1. ReadyQueues' = ReadyQueues
  BY ReadySame DEF Quiet, SameStreams, SameOn, SameSums, Known
<1> QED BY <1>1, ReadyDozes

(* scheduleFrameWrite loops, or is called from the loop, or a frame is     *)
(* being written.                                                          *)
LEMMA ScheduleWakes ==
    ASSUME NEW s \in Sessions, NEW S, NEW rest \in Seq(S), Inner(rest, s.inFrameScheduleLoop),
           ScheduleFrameWrite(s, rest)
    PROVE  Woken
<1>1. CASE s.writingFrame
  BY <1>1 DEF ScheduleFrameWrite, Woken
<1>2. CASE ~s.writingFrame /\ s.inFrameScheduleLoop
  <2>1. pend' = rest /\ \E k \in 1 .. Len(rest) : rest[k].op = "loop"
    BY <1>2 DEF ScheduleFrameWrite, Inner
  <2> QED BY <2>1 DEF Woken, Occurs, Looks
<1>3. CASE ~s.writingFrame /\ ~s.inFrameScheduleLoop
  <2>1. PICK p : p = Op("loop", 0, 0)
    OBVIOUS
  <2>2. pend' = <<p>> \o rest /\ p.op \in Looks
    BY <1>3, <2>1 DEF ScheduleFrameWrite, Op, Looks
  <2> QED BY <2>2, OccursFirst DEF Woken
<1> QED BY <1>1, <1>2, <1>3

LEMMA CallWakes ==
    ASSUME Typed, Discipline, NEW op, Running(op), op # "loop", NEW s \in Sessions,
           s.inFrameScheduleLoop = sc.inFrameScheduleLoop, ScheduleFrameWrite(s, Tail(pend))
    PROVE  Woken
<1>1. Inner(Tail(pend), s.inFrameScheduleLoop) /\ Tail(pend) \in Seq(Pending)
  BY RunningInner
<1> QED BY <1>1, ScheduleWakes

LEMMA HandlerWakes ==
    ASSUME Typed, Discipline, Parked, NEW s \in Sessions,
           s.inFrameScheduleLoop = sc.inFrameScheduleLoop, ThenSchedule(s)
    PROVE  Woken
<1>1. ~sc.inFrameScheduleLoop /\ s.inFrameScheduleLoop \in BOOLEAN
  BY ParkedInner DEF Parked, Sessions
<1>2. PICK rest : rest = <<Op("readMore", 0, 0), Op("iter", 0, 0)>>
  OBVIOUS
<1>3. PICK S : rest \in Seq(S) /\ Inner(rest, FALSE)
  BY <1>2, CalmCalls DEF Calm
<1>4. ScheduleFrameWrite(s, rest) /\ s.inFrameScheduleLoop = FALSE
  BY <1>1, <1>2 DEF ThenSchedule
<1> QED BY <1>3, <1>4, ScheduleWakes

LEMMA StartWakes == ASSUME NEW s \in Sessions, NEW wr, startFrameWrite(s, wr) PROVE Woken
<1>1. \/ panic' # "none"
      \/ sc' = [s EXCEPT !.writingFrame = TRUE, !.needsFrameFlush = (wr.kind # "flush")]
      \/ sc' = [[s EXCEPT !.writingFrame = TRUE, !.needsFrameFlush = (wr.kind # "flush")]
                EXCEPT !.writingFrameAsync = TRUE, !.inFrameScheduleLoop = FALSE]
  BY DEF startFrameWrite
<1> QED BY <1>1 DEF Woken, Sessions

LEMMA RunningNotWaker ==
    ASSUME NEW op, Running(op), op \notin Wakers
    PROVE  Top.op \notin Wakers
BY RunningTop

(* No waker is called unless it is on the stack.                           *)
LEMMA CallDozes ==
    ASSUME Typed, Quiet, q' = q, sc' = sc, NEW op, Running(op), op \notin Wakers
    PROVE  Dozes
BY QuietDozes, RunningNotWaker, SameDutiesSelf

LEMMA ParkedDozes ==
    ASSUME Typed, Quiet, q' = q, SameDuties(sc', sc), Parked
    PROVE  Dozes
BY QuietDozes DEF Parked

LEMMA QueueingWakes == ASSUME Typed, Discipline, writeFrame \/ reply PROVE Woken
<1>1. sc \in Sessions
  BY DEF Typed
<1>2. ScheduleFrameWrite(sc, Tail(pend)) /\ (Running("writeFrame") \/ Running("reply"))
  BY DEF writeFrame, reply
<1> QED BY <1>1, <1>2, CallWakes

LEMMA sendWindowUpdateWakes == ASSUME Typed, Discipline, sendWindowUpdate PROVE WakeStep
<1>1. sc \in Sessions /\ Running("sendWindowUpdate")
  BY DEF Typed, sendWindowUpdate
<1>2. PICK a : a = added(sc.inflow, Top.n)
  OBVIOUS
<1>3. PICK s : s = [sc EXCEPT !.inflow = a]
  OBVIOUS
<1>4. \/ Top.n = 0 /\ q' = q /\ sc' = sc
      \/ panic' = "too many window updates"
      \/ ScheduleFrameWrite(sc, Tail(pend))
      \/ Top.id = 0 /\ ScheduleFrameWrite(s, Tail(pend))
  BY <1>2, <1>3, Zenon DEF sendWindowUpdate
<1>5. CASE Top.n = 0 /\ q' = q /\ sc' = sc
  <2>1. Dozes
    BY <1>1, <1>5, sendWindowUpdateQuiet, CallDozes DEF Wakers, Looks
  <2> QED BY <2>1 DEF WakeStep
<1>6. CASE panic' = "too many window updates"
  BY <1>6 DEF WakeStep, Woken
<1>7. CASE ScheduleFrameWrite(sc, Tail(pend))
  BY <1>1, <1>7, CallWakes DEF WakeStep
<1>8. CASE Top.id = 0 /\ ScheduleFrameWrite(s, Tail(pend))
  <2>1. Top.n \in Int /\ sc.inflow \in Int
    BY <1>1, TopTyped DEF Pending, Sessions, Running
  <2>2. a \in Int
    BY <1>2, <2>1, AddedInt, Zenon
  <2>3. s \in Sessions /\ s.inFrameScheduleLoop = sc.inFrameScheduleLoop
    BY <1>1, <1>3, <2>2 DEF Sessions
  <2> QED BY <1>1, <1>8, <2>3, CallWakes DEF WakeStep
<1> QED BY <1>4, <1>5, <1>6, <1>7, <1>8

LEMMA LoopWakes ==
    ASSUME Typed, LoopGoAway \/ LoopSettingsAck \/ LoopFlush
    PROVE  Woken
<1>1. PICK s, t : /\ s = [sc EXCEPT !.needToSendGoAway = FALSE]
                  /\ t = [sc EXCEPT !.needToSendSettingsAck = FALSE]
  OBVIOUS
<1>2. sc \in Sessions /\ s \in Sessions /\ t \in Sessions
  BY <1>1 DEF Typed, Sessions
<1>3. \/ startFrameWrite(s, Control("goAway")) \/ startFrameWrite(t, Control("settingsAck"))
      \/ startFrameWrite(sc, Control("flush"))
  BY <1>1 DEF LoopGoAway, LoopSettingsAck, LoopFlush
<1> QED BY <1>2, <1>3, StartWakes

LEMMA LoopPopWakes == ASSUME Typed, NEW i \in Ids \union {0}, LoopPop(i) PROVE Woken
<1>1. sc \in Sessions
  BY DEF Typed
<1>2. PICK wr, n : /\ wr = Consumed(Head(q[i])) /\ n = IF wr.kind = "data" THEN wr.n ELSE 0
  OBVIOUS
<1>3. PICK s : s = [sc EXCEPT !.flow = @ - n, !.connSent = @ + n]
  OBVIOUS
<1>4. startFrameWrite(s, wr)
  BY <1>2, <1>3 DEF LoopPop
<1>5. \/ panic' # "none"
      \/ sc' = [s EXCEPT !.writingFrame = TRUE, !.needsFrameFlush = (wr.kind # "flush")]
      \/ sc' = [[s EXCEPT !.writingFrame = TRUE, !.needsFrameFlush = (wr.kind # "flush")]
                EXCEPT !.writingFrameAsync = TRUE, !.inFrameScheduleLoop = FALSE]
  BY <1>4 DEF startFrameWrite
<1> QED BY <1>1, <1>3, <1>5 DEF Woken, Sessions

LEMMA wroteFrameWakes == ASSUME Typed, Discipline, wroteFrame PROVE Woken
<1>1. CASE ~sc.writingFrame
  BY <1>1 DEF wroteFrame, Panic, Woken
<1>2. CASE sc.writingFrame
  <2>1. PICK wr, p : wr = Top.wr /\ p = OpOn("reply", wr)
    OBVIOUS
  <2>2. PICK A : WroteCalls(wr) \in Seq(A)
    <3>1. PICK a, b, c : /\ a = OpOn("writeFrame", WR("rst", wr.id, 0, FALSE, Nobody))
                         /\ b = Op("markReset", wr.id, 0) /\ c = Op("closeStream", wr.id, 0)
      OBVIOUS
    <3>2. WroteCalls(wr) \in {<<a, b>>, <<c>>, <<>>}
      BY <3>1 DEF WroteCalls, resetStream
    <3>3. <<a, b>> \in Seq({a, b, c})
      OBVIOUS
    <3>4. <<c>> \in Seq({a, b, c}) /\ <<>> \in Seq({a, b, c})
      OBVIOUS
    <3> QED BY <3>2, <3>3, <3>4
  <2>3. Running("wroteFrame") /\ pend' = WroteCalls(wr) \o <<p>> \o Tail(pend)
    BY <1>2, <2>1 DEF wroteFrame
  <2>4. Tail(pend) \in Seq(Pending)
    BY <2>3, RunningInner
  <2>5. p.op \in Looks
    BY <2>1, OpFields DEF OpOn, Op, Looks
  <2>6. Occurs(<<p>> \o Tail(pend), Looks)
    BY <2>4, <2>5, OccursFirst
  <2>7. <<p>> \o Tail(pend) \in Seq({p} \union Pending)
    BY <2>4
  <2>8. PICK t : t = <<p>> \o Tail(pend)
    OBVIOUS
  <2>9. Occurs(WroteCalls(wr) \o t, Looks)
    BY <2>2, <2>6, <2>7, <2>8, OccursJoined
  <2>10. pend' = WroteCalls(wr) \o t
    BY <2>2, <2>3, <2>4, <2>8
  <2> QED BY <2>9, <2>10 DEF Woken
<1> QED BY <1>1, <1>2

LEMMA closeStreamDozes == ASSUME Typed, closeStream PROVE WakeStep
<1>1. CASE panic' # "none"
  BY <1>1 DEF WakeStep, Woken
<1>2. CASE panic' = "none"
  <2>1. sc \in Sessions /\ st \in [Ids -> StreamObjects] /\ Running("closeStream")
    BY DEF Typed, closeStream
  <2>2. panic = "none" /\ ClosePanic(Top.id) = "none"
    BY <1>2, <2>1 DEF closeStream, Panic, Running
  <2>3. /\ st' = [st EXCEPT ![Top.id].state = "closed"] /\ q' = q
        /\ \/ sc' = [sc EXCEPT !.curPushedStreams = @ - 1]
           \/ sc' = [sc EXCEPT !.curClientStreams = @ - 1]
    BY <2>2 DEF closeStream
  <2>4. /\ SameDuties(sc', sc) /\ sc'.maxFrameSize = sc.maxFrameSize /\ sc'.flow = sc.flow
        /\ \A id \in Known : st'[id].flow = st[id].flow
    BY <2>1, <2>3 DEF SameDuties, Sessions, StreamObjects, Known
  <2>5. Dozes
    BY <2>1, <2>3, <2>4, ReadySame, ReadyDozes, RunningNotWaker DEF Wakers, Looks
  <2> QED BY <2>5 DEF WakeStep
<1> QED BY <1>1, <1>2

LEMMA closeRestDozes == ASSUME Typed, closeRest PROVE Dozes
<1>1. st \in [Ids -> StreamObjects] /\ Running("closeRest") /\ pend # <<>> /\ Top.op = "closeRest"
  BY RunningTop DEF Typed, closeRest
<1>2. Top.id \in Ids
  BY <1>1, TopTyped DEF Stackable, Known
<1>3. PICK i \in Ids : i = Top.id
  BY <1>2
<1>4. /\ st' = [st EXCEPT ![i] = [@ EXCEPT !.bodyErr = TRUE, !.cw = TRUE]]
      /\ q' = [q EXCEPT ![i] = <<>>] /\ sc' = sc
  BY <1>3 DEF closeRest
<1>5. \A id \in Ids : st'[id].flow = st[id].flow
  BY <1>1, <1>4 DEF StreamObjects
<1>6. ReadyQueues' \subseteq ReadyQueues
  BY <1>3, <1>4, <1>5, ReadyShrinks
<1> QED BY <1>1, <1>4, <1>6, ReadyDozes, SameDutiesSelf DEF Wakers, Looks

LEMMA goAwayWakes ==
    ASSUME Typed, Discipline, goAway("goAwayNo", "No") \/ goAway("goAwayErr", "Err")
    PROVE  WakeStep
<1>1. sc \in Sessions
  BY DEF Typed
<1>2. CASE ~sc.inGoAway
  <2>1. PICK code \in {"No", "Err"} : ScheduleFrameWrite([sc EXCEPT !.inGoAway = TRUE,
                   !.needToSendGoAway = TRUE, !.goAwayCode = code], Tail(pend))
    BY <1>2 DEF goAway
  <2>2. PICK s : s = [sc EXCEPT !.inGoAway = TRUE, !.needToSendGoAway = TRUE, !.goAwayCode = code]
    OBVIOUS
  <2>3. s \in Sessions /\ s.inFrameScheduleLoop = sc.inFrameScheduleLoop
    BY <1>1, <2>2 DEF Sessions
  <2>4. Running("goAwayNo") \/ Running("goAwayErr")
    BY DEF goAway
  <2> QED BY <2>1, <2>2, <2>3, <2>4, CallWakes DEF WakeStep
<1>3. CASE sc.inGoAway /\ goAway("goAwayNo", "No")
  <2>1. sc' = sc /\ q' = q /\ Running("goAwayNo")
    BY <1>3 DEF goAway
  <2>2. Dozes
    BY <1>3, <2>1, WriteQuiet, CallDozes DEF Wakers, Looks
  <2> QED BY <2>2 DEF WakeStep
<1>4. CASE sc.inGoAway /\ goAway("goAwayErr", "Err")
  <2>1. sc' = sc /\ life' = [life EXCEPT !.fatal = @ \/ TRUE] /\ Running("goAwayErr")
    BY <1>4 DEF goAway
  <2>2. life'.fatal
    BY <2>1 DEF Typed, Lives
  <2> QED BY <1>4, <2>1, <2>2, RunningTop DEF WakeStep, Swallows
<1> QED BY <1>2, <1>3, <1>4

LEMMA WriteWakes == ASSUME Typed, Discipline, WriteStep \/ writeFrameAsync PROVE WakeStep
<1>1. CASE markReset
  <2>1. Running("markReset") /\ q' = q /\ sc' = sc
    BY <1>1 DEF markReset
  <2>2. Dozes
    BY <1>1, <2>1, WriteQuiet, CallDozes DEF Wakers, Looks
  <2> QED BY <2>2 DEF WakeStep
<1>2. CASE writeFrameAsync
  <2>1. pend' = pend /\ q' = q /\ sc' = sc
    BY <1>2 DEF writeFrameAsync
  <2>2. Dozes
    BY <1>2, <2>1, WriteQuiet, QuietDozes, SameDutiesSelf
  <2> QED BY <2>2 DEF WakeStep
<1> QED BY <1>1, <1>2, QueueingWakes, sendWindowUpdateWakes, LoopWakes, LoopPopWakes, wroteFrameWakes,
           closeStreamDozes, closeRestDozes, goAwayWakes DEF WriteStep, WakeStep

-------------------------------------------------------------------------------
LEMMA SettingsWake ==
    ASSUME Typed, Discipline, SettingsDone \/ processSetting \/ processSettingInitialWindowSize
    PROVE  WakeStep
<1>1. sc \in Sessions /\ pend \in Seq(Pending) /\ Running("processSettings")
  BY RunningInner DEF Typed, SettingsDone, processSetting, processSettingInitialWindowSize
<1>2. CASE SettingsDone
  <2>1. PICK s : s = [sc EXCEPT !.needToSendSettingsAck = TRUE]
    OBVIOUS
  <2>2. s \in Sessions /\ s.inFrameScheduleLoop = sc.inFrameScheduleLoop
    BY <1>1, <2>1 DEF Sessions
  <2>3. ScheduleFrameWrite(s, Tail(pend))
    BY <1>2, <2>1 DEF SettingsDone
  <2> QED BY <1>1, <2>2, <2>3, CallWakes DEF WakeStep
<1>3. CASE processSetting \/ processSettingInitialWindowSize
  <2>1. PICK a, b : a = [Top EXCEPT !.set = Tail(@)] /\ b = Op("goAwayErr", 0, 0)
    OBVIOUS
  <2>2. pend' = <<a>> \o Tail(pend) \/ pend' = <<b>> \o Tail(pend)
    BY <1>3, <2>1 DEF processSetting, processSettingInitialWindowSize, NextSetting, ConnError
  <2>3. a.op = "processSettings" /\ b.op = "goAwayErr"
    BY <1>1, <2>1, TopTyped, RunningTop DEF Pending, Op
  <2>4. Occurs(pend', {"processSettings", "goAwayErr"})
    <3>1. Tail(pend) \in Seq(Pending)
      BY <1>1, RunningInner
    <3>2. PICK O : O = {"processSettings", "goAwayErr"}
      OBVIOUS
    <3>3. Occurs(<<a>> \o Tail(pend), O) /\ Occurs(<<b>> \o Tail(pend), O)
      BY <2>3, <3>1, <3>2, OccursFirst
    <3> QED BY <2>2, <3>2, <3>3
  <2>5. SameDuties(sc', sc)
    <3>1. \/ \E v : \/ sc' = sc \/ sc' = [sc EXCEPT !.peerMaxStreams = v]
                    \/ sc' = [sc EXCEPT !.maxFrameSize = v]
          \/ \E v, c : sc' = [sc EXCEPT !.initialStreamSendWindowSize = v, !.misgrown = c]
      BY <1>3 DEF processSetting, processSettingInitialWindowSize
    <3> QED BY <1>1, <3>1 DEF SameDuties, Sessions
  <2> QED BY <1>1, <2>4, <2>5, RunningTop DEF WakeStep, Configures
<1> QED BY <1>2, <1>3

LEMMA processWindowUpdateWakes == ASSUME Typed, Discipline, processWindowUpdate PROVE WakeStep
<1>1. sc \in Sessions /\ Parked /\ q' = q
  BY DEF Typed, processWindowUpdate, Handled, Receive
<1>2. frame.n \in Nat /\ frame.id \in Ids \union {0}
  BY ReceiveTyped DEF processWindowUpdate, Handled
<1>3. PICK a, b : a = added(sc.flow, frame.n) /\ b = sc.connInc + frame.n
  OBVIOUS
<1>4. a \in Int /\ b \in Nat
  <2>1. sc.flow \in Int /\ sc.connInc \in Nat /\ frame.n \in Int
    BY <1>1, <1>2 DEF Sessions
  <2>2. added(sc.flow, frame.n) \in Int
    BY <2>1, AddedInt, Zenon
  <2>3. PICK x, y : x = sc.connInc /\ y = frame.n
    OBVIOUS
  <2>4. x + y \in Nat
    BY <1>2, <2>1, <2>3
  <2> QED BY <1>3, <2>2, <2>3, <2>4
<1>5. PICK s : s = [sc EXCEPT !.flow = a, !.connInc = b]
  OBVIOUS
<1>6. s \in Sessions /\ s.inFrameScheduleLoop = sc.inFrameScheduleLoop
  BY <1>1, <1>4, <1>5 DEF Sessions
<1>7. \/ ThenSchedule(s) \/ ThenSchedule(sc)
      \/ sc' = sc /\ st' = st
  <2>1. \/ ThenSchedule(sc)
        \/ ThenSchedule([sc EXCEPT !.flow = added(sc.flow, frame.n),
                                   !.connInc = sc.connInc + frame.n])
        \/ sc' = sc /\ st' = st
    BY Zenon DEF processWindowUpdate
  <2> QED BY <1>3, <1>5, <2>1
<1>8. CASE sc' = sc /\ st' = st
  <2>1. Quiet
    BY <1>8, SameSumsSelf, SameStreamsSelf DEF Quiet
  <2> QED BY <1>1, <1>8, <2>1, ParkedDozes, SameDutiesSelf DEF WakeStep
<1> QED BY <1>1, <1>6, <1>7, <1>8, HandlerWakes DEF WakeStep

LEMMA processDataDozes == ASSUME Typed, processData PROVE Dozes
<1>1. Parked /\ q' = q
  BY DEF processData, Handled, Receive
<1>2. \E a : sc' = sc \/ sc' = [sc EXCEPT !.inflow = a]
  BY DEF processData, DiscardData, AcceptData, RefuseData
<1>3. SameDuties(sc', sc)
  BY <1>2 DEF Typed, Sessions, SameDuties
<1> QED BY <1>1, <1>3, processDataQuiet, ParkedDozes

(* A stream that is created has nothing queued.                            *)
LEMMA CreatedDozes ==
    ASSUME Typed, NEW id \in Ids, id > MaxStreamID(id), NEW r,
           st' = [st EXCEPT ![id] = r],
           sc' = Counted(SetMaxStreamID(sc, id), id),
           q' = q, Parked
    PROVE  Dozes
<1>1. sc \in Sessions /\ st \in [Ids -> StreamObjects]
  BY DEF Typed
<1>2. id \notin Known
  <2>1. id \in Nat /\ MaxStreamID(id) \in Nat
    BY <1>1, MaxStreamIDNat DEF Ids, MaxStreamID
  <2> QED BY <2>1 DEF Typed, StreamsOK
<1>3. \A i \in Known : st'[i].flow = st[i].flow
  BY <1>1, <1>2 DEF Known
<1>4. /\ SameDuties(sc', sc) /\ sc'.maxFrameSize = sc.maxFrameSize /\ sc'.flow = sc.flow
  BY <1>1 DEF Counted, SetMaxStreamID, SameDuties, Sessions
<1> QED BY <1>3, <1>4, ReadySame, ReadyDozes DEF Parked

LEMMA processHeadersDozes == ASSUME Typed, processHeaders PROVE Dozes
<1>1. Parked /\ q' = q /\ sc \in Sessions
  BY DEF processHeaders, Handled, Receive, Typed
<1>2. PICK id \in Ids : id = frame.id
  BY FrameIdTyped DEF processHeaders, Handled
<1>3. CASE Quiet
  <2>1. \/ sc' = sc \/ sc' = SetMaxStreamID(sc, id) \/ sc' = Counted(SetMaxStreamID(sc, id), id)
    BY <1>2 DEF processHeaders, HeadersOnStream, HeadersOpenStream
  <2>2. SameDuties(sc', sc)
    BY <1>1, <2>1 DEF Counted, SetMaxStreamID, SameDuties, Sessions
  <2> QED BY <1>1, <1>3, <2>2, ParkedDozes
<1>4. CASE HeadersOpenStream /\ (Local(id) \/ id <= MaxStreamID(id))
  <2>1. sc' = sc /\ st' = st
    BY <1>2, <1>4 DEF HeadersOpenStream
  <2> QED BY <1>3, <2>1, SameSumsSelf, SameStreamsSelf DEF Quiet
<1>5. CASE HeadersOpenStream /\ ~(Local(id) \/ id <= MaxStreamID(id)) /\ ~HasHandler
  <2>1. sc' = SetMaxStreamID(sc, id) /\ st' = st
    BY <1>2, <1>5 DEF HeadersOpenStream
  <2>2. /\ SameDuties(sc', sc) /\ sc'.maxFrameSize = sc.maxFrameSize /\ sc'.flow = sc.flow
    BY <1>1, <2>1 DEF SetMaxStreamID, SameDuties, Sessions
  <2> QED BY <1>1, <2>1, <2>2, ReadySame, ReadyDozes DEF Parked
<1>6. CASE HeadersOpenStream /\ ~(Local(id) \/ id <= MaxStreamID(id)) /\ HasHandler
  <2>1. PICK r : r = NewStream(IF frame.end THEN "halfClosedRemote" ELSE "open", frame.x # "selfDep")
    OBVIOUS
  <2>2. sc' = Counted(SetMaxStreamID(sc, id), id) /\ st' = [st EXCEPT ![id] = r]
    BY <1>2, <1>6, <2>1 DEF HeadersOpenStream
  <2>3. id > MaxStreamID(id)
    <3>1. id \in Nat /\ MaxStreamID(id) \in Nat
      BY MaxStreamIDNat DEF Ids, MaxStreamID, Typed
    <3> QED BY <1>6, <3>1
  <2> QED BY <1>1, <2>2, <2>3, CreatedDozes
<1> QED BY <1>3, <1>4, <1>5, <1>6, processHeadersQuiet

LEMMA endStreamDozes == ASSUME Typed, endStream PROVE Dozes
<1>1. st \in [Ids -> StreamObjects] /\ Running("endStream") /\ sc' = sc /\ q' = q
  BY DEF Typed, endStream
<1>2. PICK a, b : st' = [st EXCEPT ![Top.id] = [@ EXCEPT !.bodyErr = TRUE, !.stale = a, !.state = b]]
  BY DEF endStream
<1>3. \A id \in Known : st'[id].flow = st[id].flow
  BY <1>1, <1>2 DEF StreamObjects, Known
<1> QED BY <1>1, <1>3, ReadySame, ReadyDozes, RunningNotWaker, SameDutiesSelf DEF Wakers, Looks

LEMMA ReadWakes == ASSUME Typed, Discipline, ReadStep PROVE WakeStep
<1>1. sc \in Sessions
  BY DEF Typed
<1>2. CASE readMore
  <2>1. Running("readMore") /\ q' = q /\ sc' = sc
    BY <1>2 DEF readMore
  <2>2. Dozes
    BY <1>2, <2>1, FramesQuiet, CallDozes DEF Wakers, Looks
  <2> QED BY <2>2 DEF WakeStep
<1>3. CASE \/ (\E t : TooEarly(t)) \/ processPing \/ processFatal \/ processStreamError
           \/ processIgnored \/ processPriority \/ processGoAway \/ processEOF
           \/ processResetStream \/ processSettingsAck \/ receiveSettings
  <2>1. Parked /\ q' = q
    BY <1>3 DEF TooEarly, processPing, processFatal, processStreamError, processIgnored,
                processPriority, processGoAway, processEOF, processResetStream, Answer,
                processSettingsAck, receiveSettings, Handled, Receive
  <2>2. \/ sc' = sc \/ sc' = [sc EXCEPT !.sawFirstSettings = TRUE]
        \/ sc' = [sc EXCEPT !.sawFirstSettings = TRUE, !.unackedSettings = @ - 1]
    BY <1>3 DEF TooEarly, processPing, processFatal, processStreamError, processIgnored,
                processPriority, processGoAway, processEOF, processResetStream, Answer,
                processSettingsAck, receiveSettings
  <2>3. SameDuties(sc', sc)
    BY <1>1, <2>2 DEF SameDuties, Sessions
  <2>4. Dozes
    BY <1>3, <2>1, <2>3, FramesQuiet, ParkedDozes
  <2> QED BY <2>4 DEF WakeStep
<1> QED BY <1>2, <1>3, SettingsWake, processWindowUpdateWakes, processDataDozes, processHeadersDozes,
           endStreamDozes DEF ReadStep, WakeStep

LEMMA ServeWakes == ASSUME Typed, ServeStep \/ onShutdownTimer PROVE WakeStep
<1>1. sc \in Sessions
  BY DEF Typed
<1>2. CASE createStream
  <2>1. Parked /\ q' = q
    BY <1>2 DEF createStream, SelectMsg
  <2>2. CASE curLocalStreams + 1 > sc.peerMaxStreams \/ LastLocalID + 2 >= StreamIDLimit
    <3>1. sc' = sc /\ st' = st
      BY <1>2, <2>2 DEF createStream
    <3>2. Dozes
      BY <2>1, <3>1, SameSumsSelf, SameStreamsSelf, ParkedDozes, SameDutiesSelf DEF Quiet
    <3> QED BY <3>2 DEF WakeStep
  <2>3. CASE ~(curLocalStreams + 1 > sc.peerMaxStreams \/ LastLocalID + 2 >= StreamIDLimit)
    <3>1. LastLocalID \in Nat /\ StreamIDLimit \in Nat
      BY <1>1, MaxStreamIDNat, SessionAssumption DEF LastLocalID
    <3>2. LastLocalID + 2 < StreamIDLimit
      BY <2>3, <3>1
    <3>3. NextLocalID \in Ids /\ NextLocalID > MaxStreamID(NextLocalID)
      BY <1>1, <3>2, NextLocalIDFresh
    <3>4. PICK id \in Ids : id = NextLocalID
      BY <3>3
    <3>5. PICK r : r = NewStream(IF Script[Head(msgs).c].end THEN "halfClosedRemote" ELSE "open", FALSE)
      OBVIOUS
    <3>6. sc' = Counted(SetMaxStreamID(sc, id), id) /\ st' = [st EXCEPT ![id] = r]
      BY <1>2, <2>3, <3>4, <3>5 DEF createStream
    <3>7. Dozes
      BY <2>1, <3>3, <3>4, <3>6, CreatedDozes
    <3> QED BY <3>7 DEF WakeStep
  <2> QED BY <2>2, <2>3
<1>3. CASE exit
  BY <1>3 DEF exit, WakeStep, Woken, Typed, Lives
<1>4. CASE /\ (ServeStep \/ onShutdownTimer) /\ ~createStream /\ ~exit
  <2>1. /\ \/ pend' = pend \/ pend = <<>> \/ Top.op \notin Wakers
        /\ q' = q
    BY <1>4 DEF ServeStep, handshake, startReader, SelectWant, SelectWrote, SelectShutdown,
                SelectTimer, SelectMsg, refuse, handOver, iter, closeAllStreamsOnConnClose,
                onShutdownTimer, Parked, Running, Wakers, Looks, Top
  <2>2. \/ sc' = sc \/ sc' = [sc EXCEPT !.unackedSettings = @ + 1]
        \/ sc' = [sc EXCEPT !.shutdownTimer = "armed"] \/ sc' = [sc EXCEPT !.shutdownTimer = "fired"]
    BY <1>4 DEF ServeStep, handshake, startReader, SelectWant, SelectWrote, SelectShutdown,
                SelectTimer, refuse, handOver, iter, closeAllStreamsOnConnClose, onShutdownTimer
  <2>3. SameDuties(sc', sc)
    BY <1>1, <2>2 DEF SameDuties, Sessions
  <2>4. Dozes
    BY <1>4, <2>1, <2>3, ServeQuiet, QuietDozes DEF ServeStep
  <2> QED BY <2>4 DEF WakeStep
<1> QED BY <1>2, <1>3, <1>4

LEMMA WakeSteps == ASSUME Typed, Discipline, [Next]_vars PROVE WakeStep
<1>1. CASE \/ (\E f \in PeerFrames : ReadFrame(f)) \/ ReadError \/ ReaderStops
           \/ AppStep \/ Over \/ UNCHANGED vars
  <2>1. pend' = pend /\ q' = q /\ sc' = sc
    BY <1>1, AppFrame DEF ReadFrame, ReadError, ReaderStops, Over, vars
  <2>2. Dozes
    BY <1>1, <2>1, OthersQuiet, QuietDozes, SameDutiesSelf
  <2> QED BY <2>2 DEF WakeStep
<1> QED BY <1>1, WriteWakes, ReadWakes, ServeWakes DEF Next

-------------------------------------------------------------------------------
(* What was once true of the session's life stays true.                    *)
LEMMA LifeSteps ==
    ASSUME Typed, [Next]_vars
    PROVE  /\ life.doneServing => life'.doneServing
           /\ life.fatal => life'.fatal
           /\ life'.fatal => life.fatal \/ sc'.inGoAway
<1>1. life \in Lives /\ sc \in Sessions
  BY DEF Typed
<1>2. CASE \E op, code : goAway(op, code)
  <2>1. life' = [life EXCEPT !.fatal = TRUE] \/ life' = [life EXCEPT !.fatal = @ \/ FALSE]
    BY <1>2 DEF goAway
  <2>2. sc'.inGoAway
    <3>1. CASE sc.inGoAway
      BY <1>2, <3>1 DEF goAway
    <3>2. CASE ~sc.inGoAway
      <4>1. PICK code, rest : ScheduleFrameWrite([sc EXCEPT !.inGoAway = TRUE,
                   !.needToSendGoAway = TRUE, !.goAwayCode = code], rest)
        BY <1>2, <3>2 DEF goAway
      <4> QED BY <1>1, <4>1 DEF ScheduleFrameWrite, Sessions
    <3> QED BY <3>1, <3>2
  <2> QED BY <1>1, <2>1, <2>2 DEF Lives
<1>3. CASE AppStep
  <2>1. \/ life' = life \/ life' = [life EXCEPT !.connClosed = TRUE]
        \/ life' = [life EXCEPT !.once = TRUE]
    BY <1>3 DEF AppStep, OpenStream, OpenStreamRefused, ReplyReady, Send, WriteReturns,
       WaitForReplyReturns, Close, CloseTimeout, Disconnected, WriteData, Reply, ResetWithError,
       WaitForReply, Read
  <2> QED BY <1>1, <2>1 DEF Lives
<1>4. CASE exit \/ closeAllStreamsOnConnClose
  BY <1>1, <1>4 DEF exit, closeAllStreamsOnConnClose, Lives
<1>5. CASE WriteStep /\ ~\E op, code : goAway(op, code)
  <2>1. life' = life
    BY <1>5 DEF WriteStep, writeFrame, sendWindowUpdate, LoopGoAway, LoopSettingsAck, LoopFlush,
       LoopExit, LoopPop, markReset, wroteFrame, reply, closeStream, closeRest, Panic
  <2> QED BY <2>1
<1>6. CASE ReadStep
  <2>1. life' = life
    BY <1>6 DEF ReadStep, readMore, TooEarly, processPing, processFatal,
       processStreamError, processIgnored, processPriority, processGoAway, processEOF,
       processResetStream, Answer, processWindowUpdate, processSettingsAck, receiveSettings,
       SettingsDone, processSetting, processSettingInitialWindowSize, processData, endStream,
       processHeaders
  <2> QED BY <2>1
<1>7. CASE ServeStep /\ ~exit /\ ~closeAllStreamsOnConnClose
  <2>1. life' = life
    BY <1>7 DEF ServeStep, handshake, startReader, SelectWant, SelectWrote, SelectShutdown,
       SelectTimer, createStream, refuse, handOver, iter
  <2> QED BY <2>1
<1>8. CASE \/ writeFrameAsync \/ onShutdownTimer \/ (\E f \in PeerFrames : ReadFrame(f))
           \/ ReadError \/ ReaderStops \/ Over \/ UNCHANGED vars
  BY <1>8 DEF writeFrameAsync, onShutdownTimer, ReadFrame, ReadError, ReaderStops, Over, vars
<1> QED BY <1>2, <1>3, <1>4, <1>5, <1>6, <1>7, <1>8 DEF Next

(* An error that was dropped stays dropped.                                *)
LEMMA HeededBefore ==
    ASSUME Typed, Discipline, [Next]_vars, life.fatal => sc.inGoAway
    PROVE  /\ Heeded' => Heeded
           /\ (life.fatal => sc.inGoAway)'
<1>1. ShutdownStep
  BY ShutdownSteps
<1> QED BY <1>1, LifeSteps DEF Heeded, ShutdownStep, SameShutdown, GoesAway, TimerRuns

LEMMA AwakeKept == ASSUME Typed, Discipline, Awake, [Next]_vars PROVE Awake'
<1>1. StackStep /\ WakeStep
  BY StackSteps, WakeSteps
<1>2. (Heeded' => Heeded) /\ (life.fatal => sc.inGoAway)'
  BY HeededBefore DEF Awake
<1>3. ASSUME Free' PROVE Alert'
  <2>1. panic = "none" /\ Heeded /\ ~life.doneServing
    <3>1. panic = "none"
      BY <1>3, DeadStops DEF Free, vars
    <3> QED BY <1>2, <1>3, <3>1, LifeSteps DEF Free
  <2>2. ASSUME SameDuties(sc', sc) PROVE Alert
    BY <1>3, <2>1, <2>2 DEF Awake, Free, SameDuties
  <2>3. ASSUME NEW O, Occurs(pend, O), pend' = pend \/ pend = <<>> \/ Top.op \notin O
        PROVE  Occurs(pend', O)
    <3>1. pend # <<>>
      BY <2>3 DEF Occurs
    <3> QED BY <1>1, <2>3, <3>1, OccursKept
  <2>4. CASE Woken
    <3>1. Occurs(pend', Looks) /\ Looks \subseteq Wakers
      BY <1>3, <2>4 DEF Woken, Free, Wakers
    <3>2. Occurs(pend', Wakers)
      BY <3>1, OccursIn
    <3> QED BY <3>1, <3>2 DEF Alert
  <2>5. CASE Dozes
    <3>1. Alert /\ (Urgent \/ sc.needsFrameFlush <=> (Urgent \/ sc.needsFrameFlush)')
      BY <2>2, <2>5 DEF Dozes, SameDuties, Urgent
    <3>2. Occurs(pend, Looks) => Occurs(pend', Looks)
      BY <2>3, <2>5 DEF Dozes, Wakers
    <3>3. Occurs(pend, Wakers) => Occurs(pend', Wakers)
      BY <2>3, <2>5 DEF Dozes
    <3> QED BY <2>5, <3>1, <3>2, <3>3 DEF Alert, Dozes
  <2>6. CASE LoopExit
    <3>1. sc' = [sc EXCEPT !.inFrameScheduleLoop = FALSE] /\ st' = st /\ q' = q
      BY <2>6 DEF LoopExit
    <3>2. SameDuties(sc', sc) /\ sc'.flow = sc.flow /\ sc'.maxFrameSize = sc.maxFrameSize
      BY <3>1 DEF Typed, Sessions, SameDuties
    <3>3. ReadyQueues' = ReadyQueues
      BY <3>1, <3>2, ReadySame
    <3> QED BY <2>6, <3>2, <3>3 DEF LoopExit, Alert, SameDuties, Urgent, NothingToPop, MayPop
  <2>7. CASE Configures
    <3>1. Alert /\ (Urgent \/ sc.needsFrameFlush <=> (Urgent \/ sc.needsFrameFlush)')
      BY <2>2, <2>7 DEF Configures, SameDuties, Urgent
    <3>2. Occurs(pend, Looks) => Occurs(pend', Looks)
      BY <2>3, <2>7 DEF Configures, Looks
    <3>3. Occurs(pend', Wakers)
      <4>1. {"processSettings", "goAwayErr"} \subseteq Wakers
        BY DEF Wakers
      <4> QED BY <2>7, <4>1, OccursIn DEF Configures
    <3> QED BY <3>1, <3>2, <3>3 DEF Alert
  <2>8. CASE Swallows
    <3>1. sc' = sc /\ NothingToPop'
      BY <1>3, <2>8 DEF Swallows, Free, Heeded, NothingToPop, MayPop
    <3>2. Alert
      BY <2>2, <3>1, SameDutiesSelf
    <3>3. Occurs(pend, Looks) => Occurs(pend', Looks)
      BY <2>3, <2>8 DEF Swallows, Looks
    <3> QED BY <3>1, <3>2, <3>3 DEF Alert, Urgent
  <2> QED BY <1>1, <2>4, <2>5, <2>6, <2>7, <2>8 DEF WakeStep
<1> QED BY <1>2, <1>3 DEF Awake

LEMMA InitAwake == ASSUME Init PROVE Awake
<1>1. ReadyQueues = {} /\ sc = NewSession /\ ~life.fatal
  BY IdsFacts DEF Init, ReadyQueues
<1> QED BY <1>1 DEF Awake, Alert, Urgent, NewSession, NothingToPop

(* serve never parks with a frame that it could start, unless a connection *)
(* error was dropped by goAway: windows, settings, resets, closed streams  *)
(* and ends of writes all lead to a look at the queues, in every nesting   *)
(* of scheduleFrameWrite.                                                  *)
THEOREM NeverSleepsOnWork == Spec => [](Heeded => NoLostWakeup)
<1>1. Init => Awake
  BY InitAwake
<1>2. Typed /\ Discipline /\ Awake /\ [Next]_vars => Awake'
  BY AwakeKept
<1>3. Awake => (Heeded => NoLostWakeup)
  <2> SUFFICES ASSUME Awake, Heeded, panic = "none", Parked, ~sc.writingFrame
               PROVE  ~Urgent /\ NothingToPop /\ ~sc.needsFrameFlush
    BY DEF NoLostWakeup
  <2>1. ~Occurs(pend, Looks) /\ ~Occurs(pend, Wakers)
    BY DEF Occurs, Parked
  <2> QED BY <2>1 DEF Awake, Free, Alert, Parked
<1> QED BY <1>1, <1>2, <1>3, TypedHolds, DisciplineHolds, PTL DEF Spec

-------------------------------------------------------------------------------
(* What the handlers of frames and the API put on the stack stays apart:   *)
(* the calls that other calls add only reset, close, account and write.    *)
Bodies == {"headers", "data"}

PlainCall(p) ==
    /\ p.op # "endStream"
    /\ p.op = "processSettings" => Top.op = "processSettings"
    /\ p.op = "writeFrame" => p.wr.kind \notin Bodies
    /\ p.op = "wroteFrame" => p.wr.kind \notin Bodies \/ \E i \in Ids \union {0} : LoopPop(i)

Plain(s) == \A k \in 1 .. Len(s) : PlainCall(s[k])

CallStep ==
    \/ pend = <<>> \/ pend' = pend
    \/ Top.op \in {"exit", "handshake"} /\ Plain(pend')
    \/ \E A : \E c \in Seq(A) :
         /\ Plain(c)
         /\ \/ pend' = c \o pend
            \/ pend' = c \o Tail(pend) /\ (Top.op = "markReset" => markReset)

LEMMA PlainOne == ASSUME NEW p, PlainCall(p) PROVE Plain(<<p>>) /\ <<p>> \in Seq({p})
BY DEF Plain

LEMMA PlainTwo ==
    ASSUME NEW p, NEW r, PlainCall(p), PlainCall(r)
    PROVE  Plain(<<p, r>>) /\ <<p, r>> \in Seq({p, r})
<1>1. PICK s : s = <<p, r>>
  OBVIOUS
<1>2. Len(s) = 2 /\ s[1] = p /\ s[2] = r
  BY <1>1
<1>3. Plain(s)
  BY <1>2 DEF Plain
<1> QED BY <1>1, <1>3

(* The calls that are put on the stack, but for frames of the API.         *)
LEMMA PlainCalls ==
    \A op, id, n, wr : /\ op \notin {"endStream", "processSettings", "writeFrame", "wroteFrame"} =>
                            PlainCall(Op(op, id, n)) /\ PlainCall(OpOn(op, wr))
                       /\ wr.kind \notin Bodies => /\ PlainCall(OpOn("writeFrame", wr))
                                                   /\ PlainCall(OpOn("wroteFrame", wr))
<1> TAKE op, id, n, wr
<1>1. /\ Op(op, id, n).op = op /\ OpOn(op, wr).op = op
      /\ OpOn("writeFrame", wr).op = "writeFrame" /\ OpOn("writeFrame", wr).wr = wr
      /\ OpOn("wroteFrame", wr).op = "wroteFrame" /\ OpOn("wroteFrame", wr).wr = wr
  BY DEF Op, OpOn
<1> QED BY <1>1 DEF PlainCall

LEMMA CallMade ==
    ASSUME Typed, pend # <<>>, pend' = Tail(pend), Top.op = "markReset" => markReset
    PROVE  CallStep
<1>1. pend \in Seq(Stackable(Known, Closed))
  BY DEF Typed
<1>2. PICK c : c = <<>>
  OBVIOUS
<1>3. c \in Seq({}) /\ Plain(c) /\ pend' = c \o Tail(pend)
  BY <1>1, <1>2 DEF Plain
<1> QED BY <1>3 DEF CallStep

LEMMA CallReplaced ==
    ASSUME NEW A, NEW c \in Seq(A), Plain(c), pend' = c \o Tail(pend), Top.op # "markReset"
    PROVE  CallStep
BY DEF CallStep

LEMMA ScheduleCalls ==
    ASSUME Typed, NEW op, Running(op), op # "markReset", NEW s, ScheduleFrameWrite(s, Tail(pend))
    PROVE  CallStep
<1>1. pend # <<>> /\ Top.op = op
  BY RunningTop
<1>2. PICK p : p = Op("loop", 0, 0)
  OBVIOUS
<1>3. Plain(<<p>>) /\ <<p>> \in Seq({p})
  BY <1>2, PlainOne, PlainCalls
<1>4. pend' = Tail(pend) \/ pend' = <<p>> \o Tail(pend)
  BY <1>2 DEF ScheduleFrameWrite
<1> QED BY <1>1, <1>3, <1>4, CallMade, CallReplaced

LEMMA StartCalls ==
    ASSUME Typed, Running("loop"), NEW s, NEW wr, startFrameWrite(s, wr),
           wr.kind \notin Bodies \/ \E i \in Ids \union {0} : LoopPop(i)
    PROVE  CallStep
<1>1. PICK p : p = OpOn("wroteFrame", wr)
  OBVIOUS
<1>2. Plain(<<p>>) /\ <<p>> \in Seq({p})
  <2>1. p.op = "wroteFrame" /\ p.wr = wr
    BY <1>1, OpFields
  <2>2. PlainCall(p)
    BY <2>1 DEF PlainCall
  <2> QED BY <2>2, PlainOne
<1>3. pend' = pend \/ pend' = <<p>> \o pend \/ pend' = Tail(pend)
  BY <1>1 DEF startFrameWrite
<1>4. pend # <<>> /\ Top.op = "loop"
  BY RunningTop
<1>5. CASE pend' = <<p>> \o pend
  BY <1>2, <1>5 DEF CallStep
<1> QED BY <1>3, <1>4, <1>5, CallMade DEF CallStep

LEMMA PlainReset ==
    \A id : /\ Plain(resetStream(id))
            /\ \E A : resetStream(id) \in Seq(A)
<1> TAKE id
<1>1. PICK wr : wr = WR("rst", id, 0, FALSE, Nobody)
  OBVIOUS
<1>2. PICK p, r : p = OpOn("writeFrame", wr) /\ r = Op("markReset", id, 0)
  OBVIOUS
<1>3. wr.kind \notin Bodies
  BY <1>1 DEF WR, Bodies
<1>4. PlainCall(p) /\ PlainCall(r)
  BY <1>2, <1>3, PlainCalls
<1>5. Plain(<<p, r>>) /\ <<p, r>> \in Seq({p, r})
  BY <1>4, PlainTwo
<1> QED BY <1>1, <1>2, <1>5 DEF resetStream

LEMMA PlainJoined ==
    ASSUME NEW A, NEW a \in Seq(A), NEW B, NEW b \in Seq(B), Plain(a), Plain(b)
    PROVE  Plain(a \o b)
<1>1. PICK t : t = a \o b
  OBVIOUS
<1>2. a \in Seq(A \union B) /\ b \in Seq(A \union B)
  OBVIOUS
<1>3. \A k \in 1 .. Len(t) : \/ k \in 1 .. Len(a) /\ t[k] = a[k]
                             \/ k - Len(a) \in 1 .. Len(b) /\ t[k] = b[k - Len(a)]
  BY <1>1, <1>2
<1> QED BY <1>1, <1>3 DEF Plain

LEMMA wroteFrameCalls == ASSUME Typed, wroteFrame PROVE CallStep
<1>1. PICK wr, r : wr = Top.wr /\ r = OpOn("reply", wr)
  OBVIOUS
<1>2. Running("wroteFrame") /\ (pend' = pend \/ pend' = WroteCalls(wr) \o <<r>> \o Tail(pend))
  BY <1>1 DEF wroteFrame, Panic
<1>3. pend # <<>> /\ Top.op = "wroteFrame"
  BY <1>2, RunningTop
<1>4. PICK p : p = Op("closeStream", wr.id, 0)
  OBVIOUS
<1>5. Plain(<<p>>) /\ <<p>> \in Seq({p}) /\ Plain(<<r>>) /\ <<r>> \in Seq({r})
  BY <1>1, <1>4, PlainOne, PlainCalls
<1>6. Plain(<<>>) /\ <<>> \in Seq({})
  BY DEF Plain
<1>7. WroteCalls(wr) \in {resetStream(wr.id), <<p>>, <<>>}
  BY <1>4 DEF WroteCalls
<1>8. PICK A, a : a = WroteCalls(wr) /\ a \in Seq(A) /\ Plain(a)
  BY <1>5, <1>6, <1>7, PlainReset
<1>9. Plain(a \o <<r>>) /\ a \o <<r>> \in Seq(A \union {r})
  <2>1. Plain(a \o <<r>>)
    BY <1>5, <1>8, PlainJoined
  <2> QED BY <1>8, <2>1
<1>10. pend' = pend \/ pend' = (a \o <<r>>) \o Tail(pend)
  <2>1. Tail(pend) \in Seq(Stackable(Known, Closed))
    BY <1>3, TopTyped
  <2>2. PICK s : s = Tail(pend)
    OBVIOUS
  <2> QED BY <1>2, <1>8, <2>1, <2>2
<1> QED BY <1>3, <1>9, <1>10, CallReplaced DEF CallStep

LEMMA WriteCalls == ASSUME Typed, WriteStep \/ writeFrameAsync PROVE CallStep
<1>1. CASE writeFrame \/ reply
  BY <1>1, ScheduleCalls DEF writeFrame, reply
<1>2. CASE sendWindowUpdate
  <2>1. Running("sendWindowUpdate")
    BY <1>2 DEF sendWindowUpdate
  <2>2. pend' = pend \/ pend' = Tail(pend) \/ \E s : ScheduleFrameWrite(s, Tail(pend))
    BY <1>2, Zenon DEF sendWindowUpdate
  <2>3. pend # <<>> /\ Top.op = "sendWindowUpdate"
    BY <2>1, RunningTop
  <2>4. CASE pend' = pend
    BY <2>4 DEF CallStep
  <2>5. CASE pend' = Tail(pend)
    BY <2>3, <2>5, CallMade
  <2>6. ASSUME NEW s, ScheduleFrameWrite(s, Tail(pend)) PROVE CallStep
    BY <2>1, <2>6, ScheduleCalls
  <2> QED BY <2>2, <2>4, <2>5, <2>6
<1>3. CASE LoopGoAway \/ LoopSettingsAck \/ LoopFlush
  <2>1. Running("loop") /\ \E s, wr : startFrameWrite(s, wr) /\ wr.kind \notin Bodies
    BY <1>3 DEF LoopGoAway, LoopSettingsAck, LoopFlush, Control, WR, Bodies
  <2> QED BY <2>1, StartCalls
<1>4. ASSUME NEW i \in Ids \union {0}, LoopPop(i) PROVE CallStep
  <2>1. Running("loop") /\ \E s, wr : startFrameWrite(s, wr)
    BY <1>4, Zenon DEF LoopPop
  <2> QED BY <1>4, <2>1, StartCalls
<1>5. CASE LoopExit \/ markReset \/ closeRest
  <2>1. pend # <<>> /\ pend' = Tail(pend) /\ (Top.op = "markReset" => markReset)
    BY <1>5, RunningTop DEF LoopExit, markReset, closeRest
  <2> QED BY <2>1, CallMade
<1>6. CASE closeStream
  <2>1. PICK p, r : /\ p = Op("sendWindowUpdate", 0, st[Top.id].body)
                    /\ r = Op("closeRest", Top.id, 0)
    OBVIOUS
  <2>2. Running("closeStream") /\ (pend' = pend \/ pend' = <<p, r>> \o Tail(pend))
    BY <1>6, <2>1 DEF closeStream, Panic
  <2>3. Plain(<<p, r>>) /\ <<p, r>> \in Seq({p, r})
    BY <2>1, PlainTwo, PlainCalls
  <2>4. Top.op = "closeStream"
    BY <2>2, RunningTop
  <2> QED BY <2>2, <2>3, <2>4, CallReplaced DEF CallStep
<1>7. CASE goAway("goAwayNo", "No") \/ goAway("goAwayErr", "Err")
  <2>1. ASSUME NEW op, NEW code, op # "markReset", goAway(op, code) PROVE CallStep
    <3>1. Running(op) /\ (pend' = Tail(pend) \/ \E s : ScheduleFrameWrite(s, Tail(pend)))
      BY <2>1, Zenon DEF goAway
    <3> QED BY <2>1, <3>1, ScheduleCalls, CallMade, RunningTop
  <2> QED BY <1>7, <2>1
<1>8. CASE writeFrameAsync
  BY <1>8 DEF writeFrameAsync, CallStep
<1> QED BY <1>1, <1>2, <1>3, <1>4, <1>5, <1>6, <1>7, <1>8, wroteFrameCalls DEF WriteStep

LEMMA ReadCalls == ASSUME Typed, ReadStep PROVE CallStep
<1>1. CASE readMore \/ endStream
  <2>1. pend # <<>> /\ pend' = Tail(pend) /\ Top.op # "markReset"
    BY <1>1, RunningTop DEF readMore, endStream
  <2> QED BY <2>1, CallMade
<1>2. CASE SettingsDone
  BY <1>2, ScheduleCalls DEF SettingsDone
<1>3. CASE processSetting \/ processSettingInitialWindowSize
  <2>1. PICK p, r : p = [Top EXCEPT !.set = Tail(@)] /\ r = Op("goAwayErr", 0, 0)
    OBVIOUS
  <2>2. Running("processSettings") /\ (pend' = <<p>> \o Tail(pend) \/ pend' = <<r>> \o Tail(pend))
    BY <1>3, <2>1 DEF processSetting, processSettingInitialWindowSize, NextSetting, ConnError
  <2>3. pend # <<>> /\ Top.op = "processSettings" /\ Top \in Pending
    BY <2>2, RunningTop, TopTyped
  <2>4. p.op = "processSettings"
    BY <2>1, <2>3 DEF Pending
  <2>5. PlainCall(p) /\ PlainCall(r)
    <3>1. PlainCall(r)
      BY <2>1, PlainCalls
    <3> QED BY <2>3, <2>4, <3>1 DEF PlainCall
  <2>6. /\ Plain(<<p>>) /\ <<p>> \in Seq({p})
        /\ Plain(<<r>>) /\ <<r>> \in Seq({r})
    BY <2>5, PlainOne
  <2> QED BY <2>2, <2>3, <2>6, CallReplaced
<1>4. pend = <<>> \/ readMore \/ endStream \/ SettingsDone \/ processSetting
        \/ processSettingInitialWindowSize
  BY DEF ReadStep, TooEarly, processPing, processFatal, processStreamError, processIgnored,
         processPriority, processGoAway, processEOF, processResetStream, processWindowUpdate,
         processSettingsAck, receiveSettings, processData, processHeaders, Handled, Receive, Parked
<1> QED BY <1>1, <1>2, <1>3, <1>4 DEF CallStep

LEMMA ServeCalls == ASSUME Typed, ServeStep PROVE CallStep
<1>1. CASE startReader \/ refuse \/ handOver \/ iter
  <2>1. /\ pend' = Tail(pend)
        /\ Running("startReader") \/ Running("refuse") \/ Running("handOver") \/ Running("iter")
    BY <1>1 DEF startReader, refuse, handOver, iter
  <2> QED BY <2>1, CallMade, RunningTop
<1>2. CASE closeAllStreamsOnConnClose
  <2>1. /\ Running("closeAll")
        /\ \/ pend' = Tail(pend) \/ \E id : pend' = <<Op("closeStream", id, 0)>> \o pend
    BY <1>2 DEF closeAllStreamsOnConnClose
  <2>2. ASSUME NEW id, pend' = <<Op("closeStream", id, 0)>> \o pend PROVE CallStep
    <3>1. PICK p : p = Op("closeStream", id, 0)
      OBVIOUS
    <3>2. Plain(<<p>>) /\ <<p>> \in Seq({p})
      BY <3>1, PlainOne, PlainCalls
    <3> QED BY <2>2, <3>1, <3>2 DEF CallStep
  <2>3. pend # <<>> /\ Top.op = "closeAll"
    BY <2>1, RunningTop
  <2>4. pend' = Tail(pend) => CallStep
    BY <2>3, CallMade
  <2> QED BY <2>1, <2>2, <2>4
<1>3. CASE exit
  <2>1. PICK p : p = Op("closeAll", 0, 0)
    OBVIOUS
  <2>2. Plain(<<p>>) /\ pend' = <<p>> /\ Top.op = "exit"
    BY <1>3, <2>1, PlainOne, PlainCalls, RunningTop DEF exit
  <2> QED BY <2>2 DEF CallStep
<1>4. CASE handshake
  <2>1. PICK a, b, c, e : /\ a = OpOn("writeFrame", Control("settings"))
                          /\ b = Op("sendWindowUpdate", 0, sc.inflow - DefaultWindow)
                          /\ c = Op("startReader", 0, 0) /\ e = Op("exit", 0, 0)
    OBVIOUS
  <2>2. PlainCall(a) /\ PlainCall(b) /\ PlainCall(c) /\ PlainCall(e)
    BY <2>1, PlainCalls DEF Control, WR, Bodies
  <2>3. /\ Top.op = "handshake"
        /\ pend' = <<e>> \/ pend' = <<a>> \o <<b>> \o <<c>> \/ pend' = <<a>> \o <<>> \o <<c>>
    BY <1>4, <2>1, RunningTop DEF handshake
  <2>4. /\ Plain(<<a>>) /\ <<a>> \in Seq({a}) /\ Plain(<<b>>) /\ <<b>> \in Seq({b})
        /\ Plain(<<c>>) /\ <<c>> \in Seq({c}) /\ Plain(<<e>>)
        /\ Plain(<<>>) /\ <<>> \in Seq({})
    BY <2>2, PlainOne DEF Plain
  <2>5. PICK s, t : s = <<a>> \o <<b>> /\ t = <<a>> \o <<>>
    OBVIOUS
  <2>6. Plain(s) /\ Plain(t) /\ s \in Seq({a, b}) /\ t \in Seq({a})
    <3>1. Plain(s) /\ Plain(t)
      BY <2>4, <2>5, PlainJoined
    <3>2. <<a>> \in Seq({a, b}) /\ <<b>> \in Seq({a, b})
      OBVIOUS
    <3>3. s \in Seq({a, b})
      BY <2>5, <3>2
    <3>4. t \in Seq({a})
      BY <2>4, <2>5
    <3> QED BY <3>1, <3>3, <3>4
  <2>7. Plain(s \o <<c>>) /\ Plain(t \o <<c>>)
    BY <2>4, <2>6, PlainJoined
  <2> QED BY <2>3, <2>4, <2>5, <2>7 DEF CallStep
<1>5. CASE SelectWant \/ SelectWrote \/ SelectShutdown \/ SelectTimer \/ createStream
  BY <1>5 DEF SelectWant, SelectWrote, SelectShutdown, SelectTimer, createStream, SelectMsg,
              Parked, CallStep
<1> QED BY <1>1, <1>2, <1>3, <1>4, <1>5 DEF ServeStep

LEMMA CallSteps == ASSUME Typed, Discipline, [Next]_vars PROVE CallStep
<1>1. CASE AppStep
  BY <1>1, AppFrame DEF CallStep
<1>2. CASE \/ (\E f \in PeerFrames : ReadFrame(f)) \/ ReadError \/ ReaderStops \/ onShutdownTimer
           \/ Over \/ UNCHANGED vars
  BY <1>2 DEF ReadFrame, ReadError, ReaderStops, onShutdownTimer, Over, vars, CallStep
<1> QED BY <1>1, <1>2, WriteCalls, ReadCalls, ServeCalls DEF Next

-------------------------------------------------------------------------------
(* The call op for the stream id is on the stack s.                        *)
Holds(s, op, id) == \E k \in 1 .. Len(s) : s[k].op = op /\ s[k].id = id

LEMMA HoldsTail ==
    ASSUME NEW S, NEW s \in Seq(S), s # <<>>, NEW op, NEW id, Holds(s, op, id),
           ~(Head(s).op = op /\ Head(s).id = id)
    PROVE  Holds(Tail(s), op, id)
<1>1. PICK k \in 1 .. Len(s) : s[k].op = op /\ s[k].id = id
  BY DEF Holds
<1>2. k # 1 /\ k - 1 \in 1 .. Len(Tail(s)) /\ Tail(s)[k - 1] = s[k]
  BY <1>1
<1> QED BY <1>1, <1>2 DEF Holds

LEMMA HoldsJoined ==
    ASSUME NEW S, NEW s \in Seq(S), NEW A, NEW c \in Seq(A), NEW op, NEW id
    PROVE  Holds(c \o s, op, id) <=> Holds(c, op, id) \/ Holds(s, op, id)
<1>1. PICK t : t = c \o s
  OBVIOUS
<1>2. /\ \A k \in 1 .. Len(t) : \/ k \in 1 .. Len(c) /\ t[k] = c[k]
                                \/ k - Len(c) \in 1 .. Len(s) /\ t[k] = s[k - Len(c)]
      /\ \A k \in 1 .. Len(c) : k \in 1 .. Len(t) /\ t[k] = c[k]
      /\ \A k \in 1 .. Len(s) : k + Len(c) \in 1 .. Len(t) /\ t[k + Len(c)] = s[k]
  <2>1. c \in Seq(A \union S) /\ s \in Seq(A \union S)
    OBVIOUS
  <2> QED BY <1>1, <2>1
<1>3. Holds(t, op, id) => Holds(c, op, id) \/ Holds(s, op, id)
  BY <1>2 DEF Holds
<1>4. Holds(c, op, id) \/ Holds(s, op, id) => Holds(t, op, id)
  <2>1. Holds(c, op, id) => Holds(t, op, id)
    BY <1>2 DEF Holds
  <2>2. ASSUME Holds(s, op, id) PROVE Holds(t, op, id)
    <3>1. PICK k \in 1 .. Len(s) : s[k].op = op /\ s[k].id = id
      BY <2>2 DEF Holds
    <3>2. PICK j : j = k + Len(c)
      OBVIOUS
    <3>3. j \in 1 .. Len(t) /\ t[j] = s[k]
      BY <1>2, <3>2
    <3> QED BY <3>1, <3>3 DEF Holds
  <2> QED BY <2>1, <2>2
<1> QED BY <1>1, <1>3, <1>4

(* A stream whose END_STREAM was written is being reset.                   *)
HalfClosed(id) ==
    panic = "none" /\ st[id].state = "halfClosedLocal" =>
        st[id].resetQueued \/ Holds(pend, "markReset", id)

LEMMA HalfClosedKept ==
    ASSUME Typed, Discipline, [Next]_vars, NEW id \in Ids, HalfClosed(id)
    PROVE  HalfClosed(id)'
<1> SUFFICES ASSUME panic' = "none", st'[id].state = "halfClosedLocal"
             PROVE  st'[id].resetQueued \/ Holds(pend', "markReset", id)
  BY DEF HalfClosed
<1>1. CallStep /\ (Steady \/ \E i \in Ids : Opened(i) \/ Ends(i))
  BY CallSteps, StreamSteps
<1>2. panic = "none"
  BY DeadStops DEF vars
<1>3. pend \in Seq(Stackable(Known, Closed))
  BY DEF Typed
<1>4. CASE st[id].state = "halfClosedLocal" /\ st[id].resetQueued
  <2>1. Told(id)
    BY <1>1, <1>4 DEF Steady, Opened, Ends, Change
  <2> QED BY <1>4, <2>1 DEF Told
<1>5. CASE st[id].state = "halfClosedLocal" /\ Holds(pend, "markReset", id)
  <2>1. pend # <<>>
    BY <1>3, <1>5 DEF Holds
  <2>2. CASE Top.op \in {"exit", "handshake"}
    <3>1. Tail(pend) = <<>>
      BY <2>1, <2>2 DEF Discipline, OnTop, Below, Tops
    <3>2. Holds(Tail(pend), "markReset", id)
      BY <1>3, <1>5, <2>1, <2>2, HoldsTail DEF Top
    <3> QED BY <3>1, <3>2 DEF Holds
  <2>3. ASSUME NEW A, NEW c \in Seq(A), pend' = c \o pend
        PROVE  Holds(pend', "markReset", id)
    BY <1>3, <1>5, <2>3, HoldsJoined
  <2>4. ASSUME NEW A, NEW c \in Seq(A), pend' = c \o Tail(pend), Top.op = "markReset" => markReset
        PROVE  st'[id].resetQueued \/ Holds(pend', "markReset", id)
    <3>1. CASE Top.op = "markReset" /\ Top.id = id
      <4>1. InMap(id) /\ markReset
        BY <1>5, <2>4, <3>1 DEF InMap, Live
      <4>2. st' = [st EXCEPT ![id] = [st[id] EXCEPT !.resetQueued = TRUE]]
        BY <3>1, <4>1 DEF markReset
      <4> QED BY <4>2 DEF Typed, StreamObjects
    <3>2. CASE ~(Top.op = "markReset" /\ Top.id = id)
      <4>1. Holds(Tail(pend), "markReset", id)
        BY <1>3, <1>5, <2>1, <3>2, HoldsTail DEF Top
      <4>2. Tail(pend) \in Seq(Stackable(Known, Closed))
        BY <2>1, TopTyped
      <4> QED BY <2>4, <4>1, <4>2, HoldsJoined
    <3> QED BY <3>1, <3>2
  <2>5. CASE pend' = pend
    BY <1>5, <2>5
  <2> QED BY <1>1, <2>1, <2>2, <2>3, <2>4, <2>5 DEF CallStep
<1>6. CASE st[id].state # "halfClosedLocal"
  <2>1. HalfDone(id)
    BY <1>1, <1>6 DEF Steady, Opened, Ends, Change
  <2>2. /\ wroteFrame /\ writeEndsStream(Top.wr) /\ Top.wr.id = id /\ st[id].state = "open"
    BY <2>1 DEF HalfDone
  <2>3. pend # <<>> /\ Top.op = "wroteFrame"
    BY <2>2, RunningTop DEF wroteFrame
  <2>4. sc.writingFrame
    BY <2>3 DEF Discipline, OnTop
  <2>5. PICK r : r = OpOn("reply", Top.wr)
    OBVIOUS
  <2>6. WroteCalls(Top.wr) = resetStream(id)
    <3>1. PICK wr : wr = Top.wr
      OBVIOUS
    <3>2. writeEndsStream(wr) /\ wr.id = id /\ wr.kind # "rst"
      BY <2>2, <3>1 DEF writeEndsStream
    <3>3. WroteCalls(wr) = resetStream(wr.id)
      BY <2>2, <3>2 DEF WroteCalls
    <3> QED BY <3>1, <3>2, <3>3
  <2>7. pend' = resetStream(id) \o <<r>> \o Tail(pend)
    <3>1. pend' = WroteCalls(Top.wr) \o <<OpOn("reply", Top.wr)>> \o Tail(pend)
      BY <2>2, <2>4, Zenon DEF wroteFrame
    <3> QED BY <2>5, <2>6, <3>1
  <2>8. PICK p, m : p = OpOn("writeFrame", WR("rst", id, 0, FALSE, Nobody)) /\ m = Op("markReset", id, 0)
    OBVIOUS
  <2>9. resetStream(id) = <<p, m>> /\ m.op = "markReset" /\ m.id = id
    BY <2>8, OpFields DEF resetStream
  <2>10. PICK s \in Seq(Stackable(Known, Closed)) : s = Tail(pend)
    BY <2>3, TopTyped
  <2>11. pend' = <<p, m>> \o <<r>> \o s
    BY <2>7, <2>9, <2>10
  <2>12. 2 \in 1 .. Len(pend') /\ pend'[2] = m
    BY <2>11
  <2> QED BY <2>9, <2>12 DEF Holds
<1> QED BY <1>2, <1>4, <1>5, <1>6 DEF HalfClosed

-------------------------------------------------------------------------------
(* While serve makes calls, only SETTINGS give it more to send.            *)
Shrink ==
    /\ sc'.maxFrameSize = sc.maxFrameSize /\ sc'.flow <= sc.flow
    /\ \A id \in Ids : st'[id].flow <= st[id].flow

LEMMA SameShrink ==
    ASSUME Typed, sc'.maxFrameSize = sc.maxFrameSize, sc'.flow = sc.flow,
           \A id \in Ids : st'[id].flow = st[id].flow
    PROVE  Shrink
<1>1. sc.flow \in Int /\ \A id \in Ids : st[id].flow \in Int
  BY DEF Typed, Sessions, StreamObjects
<1> QED BY <1>1 DEF Shrink

LEMMA PopShrinks == ASSUME Typed, NEW i \in Ids \union {0}, LoopPop(i) PROVE Shrink
<1>1. PICK wr : wr = Consumed(Head(q[i]))
  OBVIOUS
<1>2. PICK n : n = IF wr.kind = "data" THEN wr.n ELSE 0
  OBVIOUS
<1>3. PICK s : s = [sc EXCEPT !.flow = @ - n, !.connSent = @ + n]
  OBVIOUS
<1>4. /\ startFrameWrite(s, wr) /\ i \in ReadyQueues
      /\ st' = IF n = 0 THEN st
               ELSE [st EXCEPT ![i] = [@ EXCEPT !.flow = st[i].flow - n, !.spent = st[i].spent + n]]
  BY <1>1, <1>2, <1>3 DEF LoopPop
<1>5. wr \in Requests(Known) /\ (wr.kind = "data" => i \in Ids)
  <2>1. wr.kind = "data" => i \in Known
    BY <1>1, <1>4, PoppedTyped
  <2> QED BY <1>1, <1>4, <2>1, PoppedTyped DEF Known
<1>6. sc \in Sessions /\ n \in Nat /\ st \in [Ids -> StreamObjects]
  BY <1>2, <1>5 DEF Typed, Requests, WriteRequests
<1>7. sc.flow \in Int /\ \A id \in Ids : st[id].flow \in Int
  BY <1>6 DEF Sessions, StreamObjects
<1>8. s \in Sessions
  <2>1. sc.connSent \in Nat
    BY <1>6 DEF Sessions
  <2>2. sc.flow - n \in Int /\ sc.connSent + n \in Nat
    BY <1>6, <1>7, <2>1
  <2> QED BY <1>3, <1>6, <2>2, ChargeTyped
<1>9. SameSums(sc', s)
  BY <1>4, <1>8, StartQuiet
<1>10. sc'.maxFrameSize = sc.maxFrameSize /\ sc'.flow <= sc.flow
  <2>1. PICK a, b : a = sc.flow - n /\ b = sc.connSent + n
    OBVIOUS
  <2>2. s = [sc EXCEPT !.flow = a, !.connSent = b]
    BY <1>3, <2>1
  <2>3. s.maxFrameSize = sc.maxFrameSize /\ s.flow = a
    BY <1>6, <2>2 DEF Sessions
  <2>4. a <= sc.flow
    BY <1>6, <1>7, <2>1
  <2> QED BY <1>9, <2>3, <2>4 DEF SameSums
<1>11. \A id \in Ids : st'[id].flow <= st[id].flow
  <2>1. CASE n = 0
    BY <1>4, <1>7, <2>1
  <2>2. CASE n # 0
    <3>1. PICK a, b : a = st[i].flow - n /\ b = st[i].spent + n
      OBVIOUS
    <3>2. st' = [st EXCEPT ![i] = [st[i] EXCEPT !.flow = a, !.spent = b]] /\ i \in Ids
      BY <1>2, <1>4, <1>5, <2>2, <3>1
    <3>3. \A id \in Ids : st'[id].flow = IF id = i THEN a ELSE st[id].flow
      BY <1>6, <3>2 DEF StreamObjects
    <3>4. a <= st[i].flow
      BY <1>6, <1>7, <3>1, <3>2
    <3> QED BY <1>7, <3>3, <3>4
  <2> QED BY <2>1, <2>2
<1> QED BY <1>10, <1>11 DEF Shrink

LEMMA CallsShrink ==
    ASSUME Typed, Discipline, [Next]_vars, pend # <<>>, Top.op # "processSettings"
    PROVE  Shrink
<1>1. Quiet \/ Loud
  BY QuietOrLoud
<1>2. CASE Quiet
  BY <1>2, SameShrink DEF Quiet, SameStreams, SameOn, SameSums
<1>3. CASE \E i \in Ids \union {0} : LoopPop(i)
  BY <1>3, PopShrinks
<1>4. CASE wroteFrame
  <2>1. sc' = sc \/ sc' = [sc EXCEPT !.writingFrame = FALSE, !.writingFrameAsync = FALSE]
    BY <1>4 DEF wroteFrame, Panic
  <2>2. st' = st \/ \E x : st' = [st EXCEPT ![Top.wr.id].state = x]
    BY <1>4 DEF wroteFrame, Panic
  <2>3. sc'.maxFrameSize = sc.maxFrameSize /\ sc'.flow = sc.flow
    BY <2>1 DEF Typed, Sessions
  <2>4. \A id \in Ids : st'[id].flow = st[id].flow
    <3>1. CASE st' = st
      BY <3>1
    <3>2. ASSUME NEW x, st' = [st EXCEPT ![Top.wr.id].state = x]
          PROVE  \A id \in Ids : st'[id].flow = st[id].flow
      BY <3>2 DEF Typed, StreamObjects
    <3> QED BY <2>2, <3>1, <3>2
  <2> QED BY <2>3, <2>4, SameShrink
<1>5. CASE closeStream
  <2>1. PICK id : id = Top.id
    OBVIOUS
  <2>2. \/ sc' = sc \/ \E n : sc' = [sc EXCEPT !.curPushedStreams = n]
        \/ \E n : sc' = [sc EXCEPT !.curClientStreams = n]
    BY <1>5 DEF closeStream, Panic
  <2>3. st' = st \/ st' = [st EXCEPT ![id] = [st[id] EXCEPT !.state = "closed"]]
    BY <1>5, <2>1 DEF closeStream, Panic
  <2>4. sc'.maxFrameSize = sc.maxFrameSize /\ sc'.flow = sc.flow
    BY <2>2 DEF Typed, Sessions
  <2>5. \A i \in Ids : st'[i].flow = st[i].flow
    <3>1. CASE st' = st
      BY <3>1
    <3>2. CASE st' = [st EXCEPT ![id] = [st[id] EXCEPT !.state = "closed"]]
      BY <3>2 DEF Typed, StreamObjects
    <3> QED BY <2>3, <3>1, <3>2
  <2> QED BY <2>4, <2>5, SameShrink
<1>6. CASE closeRest
  <2>1. st' = [st EXCEPT ![Top.id] = [st[Top.id] EXCEPT !.bodyErr = TRUE, !.cw = TRUE]] /\ sc' = sc
    BY <1>6 DEF closeRest
  <2>2. \A i \in Ids : st'[i].flow = st[i].flow
    BY <2>1 DEF Typed, StreamObjects
  <2> QED BY <2>1, <2>2, SameShrink
<1>7. CASE endStream
  <2>1. PICK b, x : /\ b = ~InMap(Top.id)
                    /\ x = IF InMap(Top.id) THEN "halfClosedRemote" ELSE st[Top.id].state
    OBVIOUS
  <2>2. /\ st' = [st EXCEPT ![Top.id] = [st[Top.id] EXCEPT !.bodyErr = TRUE, !.stale = b, !.state = x]]
        /\ sc' = sc
    BY <1>7, <2>1 DEF endStream
  <2>3. \A i \in Ids : st'[i].flow = st[i].flow
    BY <2>2 DEF Typed, StreamObjects
  <2> QED BY <2>2, <2>3, SameShrink
<1>8. ~processWindowUpdate /\ ~processHeaders /\ ~createStream
  BY DEF processWindowUpdate, processHeaders, createStream, Handled, Receive, SelectMsg, Parked
<1>9. ~processSetting /\ ~processSettingInitialWindowSize
  BY RunningTop DEF processSetting, processSettingInitialWindowSize
<1> QED BY <1>1, <1>2, <1>3, <1>4, <1>5, <1>6, <1>7, <1>8, <1>9 DEF Loud

LEMMA AllowedShrinks ==
    ASSUME Typed, Typed', Shrink, NEW id \in Ids
    PROVE  Allowed(id) \in Int /\ Allowed(id)' \in Int /\ Allowed(id)' <= Allowed(id)
<1>1. PICK m, m1, c, c1, f, f1 : /\ m = sc.maxFrameSize /\ m1 = sc'.maxFrameSize
                                 /\ c = sc.flow /\ c1 = sc'.flow
                                 /\ f = st[id].flow /\ f1 = st'[id].flow
  OBVIOUS
<1>2. m \in Int /\ m1 = m /\ c \in Int /\ c1 \in Int /\ f \in Int /\ f1 \in Int
  <2>1. sc \in Sessions /\ sc' \in Sessions /\ st[id] \in StreamObjects /\ st'[id] \in StreamObjects
    BY DEF Typed
  <2>2. m \in Int /\ c \in Int /\ c1 \in Int
    BY <1>1, <2>1 DEF Sessions
  <2>3. f \in Int /\ f1 \in Int
    BY <1>1, <2>1 DEF StreamObjects
  <2> QED BY <1>1, <2>2, <2>3 DEF Shrink
<1>3. c1 <= c /\ f1 <= f
  BY <1>1 DEF Shrink
<1>4. PICK a, a1 : a = available(f, c) /\ a1 = available(f1, c1)
  OBVIOUS
<1>5. a \in Int /\ a1 \in Int /\ a1 <= a
  BY <1>2, <1>3, <1>4 DEF available
<1>6. Allowed(id) = (IF m < a THEN m ELSE a) /\ Allowed(id)' = (IF m1 < a1 THEN m1 ELSE a1)
  BY <1>1, <1>4 DEF Allowed
<1> QED BY <1>2, <1>5, <1>6

-------------------------------------------------------------------------------
(* The write loop has no HEADERS or DATA of the stream to start.           *)
Bare(s) == \A k \in 1 .. Len(s) : s[k].kind \notin Bodies

Stuck(id) == Bare(q[id]) \/ (q[id] # <<>> /\ ~Consumable(Head(q[id])))

(* A call that brings neither more to send nor leave to send it.           *)
Companion(p) == p.op # "processSettings" /\ (p.op = "writeFrame" => p.wr.kind \notin Bodies)

LEMMA HeadWaits ==
    ASSUME Typed, Typed', Shrink, NEW id \in Ids, q[id] # <<>>, q'[id] # <<>>,
           Head(q'[id]) = Head(q[id]), ~Consumable(Head(q[id]))
    PROVE  Stuck(id)'
<1>1. PICK h : h = Head(q[id])
  OBVIOUS
<1>2. h \in Queueable(id, Known)
  BY <1>1, QueueTyped
<1>3. h.id = id /\ id # 0
  BY <1>2, IdsFacts DEF Queueable
<1>4. h.kind = "data" /\ h.n > 0 /\ ~(Allowed(id) > 0)
  BY <1>1, <1>3 DEF Consumable
<1>5. Allowed(id) \in Int /\ Allowed(id)' \in Int /\ Allowed(id)' <= Allowed(id)
  BY AllowedShrinks
<1>6. ~(Allowed(id)' > 0)
  BY <1>4, <1>5
<1>7. ~Consumable(Head(q[id]))'
  BY <1>1, <1>3, <1>4, <1>6 DEF Consumable
<1> QED BY <1>7 DEF Stuck

LEMMA StuckAdded ==
    ASSUME Typed, Typed', Shrink, NEW id \in Ids, Stuck(id),
           NEW wr \in WriteRequests, wr.kind \notin Bodies,
           \E t \in Ids \union {0} : q' = [q EXCEPT ![t] = Append(q[t], wr)]
    PROVE  Stuck(id)'
<1>1. PICK t \in Ids \union {0} : q' = [q EXCEPT ![t] = Append(q[t], wr)]
  OBVIOUS
<1>2. PICK u \in Seq(WriteRequests) : u = q[id]
  BY QueueTyped
<1>3. q \in [Ids \union {0} -> Seq(WriteRequests)]
  BY QueueTyped
<1>4. CASE q'[id] = u
  BY <1>2, <1>4, HeadWaits DEF Stuck
<1>5. CASE q'[id] # u
  <2>1. q'[id] = Append(u, wr)
    BY <1>1, <1>2, <1>3, <1>5
  <2>2. CASE Bare(u)
    <3>1. Bare(Append(u, wr))
      BY <2>2, AppendOne DEF Bare
    <3> QED BY <2>1, <3>1 DEF Stuck
  <2>3. CASE u # <<>> /\ ~Consumable(Head(q[id]))
    <3>1. Append(u, wr) # <<>> /\ Head(Append(u, wr)) = Head(u)
      BY <2>3
    <3> QED BY <1>2, <2>1, <2>3, <3>1, HeadWaits
  <2> QED BY <1>2, <2>2, <2>3 DEF Stuck
<1> QED BY <1>4, <1>5

LEMMA StuckPopped ==
    ASSUME Typed, Typed', NEW i \in Ids \union {0}, LoopPop(i), NEW id \in Ids, Stuck(id)
    PROVE  Stuck(id)' /\ (i = id => Head(q[i]).kind \notin Bodies)
<1>1. i \in ReadyQueues /\ q' = [q EXCEPT ![i] = Remaining(Head(q[i])) \o Tail(q[i])]
  BY DEF LoopPop
<1>2. PICK u \in Seq(WriteRequests) : u = q[id]
  BY QueueTyped
<1>3. q \in [Ids \union {0} -> Seq(WriteRequests)] /\ Shrink
  BY QueueTyped, PopShrinks
<1>4. CASE i # id
  <2>1. q'[id] = u
    BY <1>1, <1>2, <1>3, <1>4
  <2> QED BY <1>2, <1>3, <1>4, <2>1, HeadWaits DEF Stuck
<1>5. CASE i = id
  <2>1. u # <<>> /\ Consumable(Head(q[id]))
    BY <1>1, <1>2, <1>5, IdsFacts DEF ReadyQueues
  <2>2. Bare(u)
    BY <1>2, <2>1 DEF Stuck
  <2>3. Head(u).kind \notin Bodies
    BY <2>1, <2>2 DEF Bare
  <2>4. Remaining(Head(u)) = <<>>
    BY <2>3 DEF Remaining, Splits, Bodies
  <2>5. PICK t \in Seq(WriteRequests) : t = Tail(u)
    <3>1. ASSUME NEW s \in Seq(WriteRequests), s # <<>> PROVE Tail(s) \in Seq(WriteRequests)
      BY <3>1
    <3> QED BY <2>1, <3>1
  <2>6. q'[id] = t
    BY <1>1, <1>2, <1>3, <1>5, <2>4, <2>5
  <2>7. Bare(t)
    BY <2>1, <2>2, <2>5 DEF Bare
  <2> QED BY <1>2, <1>5, <2>3, <2>6, <2>7 DEF Stuck
<1> QED BY <1>4, <1>5

LEMMA StuckKept ==
    ASSUME Typed, Typed', Discipline, [Next]_vars, pend # <<>>, Companion(Top),
           NEW id \in Ids, Stuck(id)
    PROVE  Stuck(id)'
<1>1. QueueStep /\ Shrink
  BY QueueSteps, CallsShrink DEF Companion
<1>2. PICK u \in Seq(WriteRequests) : u = q[id]
  BY QueueTyped
<1>3. q \in [Ids \union {0} -> Seq(WriteRequests)]
  BY QueueTyped
<1>4. CASE q' = q
  BY <1>1, <1>4, HeadWaits DEF Stuck
<1>5. ASSUME NEW wr \in Requests(Known), wr.kind \notin Bodies, Adds(wr) PROVE Stuck(id)'
  <2>1. PICK t \in PushTargets(wr) : q' = [q EXCEPT ![t] = Append(q[t], wr)]
    BY <1>5 DEF Adds
  <2>2. t \in Ids \union {0} /\ wr \in WriteRequests
    BY <1>5, <2>1, PushedWhere, IdsFacts DEF Requests, WriteRequests
  <2> QED BY <1>1, <1>5, <2>1, <2>2, StuckAdded
<1>6. CASE writeFrame /\ Adds(Top.wr)
  <2>1. Top.op = "writeFrame" /\ Top.wr \in Requests(Known)
    BY <1>6, RunningTop, TopTyped DEF writeFrame
  <2> QED BY <1>5, <1>6, <2>1 DEF Companion
<1>7. CASE sendWindowUpdate /\ Adds(WR("windowUpdate", Top.id, Top.n, FALSE, Nobody))
  <2>1. PICK wr : wr = WR("windowUpdate", Top.id, Top.n, FALSE, Nobody)
    OBVIOUS
  <2>2. wr \in Requests(Known) /\ wr.kind \notin Bodies
    BY <1>7, <2>1, AddedTyped DEF WR, Bodies
  <2> QED BY <1>5, <1>7, <2>1, <2>2
<1>8. CASE closeRest
  <2>1. q' = [q EXCEPT ![Top.id] = <<>>]
    BY <1>8 DEF closeRest
  <2>2. q'[id] = u \/ q'[id] = <<>>
    BY <1>2, <1>3, <2>1
  <2>3. CASE q'[id] = u
    BY <1>1, <1>2, <2>3, HeadWaits DEF Stuck
  <2>4. CASE q'[id] = <<>>
    BY <2>4 DEF Stuck, Bare
  <2> QED BY <2>2, <2>3, <2>4
<1>9. CASE \E i \in Ids \union {0} : LoopPop(i)
  BY <1>9, StuckPopped
<1> QED BY <1>1, <1>4, <1>6, <1>7, <1>8, <1>9 DEF QueueStep

-------------------------------------------------------------------------------
(* The stack s has calls of ops only.                                      *)
Only(s, ops) == (\E A : s \in Seq(A)) /\ \A k \in 1 .. Len(s) : s[k].op \in ops

NotEnd == Ops \ {"endStream"}

LEMMA OnlyCalls ==
    \A ops : /\ Only(<<>>, ops)
             /\ \A p : p.op \in ops => Only(<<p>>, ops)
             /\ \A p, r : p.op \in ops /\ r.op \in ops => Only(<<p, r>>, ops)
<1> TAKE ops
<1>1. Only(<<>>, ops)
  <2>1. <<>> \in Seq({})
    OBVIOUS
  <2> QED BY <2>1 DEF Only
<1>2. ASSUME NEW p, p.op \in ops PROVE Only(<<p>>, ops)
  <2>1. PICK s : s = <<p>>
    OBVIOUS
  <2>2. s \in Seq({p}) /\ \A k \in 1 .. Len(s) : s[k] = p
    BY <2>1
  <2>3. Only(s, ops)
    BY <1>2, <2>2 DEF Only
  <2> QED BY <2>1, <2>3
<1>3. ASSUME NEW p, NEW r, p.op \in ops, r.op \in ops PROVE Only(<<p, r>>, ops)
  <2>1. PICK s : s = <<p, r>>
    OBVIOUS
  <2>2. s \in Seq({p, r}) /\ \A k \in 1 .. Len(s) : s[k] = p \/ s[k] = r
    BY <2>1
  <2>3. Only(s, ops)
    BY <1>3, <2>2 DEF Only
  <2> QED BY <2>1, <2>3
<1> QED BY <1>1, <1>2, <1>3

LEMMA OnlyJoined ==
    ASSUME NEW s, NEW t, NEW ops, Only(s, ops), Only(t, ops)
    PROVE  Only(s \o t, ops)
<1>1. PICK A : s \in Seq(A)
  BY DEF Only
<1>2. PICK B : t \in Seq(B)
  BY DEF Only
<1>3. PICK u : u = s \o t
  OBVIOUS
<1>4. s \in Seq(A \union B) /\ t \in Seq(A \union B)
  BY <1>1, <1>2
<1>5. u \in Seq(A \union B)
  BY <1>3, <1>4
<1>6. \A k \in 1 .. Len(u) : \/ k \in 1 .. Len(s) /\ u[k] = s[k]
                             \/ k - Len(s) \in 1 .. Len(t) /\ u[k] = t[k - Len(s)]
  BY <1>3, <1>4
<1>7. \A k \in 1 .. Len(u) : u[k].op \in ops
  BY <1>6 DEF Only
<1> QED BY <1>3, <1>5, <1>7 DEF Only

LEMMA OnlyOp ==
    \A op, id, n, wr, ops : op \in ops => /\ Only(<<Op(op, id, n)>>, ops)
                                          /\ Only(<<OpOn(op, wr)>>, ops)
<1> TAKE op, id, n, wr, ops
<1>1. PICK p, r : p = Op(op, id, n) /\ r = OpOn(op, wr)
  OBVIOUS
<1>2. p.op = op /\ r.op = op
  BY <1>1, OpFields
<1> QED BY <1>1, <1>2, OnlyCalls

LEMMA ThenOnly ==
    ASSUME NEW ops, {"readMore", "iter"} \subseteq ops, NEW calls, Only(calls, ops), Then(calls)
    PROVE  Only(pend', ops)
<1>1. PICK r, i : r = Op("readMore", 0, 0) /\ i = Op("iter", 0, 0)
  OBVIOUS
<1>2. pend' = calls \o <<r, i>>
  BY <1>1 DEF Then
<1>3. r.op \in ops /\ i.op \in ops
  BY <1>1, OpFields
<1>4. Only(<<r, i>>, ops)
  BY <1>3, OnlyCalls
<1> QED BY <1>2, <1>4, OnlyJoined

LEMMA AnswersNotEnd ==
    /\ {"readMore", "iter"} \subseteq NotEnd
    /\ Only(<<>>, NotEnd) /\ Only(ConnError, NotEnd)
    /\ \A id : Only(resetStream(id), NotEnd)
    /\ \A op, id, n : op \in NotEnd => Only(<<Op(op, id, n)>>, NotEnd)
    /\ \A op, wr : op \in NotEnd => Only(<<OpOn(op, wr)>>, NotEnd)
<1>1. /\ {"readMore", "iter"} \subseteq NotEnd
      /\ "goAwayErr" \in NotEnd /\ "writeFrame" \in NotEnd /\ "markReset" \in NotEnd
  BY DEF NotEnd, Ops
<1>2. ASSUME NEW id PROVE Only(resetStream(id), NotEnd)
  <2>1. PICK p, m : p = OpOn("writeFrame", WR("rst", id, 0, FALSE, Nobody)) /\ m = Op("markReset", id, 0)
    OBVIOUS
  <2>2. p.op = "writeFrame" /\ m.op = "markReset"
    BY <2>1, OpFields
  <2>3. resetStream(id) = <<p, m>>
    BY <2>1 DEF resetStream
  <2> QED BY <1>1, <2>2, <2>3, OnlyCalls
<1> QED BY <1>1, <1>2, OnlyCalls, OnlyOp DEF ConnError

(* The frames whose handlers end no stream.                                *)
LEMMA FramesNotEnd ==
    ASSUME \/ (\E t : TooEarly(t)) \/ processPing \/ processFatal \/ processStreamError
           \/ processIgnored \/ processPriority \/ processGoAway \/ processEOF
           \/ processResetStream \/ processWindowUpdate \/ processSettingsAck \/ receiveSettings
    PROVE  Only(pend', NotEnd)
<1>1. "exit" \in NotEnd /\ "loop" \in NotEnd /\ "writeFrame" \in NotEnd /\ "goAwayNo" \in NotEnd
      /\ "closeStream" \in NotEnd /\ "processSettings" \in NotEnd
  BY DEF NotEnd, Ops
<1>2. ASSUME NEW calls, Only(calls, NotEnd), Then(calls) PROVE Only(pend', NotEnd)
  BY <1>2, AnswersNotEnd, ThenOnly
<1>3. CASE (\E t : TooEarly(t)) \/ processFatal \/ processStreamError \/ processIgnored
  BY <1>2, <1>3, AnswersNotEnd
     DEF TooEarly, processFatal, processStreamError, processIgnored, Answer
<1>4. CASE processPing
  <2>1. PICK calls : /\ Then(calls)
                     /\ calls \in {ConnError, <<>>, <<OpOn("writeFrame", Control("ping"))>>}
    BY <1>4 DEF processPing, Answer
  <2> QED BY <1>1, <1>2, <2>1, AnswersNotEnd
<1>5. CASE processPriority
  <2>1. PICK calls : Then(calls) /\ calls \in {resetStream(frame.id), <<>>}
    BY <1>5 DEF processPriority, Answer
  <2> QED BY <1>2, <2>1, AnswersNotEnd
<1>6. CASE processGoAway
  BY <1>1, <1>2, <1>6, AnswersNotEnd DEF processGoAway, Answer
<1>7. CASE processEOF
  BY <1>1, <1>7, AnswersNotEnd DEF processEOF
<1>8. CASE processResetStream
  <2>1. PICK calls : Then(calls) /\ calls \in {ConnError, <<>>, <<Op("closeStream", frame.id, 0)>>}
    BY <1>8 DEF processResetStream, Answer
  <2> QED BY <1>1, <1>2, <2>1, AnswersNotEnd
<1>9. CASE processWindowUpdate
  <2>1. \/ \E s : ThenSchedule(s)
        \/ \E calls \in {ConnError, <<>>, resetStream(frame.id)} : Then(calls)
    BY <1>9 DEF processWindowUpdate
  <2>2. ASSUME NEW s, ThenSchedule(s) PROVE Only(pend', NotEnd)
    <3>1. PICK l, r, i : l = Op("loop", 0, 0) /\ r = Op("readMore", 0, 0) /\ i = Op("iter", 0, 0)
      OBVIOUS
    <3>2. Only(<<l>>, NotEnd) /\ Only(<<r, i>>, NotEnd)
      BY <1>1, <3>1, OnlyCalls, OpFields, AnswersNotEnd
    <3>3. pend' = <<r, i>> \/ pend' = <<l>> \o <<r, i>>
      BY <2>2, <3>1 DEF ThenSchedule, ScheduleFrameWrite
    <3> QED BY <3>2, <3>3, OnlyJoined
  <2> QED BY <1>2, <2>1, <2>2, AnswersNotEnd
<1>10. CASE processSettingsAck
  <2>1. PICK calls : Then(calls) /\ calls \in {ConnError, <<>>}
    BY <1>10 DEF processSettingsAck
  <2> QED BY <1>2, <2>1, AnswersNotEnd
<1>11. CASE receiveSettings
  <2>1. PICK p : p = [Op("processSettings", 0, 0) EXCEPT !.set = frame.set]
    OBVIOUS
  <2>2. Then(<<p>>) /\ p.op = "processSettings"
    BY <1>11, <2>1 DEF receiveSettings, Op
  <2> QED BY <1>1, <1>2, <2>2, OnlyCalls
<1> QED BY <1>3, <1>4, <1>5, <1>6, <1>7, <1>8, <1>9, <1>10, <1>11

LEMMA SelectsNotEnd ==
    ASSUME \/ SelectWant \/ SelectWrote \/ SelectShutdown \/ SelectTimer \/ createStream
    PROVE  Only(pend', NotEnd)
<1>1. {"exit", "wroteFrame", "writeFrame", "goAwayNo", "refuse", "handOver", "iter"} \subseteq NotEnd
  BY DEF NotEnd, Ops
<1>2. PICK i : i = Op("iter", 0, 0)
  OBVIOUS
<1>3. Only(<<i>>, NotEnd) /\ i.op \in NotEnd
  BY <1>1, <1>2, OpFields, OnlyCalls
<1>4. ASSUME NEW p, p.op \in NotEnd, NEW s, Only(s, NotEnd), pend' = <<p>> \o s PROVE Only(pend', NotEnd)
  BY <1>4, OnlyCalls, OnlyJoined
<1>5. CASE SelectWant
  <2>1. PICK p : p = OpOn("writeFrame", Head(want))
    OBVIOUS
  <2>2. pend' = resetStream(Head(want).id) \o <<i>> \/ pend' = <<p>> \o <<i>>
    BY <1>2, <1>5, <2>1 DEF SelectWant
  <2>3. Only(<<p>>, NotEnd)
    BY <1>1, <2>1, AnswersNotEnd
  <2> QED BY <1>3, <2>2, <2>3, AnswersNotEnd, OnlyJoined
<1>6. CASE SelectWrote
  <2>1. PICK p : p = OpOn("wroteFrame", writer.wr)
    OBVIOUS
  <2>2. pend' = <<p, i>> /\ p.op \in NotEnd
    BY <1>1, <1>2, <1>6, <2>1, OpFields DEF SelectWrote
  <2> QED BY <1>3, <2>2, OnlyCalls
<1>7. CASE SelectShutdown
  <2>1. PICK p : p = Op("goAwayNo", 0, 0)
    OBVIOUS
  <2>2. pend' = <<p, i>> /\ p.op \in NotEnd
    BY <1>1, <1>2, <1>7, <2>1, OpFields DEF SelectShutdown
  <2> QED BY <1>3, <2>2, OnlyCalls
<1>8. CASE SelectTimer
  BY <1>1, <1>8, AnswersNotEnd DEF SelectTimer
<1>9. CASE createStream
  <2>1. PICK c, id, wr : /\ c = Head(msgs).c /\ id = NextLocalID
                         /\ wr = WR("headers", NextLocalID, 0, Script[Head(msgs).c].end, Nobody)
    OBVIOUS
  <2>2. PICK f, g, h, w : /\ f = Op("refuse", 0, c) /\ g = Op("goAwayNo", 0, 0)
                          /\ h = Op("handOver", id, c) /\ w = OpOn("writeFrame", wr)
    OBVIOUS
  <2>3. f.op \in NotEnd /\ g.op \in NotEnd /\ h.op \in NotEnd /\ w.op \in NotEnd
    BY <1>1, <2>2, OpFields
  <2>4. pend' = <<f, i>> \/ pend' = <<g, f, i>> \/ pend' = <<w, h, i>>
    BY <1>2, <1>9, <2>1, <2>2 DEF createStream
  <2>5. <<g, f, i>> = <<g>> \o <<f, i>> /\ <<w, h, i>> = <<w>> \o <<h, i>>
    OBVIOUS
  <2> QED BY <1>3, <1>4, <2>3, <2>4, <2>5, OnlyCalls
<1> QED BY <1>5, <1>6, <1>7, <1>8, <1>9

-------------------------------------------------------------------------------
(* The calls of a handler that ends the peer's side of a stream.           *)
Enders == {"sendWindowUpdate", "endStream", "readMore", "iter"}

LEMMA OnlyOthers ==
    ASSUME NEW s, Only(s, NotEnd), NEW id
    PROVE  ~Holds(s, "endStream", id)
BY DEF Only, Holds, NotEnd

LEMMA EndHeld ==
    ASSUME NEW c, Only(c, NotEnd), NEW t, Only(t, NotEnd), NEW e, NEW id,
           Holds(c \o <<e>> \o t, "endStream", id)
    PROVE  e.id = id
<1>1. PICK A : c \in Seq(A)
  BY DEF Only
<1>2. PICK B : t \in Seq(B)
  BY DEF Only
<1>3. PICK s : s = <<e>>
  OBVIOUS
<1>4. s \in Seq({e}) /\ \A k \in 1 .. Len(s) : s[k] = e
  BY <1>3
<1>5. c \o s \in Seq(A \union {e})
  BY <1>1, <1>4
<1>6. Holds(c \o s, "endStream", id) \/ Holds(t, "endStream", id)
  <2>1. PICK u \in Seq(A \union {e}) : u = c \o s
    BY <1>5
  <2>2. Holds(u \o t, "endStream", id)
    BY <1>3, <2>1
  <2>3. PICK D : u \in Seq(D)
    BY <2>1
  <2>4. Holds(u, "endStream", id) \/ Holds(t, "endStream", id)
    BY <1>2, <2>2, <2>3, HoldsJoined
  <2> QED BY <2>1, <2>4
<1>7. Holds(s, "endStream", id)
  BY <1>1, <1>4, <1>6, OnlyOthers, HoldsJoined
<1> QED BY <1>4, <1>7 DEF Holds

(* The handlers' calls, if they end the stream id.                         *)
LEMMA ThenEnds ==
    ASSUME NEW c, Only(c, {"sendWindowUpdate"}), NEW id, NEW x,
           Then(c \o <<Op("endStream", x, 0)>>), Holds(pend', "endStream", id)
    PROVE  x = id /\ Only(pend', Enders)
<1>1. PICK e : e = Op("endStream", x, 0)
  OBVIOUS
<1>2. e.op = "endStream" /\ e.id = x
  BY <1>1, OpFields
<1>3. PICK r, i : r = Op("readMore", 0, 0) /\ i = Op("iter", 0, 0)
  OBVIOUS
<1>4. r.op = "readMore" /\ i.op = "iter"
  BY <1>3, OpFields
<1>5. pend' = (c \o <<e>>) \o <<r, i>>
  BY <1>1, <1>3 DEF Then
<1>6. Only(c, NotEnd) /\ Only(<<r, i>>, NotEnd)
  <2>1. Only(c, NotEnd)
    BY DEF Only, NotEnd, Ops
  <2>2. r.op \in NotEnd /\ i.op \in NotEnd
    BY <1>4, AnswersNotEnd
  <2> QED BY <2>1, <2>2, OnlyCalls
<1>7. e.id = id
  <2>1. Holds(c \o <<e>> \o <<r, i>>, "endStream", id)
    BY <1>5
  <2> QED BY <1>6, <2>1, EndHeld
<1>8. Only(c, Enders) /\ Only(<<e>>, Enders) /\ Only(<<r, i>>, Enders)
  <2>1. Only(c, Enders)
    BY DEF Only, Enders
  <2>2. e.op \in Enders /\ r.op \in Enders /\ i.op \in Enders
    BY <1>2, <1>4 DEF Enders
  <2> QED BY <2>1, <2>2, OnlyCalls
<1> QED BY <1>2, <1>5, <1>7, <1>8, OnlyJoined

LEMMA RefundOnly ==
    \A id, n : /\ Only(RefundPadding(id, n), {"sendWindowUpdate"})
               /\ Only(<<Op("sendWindowUpdate", id, n)>>, NotEnd)
<1> TAKE id, n
<1>1. PICK a, b : a = Op("sendWindowUpdate", 0, n) /\ b = Op("sendWindowUpdate", id, n)
  OBVIOUS
<1>2. a.op = "sendWindowUpdate" /\ b.op = "sendWindowUpdate"
  BY <1>1, OpFields
<1>3. RefundPadding(id, n) = <<>> \/ RefundPadding(id, n) = <<a, b>>
  BY <1>1 DEF RefundPadding
<1>4. b.op \in NotEnd
  BY <1>2 DEF NotEnd, Ops
<1> QED BY <1>1, <1>2, <1>3, <1>4, OnlyCalls

LEMMA DataEnds ==
    ASSUME Typed, processData, NEW id \in Ids, Holds(pend', "endStream", id)
    PROVE  Only(pend', Enders) /\ st[id].state = "open" /\ MayPop
<1>1. ASSUME NEW calls, Only(calls, NotEnd), Then(calls) PROVE FALSE
  BY <1>1, AnswersNotEnd, ThenOnly, OnlyOthers
<1>2. ~GoingDown /\ (DiscardData \/ AcceptData \/ RefuseData)
  BY <1>1, AnswersNotEnd DEF processData
<1>3. ~RefuseData
  BY <1>1, AnswersNotEnd DEF RefuseData
<1>4. ~DiscardData
  <2> SUFFICES ASSUME DiscardData PROVE FALSE
    OBVIOUS
  <2>1. PICK n : n = frame.n + frame.pad
    OBVIOUS
  <2>2. PICK w : w = <<Op("sendWindowUpdate", 0, n)>>
    OBVIOUS
  <2>3. \/ Then(resetStream(frame.id)) \/ Then(w \o <<>>) \/ Then(w \o resetStream(frame.id))
    BY <2>1, <2>2 DEF DiscardData
  <2>4. Only(w, NotEnd)
    BY <2>2, RefundOnly
  <2>5. Only(w \o <<>>, NotEnd) /\ Only(w \o resetStream(frame.id), NotEnd)
    BY <2>4, AnswersNotEnd, OnlyJoined
  <2> QED BY <1>1, <2>3, <2>5, AnswersNotEnd
<1>5. AcceptData
  BY <1>2, <1>3, <1>4
<1>6. PICK x : x = frame.id
  OBVIOUS
<1>7. PICK c : c = RefundPadding(x, frame.pad)
  OBVIOUS
<1>8. PICK d : d = IF frame.end THEN <<Op("endStream", x, 0)>> ELSE <<>>
  OBVIOUS
<1>9. Then(resetStream(x)) \/ Then(c \o d)
  BY <1>5, <1>6, <1>7, <1>8 DEF AcceptData
<1>10. Only(c, {"sendWindowUpdate"}) /\ Only(c, NotEnd)
  <2>1. Only(c, {"sendWindowUpdate"})
    BY <1>7, RefundOnly
  <2> QED BY <2>1 DEF Only, NotEnd, Ops
<1>11. Then(c \o <<Op("endStream", x, 0)>>)
  <2>1. Only(c \o <<>>, NotEnd)
    BY <1>10, AnswersNotEnd, OnlyJoined
  <2> QED BY <1>1, <1>8, <1>9, <2>1, AnswersNotEnd
<1>12. x = id /\ Only(pend', Enders)
  BY <1>10, <1>11, ThenEnds
<1>13. st[id].state = "open"
  BY <1>5, <1>6, <1>12 DEF AcceptData, Unwanted
<1> QED BY <1>2, <1>12, <1>13 DEF GoingDown, MayPop, Typed, Sessions

LEMMA HeadersEnd ==
    ASSUME Typed, processHeaders, NEW id \in Ids, Holds(pend', "endStream", id)
    PROVE  /\ Only(pend', Enders) /\ InMap(id) /\ ~st[id].resetQueued
           /\ ~sc.inGoAway /\ HeadersOnStream
<1>1. ASSUME NEW calls, Only(calls, NotEnd), Then(calls) PROVE FALSE
  BY <1>1, AnswersNotEnd, ThenOnly, OnlyOthers
<1>2. ~sc.inGoAway /\ (HeadersOnStream \/ HeadersOpenStream)
  BY <1>1, AnswersNotEnd DEF processHeaders
<1>3. ~HeadersOpenStream
  <2> SUFFICES ASSUME HeadersOpenStream PROVE FALSE
    OBVIOUS
  <2>1. \E calls \in {ConnError, <<>>, resetStream(frame.id)} : Then(calls)
    BY DEF HeadersOpenStream
  <2> QED BY <1>1, <2>1, AnswersNotEnd
<1>4. HeadersOnStream
  BY <1>2, <1>3
<1>5. PICK x : x = frame.id
  OBVIOUS
<1>6. \/ \E calls \in {ConnError, <<>>, resetStream(x)} : Then(calls)
      \/ ~st[x].resetQueued /\ Then(<<Op("endStream", x, 0)>>)
  BY <1>4, <1>5 DEF HeadersOnStream
<1>7. ~st[x].resetQueued /\ Then(<<Op("endStream", x, 0)>>)
  BY <1>1, <1>6, AnswersNotEnd
<1>8. Then(<<>> \o <<Op("endStream", x, 0)>>)
  <2>1. PICK e : e = Op("endStream", x, 0)
    OBVIOUS
  <2>2. <<>> \o <<e>> = <<e>>
    OBVIOUS
  <2> QED BY <1>7, <2>1, <2>2
<1>9. x = id /\ Only(pend', Enders)
  BY <1>8, OnlyCalls, ThenEnds
<1> QED BY <1>2, <1>4, <1>5, <1>7, <1>9 DEF HeadersOnStream

(* Only DATA and trailers with END_STREAM end the peer's side of a stream: *)
(* one that is open, or not being reset.                                   *)
LEMMA EndPlaced ==
    ASSUME Typed, [Next]_vars, pend = <<>>, NEW id \in Ids, Holds(pend', "endStream", id)
    PROVE  /\ Only(pend', Enders) /\ MayPop /\ Parked /\ Quiet
           /\ q' = q /\ writer' = writer
           /\ st[id].state = "open" \/ ~st[id].resetQueued
<1>1. ~Only(pend', NotEnd)
  BY OnlyOthers
<1>2. pend' # pend
  BY AnswersNotEnd, <1>1
<1>3. \A op : ~Running(op)
  BY DEF Running
<1>4. ~WriteStep /\ ~writeFrameAsync
  BY <1>2, <1>3 DEF WriteStep, writeFrame, sendWindowUpdate, LoopGoAway, LoopSettingsAck, LoopFlush,
     LoopExit, LoopPop, markReset, wroteFrame, reply, closeStream, closeRest, goAway, writeFrameAsync
<1>5. ~ServeStep
  BY <1>1, <1>3, SelectsNotEnd DEF ServeStep, handshake, startReader, refuse, handOver, iter, exit,
     closeAllStreamsOnConnClose
<1>6. ReadStep
  BY <1>2, <1>4, <1>5, AppFrame DEF Next, ReadFrame, ReadError, ReaderStops, onShutdownTimer, Over, vars
<1>7. processData \/ processHeaders
  BY <1>1, <1>3, <1>6, FramesNotEnd DEF ReadStep, readMore, SettingsDone, processSetting,
     processSettingInitialWindowSize, endStream
<1>8. CASE processData
  <2>1. Parked /\ q' = q /\ writer' = writer
    BY <1>8 DEF processData, Handled, Receive
  <2> QED BY <1>8, <2>1, DataEnds, processDataQuiet
<1>9. CASE processHeaders
  <2>1. Parked /\ q' = q /\ writer' = writer
    BY <1>9 DEF processHeaders, Handled, Receive
  <2>2. /\ Only(pend', Enders) /\ InMap(id) /\ ~st[id].resetQueued
        /\ ~sc.inGoAway /\ HeadersOnStream
    BY <1>9, HeadersEnd
  <2>3. Quiet
    <3>1. CASE Quiet
      BY <3>1
    <3>2. CASE HeadersOpenStream
      BY <2>2, <3>2 DEF HeadersOpenStream, HeadersOnStream
    <3> QED BY <1>9, <3>1, <3>2, processHeadersQuiet
  <2> QED BY <2>1, <2>2, <2>3 DEF MayPop
<1> QED BY <1>7, <1>8, <1>9

-------------------------------------------------------------------------------
(* The end of the stream id has been written, and is about to be handled.  *)
EndWritten(id) == OnTop("wroteFrame") /\ writeEndsStream(Top.wr) /\ Top.wr.id = id

Leaving(id) == Holds(pend, "endStream", id)

(* A stream on which this side has sent END_STREAM does not become         *)
(* halfClosedRemote: until endStream is called no frame of it is started.  *)
HalfEnd(id) ==
    panic = "none" /\ Heeded /\ Leaving(id) =>
        /\ st[id].state # "halfClosedLocal"
        /\ \A k \in 1 .. Len(pend) : Companion(pend[k])
        /\ writer.stage # "idle" \/ (Stuck(id) /\ ~EndWritten(id))

(* The calls that a call leaves on the stack.                              *)
CallsOn(c) == Plain(c) /\ (pend' = c \o pend \/ pend' = c \o Tail(pend))

LEMMA HoldsBelow ==
    ASSUME NEW S, NEW s \in Seq(S), s # <<>>, NEW op, NEW id, Holds(Tail(s), op, id)
    PROVE  Holds(s, op, id)
<1>1. PICK k \in 1 .. Len(Tail(s)) : Tail(s)[k].op = op /\ Tail(s)[k].id = id
  BY DEF Holds
<1>2. k + 1 \in 1 .. Len(s) /\ Tail(s)[k] = s[k + 1]
  BY <1>1
<1> QED BY <1>1, <1>2 DEF Holds

LEMMA LeavingBefore ==
    ASSUME Typed, Discipline, [Next]_vars, pend # <<>>, NEW id, Holds(pend', "endStream", id)
    PROVE  Leaving(id) /\ (pend' = pend \/ \E A : \E c \in Seq(A) : CallsOn(c))
<1>1. CallStep
  BY CallSteps
<1>2. \A c : Plain(c) => ~Holds(c, "endStream", id)
  BY DEF Plain, PlainCall, Holds
<1>3. pend \in Seq(Stackable(Known, Closed)) /\ Tail(pend) \in Seq(Stackable(Known, Closed))
  BY TopTyped DEF Typed
<1>4. CASE pend' = pend
  BY <1>4 DEF Leaving
<1>5. ASSUME NEW A, NEW c \in Seq(A), Plain(c), pend' = c \o pend PROVE Leaving(id) /\ CallsOn(c)
  <2>1. Holds(pend, "endStream", id)
    BY <1>2, <1>3, <1>5, HoldsJoined
  <2> QED BY <1>5, <2>1 DEF Leaving, CallsOn
<1>6. ASSUME NEW A, NEW c \in Seq(A), Plain(c), pend' = c \o Tail(pend) PROVE Leaving(id) /\ CallsOn(c)
  <2>1. Holds(Tail(pend), "endStream", id)
    BY <1>2, <1>3, <1>6, HoldsJoined
  <2> QED BY <1>3, <1>6, <2>1, HoldsBelow DEF Leaving, CallsOn
<1> QED BY <1>1, <1>2, <1>4, <1>5, <1>6 DEF CallStep

(* The stack after such a call.                                            *)
LEMMA CallsMade ==
    ASSUME Typed, pend # <<>>, NEW A, NEW c \in Seq(A), CallsOn(c)
    PROVE  /\ \A k \in 1 .. Len(pend') : \/ \E j \in 1 .. Len(c) : pend'[k] = c[j]
                                         \/ \E j \in 1 .. Len(pend) : pend'[k] = pend[j]
           /\ c # <<>> => pend' # <<>> /\ Head(pend') = c[1] /\ 1 \in 1 .. Len(c)
           /\ c = <<>> => pend' = pend \/ pend' = Tail(pend)
<1>1. PICK S : S = Stackable(Known, Closed)
  OBVIOUS
<1>2. pend \in Seq(S) /\ Tail(pend) \in Seq(S)
  BY <1>1, TopTyped DEF Typed
<1>3. ASSUME NEW s \in Seq(S), pend' = c \o s,
             \A k \in 1 .. Len(s) : \E j \in 1 .. Len(pend) : s[k] = pend[j]
      PROVE  /\ \A k \in 1 .. Len(pend') : \/ \E j \in 1 .. Len(c) : pend'[k] = c[j]
                                           \/ \E j \in 1 .. Len(pend) : pend'[k] = pend[j]
             /\ c # <<>> => pend' # <<>> /\ Head(pend') = c[1] /\ 1 \in 1 .. Len(c)
             /\ c = <<>> => pend' = s
  <2>1. PICK t : t = c \o s
    OBVIOUS
  <2>2. c \in Seq(A \union S) /\ s \in Seq(A \union S)
    OBVIOUS
  <2>3. \A k \in 1 .. Len(t) : \/ k \in 1 .. Len(c) /\ t[k] = c[k]
                               \/ k - Len(c) \in 1 .. Len(s) /\ t[k] = s[k - Len(c)]
    BY <2>1, <2>2
  <2>4. \A k \in 1 .. Len(t) : \/ \E j \in 1 .. Len(c) : t[k] = c[j]
                               \/ \E j \in 1 .. Len(pend) : t[k] = pend[j]
    BY <1>3, <2>3
  <2>5. c # <<>> => t # <<>> /\ Head(t) = c[1] /\ 1 \in 1 .. Len(c)
    BY <2>1, <2>2
  <2>6. c = <<>> => t = s
    BY <2>1
  <2> QED BY <1>3, <2>1, <2>4, <2>5, <2>6
<1>4. CASE pend' = c \o pend
  BY <1>2, <1>3, <1>4
<1>5. CASE pend' = c \o Tail(pend)
  <2>1. ASSUME NEW s \in Seq(S), s # <<>>
        PROVE  \A k \in 1 .. Len(Tail(s)) : \E j \in 1 .. Len(s) : Tail(s)[k] = s[j]
    <3> TAKE k \in 1 .. Len(Tail(s))
    <3>1. k + 1 \in 1 .. Len(s) /\ Tail(s)[k] = s[k + 1]
      BY <2>1
    <3> QED BY <3>1
  <2>2. \A k \in 1 .. Len(Tail(pend)) : \E j \in 1 .. Len(pend) : Tail(pend)[k] = pend[j]
    BY <1>2, <2>1
  <2> QED BY <1>2, <1>3, <1>5, <2>2
<1> QED BY <1>4, <1>5 DEF CallsOn

LEMMA CompanionsStay ==
    ASSUME Typed, pend # <<>>, NEW A, NEW c \in Seq(A), CallsOn(c),
           \A k \in 1 .. Len(pend) : Companion(pend[k])
    PROVE  \A k \in 1 .. Len(pend') : Companion(pend'[k])
<1>1. Top.op # "processSettings"
  <2>1. pend \in Seq(Stackable(Known, Closed))
    BY DEF Typed
  <2>2. 1 \in 1 .. Len(pend) /\ Top = pend[1]
    BY <2>1 DEF Top
  <2> QED BY <2>2 DEF Companion
<1>2. \A j \in 1 .. Len(c) : Companion(c[j])
  BY <1>1 DEF CallsOn, Plain, PlainCall, Companion
<1> QED BY <1>2, CallsMade

(* Below the top no call is one of those that only the top may be.         *)
LEMMA TailNoTop ==
    ASSUME Typed, Discipline, pend # <<>>, Tail(pend) # <<>>
    PROVE  Head(Tail(pend)).op \notin Tops
<1>1. pend \in Seq(Stackable(Known, Closed)) /\ Tail(pend) \in Seq(Stackable(Known, Closed))
  BY TopTyped DEF Typed
<1>2. 1 \in 1 .. Len(Tail(pend)) /\ 2 \in 1 .. Len(pend) /\ Head(Tail(pend)) = Tail(pend)[1]
      /\ Tail(pend)[1] = pend[2]
  BY <1>1
<1>3. Inner(Below, sc.inFrameScheduleLoop)
  BY DEF Discipline
<1> QED BY <1>2, <1>3 DEF Inner, Below

LEMMA EndNotWritten ==
    ASSUME Typed, Typed', Discipline, pend # <<>>, NEW A, NEW c \in Seq(A), CallsOn(c),
           NEW id \in Ids, Stuck(id), ~EndWritten(id)
    PROVE  ~EndWritten(id)'
<1> SUFFICES ASSUME EndWritten(id)' PROVE FALSE
  OBVIOUS
<1>1. PICK p : p = Head(pend')
  OBVIOUS
<1>2. pend' # <<>> /\ p.op = "wroteFrame" /\ writeEndsStream(p.wr) /\ p.wr.id = id
  BY <1>1 DEF EndWritten, OnTop, Top
<1>3. pend' # pend
  BY DEF EndWritten, OnTop, Top
<1>4. pend' # Tail(pend)
  BY <1>1, <1>2, TailNoTop DEF Tops
<1>5. c # <<>> /\ PlainCall(p)
  BY <1>1, <1>3, <1>4, CallsMade DEF CallsOn, Plain
<1>6. p.wr.kind \in Bodies
  BY <1>2 DEF writeEndsStream, Bodies
<1>7. PICK i \in Ids \union {0} : LoopPop(i)
  BY <1>2, <1>5, <1>6 DEF PlainCall
<1>8. PICK wr : wr = Consumed(Head(q[i]))
  OBVIOUS
<1>9. i \in ReadyQueues /\ \E s : startFrameWrite(s, wr)
  BY <1>7, <1>8, Zenon DEF LoopPop
<1>10. pend' = <<OpOn("wroteFrame", wr)>> \o pend
  BY <1>3, <1>4, <1>9 DEF startFrameWrite
<1>11. p.wr = wr
  <2>1. PICK r : r = OpOn("wroteFrame", wr)
    OBVIOUS
  <2>2. pend \in Seq(Stackable(Known, Closed))
    BY DEF Typed
  <2>3. pend' = <<r>> \o pend
    BY <1>10, <2>1
  <2>4. Head(<<r>> \o pend) = r
    BY <2>2
  <2> QED BY <1>1, <2>1, <2>3, <2>4, OpFields
<1>12. PICK h : h = Head(q[i])
  OBVIOUS
<1>13. h \in Queueable(i, Known) /\ wr.kind = h.kind
  BY <1>8, <1>9, <1>12, PoppedTyped
<1>14. wr.id = h.id
  BY <1>8, <1>12, <1>13 DEF Consumed, Queueable, Requests, WriteRequests
<1>15. h.id = i
  BY <1>6, <1>11, <1>13 DEF Queueable, Bodies
<1>16. i = id
  BY <1>2, <1>11, <1>14, <1>15
<1> QED BY <1>6, <1>7, <1>11, <1>12, <1>13, <1>16, StuckPopped

LEMMA HalfEndStays ==
    ASSUME Typed, Typed', Discipline, [Next]_vars, pend # <<>>, NEW id \in Ids, HalfEnd(id),
           panic = "none", Heeded, Holds(pend', "endStream", id)
    PROVE  /\ st'[id].state # "halfClosedLocal"
           /\ \A k \in 1 .. Len(pend') : Companion(pend'[k])
           /\ writer'.stage # "idle" \/ (Stuck(id)' /\ ~EndWritten(id)')
<1>1. Leaving(id) /\ (pend' = pend \/ \E A : \E c \in Seq(A) : CallsOn(c))
  BY LeavingBefore
<1>2. /\ st[id].state # "halfClosedLocal"
      /\ \A k \in 1 .. Len(pend) : Companion(pend[k])
      /\ writer.stage # "idle" \/ (Stuck(id) /\ ~EndWritten(id))
  BY <1>1 DEF HalfEnd
<1>3. st'[id].state # "halfClosedLocal"
  <2> SUFFICES ASSUME st'[id].state = "halfClosedLocal" PROVE FALSE
    OBVIOUS
  <2>1. HalfDone(id)
    BY <1>2, StreamSteps DEF Steady, Opened, Ends, Change
  <2>2. wroteFrame /\ writeEndsStream(Top.wr) /\ Top.wr.id = id
    BY <2>1 DEF HalfDone
  <2>3. OnTop("wroteFrame")
    BY <2>2, RunningTop DEF wroteFrame, OnTop
  <2> QED BY <1>2, <2>2, <2>3 DEF EndWritten, Discipline
<1>4. \A k \in 1 .. Len(pend') : Companion(pend'[k])
  BY <1>1, <1>2, CompanionsStay
<1>5. CASE writer.stage # "idle"
  <2>1. writer' = writer \/ writeFrameAsync
    BY <1>5, BusyWriter DEF SelectWrote, Parked
  <2>2. CASE writeFrameAsync
    <3>1. writer' = [writer EXCEPT !.stage = "wrote"] /\ writer \in Writers
      BY <2>2 DEF writeFrameAsync, Typed, WriterOK
    <3> QED BY <1>3, <1>4, <3>1 DEF Writers
  <2> QED BY <1>3, <1>4, <1>5, <2>1, <2>2
<1>6. CASE Stuck(id) /\ ~EndWritten(id)
  <2>1. Companion(Top)
    <3>1. pend \in Seq(Stackable(Known, Closed))
      BY DEF Typed
    <3>2. 1 \in 1 .. Len(pend) /\ Top = pend[1]
      BY <3>1 DEF Top
    <3> QED BY <1>2, <3>2
  <2>2. Stuck(id)'
    BY <1>6, <2>1, StuckKept
  <2>3. ~EndWritten(id)'
    <3>1. CASE pend' = pend
      BY <1>6, <3>1 DEF EndWritten, OnTop, Top
    <3> QED BY <1>1, <1>6, <3>1, EndNotWritten
  <2> QED BY <1>3, <1>4, <2>2, <2>3
<1> QED BY <1>2, <1>5, <1>6

LEMMA HalfEndComes ==
    ASSUME Typed, Typed', Discipline, Awake, [Next]_vars, pend = <<>>, NEW id \in Ids,
           HalfClosed(id), panic = "none", Heeded, Holds(pend', "endStream", id)
    PROVE  /\ st'[id].state # "halfClosedLocal"
           /\ \A k \in 1 .. Len(pend') : Companion(pend'[k])
           /\ writer'.stage # "idle" \/ (Stuck(id)' /\ ~EndWritten(id)')
<1>1. /\ Only(pend', Enders) /\ MayPop /\ Parked /\ Quiet
      /\ q' = q /\ writer' = writer
      /\ st[id].state = "open" \/ ~st[id].resetQueued
  BY EndPlaced
<1>2. st'[id].state # "halfClosedLocal"
  <2>1. st'[id].state = st[id].state
    BY <1>1 DEF Quiet, SameStreams, SameOn
  <2>2. ~Holds(pend, "markReset", id)
    BY DEF Holds
  <2> QED BY <1>1, <2>1, <2>2 DEF HalfClosed
<1>3. \A k \in 1 .. Len(pend') : pend'[k].op \in Enders
  BY <1>1 DEF Only
<1>4. \A k \in 1 .. Len(pend') : Companion(pend'[k])
  BY <1>3 DEF Companion, Enders
<1>5. CASE writer.stage = "idle"
  <2>1. ~sc.writingFrame
    BY <1>5, ParkedInner
  <2>2. Alert
    BY <1>1, <2>1 DEF Parked, Awake, Free
  <2>3. ReadyQueues = {}
    BY <1>1, <2>2 DEF Alert, Occurs, NothingToPop
  <2>4. q[id] = <<>> \/ ~Consumable(Head(q[id]))
    BY <2>3 DEF ReadyQueues
  <2>5. Shrink
    BY <1>1, SameShrink DEF Quiet, SameStreams, SameOn, SameSums
  <2>6. Stuck(id)'
    <3>1. CASE q[id] = <<>>
      BY <1>1, <3>1 DEF Stuck, Bare
    <3>2. CASE q[id] # <<>>
      BY <1>1, <2>4, <2>5, <3>2, HeadWaits
    <3> QED BY <3>1, <3>2
  <2>7. ~EndWritten(id)'
    <3>1. pend' \in Seq(Stackable(Known, Closed)')
      BY DEF Typed
    <3>2. pend' # <<>> => 1 \in 1 .. Len(pend') /\ Head(pend') = pend'[1]
      BY <3>1
    <3> QED BY <1>3, <3>2 DEF EndWritten, OnTop, Top, Enders
  <2> QED BY <1>2, <1>4, <2>6, <2>7
<1> QED BY <1>1, <1>2, <1>4, <1>5

LEMMA HalfEndKept ==
    ASSUME Typed, Typed', Discipline, Awake, [Next]_vars, NEW id \in Ids, HalfClosed(id), HalfEnd(id)
    PROVE  HalfEnd(id)'
<1> SUFFICES ASSUME panic' = "none", Heeded', Leaving(id)'
             PROVE  /\ st'[id].state # "halfClosedLocal"
                    /\ \A k \in 1 .. Len(pend') : Companion(pend'[k])
                    /\ writer'.stage # "idle" \/ (Stuck(id)' /\ ~EndWritten(id)')
  BY DEF HalfEnd
<1>1. panic = "none"
  BY DeadStops DEF vars
<1>2. Heeded
  BY HeededBefore DEF Awake
<1>3. Holds(pend', "endStream", id)
  BY DEF Leaving
<1> QED BY <1>1, <1>2, <1>3, HalfEndStays, HalfEndComes

-------------------------------------------------------------------------------
EndMarks == {"headersEnd", "dataEnd"}

(* END_STREAM has been started on a stream.                                *)
EndSent(id) == \E k \in 1 .. Len(sent[id]) : sent[id][k] \in EndMarks

(* END_STREAM is being written, or has been and closeStream comes next.    *)
Ending(id) ==
    \/ writer.stage # "idle" /\ writeEndsStream(writer.wr) /\ writer.wr.id = id
    \/ EndWritten(id)
    \/ OnTop("closeStream") /\ Top.id = id

LastEnd(id) ==
    Heeded =>
        /\ \A i, j \in 1 .. Len(sent[id]) :
             i < j /\ sent[id][i] \in EndMarks => sent[id][j] \in {"rst", "windowUpdate"}
        /\ panic = "none" /\ EndSent(id) =>
             st[id].state \in {"halfClosedLocal", "closed"} \/ (InMap(id) /\ Ending(id))

LEMMA EndingKept ==
    ASSUME Typed, Discipline, [Next]_vars, panic' = "none", NEW id \in Ids, InMap(id), InMap(id)',
           Ending(id)
    PROVE  Ending(id)' \/ st'[id].state = "halfClosedLocal"
<1>1. StackStep
  BY StackSteps
<1>2. CASE writer.stage # "idle" /\ writeEndsStream(writer.wr) /\ writer.wr.id = id
  <2>1. CASE writeFrameAsync
    <3>1. writer' = [writer EXCEPT !.stage = "wrote"] /\ writer \in Writers
      BY <2>1 DEF writeFrameAsync, Typed, WriterOK
    <3>2. writer'.stage = "wrote" /\ writer'.wr = writer.wr
      BY <3>1 DEF Writers
    <3> QED BY <1>2, <3>2 DEF Ending
  <2>2. CASE SelectWrote
    <3>1. PICK p, r : p = OpOn("wroteFrame", writer.wr) /\ r = Op("iter", 0, 0)
      OBVIOUS
    <3>2. pend' = <<p, r>>
      BY <2>2, <3>1 DEF SelectWrote
    <3>3. pend' # <<>> /\ Head(pend') = p
      BY <3>2
    <3>4. p.op = "wroteFrame" /\ p.wr = writer.wr
      BY <3>1 DEF OpOn, Op
    <3> QED BY <1>2, <3>3, <3>4 DEF Ending, EndWritten, OnTop, Top
  <2>3. CASE writer' = writer
    BY <1>2, <2>3 DEF Ending
  <2> QED BY <1>2, <2>1, <2>2, <2>3, BusyWriter
<1>3. CASE EndWritten(id) /\ pend' # pend
  <2>1. wroteFrame /\ pend # <<>>
    BY <1>1, <1>3 DEF StackStep, EndWritten, OnTop
  <2>2. sc.writingFrame
    BY <1>3 DEF Discipline, EndWritten
  <2>3. PICK wr, r : wr = Top.wr /\ r = OpOn("reply", wr)
    OBVIOUS
  <2>4. writeEndsStream(wr) /\ wr.id = id
    BY <1>3, <2>3 DEF EndWritten
  <2>5. /\ st' = [st EXCEPT ![id].state = AfterEndStream(@)]
        /\ pend' = WroteCalls(wr) \o <<r>> \o Tail(pend)
    BY <2>1, <2>2, <2>3, <2>4 DEF wroteFrame
  <2>6. st'[id].state = AfterEndStream(st[id].state)
    BY <2>5 DEF Typed, StreamObjects
  <2>7. CASE st[id].state # "halfClosedRemote"
    BY <2>6, <2>7 DEF AfterEndStream, InMap, Live
  <2>8. CASE st[id].state = "halfClosedRemote"
    <3>1. PICK p : p = Op("closeStream", id, 0)
      OBVIOUS
    <3>2. WroteCalls(wr) = <<p>>
      BY <2>4, <2>8, <3>1 DEF WroteCalls
    <3>3. PICK s \in Seq(Stackable(Known, Closed)) : s = Tail(pend)
      BY <2>1, TopTyped
    <3>4. pend' = <<p>> \o <<r>> \o s
      BY <2>5, <3>2, <3>3
    <3>5. pend' # <<>> /\ Head(pend') = p
      BY <3>4
    <3>6. p.op = "closeStream" /\ p.id = id
      BY <3>1, OpFields
    <3> QED BY <3>5, <3>6 DEF Ending, OnTop, Top
  <2> QED BY <2>7, <2>8
<1>4. CASE OnTop("closeStream") /\ Top.id = id /\ pend' # pend
  <2>1. closeStream
    BY <1>1, <1>4 DEF StackStep, OnTop
  <2>2. CASE ClosePanic(id) # "none"
    BY <1>4, <2>1, <2>2 DEF closeStream, Panic
  <2>3. CASE ClosePanic(id) = "none"
    <3>1. st' = [st EXCEPT ![id] = [st[id] EXCEPT !.state = "closed"]]
      BY <1>4, <2>1, <2>3 DEF closeStream
    <3>2. st'[id].state = "closed"
      BY <3>1 DEF Typed, StreamObjects
    <3> QED BY <3>2 DEF InMap, Live
  <2> QED BY <2>2, <2>3
<1>5. CASE pend' = pend /\ (EndWritten(id) \/ (OnTop("closeStream") /\ Top.id = id))
  BY <1>5 DEF Ending, EndWritten, OnTop, Top
<1> QED BY <1>2, <1>3, <1>4, <1>5 DEF Ending

(* Once this side has ended it, a stream can only be closed.               *)
LEMMA EndedStays ==
    ASSUME Typed, Discipline, [Next]_vars, NEW id \in Ids, HalfEnd(id), panic = "none", Heeded
    PROVE  /\ st[id].state \in {"halfClosedLocal", "closed"} =>
                st'[id].state \in {"halfClosedLocal", "closed"}
           /\ InMap(id) => InMap(id)' \/ st'[id].state = "closed"
<1>1. Steady \/ \E i \in Ids : Opened(i) \/ Ends(i)
  BY StreamSteps
<1>2. CASE endStream /\ Top.id = id
  <2>1. pend # <<>> /\ Top.op = "endStream"
    BY <1>2, RunningTop DEF endStream
  <2>2. pend \in Seq(Stackable(Known, Closed))
    BY DEF Typed
  <2>3. 1 \in 1 .. Len(pend) /\ Top = pend[1]
    BY <2>1, <2>2 DEF Top
  <2>4. Leaving(id)
    BY <1>2, <2>1, <2>3 DEF Leaving, Holds
  <2>5. st[id].state # "halfClosedLocal"
    BY <2>4 DEF HalfEnd
  <2> QED BY <1>1, <2>5 DEF Steady, HalfDone, Opened, Ends, Change, InMap, Live
<1>3. CASE ~(endStream /\ Top.id = id)
  BY <1>1, <1>3 DEF Steady, HalfDone, Opened, Ends, Change, InMap, Live
<1> QED BY <1>2, <1>3

LEMMA LastEndKept ==
    ASSUME Typed, Discipline, Awake, [Next]_vars, NEW id \in Ids, HalfEnd(id), LastEnd(id)
    PROVE  LastEnd(id)'
<1> SUFFICES ASSUME Heeded' PROVE LastEnd(id)'
  BY DEF LastEnd
<1>1. Heeded
  BY HeededBefore DEF Awake
<1>2. /\ \A i, j \in 1 .. Len(sent[id]) :
           i < j /\ sent[id][i] \in EndMarks => sent[id][j] \in {"rst", "windowUpdate"}
      /\ panic = "none" /\ EndSent(id) =>
           st[id].state \in {"halfClosedLocal", "closed"} \/ (InMap(id) /\ Ending(id))
  BY <1>1 DEF LastEnd
<1>3. panic = "none" =>
        /\ st[id].state \in {"halfClosedLocal", "closed"} =>
             st'[id].state \in {"halfClosedLocal", "closed"}
        /\ InMap(id) => InMap(id)' \/ st'[id].state = "closed"
  BY <1>1, EndedStays
<1>4. CASE panic # "none"
  <2>1. UNCHANGED vars
    BY <1>4, DeadStops
  <2>2. sent' = sent /\ panic' # "none"
    BY <1>4, <2>1 DEF vars
  <2> QED BY <1>2, <2>2 DEF LastEnd
<1>5. CASE panic = "none" /\ sent'[id] = sent[id]
  <2>1. ASSUME panic' = "none", EndSent(id)
        PROVE  st'[id].state \in {"halfClosedLocal", "closed"} \/ (InMap(id)' /\ Ending(id)')
    <3>1. st[id].state \in {"halfClosedLocal", "closed"} \/ (InMap(id) /\ Ending(id))
      BY <1>2, <1>5, <2>1
    <3> QED BY <1>3, <1>5, <2>1, <3>1, EndingKept
  <2>2. EndSent(id)' <=> EndSent(id)
    BY <1>5 DEF EndSent
  <2>3. \A i, j \in 1 .. Len(sent'[id]) :
          i < j /\ sent'[id][i] \in EndMarks => sent'[id][j] \in {"rst", "windowUpdate"}
    BY <1>2, <1>5
  <2> QED BY <2>1, <2>2, <2>3 DEF LastEnd
<1>6. CASE panic = "none" /\ sent'[id] # sent[id]
  <2>1. QueueStep
    BY QueueSteps
  <2>2. PICK i \in Ids \union {0} : LoopPop(i)
    BY <1>6, <2>1 DEF QueueStep, Adds, closeRest
  <2>3. PICK wr \in Requests(Known) :
             /\ wr.id \in Ids /\ StartPanic(wr) = "none"
             /\ sent' = [sent EXCEPT ![wr.id] = Append(sent[wr.id], Mark(wr))]
             /\ pend' = <<OpOn("wroteFrame", wr)>> \o pend
                  \/ writer' = [stage |-> "writing", wr |-> wr]
    BY <1>6, <2>2, PopStarts
  <2>4. sent \in [Ids -> Seq(Marks)] /\ pend \in Seq(Stackable(Known, Closed))
    BY DEF Typed
  <2>5. wr.id = id
    BY <1>6, <2>3, <2>4
  <2>6. PICK u \in Seq(Marks) : u = sent[id]
    BY <2>4
  <2>7. PICK m : m = Mark(wr)
    OBVIOUS
  <2>8. sent'[id] = Append(u, m)
    BY <2>3, <2>4, <2>5, <2>6, <2>7
  <2>9. PICK t : t = sent'[id]
    OBVIOUS
  <2>10. /\ Len(t) = Len(u) + 1 /\ Len(u) \in Nat /\ t[Len(u) + 1] = m
         /\ \A k \in 1 .. Len(u) : t[k] = u[k]
    <3>1. PICK T : T = Marks \union {m}
      OBVIOUS
    <3>2. u \in Seq(T) /\ m \in T
      BY <3>1
    <3> QED BY <2>8, <2>9, <3>2, AppendOne
  <2>11. Running("loop")
    BY <2>2 DEF LoopPop
  <2>12. ~Ending(id)
    <3>1. pend # <<>> /\ Top.op = "loop" /\ writer.stage = "idle"
      BY <2>11, RunningTop, LoopNotBusy
    <3> QED BY <3>1 DEF Ending, EndWritten, OnTop
  <2>13. ASSUME EndSent(id)
         PROVE  m \in {"rst", "windowUpdate"} /\ st[id].state \in {"halfClosedLocal", "closed"}
    <3>1. st[id].state \in {"halfClosedLocal", "closed"}
      BY <1>2, <1>6, <2>12, <2>13
    <3>2. wr.kind = "rst" \/ wr.kind = "windowUpdate"
      <4>1. ~HasStream(wr) \/ wr.kind = "windowUpdate"
        BY <2>3, <2>5, <3>1 DEF StartPanic
      <4> QED BY <2>5, <4>1, IdsFacts DEF HasStream
    <3> QED BY <2>5, <2>7, <3>1, <3>2 DEF Mark, writeEndsStream
  <2>14. \A a, j \in 1 .. Len(t) :
           a < j /\ t[a] \in EndMarks => t[j] \in {"rst", "windowUpdate"}
    <3> SUFFICES ASSUME NEW a \in 1 .. Len(t), NEW b \in 1 .. Len(t), a < b, t[a] \in EndMarks
                 PROVE  t[b] \in {"rst", "windowUpdate"}
      OBVIOUS
    <3>1. a \in 1 .. Len(u) /\ u[a] \in EndMarks
      BY <2>10
    <3>2. m \in {"rst", "windowUpdate"}
      BY <2>6, <2>13, <3>1 DEF EndSent
    <3>3. CASE b \in 1 .. Len(u)
      BY <1>2, <2>6, <2>10, <3>1, <3>3
    <3>4. CASE b = Len(u) + 1
      BY <2>10, <3>2, <3>4
    <3> QED BY <2>10, <3>3, <3>4
  <2>15. ASSUME EndSent(id)' PROVE EndSent(id) \/ m \in EndMarks
    <3>1. PICK k \in 1 .. Len(t) : t[k] \in EndMarks
      BY <2>9, <2>15 DEF EndSent
    <3>2. CASE k \in 1 .. Len(u)
      BY <2>6, <2>10, <3>1, <3>2 DEF EndSent
    <3> QED BY <2>10, <3>1, <3>2
  <2>16. ASSUME m \in EndMarks PROVE (InMap(id)' /\ Ending(id)') \/ st'[id].state = "closed"
    <3>1. writeEndsStream(wr)
      <4>1. m # "stray" /\ m \notin Kinds /\ wr.kind \in Kinds
        BY <2>16 DEF EndMarks, Kinds, Requests, WriteRequests
      <4> QED BY <2>5, <2>7, <4>1 DEF Mark
    <3>2. HasStream(wr)
      BY <2>5, <3>1, IdsFacts DEF HasStream, writeEndsStream
    <3>3. st[id].state \in StreamStates /\ st[id].state # "idle"
      BY <2>5, <3>2 DEF Typed, StreamObjects, Requests, Known
    <3>4. InMap(id)
      BY <2>3, <2>5, <3>1, <3>2, <3>3 DEF StartPanic, writeEndsStream, StreamStates, InMap, Live
    <3>5. CASE writer' = [stage |-> "writing", wr |-> wr]
      BY <1>3, <1>6, <2>5, <3>1, <3>4, <3>5 DEF Ending
    <3>6. CASE pend' = <<OpOn("wroteFrame", wr)>> \o pend
      <4>1. PICK p : p = OpOn("wroteFrame", wr)
        OBVIOUS
      <4>2. pend' # <<>> /\ Head(pend') = p
        BY <2>4, <3>6, <4>1
      <4>3. p.op = "wroteFrame" /\ p.wr = wr
        BY <4>1 DEF OpOn, Op
      <4>4. Ending(id)'
        BY <2>5, <3>1, <4>2, <4>3 DEF Ending, EndWritten, OnTop, Top
      <4> QED BY <1>3, <1>6, <3>4, <4>4
    <3> QED BY <2>3, <3>5, <3>6
  <2>17. EndSent(id)' => st'[id].state \in {"halfClosedLocal", "closed"} \/ (InMap(id)' /\ Ending(id)')
    BY <1>3, <1>6, <2>13, <2>15, <2>16
  <2> QED BY <2>9, <2>14, <2>17 DEF LastEnd
<1> QED BY <1>4, <1>5, <1>6

-------------------------------------------------------------------------------
Finale == \A id \in Ids : HalfClosed(id) /\ HalfEnd(id) /\ LastEnd(id)

(* After END_STREAM nothing but RST_STREAM and WINDOW_UPDATE is started on *)
(* a stream, unless goAway dropped a connection error.  wroteFrame takes   *)
(* the stream from open to halfClosedLocal, and to closed from             *)
(* halfClosedRemote; DATA or trailers that end the peer's side meanwhile   *)
(* cannot let a second END_STREAM pass, as none can be started before      *)
(* endStream has been called.                                              *)
THEOREM NothingFollowsEnd == Spec => [](Heeded => EndIsLast)
<1>1. Init => Awake /\ Finale
  <2> SUFFICES ASSUME Init PROVE Awake /\ Finale
    OBVIOUS
  <2>1. Awake
    BY InitAwake
  <2>2. PICK h : h = Op("handshake", 0, 0)
    OBVIOUS
  <2>3. pend = <<h>> /\ h.op = "handshake"
    BY <2>2, OpFields DEF Init
  <2>4. \A id \in Ids : ~Leaving(id)
    BY <2>3 DEF Leaving, Holds
  <2>5. \A id \in Ids : sent[id] = <<>> /\ st[id].state = "idle"
    BY DEF Init, NoStream
  <2> QED BY <2>1, <2>4, <2>5 DEF Finale, HalfClosed, HalfEnd, LastEnd, EndSent
<1>2. Typed /\ Typed' /\ Discipline /\ Awake /\ Finale /\ [Next]_vars => Awake' /\ Finale'
  BY AwakeKept, HalfClosedKept, HalfEndKept, LastEndKept DEF Finale
<1>3. Typed /\ Finale => (Heeded => EndIsLast)
  <2> SUFFICES ASSUME Typed, Finale, Heeded, NEW id \in Ids
               PROVE  \A i, j \in DOMAIN sent[id] : i < j /\ sent[id][i] \in {"headersEnd", "dataEnd"} =>
                          sent[id][j] \in {"rst", "windowUpdate"}
    BY DEF EndIsLast
  <2>1. DOMAIN sent[id] = 1 .. Len(sent[id])
    BY DEF Typed
  <2> QED BY <2>1 DEF Finale, LastEnd, EndMarks
<1> QED BY <1>1, <1>2, <1>3, TypedHolds, DisciplineHolds, PTL DEF Spec

===============================================================================
