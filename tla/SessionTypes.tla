------------------------------ MODULE SessionTypes -----------------------------
(***************************************************************************)
(* Type correctness of Session, for every script, every peer and every     *)
(* configuration.                                                          *)
(*                                                                         *)
(* TypeOK is not inductive: that the bytes of a DATA frame stay a natural  *)
(* number when Consume splits it needs that no DATA frame is ever queued   *)
(* for the root, hence that only RST_STREAM is queued for a stream that    *)
(* does not exist, hence that every frame under way - in a channel, on     *)
(* serve's stack, in a queue, with the writer - names a stream that was    *)
(* created.  Typed says so; the other proofs about Session start from it.  *)
(***************************************************************************)
EXTENDS Session, TLAPS

(* The streams that have been created.                                     *)
Known == {id \in Ids : st[id].state # "idle"}

(* Frames: those that need a stream have one, of K unless RST_STREAM.      *)
Requests(K) ==
    {wr \in WriteRequests :
        /\ wr.kind \in {"headers", "data", "rst"} => wr.id # 0
        /\ wr.kind \notin {"headers", "data", "rst", "windowUpdate"} => wr.id = 0
        /\ HasStream(wr) => wr.id \in K}

(* What may be in the queue i: the root has no frame but RST_STREAM of a   *)
(* stream.                                                                 *)
Queueable(i, K) == {wr \in Requests(K) : wr.id = i \/ (i = 0 /\ wr.kind = "rst")}

(* The streams that closeStream has marked closed.                         *)
Closed == {id \in Ids : st[id].state = "closed"}

(* What may be on serve's stack, if K are the streams that were created    *)
(* and D those that are closed.                                            *)
Stackable(K, D) ==
    {p \in Pending :
        /\ p.wr \in Requests(K)
        /\ p.op \in {"closeStream", "closeRest", "endStream", "handOver"} => p.id \in K
        /\ p.op = "closeRest" => p.id \in D
        /\ p.op = "markReset" => p.id # 0
        /\ p.op = "sendWindowUpdate" => p.id \in K \union {0}
        /\ p.op \in {"refuse", "handOver"} => p.n \in Calls}

GoodMessages == {m \in Messages : m.m = "open" => m.c \in Calls}

QueuesOK(queues, K) ==
    /\ queues \in [Ids \union {0} -> Seq(WriteRequests)]
    /\ \A i \in Ids \union {0} : queues[i] \in Seq(Queueable(i, K))

WriterOK(w, K) == w \in Writers /\ w.wr \in Requests(K)

CallsOK(calls, K) ==
    /\ calls \in [Calls -> CallStates]
    /\ \A c \in Calls : calls[c].stage \in {"replying", "sending"} => calls[c].id \in K

(* Who holds a stream holds one that was created; identifiers are at most  *)
(* the highest one used; cw is closed only when the stream is.             *)
StreamsOK ==
    \A id \in Ids :
        /\ st[id].held => id \in Known
        /\ id \in Known => id <= MaxStreamID(id)
        /\ st[id].cw => st[id].state = "closed"

Typed ==
    /\ sc \in Sessions
    /\ st \in [Ids -> StreamObjects]
    /\ QueuesOK(q, Known)
    /\ pend \in Seq(Stackable(Known, Closed))
    /\ WriterOK(writer, Known)
    /\ reader \in FrameReaders
    /\ want \in Seq(Requests(Known))
    /\ msgs \in Seq(GoodMessages)
    /\ CallsOK(call, Known)
    /\ life \in Lives
    /\ sent \in [Ids -> Seq(Marks)]
    /\ peerLeft \in Nat
    /\ StreamsOK

-------------------------------------------------------------------------------
(* More streams allow more frames.                                         *)
LEMMA RequestsMono ==
    ASSUME NEW K, NEW L, K \subseteq L, NEW D, NEW E, D \subseteq E
    PROVE  /\ Requests(K) \subseteq Requests(L)
           /\ \A i : Queueable(i, K) \subseteq Queueable(i, L)
           /\ Stackable(K, D) \subseteq Stackable(L, E)
<1>1. Requests(K) \subseteq Requests(L)
  BY DEF Requests
<1>2. \A i : Queueable(i, K) \subseteq Queueable(i, L)
  BY <1>1 DEF Queueable
<1>3. Stackable(K, D) \subseteq Stackable(L, E)
  BY <1>1 DEF Stackable
<1> QED BY <1>1, <1>2, <1>3

LEMMA SequencesMono ==
    ASSUME NEW K, NEW L, K \subseteq L, NEW D, NEW E, D \subseteq E
    PROVE  /\ Seq(Requests(K)) \subseteq Seq(Requests(L))
           /\ Seq(Stackable(K, D)) \subseteq Seq(Stackable(L, E))
           /\ \A queues : QueuesOK(queues, K) => QueuesOK(queues, L)
           /\ \A w : WriterOK(w, K) => WriterOK(w, L)
           /\ \A calls : CallsOK(calls, K) => CallsOK(calls, L)
<1>1. /\ Requests(K) \subseteq Requests(L) /\ Stackable(K, D) \subseteq Stackable(L, E)
      /\ \A i : Queueable(i, K) \subseteq Queueable(i, L)
  BY RequestsMono
<1>2. Seq(Requests(K)) \subseteq Seq(Requests(L))
  BY <1>1
<1>3. Seq(Stackable(K, D)) \subseteq Seq(Stackable(L, E))
  BY <1>1
<1>4. \A i : Seq(Queueable(i, K)) \subseteq Seq(Queueable(i, L))
  BY <1>1
<1>5. \A queues : QueuesOK(queues, K) => QueuesOK(queues, L)
  BY <1>4 DEF QueuesOK
<1> QED BY <1>1, <1>2, <1>3, <1>5 DEF WriterOK, CallsOK

(* Typed does not mention panic; what a step leaves alone stays typed.     *)
LEMMA TypedKept ==
    ASSUME Typed, Known \subseteq Known', Closed \subseteq Closed',
           sc' \in Sessions, st' \in [Ids -> StreamObjects], StreamsOK',
           q' = q \/ QueuesOK(q', Known'),
           pend' = pend \/ pend' \in Seq(Stackable(Known', Closed')),
           writer' = writer \/ WriterOK(writer', Known'),
           reader' = reader \/ reader' \in FrameReaders,
           want' = want \/ want' \in Seq(Requests(Known')),
           msgs' = msgs \/ msgs' \in Seq(GoodMessages),
           call' = call \/ CallsOK(call', Known'),
           life' = life \/ life' \in Lives,
           sent' = sent \/ sent' \in [Ids -> Seq(Marks)],
           peerLeft' = peerLeft \/ peerLeft' \in Nat
    PROVE  Typed'
<1>1. /\ Seq(Requests(Known)) \subseteq Seq(Requests(Known'))
      /\ Seq(Stackable(Known, Closed)) \subseteq Seq(Stackable(Known', Closed'))
      /\ \A queues : QueuesOK(queues, Known) => QueuesOK(queues, Known')
      /\ \A w : WriterOK(w, Known) => WriterOK(w, Known')
      /\ \A calls : CallsOK(calls, Known) => CallsOK(calls, Known')
  BY SequencesMono
<1> QED BY <1>1 DEF Typed

(* A step that leaves the streams alone.                                   *)
LEMMA TypedSameStreams ==
    ASSUME Typed, st' = st,
           sc' \in Sessions,
           sc'.maxClientStreamID = sc.maxClientStreamID,
           sc'.maxPushPromiseID = sc.maxPushPromiseID
    PROVE  Known' = Known /\ Closed' = Closed /\ st' \in [Ids -> StreamObjects] /\ StreamsOK'
BY DEF Typed, Known, Closed, StreamsOK, MaxStreamID

-------------------------------------------------------------------------------
(* Frames and calls that the handlers make up.                             *)
LEMMA IdsFacts == /\ \A id \in Ids : id # 0 /\ id \in 0 .. StreamIDLimit - 1
                  /\ 0 \in 0 .. StreamIDLimit - 1 /\ 0 \notin Ids
                  /\ \A i \in 0 .. StreamIDLimit - 1 : i # 0 => i \in Ids
BY SessionAssumption DEF Ids

LEMMA ControlTyped ==
    ASSUME NEW K, NEW kind \in {"settings", "settingsAck", "goAway", "ping", "flush"}
    PROVE  Control(kind) \in Requests(K)
BY IdsFacts DEF Control, WR, Requests, WriteRequests, Kinds, HasStream

LEMMA FrameTyped ==
    ASSUME NEW K, K \subseteq Ids, NEW id \in K, NEW kind \in {"headers", "data", "windowUpdate"},
           NEW n \in Nat, NEW end \in BOOLEAN, NEW by \in Calls \union {Nobody}
    PROVE  WR(kind, id, n, end, by) \in Requests(K)
BY IdsFacts DEF WR, Requests, WriteRequests, Kinds, HasStream

LEMMA ConnWindowUpdateTyped ==
    ASSUME NEW K, NEW n \in Nat
    PROVE  WR("windowUpdate", 0, n, FALSE, Nobody) \in Requests(K)
BY IdsFacts DEF WR, Requests, WriteRequests, Kinds, HasStream

LEMMA ResetTyped ==
    ASSUME NEW K, NEW id \in Ids
    PROVE  WR("rst", id, 0, FALSE, Nobody) \in Requests(K)
BY IdsFacts DEF WR, Requests, WriteRequests, Kinds, HasStream

(* Calls without arguments, with a stream, and with a frame.               *)
PlainOps == {"handshake", "startReader", "loop", "processSettings", "goAwayNo", "goAwayErr",
             "readMore", "iter", "exit", "closeAll"}

LEMMA OpTyped ==
    ASSUME NEW K, NEW D, NEW op \in PlainOps
    PROVE  Op(op, 0, 0) \in Stackable(K, D)
<1>1. Control("flush") \in Requests(K)
  BY ControlTyped
<1>2. Control("flush") \in WriteRequests /\ <<>> \in Seq(Settings)
  BY <1>1 DEF Requests
<1>3. Op(op, 0, 0) \in Pending
  BY <1>2, IdsFacts DEF Op, Pending, Ops, PlainOps
<1> QED BY <1>1, <1>3 DEF Op, Stackable, PlainOps

LEMMA StreamOpTyped ==
    ASSUME NEW K, NEW D, K \subseteq Ids, NEW id \in K, NEW n \in Nat,
           NEW op \in {"closeStream", "closeRest", "endStream", "sendWindowUpdate"},
           op = "closeRest" => id \in D
    PROVE  Op(op, id, n) \in Stackable(K, D)
<1>1. Control("flush") \in Requests(K)
  BY ControlTyped
<1>2. Control("flush") \in WriteRequests /\ <<>> \in Seq(Settings)
  BY <1>1 DEF Requests
<1>3. Op(op, id, n) \in Pending
  BY <1>2, IdsFacts DEF Op, Pending, Ops
<1> QED BY <1>1, <1>3 DEF Op, Stackable

LEMMA ConnRefundTyped ==
    ASSUME NEW K, NEW D, NEW n \in Nat
    PROVE  Op("sendWindowUpdate", 0, n) \in Stackable(K, D)
<1>1. Control("flush") \in Requests(K)
  BY ControlTyped
<1>2. Control("flush") \in WriteRequests /\ <<>> \in Seq(Settings)
  BY <1>1 DEF Requests
<1>3. Op("sendWindowUpdate", 0, n) \in Pending
  BY <1>2, IdsFacts DEF Op, Pending, Ops
<1> QED BY <1>1, <1>3 DEF Op, Stackable

LEMMA CallOpTyped ==
    ASSUME NEW K, NEW D, K \subseteq Ids, NEW c \in Calls
    PROVE  /\ Op("refuse", 0, c) \in Stackable(K, D)
           /\ \A id \in K : Op("handOver", id, c) \in Stackable(K, D)
<1>1. Control("flush") \in Requests(K)
  BY ControlTyped
<1>2. Control("flush") \in WriteRequests /\ <<>> \in Seq(Settings) /\ c \in Nat
  BY <1>1, SessionAssumption DEF Requests
<1>3. /\ Op("refuse", 0, c) \in Pending
      /\ \A id \in K : Op("handOver", id, c) \in Pending
  BY <1>2, IdsFacts DEF Op, Pending, Ops
<1> QED BY <1>1, <1>3 DEF Op, Stackable

LEMMA OpOnTyped ==
    ASSUME NEW K, NEW D, NEW wr \in Requests(K), NEW op \in {"writeFrame", "wroteFrame", "reply"}
    PROVE  OpOn(op, wr) \in Stackable(K, D)
<1>1. wr \in WriteRequests /\ <<>> \in Seq(Settings)
  BY DEF Requests
<1>2. OpOn(op, wr) = [op |-> op, id |-> 0, n |-> 0, wr |-> wr, set |-> <<>>]
  BY DEF OpOn, Op
<1>3. OpOn(op, wr) \in Pending
  BY <1>1, <1>2, IdsFacts DEF Pending, Ops
<1> QED BY <1>2, <1>3 DEF Stackable

LEMMA ResetStreamTyped ==
    ASSUME NEW K, NEW D, NEW id \in Ids
    PROVE  resetStream(id) \in Seq(Stackable(K, D))
<1> DEFINE first == OpOn("writeFrame", WR("rst", id, 0, FALSE, Nobody))
           second == Op("markReset", id, 0)
<1>1. first \in Stackable(K, D)
  BY ResetTyped, OpOnTyped
<1>2. second \in Stackable(K, D)
  <2>1. Control("flush") \in Requests(K)
    BY ControlTyped
  <2>2. Control("flush") \in WriteRequests /\ <<>> \in Seq(Settings)
    BY <2>1 DEF Requests
  <2>3. second \in Pending
    BY <2>2, IdsFacts DEF Op, Pending, Ops
  <2> QED BY <2>1, <2>3, IdsFacts DEF Op, Stackable
<1>3. resetStream(id) = <<first, second>>
  BY DEF resetStream
<1> HIDE DEF first, second
<1> QED BY <1>1, <1>2, <1>3

-------------------------------------------------------------------------------
(* scheduleFrameWrite, Push and startFrameWrite.                           *)
LEMMA ScheduleTyped ==
    ASSUME NEW s \in Sessions, NEW K, NEW D, NEW rest \in Seq(Stackable(K, D)),
           ScheduleFrameWrite(s, rest)
    PROVE  /\ sc' \in Sessions
           /\ sc'.maxClientStreamID = s.maxClientStreamID
           /\ sc'.maxPushPromiseID = s.maxPushPromiseID
           /\ pend' \in Seq(Stackable(K, D))
<1>1. CASE sc' = s /\ pend' = rest
  BY <1>1
<1>2. CASE /\ sc' = [s EXCEPT !.inFrameScheduleLoop = TRUE]
           /\ pend' = <<Op("loop", 0, 0)>> \o rest
  <2>1. Op("loop", 0, 0) \in Stackable(K, D)
    BY OpTyped DEF PlainOps
  <2>2. pend' \in Seq(Stackable(K, D))
    BY <1>2, <2>1
  <2> QED BY <1>2, <2>2 DEF Sessions
<1> QED BY <1>1, <1>2 DEF ScheduleFrameWrite

LEMMA PushTyped ==
    ASSUME Typed, NEW wr \in Requests(Known), Push(wr)
    PROVE  QueuesOK(q', Known)
<1>1. CASE q' = q
  BY <1>1 DEF Typed
<1>2. CASE ~IgnoreWrite(wr)
  <2>1. PICK t \in PushTargets(wr) : q' = [q EXCEPT ![t] = Append(@, wr)]
    BY <1>2 DEF Push
  <2>2. wr \in WriteRequests
    BY DEF Requests
  <2>3. wr \in Queueable(t, Known)
    <3>1. CASE t = wr.id
      BY <3>1 DEF Queueable
    <3>2. CASE t # wr.id
      <4>1. t = 0 /\ wr.id # 0 /\ ~Scheduled(wr.id)
        BY <3>2 DEF PushTargets
      <4>2. wr.id \in Ids
        BY <2>2, <4>1, IdsFacts DEF WriteRequests
      <4>3. CASE wr.kind # "rst"
        <5>1. wr.id \in Known
          BY <3>2, <4>1, <4>3 DEF Requests, HasStream
        <5>2. st[wr.id].state = "closed" /\ wr.id <= MaxStreamID(wr.id)
          BY <4>1, <4>2, <5>1 DEF Typed, StreamObjects, StreamsOK, Scheduled, Known
        <5>3. stateOf(wr.id) = "closed"
          BY <5>2 DEF stateOf, InMap, Live
        <5> QED BY <1>2, <4>1, <4>3, <5>3 DEF IgnoreWrite
      <4> QED BY <4>1, <4>3 DEF Queueable
    <3> QED BY <3>1, <3>2
  <2>4. t \in Ids \union {0}
    BY <2>2, IdsFacts DEF PushTargets, WriteRequests
  <2>5. \A i \in Ids \union {0} :
          q'[i] \in Seq(WriteRequests) /\ q'[i] \in Seq(Queueable(i, Known))
    <3> TAKE i \in Ids \union {0}
    <3>1. q \in [Ids \union {0} -> Seq(WriteRequests)] /\ q[i] \in Seq(Queueable(i, Known))
      BY DEF Typed, QueuesOK
    <3>2. CASE i = t
      <4>1. q'[i] = Append(q[i], wr)
        BY <2>1, <3>1, <3>2
      <4> QED BY <2>2, <2>3, <3>1, <3>2, <4>1
    <3>3. CASE i # t
      BY <2>1, <3>1, <3>3
    <3> QED BY <3>2, <3>3
  <2>6. q' = [i \in Ids \union {0} |-> q'[i]]
    BY <2>1 DEF Typed, QueuesOK
  <2> QED BY <2>5, <2>6 DEF QueuesOK
<1> QED BY <1>1, <1>2 DEF Push

LEMMA StartTyped ==
    ASSUME Typed, NEW s \in Sessions, NEW wr \in Requests(Known), startFrameWrite(s, wr),
           pend # <<>>
    PROVE  /\ sc' \in Sessions
           /\ sc'.maxClientStreamID = s.maxClientStreamID
           /\ sc'.maxPushPromiseID = s.maxPushPromiseID
           /\ pend' \in Seq(Stackable(Known, Closed))
           /\ WriterOK(writer', Known)
           /\ sent' \in [Ids -> Seq(Marks)]
<1>1. pend \in Seq(Stackable(Known, Closed)) /\ WriterOK(writer, Known) /\ sent \in [Ids -> Seq(Marks)]
  BY DEF Typed
<1>2. CASE StartPanic(wr) # "none"
  BY <1>1, <1>2 DEF startFrameWrite
<1>3. CASE StartPanic(wr) = "none"
  <2> DEFINE on == [s EXCEPT !.writingFrame = TRUE, !.needsFrameFlush = (wr.kind # "flush")]
  <2>1. /\ on \in Sessions
        /\ on.maxClientStreamID = s.maxClientStreamID
        /\ on.maxPushPromiseID = s.maxPushPromiseID
    BY DEF Sessions
  <2>2. /\ sent' = Sending(wr)
        /\ \/ /\ sc' = on
              /\ pend' = <<OpOn("wroteFrame", wr)>> \o pend
              /\ UNCHANGED writer
           \/ /\ sc' = [on EXCEPT !.writingFrameAsync = TRUE, !.inFrameScheduleLoop = FALSE]
              /\ pend' = Tail(pend)
              /\ writer' = [stage |-> "writing", wr |-> wr]
    BY <1>3 DEF startFrameWrite
  <2> HIDE DEF on
  <2>3. sent' \in [Ids -> Seq(Marks)]
    <3>1. CASE wr.id = 0
      BY <1>1, <2>2, <3>1 DEF Sending
    <3>2. CASE wr.id # 0
      <4>1. wr.kind \in {"headers", "data", "rst", "windowUpdate"}
        BY <3>2 DEF Requests
      <4>2. Mark(wr) \in Marks
        BY <4>1 DEF Mark, Marks, writeEndsStream
      <4>3. sent' = [sent EXCEPT ![wr.id] = Append(@, Mark(wr))]
        BY <2>2, <3>2 DEF Sending
      <4>4. \A id \in Ids : sent'[id] = IF id = wr.id THEN Append(sent[id], Mark(wr)) ELSE sent[id]
        BY <1>1, <4>3
      <4>5. \A id \in Ids : sent'[id] \in Seq(Marks)
        <5> TAKE id \in Ids
        <5>1. sent[id] \in Seq(Marks)
          BY <1>1
        <5>2. Append(sent[id], Mark(wr)) \in Seq(Marks)
          BY <4>2, <5>1
        <5> QED BY <4>4, <5>1, <5>2
      <4>6. sent' = [id \in Ids |-> sent'[id]]
        BY <1>1, <4>3
      <4> QED BY <4>5, <4>6
    <3> QED BY <3>1, <3>2
  <2>4. CASE /\ sc' = on
             /\ pend' = <<OpOn("wroteFrame", wr)>> \o pend
             /\ UNCHANGED writer
    <3>1. OpOn("wroteFrame", wr) \in Stackable(Known, Closed)
      BY OpOnTyped
    <3> QED BY <1>1, <2>1, <2>3, <2>4, <3>1
  <2>5. CASE /\ sc' = [on EXCEPT !.writingFrameAsync = TRUE, !.inFrameScheduleLoop = FALSE]
             /\ pend' = Tail(pend)
             /\ writer' = [stage |-> "writing", wr |-> wr]
    <3>1. /\ sc' \in Sessions
          /\ sc'.maxClientStreamID = on.maxClientStreamID
          /\ sc'.maxPushPromiseID = on.maxPushPromiseID
      BY <2>1, <2>5 DEF Sessions
    <3>2. WriterOK(writer', Known)
      BY <2>5 DEF WriterOK, Writers, Requests
    <3> QED BY <1>1, <2>1, <2>3, <2>5, <3>1, <3>2
  <2> QED BY <2>2, <2>4, <2>5
<1> QED BY <1>2, <1>3

-------------------------------------------------------------------------------
LEMMA TopTyped ==
    ASSUME Typed, pend # <<>>
    PROVE  /\ Top \in Stackable(Known, Closed) /\ Top \in Pending /\ Top.wr \in Requests(Known)
           /\ Tail(pend) \in Seq(Stackable(Known, Closed))
<1>1. pend \in Seq(Stackable(Known, Closed))
  BY DEF Typed
<1> QED BY <1>1 DEF Top, Stackable

LEMMA MaxStreamIDNat ==
    ASSUME NEW s \in Sessions
    PROVE  /\ s.maxClientStreamID \in Nat /\ s.maxPushPromiseID \in Nat
           /\ s.maxClientStreamID = 0 \/ s.maxClientStreamID % 2 # 0
           /\ s.maxPushPromiseID % 2 = 0
<1>1. Ids \union {0} \subseteq Nat /\ 0 % 2 = 0
  BY DEF Ids
<1>2. /\ s.maxClientStreamID \in {id \in Ids : ~isPushed(id)} \union {0}
      /\ s.maxPushPromiseID \in {id \in Ids : isPushed(id)} \union {0}
  BY DEF Sessions
<1> QED BY <1>1, <1>2 DEF isPushed

(* A step that replaces the object of one stream.                          *)
LEMMA OneStreamTyped ==
    ASSUME Typed, NEW id \in Ids, NEW r \in StreamObjects, st' = [st EXCEPT ![id] = r],
           sc' \in Sessions,
           sc'.maxClientStreamID >= sc.maxClientStreamID,
           sc'.maxPushPromiseID >= sc.maxPushPromiseID,
           id \in Known => r.state # "idle",
           id \in Closed => r.state = "closed",
           r.held => r.state # "idle",
           r.state # "idle" /\ id \notin Known => id <= MaxStreamID(id)',
           r.cw => r.state = "closed"
    PROVE  Known \subseteq Known' /\ Closed \subseteq Closed' /\ st' \in [Ids -> StreamObjects] /\ StreamsOK'
<1>1. /\ st \in [Ids -> StreamObjects]
      /\ sc.maxClientStreamID \in Nat /\ sc.maxPushPromiseID \in Nat
      /\ sc'.maxClientStreamID \in Nat /\ sc'.maxPushPromiseID \in Nat
  BY MaxStreamIDNat DEF Typed
<1>2. st' \in [Ids -> StreamObjects]
  BY <1>1
<1>3. \A i \in Ids : st'[i] = IF i = id THEN r ELSE st[i]
  BY <1>1
<1>4. Known \subseteq Known' /\ Closed \subseteq Closed'
  BY <1>3 DEF Known, Closed
<1>5. \A i \in Ids : MaxStreamID(i) <= MaxStreamID(i)'
  BY <1>1 DEF MaxStreamID
<1>6. \A i \in Ids : i \in Nat /\ MaxStreamID(i) \in Nat /\ MaxStreamID(i)' \in Nat
  BY <1>1 DEF MaxStreamID, Ids
<1>7. StreamsOK'
  <2> SUFFICES ASSUME NEW i \in Ids
               PROVE  /\ st'[i].held => st'[i].state # "idle"
                      /\ st'[i].state # "idle" => i <= MaxStreamID(i)'
                      /\ st'[i].cw => st'[i].state = "closed"
    BY DEF StreamsOK, Known
  <2>1. CASE i = id
    <3>1. id \in Known => id <= MaxStreamID(id)'
      BY <1>5, <1>6 DEF Typed, StreamsOK
    <3> QED BY <1>3, <2>1, <3>1
  <2>2. CASE i # id
    BY <1>3, <1>5, <1>6, <2>2 DEF Typed, StreamsOK, Known
  <2> QED BY <2>1, <2>2
<1> QED BY <1>2, <1>4, <1>7

(* The windows are integers.                                               *)
LEMMA AddedInt ==
    ASSUME NEW n \in Int, NEW d \in Int
    PROVE  added(n, d) \in Int
BY MaxInt32Assumption DEF added, Wrap32

LEMMA writeFrameTyped == ASSUME Typed, writeFrame PROVE Typed'
<1>1. Top.wr \in Requests(Known) /\ Tail(pend) \in Seq(Stackable(Known, Closed)) /\ sc \in Sessions
  BY TopTyped DEF writeFrame, Running, Typed
<1>2. QueuesOK(q', Known)
  BY <1>1, PushTyped DEF writeFrame
<1>3. /\ sc' \in Sessions
      /\ sc'.maxClientStreamID = sc.maxClientStreamID
      /\ sc'.maxPushPromiseID = sc.maxPushPromiseID
      /\ pend' \in Seq(Stackable(Known, Closed))
  BY <1>1, ScheduleTyped DEF writeFrame
<1>4. Known' = Known /\ Closed' = Closed /\ st' \in [Ids -> StreamObjects] /\ StreamsOK'
  BY <1>3, TypedSameStreams DEF writeFrame
<1> QED BY <1>2, <1>3, <1>4, TypedKept DEF writeFrame

(* The counters of one window move, nothing else.                          *)
LEMMA WindowFieldTyped ==
    /\ \A s \in Sessions, n \in Int : [s EXCEPT !.inflow = n] \in Sessions
    /\ \A r \in StreamObjects, n \in Int : [r EXCEPT !.inflow = n] \in StreamObjects
BY DEF Sessions, StreamObjects

LEMMA sendWindowUpdateTyped == ASSUME Typed, sendWindowUpdate PROVE Typed'
<1>1. /\ Top.id \in Known \union {0} /\ Top.n \in Nat
      /\ Tail(pend) \in Seq(Stackable(Known, Closed)) /\ sc \in Sessions
  <2>1. Top \in Stackable(Known, Closed) /\ Top \in Pending /\ Top.op = "sendWindowUpdate"
    BY TopTyped DEF sendWindowUpdate, Running, Top
  <2>2. Tail(pend) \in Seq(Stackable(Known, Closed)) /\ sc \in Sessions
    BY TopTyped DEF sendWindowUpdate, Running, Typed
  <2> QED BY <2>1, <2>2 DEF Stackable, Pending
<1>2. CASE st' = st /\ sc' = sc /\ q' = q /\ (pend' = Tail(pend) \/ pend' = pend)
  <2>1. Known' = Known /\ Closed' = Closed /\ st' \in [Ids -> StreamObjects] /\ StreamsOK'
    BY <1>1, <1>2, TypedSameStreams
  <2> QED BY <1>1, <1>2, <2>1, TypedKept DEF sendWindowUpdate
<1>3. ASSUME NEW id, id = Top.id, NEW n, n = Top.n, NEW s,
             s = IF id = 0 THEN [sc EXCEPT !.inflow = added(@, n)] ELSE sc,
             Push(WR("windowUpdate", id, n, FALSE, Nobody)),
             st' = IF id = 0 THEN st ELSE [st EXCEPT ![id].inflow = added(@, n)],
             ScheduleFrameWrite(s, Tail(pend))
      PROVE  Typed'
  <2>1. id \in Known \union {0} /\ n \in Nat /\ n \in Int /\ Known \subseteq Ids
    BY <1>1, <1>3 DEF Known
  <2>2. WR("windowUpdate", id, n, FALSE, Nobody) \in Requests(Known)
    BY <2>1, FrameTyped, ConnWindowUpdateTyped
  <2>3. QueuesOK(q', Known)
    BY <1>3, <2>2, PushTyped
  <2>4. /\ s \in Sessions
        /\ s.maxClientStreamID = sc.maxClientStreamID
        /\ s.maxPushPromiseID = sc.maxPushPromiseID
    <3>1. sc.inflow \in Int
      BY <1>1 DEF Sessions
    <3>2. added(sc.inflow, n) \in Int
      BY <2>1, <3>1, AddedInt, Zenon
    <3>3. CASE id # 0
      BY <1>1, <1>3, <3>3
    <3>4. CASE id = 0
      <4>1. s = [sc EXCEPT !.inflow = added(sc.inflow, n)]
        BY <1>3, <3>4
      <4>2. s \in Sessions
        BY <1>1, <3>2, <4>1, WindowFieldTyped
      <4> QED BY <1>1, <4>1, <4>2 DEF Sessions
    <3> QED BY <3>3, <3>4
  <2>5. /\ sc' \in Sessions
        /\ sc'.maxClientStreamID = s.maxClientStreamID
        /\ sc'.maxPushPromiseID = s.maxPushPromiseID
        /\ pend' \in Seq(Stackable(Known, Closed))
    BY <1>1, <1>3, <2>4, ScheduleTyped
  <2>6. Known \subseteq Known' /\ Closed \subseteq Closed' /\ st' \in [Ids -> StreamObjects] /\ StreamsOK'
    <3>1. CASE id = 0
      <4>1. st' = st
        BY <1>3, <3>1
      <4> QED BY <2>4, <2>5, <4>1, TypedSameStreams
    <3>2. CASE id # 0
      <4>1. id \in Ids /\ id \in Known /\ st[id] \in StreamObjects /\ st \in [Ids -> StreamObjects]
        BY <2>1, <3>2 DEF Typed
      <4>2. st[id].inflow \in Int
        BY <4>1 DEF StreamObjects
      <4>3. added(st[id].inflow, n) \in Int
        BY <2>1, <4>2, AddedInt, Zenon
      <4>4. PICK r : r = [st[id] EXCEPT !.inflow = added(st[id].inflow, n)]
        OBVIOUS
      <4>5. r \in StreamObjects
        BY <4>1, <4>3, <4>4, WindowFieldTyped
      <4>6. r.state = st[id].state /\ r.held = st[id].held /\ r.cw = st[id].cw
        BY <4>1, <4>4 DEF StreamObjects
      <4>7. st' = [st EXCEPT ![id] = r]
        BY <1>3, <3>2, <4>1, <4>4
      <4>8. /\ id \in Known => r.state # "idle"
            /\ id \in Closed => r.state = "closed"
            /\ r.cw => r.state = "closed"
        BY <4>1, <4>6 DEF Typed, StreamsOK, Known, Closed
      <4>9. /\ sc'.maxClientStreamID >= sc.maxClientStreamID
            /\ sc'.maxPushPromiseID >= sc.maxPushPromiseID
        BY <1>1, <2>4, <2>5, MaxStreamIDNat
      <4> QED BY <2>5, <4>1, <4>5, <4>7, <4>8, <4>9, OneStreamTyped
    <3> QED BY <3>1, <3>2
  <2>7. /\ QueuesOK(q', Known') /\ pend' \in Seq(Stackable(Known', Closed'))
    BY <2>3, <2>5, <2>6, SequencesMono
  <2> QED BY <2>5, <2>6, <2>7, TypedKept DEF sendWindowUpdate
<1>4. \/ st' = st /\ sc' = sc /\ q' = q /\ (pend' = Tail(pend) \/ pend' = pend)
      \/ /\ Push(WR("windowUpdate", Top.id, Top.n, FALSE, Nobody))
         /\ st' = IF Top.id = 0 THEN st ELSE [st EXCEPT ![Top.id].inflow = added(@, Top.n)]
         /\ ScheduleFrameWrite(IF Top.id = 0 THEN [sc EXCEPT !.inflow = added(@, Top.n)] ELSE sc,
                               Tail(pend))
  BY DEF sendWindowUpdate
<1> QED BY <1>2, <1>3, <1>4

(* A step that leaves the streams and the identifiers in use alone.        *)
LEMMA SameStreamsTyped ==
    ASSUME Typed, st' = st, sc' \in Sessions,
           sc'.maxClientStreamID = sc.maxClientStreamID,
           sc'.maxPushPromiseID = sc.maxPushPromiseID,
           q' = q \/ QueuesOK(q', Known),
           pend' = pend \/ pend' \in Seq(Stackable(Known, Closed)),
           writer' = writer \/ WriterOK(writer', Known),
           reader' = reader \/ reader' \in FrameReaders,
           want' = want \/ want' \in Seq(Requests(Known)),
           msgs' = msgs \/ msgs' \in Seq(GoodMessages),
           call' = call \/ CallsOK(call', Known),
           life' = life \/ life' \in Lives,
           sent' = sent \/ sent' \in [Ids -> Seq(Marks)],
           peerLeft' = peerLeft \/ peerLeft' \in Nat
    PROVE  Typed'
<1>1. Known' = Known /\ Closed' = Closed /\ st' \in [Ids -> StreamObjects] /\ StreamsOK'
  BY TypedSameStreams
<1> QED BY <1>1, TypedKept

LEMMA StartedTyped ==
    ASSUME Typed, pend # <<>>, NEW s \in Sessions, NEW wr \in Requests(Known),
           startFrameWrite(s, wr),
           s.maxClientStreamID = sc.maxClientStreamID,
           s.maxPushPromiseID = sc.maxPushPromiseID,
           UNCHANGED <<st, q, reader, want, msgs, call, life, peerLeft>>
    PROVE  Typed'
<1>1. /\ sc' \in Sessions
      /\ sc'.maxClientStreamID = s.maxClientStreamID
      /\ sc'.maxPushPromiseID = s.maxPushPromiseID
      /\ pend' \in Seq(Stackable(Known, Closed))
      /\ WriterOK(writer', Known)
      /\ sent' \in [Ids -> Seq(Marks)]
  BY StartTyped
<1> QED BY <1>1, SameStreamsTyped

LEMMA LoopGoAwayTyped == ASSUME Typed, LoopGoAway PROVE Typed'
<1>1. PICK s : s = [sc EXCEPT !.needToSendGoAway = FALSE]
  OBVIOUS
<1>2. /\ s \in Sessions
      /\ s.maxClientStreamID = sc.maxClientStreamID
      /\ s.maxPushPromiseID = sc.maxPushPromiseID
  BY <1>1 DEF Typed, Sessions
<1>3. Control("goAway") \in Requests(Known) /\ pend # <<>>
  BY ControlTyped DEF LoopGoAway, Running
<1>4. /\ startFrameWrite(s, Control("goAway"))
      /\ UNCHANGED <<st, q, reader, want, msgs, call, life, peerLeft>>
  BY <1>1 DEF LoopGoAway
<1> QED BY <1>2, <1>3, <1>4, StartedTyped

LEMMA LoopSettingsAckTyped == ASSUME Typed, LoopSettingsAck PROVE Typed'
<1>1. PICK s : s = [sc EXCEPT !.needToSendSettingsAck = FALSE]
  OBVIOUS
<1>2. /\ s \in Sessions
      /\ s.maxClientStreamID = sc.maxClientStreamID
      /\ s.maxPushPromiseID = sc.maxPushPromiseID
  BY <1>1 DEF Typed, Sessions
<1>3. Control("settingsAck") \in Requests(Known) /\ pend # <<>>
  BY ControlTyped DEF LoopSettingsAck, Running
<1>4. /\ startFrameWrite(s, Control("settingsAck"))
      /\ UNCHANGED <<st, q, reader, want, msgs, call, life, peerLeft>>
  BY <1>1 DEF LoopSettingsAck
<1> QED BY <1>2, <1>3, <1>4, StartedTyped

LEMMA LoopFlushTyped == ASSUME Typed, LoopFlush PROVE Typed'
<1>1. Control("flush") \in Requests(Known) /\ pend # <<>> /\ sc \in Sessions
  BY ControlTyped DEF LoopFlush, Running, Typed
<1>2. /\ startFrameWrite(sc, Control("flush"))
      /\ UNCHANGED <<st, q, reader, want, msgs, call, life, peerLeft>>
  BY DEF LoopFlush
<1> QED BY <1>1, <1>2, StartedTyped

LEMMA LoopExitTyped == ASSUME Typed, LoopExit PROVE Typed'
<1>1. Tail(pend) \in Seq(Stackable(Known, Closed)) /\ sc \in Sessions
  BY TopTyped DEF LoopExit, Running, Typed
<1>2. sc' = [sc EXCEPT !.inFrameScheduleLoop = FALSE]
  BY DEF LoopExit
<1>3. /\ sc' \in Sessions
      /\ sc'.maxClientStreamID = sc.maxClientStreamID
      /\ sc'.maxPushPromiseID = sc.maxPushPromiseID
  BY <1>1, <1>2 DEF Sessions
<1> QED BY <1>1, <1>3, SameStreamsTyped DEF LoopExit

(* What Consume lets through, and what it leaves, are frames; DATA waits   *)
(* in the queue of its stream.                                             *)
LEMMA AllowedInt ==
    ASSUME Typed, NEW id \in Ids
    PROVE  Allowed(id) \in Int
<1>1. sc.flow \in Int /\ sc.maxFrameSize \in Int /\ st[id].flow \in Int
  BY DEF Typed, Sessions, StreamObjects
<1> QED BY <1>1 DEF Allowed, available

LEMMA PoppedTyped ==
    ASSUME Typed, NEW i \in Ids \union {0}, i \in ReadyQueues
    PROVE  /\ q[i] \in Seq(Queueable(i, Known)) /\ q[i] # <<>>
           /\ Head(q[i]) \in Queueable(i, Known)
           /\ Consumed(Head(q[i])) \in Requests(Known)
           /\ Remaining(Head(q[i])) \in Seq(Queueable(i, Known))
           /\ Consumed(Head(q[i])).kind = Head(q[i]).kind
           /\ Head(q[i]).kind = "data" => i \in Known /\ Head(q[i]).id = i
<1>1. q[i] \in Seq(Queueable(i, Known)) /\ q[i] # <<>>
  BY DEF Typed, QueuesOK, ReadyQueues
<1>2. PICK h : h = Head(q[i])
  OBVIOUS
<1>3. h \in Queueable(i, Known) /\ h \in Requests(Known) /\ h \in WriteRequests
  BY <1>1, <1>2 DEF Queueable, Requests
<1>4. h.kind = "data" => i \in Known /\ h.id = i /\ i \in Ids
  BY <1>3, IdsFacts DEF Queueable, Requests, HasStream, Known
<1>5. CASE ~Splits(h)
  BY <1>1, <1>2, <1>3, <1>4, <1>5 DEF Consumed, Remaining
<1>6. CASE Splits(h)
  <2>1. h.kind = "data" /\ h.n > 0 /\ h.n > Allowed(i) /\ h.id = i /\ i \in Ids /\ i \in Known
    BY <1>4, <1>6 DEF Splits
  <2>2. Consumable(h)
    BY <1>2, <2>1, IdsFacts DEF ReadyQueues
  <2>3. Allowed(i) \in Int /\ Allowed(i) > 0
    BY <2>1, <2>2, AllowedInt DEF Consumable
  <2>4. PICK a : a = Allowed(i)
    OBVIOUS
  <2>5. a \in Nat /\ h.n - a \in Nat
    BY <1>3, <2>1, <2>3, <2>4 DEF WriteRequests
  <2>6. Consumed(h) = [h EXCEPT !.n = a, !.end = FALSE, !.by = Nobody]
    BY <1>6, <2>1, <2>4 DEF Consumed
  <2>7. Consumed(h) \in Requests(Known) /\ Consumed(h).kind = "data"
    BY <1>3, <2>1, <2>5, <2>6 DEF Requests, WriteRequests, HasStream
  <2>8. PICK r : r = [h EXCEPT !.n = h.n - a]
    OBVIOUS
  <2>9. r \in Queueable(i, Known)
    BY <1>3, <2>1, <2>5, <2>8 DEF Queueable, Requests, WriteRequests, HasStream
  <2>10. Remaining(h) = <<r>>
    BY <1>6, <2>1, <2>4, <2>8 DEF Remaining
  <2>11. Remaining(h) \in Seq(Queueable(i, Known))
    BY <2>9, <2>10
  <2> QED BY <1>1, <1>2, <1>3, <2>1, <2>7, <2>11
<1> QED BY <1>5, <1>6

LEMMA ChargeTyped ==
    /\ \A s \in Sessions, a \in Int, b \in Nat : [s EXCEPT !.flow = a, !.connSent = b] \in Sessions
    /\ \A r \in StreamObjects, a \in Int, b \in Nat :
         [r EXCEPT !.flow = a, !.spent = b] \in StreamObjects
BY DEF Sessions, StreamObjects

LEMMA LoopPopTyped == ASSUME Typed, NEW i \in Ids \union {0}, LoopPop(i) PROVE Typed'
<1>1. PICK wr : wr = Consumed(Head(q[i]))
  OBVIOUS
<1>2. PICK n : n = IF wr.kind = "data" THEN wr.n ELSE 0
  OBVIOUS
<1>3. PICK s : s = [sc EXCEPT !.flow = @ - n, !.connSent = @ + n]
  OBVIOUS
<1>4. /\ startFrameWrite(s, wr)
      /\ q' = [q EXCEPT ![i] = Remaining(Head(@)) \o Tail(@)]
      /\ st' = IF n = 0 THEN st
               ELSE [st EXCEPT ![i] = [@ EXCEPT !.flow = st[i].flow - n, !.spent = st[i].spent + n]]
      /\ UNCHANGED <<reader, want, msgs, call, life, peerLeft>>
      /\ i \in ReadyQueues /\ pend # <<>>
  BY <1>1, <1>2, <1>3 DEF LoopPop, Running
<1>5. /\ q[i] \in Seq(Queueable(i, Known)) /\ q[i] # <<>>
      /\ wr \in Requests(Known)
      /\ Remaining(Head(q[i])) \in Seq(Queueable(i, Known))
      /\ wr.kind = "data" => i \in Known
  BY <1>1, <1>4, PoppedTyped
<1>6. n \in Nat /\ sc \in Sessions
  BY <1>2, <1>5 DEF Requests, WriteRequests, Typed
<1>7. /\ s \in Sessions
      /\ s.maxClientStreamID = sc.maxClientStreamID
      /\ s.maxPushPromiseID = sc.maxPushPromiseID
  <2>1. sc.flow \in Int /\ sc.connSent \in Nat
    BY <1>6 DEF Sessions
  <2>2. sc.flow - n \in Int /\ sc.connSent + n \in Nat
    BY <1>6, <2>1
  <2>3. s = [sc EXCEPT !.flow = sc.flow - n, !.connSent = sc.connSent + n]
    BY <1>3
  <2>4. s \in Sessions
    BY <1>6, <2>2, <2>3, ChargeTyped
  <2> QED BY <1>6, <2>3, <2>4 DEF Sessions
<1>8. /\ sc' \in Sessions
      /\ sc'.maxClientStreamID = s.maxClientStreamID
      /\ sc'.maxPushPromiseID = s.maxPushPromiseID
      /\ pend' \in Seq(Stackable(Known, Closed))
      /\ WriterOK(writer', Known)
      /\ sent' \in [Ids -> Seq(Marks)]
  BY <1>4, <1>5, <1>7, StartTyped
<1>9. QueuesOK(q', Known)
  <2>1. \A j \in Ids \union {0} :
          q'[j] = IF j = i THEN Remaining(Head(q[i])) \o Tail(q[i]) ELSE q[j]
    BY <1>4 DEF Typed, QueuesOK
  <2>2. Remaining(Head(q[i])) \o Tail(q[i]) \in Seq(Queueable(i, Known))
    BY <1>5
  <2>3. \A j \in Ids \union {0} : q'[j] \in Seq(Queueable(j, Known))
    BY <2>1, <2>2 DEF Typed, QueuesOK
  <2>4. \A j : Queueable(j, Known) \subseteq WriteRequests
    BY DEF Queueable, Requests
  <2>5. \A j \in Ids \union {0} : q'[j] \in Seq(WriteRequests)
    BY <2>3, <2>4
  <2>6. q' = [j \in Ids \union {0} |-> q'[j]]
    BY <1>4 DEF Typed, QueuesOK
  <2> QED BY <2>3, <2>5, <2>6 DEF QueuesOK
<1>10. Known \subseteq Known' /\ Closed \subseteq Closed' /\ st' \in [Ids -> StreamObjects] /\ StreamsOK'
  <2>1. CASE n = 0
    <3>1. st' = st
      BY <1>4, <2>1
    <3> QED BY <1>7, <1>8, <3>1, TypedSameStreams
  <2>2. CASE n # 0
    <3>1. i \in Known /\ i \in Ids /\ st[i] \in StreamObjects
      BY <1>2, <1>5, <2>2 DEF Known, Typed
    <3>2. PICK r : r = [st[i] EXCEPT !.flow = st[i].flow - n, !.spent = st[i].spent + n]
      OBVIOUS
    <3>3. /\ r \in StreamObjects
          /\ r.state = st[i].state /\ r.held = st[i].held /\ r.cw = st[i].cw
      <4>1. st[i].flow \in Int /\ st[i].spent \in Nat
        BY <3>1 DEF StreamObjects
      <4>2. st[i].flow - n \in Int /\ st[i].spent + n \in Nat
        BY <1>6, <4>1
      <4>3. r \in StreamObjects
        BY <3>1, <3>2, <4>2, ChargeTyped
      <4> QED BY <3>1, <3>2, <4>3 DEF StreamObjects
    <3>4. st' = [st EXCEPT ![i] = r]
      BY <1>4, <2>2, <3>2
    <3>5. /\ r.state # "idle"
          /\ i \in Closed => r.state = "closed"
          /\ r.cw => r.state = "closed"
      BY <3>1, <3>3 DEF Typed, StreamsOK, Known, Closed
    <3>6. /\ sc'.maxClientStreamID >= sc.maxClientStreamID
          /\ sc'.maxPushPromiseID >= sc.maxPushPromiseID
      BY <1>6, <1>7, <1>8, MaxStreamIDNat
    <3> QED BY <1>8, <3>1, <3>3, <3>4, <3>5, <3>6, OneStreamTyped
  <2> QED BY <2>1, <2>2
<1>11. /\ QueuesOK(q', Known') /\ pend' \in Seq(Stackable(Known', Closed')) /\ WriterOK(writer', Known')
  BY <1>8, <1>9, <1>10, SequencesMono
<1> QED BY <1>4, <1>8, <1>10, <1>11, TypedKept

-------------------------------------------------------------------------------
(* A step that replaces the object of one stream which stays created.      *)
LEMMA OneStreamStepTyped ==
    ASSUME Typed, NEW id \in Ids, NEW r \in StreamObjects, st' = [st EXCEPT ![id] = r],
           sc' \in Sessions,
           sc'.maxClientStreamID = sc.maxClientStreamID,
           sc'.maxPushPromiseID = sc.maxPushPromiseID,
           r.state = "idle" <=> st[id].state = "idle",
           st[id].state = "closed" => r.state = "closed",
           r.held => st[id].held \/ id \in Known,
           r.cw => r.state = "closed",
           q' = q \/ QueuesOK(q', Known),
           \/ pend' = pend
           \/ pend' \in Seq(Stackable(Known, Closed))
           \/ pend' \in Seq(Stackable(Known', Closed')),
           writer' = writer \/ WriterOK(writer', Known),
           reader' = reader \/ reader' \in FrameReaders,
           want' = want \/ want' \in Seq(Requests(Known)),
           msgs' = msgs \/ msgs' \in Seq(GoodMessages),
           call' = call \/ CallsOK(call', Known),
           life' = life \/ life' \in Lives,
           sent' = sent \/ sent' \in [Ids -> Seq(Marks)],
           peerLeft' = peerLeft \/ peerLeft' \in Nat
    PROVE  Typed'
<1>1. /\ sc'.maxClientStreamID >= sc.maxClientStreamID
      /\ sc'.maxPushPromiseID >= sc.maxPushPromiseID
  BY MaxStreamIDNat DEF Typed
<1>2. /\ id \in Known => r.state # "idle"
      /\ id \in Closed => r.state = "closed"
      /\ r.held => r.state # "idle"
      /\ r.state # "idle" /\ id \notin Known => id <= MaxStreamID(id)'
  BY DEF Known, Closed, Typed, StreamsOK
<1>3. Known \subseteq Known' /\ Closed \subseteq Closed' /\ st' \in [Ids -> StreamObjects] /\ StreamsOK'
  BY <1>1, <1>2, OneStreamTyped
<1>4. /\ Seq(Requests(Known)) \subseteq Seq(Requests(Known'))
      /\ Seq(Stackable(Known, Closed)) \subseteq Seq(Stackable(Known', Closed'))
      /\ \A queues : QueuesOK(queues, Known) => QueuesOK(queues, Known')
      /\ \A w : WriterOK(w, Known) => WriterOK(w, Known')
      /\ \A calls : CallsOK(calls, Known) => CallsOK(calls, Known')
  BY <1>3, SequencesMono
<1> QED BY <1>3, <1>4, TypedKept

(* The flags and the state of one stream move, nothing else.               *)
LEMMA StreamFlagsTyped ==
    ASSUME NEW r \in StreamObjects, NEW b \in BOOLEAN, NEW s \in StreamStates
    PROVE  /\ [r EXCEPT !.resetQueued = b] \in StreamObjects
           /\ [r EXCEPT !.replied = b] \in StreamObjects
           /\ [r EXCEPT !.replied = TRUE, !.ready = TRUE] \in StreamObjects
           /\ [r EXCEPT !.gotTrailerHeader = b] \in StreamObjects
           /\ [r EXCEPT !.held = b] \in StreamObjects
           /\ [r EXCEPT !.state = s] \in StreamObjects
           /\ [r EXCEPT !.bodyErr = TRUE, !.cw = TRUE] \in StreamObjects
           /\ [r EXCEPT !.bodyErr = TRUE, !.stale = b, !.state = s] \in StreamObjects
<1>1. [r EXCEPT !.resetQueued = b] \in StreamObjects
  BY DEF StreamObjects
<1>2. [r EXCEPT !.replied = b] \in StreamObjects
  BY DEF StreamObjects
<1>3. [r EXCEPT !.replied = TRUE, !.ready = TRUE] \in StreamObjects
  BY DEF StreamObjects
<1>4. [r EXCEPT !.gotTrailerHeader = b] \in StreamObjects
  BY DEF StreamObjects
<1>5. [r EXCEPT !.held = b] \in StreamObjects
  BY DEF StreamObjects
<1>6. [r EXCEPT !.state = s] \in StreamObjects
  BY DEF StreamObjects
<1>7. [r EXCEPT !.bodyErr = TRUE, !.cw = TRUE] \in StreamObjects
  BY DEF StreamObjects
<1>8. [r EXCEPT !.bodyErr = TRUE, !.stale = b, !.state = s] \in StreamObjects
  BY DEF StreamObjects
<1> QED BY <1>1, <1>2, <1>3, <1>4, <1>5, <1>6, <1>7, <1>8

LEMMA markResetTyped == ASSUME Typed, markReset PROVE Typed'
<1>1. /\ Top.id \in Ids /\ sc \in Sessions
      /\ Tail(pend) \in Seq(Stackable(Known, Closed))
  <2>1. Top \in Stackable(Known, Closed) /\ Top \in Pending /\ Top.op = "markReset"
    BY TopTyped DEF markReset, Running, Top
  <2>2. Top.id # 0 /\ Top.id \in 0 .. StreamIDLimit - 1
    BY <2>1 DEF Stackable, Pending
  <2> QED BY <2>2, IdsFacts, TopTyped DEF markReset, Running, Typed
<1>2. CASE ~InMap(Top.id)
  BY <1>1, <1>2, SameStreamsTyped DEF markReset
<1>3. CASE InMap(Top.id)
  <2>1. PICK r : r = [st[Top.id] EXCEPT !.resetQueued = TRUE]
    OBVIOUS
  <2>2. st[Top.id] \in StreamObjects
    BY <1>1 DEF Typed
  <2>3. /\ r \in StreamObjects
        /\ r.state = st[Top.id].state /\ r.held = st[Top.id].held /\ r.cw = st[Top.id].cw
    <3>1. r \in StreamObjects
      BY <2>1, <2>2, StreamFlagsTyped DEF StreamStates
    <3> QED BY <2>1, <2>2, <3>1 DEF StreamObjects
  <2>4. st' = [st EXCEPT ![Top.id] = r]
    BY <1>3, <2>1 DEF markReset
  <2>5. r.cw => r.state = "closed"
    BY <1>1, <2>3 DEF Typed, StreamsOK
  <2> QED BY <1>1, <2>3, <2>4, <2>5, OneStreamStepTyped DEF markReset
<1> QED BY <1>2, <1>3

(* What wroteFrame calls is well typed: RST_STREAM on a stream that is     *)
(* open, END_STREAM on one that exists.                                    *)
LEMMA WroteCallsTyped ==
    ASSUME NEW wr \in Requests(Known)
    PROVE  WroteCalls(wr) \in Seq(Stackable(Known, Closed))
<1>1. Known \subseteq Ids
  BY DEF Known
<1>2. wr \in WriteRequests
  BY DEF Requests
<1>3. CASE writeEndsStream(wr) /\ st[wr.id].state = "open"
  <2>1. wr.id \in Ids
    BY <1>1, <1>2, <1>3, IdsFacts DEF writeEndsStream, Requests, WriteRequests
  <2>2. WroteCalls(wr) = resetStream(wr.id)
    BY <1>3 DEF WroteCalls, writeEndsStream
  <2> QED BY <2>1, <2>2, ResetStreamTyped
<1>4. CASE writeEndsStream(wr) /\ st[wr.id].state = "halfClosedRemote"
  <2>1. wr.id \in Known
    BY <1>4 DEF writeEndsStream, Requests, HasStream
  <2>2. Op("closeStream", wr.id, 0) \in Stackable(Known, Closed)
    BY <1>1, <2>1, StreamOpTyped
  <2>3. WroteCalls(wr) = <<Op("closeStream", wr.id, 0)>>
    BY <1>4 DEF WroteCalls, writeEndsStream
  <2> QED BY <2>2, <2>3
<1>5. CASE wr.kind = "rst" /\ InMap(wr.id)
  <2>1. wr.id \in Known
    <3>1. wr.id \in Ids
      BY <1>2, <1>5, IdsFacts DEF Requests, WriteRequests
    <3> QED BY <1>5, <3>1 DEF InMap, Live, Known
  <2>2. Op("closeStream", wr.id, 0) \in Stackable(Known, Closed)
    BY <1>1, <2>1, StreamOpTyped
  <2>3. WroteCalls(wr) = <<Op("closeStream", wr.id, 0)>>
    BY <1>5 DEF WroteCalls, writeEndsStream
  <2> QED BY <2>2, <2>3
<1>6. CASE /\ ~(writeEndsStream(wr) /\ st[wr.id].state = "open")
           /\ ~(writeEndsStream(wr) /\ st[wr.id].state = "halfClosedRemote")
           /\ ~(wr.kind = "rst" /\ InMap(wr.id))
  <2>1. WroteCalls(wr) = <<>>
    BY <1>6 DEF WroteCalls
  <2> QED BY <2>1
<1> QED BY <1>3, <1>4, <1>5, <1>6

LEMMA wroteFrameTyped == ASSUME Typed, wroteFrame PROVE Typed'
<1>1. PICK wr : wr = Top.wr
  OBVIOUS
<1>2. wr \in Requests(Known) /\ Tail(pend) \in Seq(Stackable(Known, Closed)) /\ sc \in Sessions
  BY <1>1, TopTyped DEF wroteFrame, Running, Typed
<1>3. CASE ~sc.writingFrame
  BY <1>2, <1>3, SameStreamsTyped DEF wroteFrame, Panic
<1>4. CASE sc.writingFrame
  <2>1. /\ sc' = [sc EXCEPT !.writingFrame = FALSE, !.writingFrameAsync = FALSE]
        /\ st' = IF writeEndsStream(wr)
                 THEN [st EXCEPT ![wr.id].state = AfterEndStream(@)] ELSE st
        /\ pend' = WroteCalls(wr) \o <<OpOn("reply", wr)>> \o Tail(pend)
        /\ UNCHANGED <<q, writer, reader, want, msgs, call, life, sent, peerLeft, panic>>
    BY <1>1, <1>4 DEF wroteFrame
  <2>2. /\ sc' \in Sessions
        /\ sc'.maxClientStreamID = sc.maxClientStreamID
        /\ sc'.maxPushPromiseID = sc.maxPushPromiseID
    BY <1>2, <2>1 DEF Sessions
  <2>3. pend' \in Seq(Stackable(Known, Closed))
    <3>1. OpOn("reply", wr) \in Stackable(Known, Closed) /\ WroteCalls(wr) \in Seq(Stackable(Known, Closed))
      BY <1>2, OpOnTyped, WroteCallsTyped
    <3> QED BY <1>2, <2>1, <3>1
  <2>4. CASE ~writeEndsStream(wr)
    BY <2>1, <2>2, <2>3, <2>4, SameStreamsTyped
  <2>5. CASE writeEndsStream(wr)
    <3>1. wr.id \in Known /\ wr.id \in Ids /\ st[wr.id] \in StreamObjects
      BY <1>2, <2>5 DEF writeEndsStream, Requests, HasStream, Known, Typed
    <3>2. PICK r : r = [st[wr.id] EXCEPT !.state = AfterEndStream(st[wr.id].state)]
      OBVIOUS
    <3>3. AfterEndStream(st[wr.id].state) \in StreamStates
      BY <3>1 DEF AfterEndStream, StreamObjects, StreamStates
    <3>4. r \in StreamObjects
      BY <3>1, <3>2, <3>3, StreamFlagsTyped
    <3>5. /\ r.state = AfterEndStream(st[wr.id].state)
          /\ r.held = st[wr.id].held /\ r.cw = st[wr.id].cw
      BY <3>1, <3>2 DEF StreamObjects
    <3>6. st' = [st EXCEPT ![wr.id] = r]
      BY <2>1, <2>5, <3>1, <3>2 DEF Typed
    <3>7. /\ r.state = "idle" <=> st[wr.id].state = "idle"
          /\ st[wr.id].state = "closed" => r.state = "closed"
          /\ r.cw => r.state = "closed"
      BY <3>1, <3>5 DEF AfterEndStream, Typed, StreamsOK
    <3> QED BY <2>1, <2>2, <2>3, <3>1, <3>4, <3>5, <3>6, <3>7, OneStreamStepTyped
  <2> QED BY <2>4, <2>5
<1> QED BY <1>3, <1>4

(* A call that is told of a result.                                        *)
LEMMA CallToldTyped ==
    ASSUME NEW K, CallsOK(call, K), NEW c \in Calls
    PROVE  CallsOK([call EXCEPT ![c].ch = TRUE], K)
<1>1. PICK calls : calls = [call EXCEPT ![c].ch = TRUE]
  OBVIOUS
<1>2. \A d \in Calls : calls[d] = IF d = c THEN [call[c] EXCEPT !.ch = TRUE] ELSE call[d]
  BY <1>1 DEF CallsOK
<1>3. [call[c] EXCEPT !.ch = TRUE] \in CallStates
  BY DEF CallsOK, CallStates
<1>4. /\ calls \in [Calls -> CallStates]
      /\ \A d \in Calls : calls[d].stage = call[d].stage /\ calls[d].id = call[d].id
  <2>1. \A d \in Calls : calls[d] \in CallStates
    BY <1>2, <1>3 DEF CallsOK
  <2>2. calls = [d \in Calls |-> calls[d]]
    BY <1>1 DEF CallsOK
  <2>3. \A d \in Calls : calls[d].stage = call[d].stage /\ calls[d].id = call[d].id
    BY <1>2 DEF CallsOK, CallStates
  <2> QED BY <2>1, <2>2, <2>3
<1> QED BY <1>1, <1>4 DEF CallsOK

LEMMA replyTyped == ASSUME Typed, reply PROVE Typed'
<1>1. /\ Top.wr \in WriteRequests /\ Tail(pend) \in Seq(Stackable(Known, Closed)) /\ sc \in Sessions
      /\ CallsOK(call, Known)
  BY TopTyped DEF reply, Running, Typed, Requests
<1>2. /\ sc' \in Sessions
      /\ sc'.maxClientStreamID = sc.maxClientStreamID
      /\ sc'.maxPushPromiseID = sc.maxPushPromiseID
      /\ pend' \in Seq(Stackable(Known, Closed))
  BY <1>1, ScheduleTyped DEF reply
<1>3. PICK c : c = Top.wr.by
  OBVIOUS
<1>4. c \in Calls \union {Nobody} /\ call' = IF c = Nobody THEN call ELSE [call EXCEPT ![c].ch = TRUE]
  BY <1>1, <1>3 DEF reply, WriteRequests
<1>5. call' = call \/ CallsOK(call', Known)
  <2>1. CASE c = Nobody
    BY <1>4, <2>1
  <2>2. CASE c # Nobody
    <3>1. c \in Calls /\ call' = [call EXCEPT ![c].ch = TRUE]
      BY <1>4, <2>2
    <3> QED BY <1>1, <3>1, CallToldTyped
  <2> QED BY <2>1, <2>2
<1> QED BY <1>2, <1>5, SameStreamsTyped DEF reply

(* The counters of open streams move, nothing else.                        *)
LEMMA CountsTyped ==
    ASSUME NEW s \in Sessions, NEW n \in Int
    PROVE  /\ [s EXCEPT !.curPushedStreams = n] \in Sessions
           /\ [s EXCEPT !.curClientStreams = n] \in Sessions
<1>1. [s EXCEPT !.curPushedStreams = n] \in Sessions
  BY DEF Sessions
<1>2. [s EXCEPT !.curClientStreams = n] \in Sessions
  BY DEF Sessions
<1> QED BY <1>1, <1>2

LEMMA closeStreamTyped == ASSUME Typed, closeStream PROVE Typed'
<1>1. /\ Top.id \in Known /\ Top.id \in Ids /\ sc \in Sessions
      /\ Tail(pend) \in Seq(Stackable(Known, Closed)) /\ Known \subseteq Ids
  <2>1. Top \in Stackable(Known, Closed) /\ Top.op = "closeStream"
    BY TopTyped DEF closeStream, Running, Top
  <2>2. Top.id \in Known
    BY <2>1 DEF Stackable
  <2> QED BY <2>2, TopTyped DEF closeStream, Running, Typed, Known
<1>2. CASE ClosePanic(Top.id) # "none"
  BY <1>1, <1>2, SameStreamsTyped DEF closeStream, Panic
<1>3. CASE ClosePanic(Top.id) = "none"
  <2>1. PICK id : id = Top.id
    OBVIOUS
  <2>2. /\ st' = [st EXCEPT ![id].state = "closed"]
        /\ sc' = IF isPushed(id) THEN [sc EXCEPT !.curPushedStreams = @ - 1]
                 ELSE [sc EXCEPT !.curClientStreams = @ - 1]
        /\ pend' = <<Op("sendWindowUpdate", 0, st[id].body), Op("closeRest", id, 0)>> \o Tail(pend)
        /\ UNCHANGED <<q, writer, reader, want, msgs, call, life, sent, peerLeft, panic>>
    BY <1>3, <2>1 DEF closeStream
  <2>3. id \in Known /\ id \in Ids /\ st[id] \in StreamObjects
    BY <1>1, <2>1 DEF Typed
  <2>4. /\ sc' \in Sessions
        /\ sc'.maxClientStreamID = sc.maxClientStreamID
        /\ sc'.maxPushPromiseID = sc.maxPushPromiseID
    <3>1. sc.curPushedStreams - 1 \in Int /\ sc.curClientStreams - 1 \in Int
      BY <1>1 DEF Sessions
    <3>2. sc' \in Sessions
      <4>1. CASE isPushed(id)
        BY <1>1, <2>2, <3>1, <4>1, CountsTyped
      <4>2. CASE ~isPushed(id)
        BY <1>1, <2>2, <3>1, <4>2, CountsTyped
      <4> QED BY <4>1, <4>2
    <3>3. /\ sc'.maxClientStreamID = sc.maxClientStreamID
          /\ sc'.maxPushPromiseID = sc.maxPushPromiseID
      BY <1>1, <2>2 DEF Sessions
    <3> QED BY <3>2, <3>3
  <2>5. PICK r : r = [st[id] EXCEPT !.state = "closed"]
    OBVIOUS
  <2>6. r \in StreamObjects
    BY <2>3, <2>5, StreamFlagsTyped DEF StreamStates
  <2>7. r.state = "closed" /\ st[id].state # "idle"
    BY <2>3, <2>5 DEF StreamObjects, Known
  <2>8. st' = [st EXCEPT ![id] = r]
    BY <2>2, <2>5
  <2>9. id \in Closed' /\ id \in Known' /\ Known \subseteq Known' /\ Closed \subseteq Closed' /\ Known' \subseteq Ids
    <3>1. \A i \in Ids : st'[i] = IF i = id THEN r ELSE st[i]
      BY <2>8 DEF Typed
    <3> QED BY <2>3, <2>7, <3>1 DEF Closed, Known
  <2>10. pend' \in Seq(Stackable(Known', Closed'))
    <3>1. Op("sendWindowUpdate", 0, st[id].body) \in Stackable(Known', Closed')
      BY <2>3, ConnRefundTyped DEF StreamObjects
    <3>2. Op("closeRest", id, 0) \in Stackable(Known', Closed')
      BY <2>9, StreamOpTyped
    <3>3. Tail(pend) \in Seq(Stackable(Known', Closed'))
      BY <1>1, <2>9, SequencesMono
    <3> QED BY <2>2, <3>1, <3>2, <3>3
  <2> QED BY <2>2, <2>3, <2>4, <2>6, <2>7, <2>8, <2>10, OneStreamStepTyped
<1> QED BY <1>2, <1>3

LEMMA closeRestTyped == ASSUME Typed, closeRest PROVE Typed'
<1>1. PICK id : id = Top.id
  OBVIOUS
<1>2. /\ id \in Closed /\ id \in Ids /\ sc \in Sessions
      /\ Tail(pend) \in Seq(Stackable(Known, Closed)) /\ st[id] \in StreamObjects
  <2>1. Top \in Stackable(Known, Closed) /\ Top.op = "closeRest"
    BY TopTyped DEF closeRest, Running, Top
  <2>2. Top.id \in Closed
    BY <2>1 DEF Stackable
  <2> QED BY <1>1, <2>2, TopTyped DEF closeRest, Running, Typed, Closed
<1>3. /\ st' = [st EXCEPT ![id] = [@ EXCEPT !.bodyErr = TRUE, !.cw = TRUE]]
      /\ q' = [q EXCEPT ![id] = <<>>]
      /\ pend' = Tail(pend)
      /\ UNCHANGED <<sc, writer, reader, want, msgs, call, life, sent, peerLeft, panic>>
  BY <1>1 DEF closeRest
<1>4. PICK r : r = [st[id] EXCEPT !.bodyErr = TRUE, !.cw = TRUE]
  OBVIOUS
<1>5. r \in StreamObjects
  BY <1>2, <1>4, StreamFlagsTyped DEF StreamStates
<1>6. r.state = "closed" /\ r.held = st[id].held /\ st[id].state = "closed"
  BY <1>2, <1>4 DEF StreamObjects, Closed
<1>7. st' = [st EXCEPT ![id] = r]
  BY <1>3, <1>4
<1>8. QueuesOK(q', Known)
  <2>1. \A j \in Ids \union {0} : q'[j] = IF j = id THEN <<>> ELSE q[j]
    BY <1>3 DEF Typed, QueuesOK
  <2>2. \A j \in Ids \union {0} : q'[j] \in Seq(Queueable(j, Known)) /\ q'[j] \in Seq(WriteRequests)
    <3>1. <<>> \in Seq(WriteRequests) /\ \A j : <<>> \in Seq(Queueable(j, Known))
      OBVIOUS
    <3>2. \A j \in Ids \union {0} : q[j] \in Seq(Queueable(j, Known)) /\ q[j] \in Seq(WriteRequests)
      BY DEF Typed, QueuesOK
    <3> QED BY <2>1, <3>1, <3>2
  <2>3. q' = [j \in Ids \union {0} |-> q'[j]]
    BY <1>3 DEF Typed, QueuesOK
  <2> QED BY <2>2, <2>3 DEF QueuesOK
<1> QED BY <1>2, <1>3, <1>5, <1>6, <1>7, <1>8, OneStreamStepTyped

LEMMA goAwayTyped ==
    ASSUME Typed, NEW op, NEW code \in {"No", "Err"}, goAway(op, code) PROVE Typed'
<1>1. Tail(pend) \in Seq(Stackable(Known, Closed)) /\ sc \in Sessions /\ life \in Lives
  BY TopTyped DEF goAway, Running, Typed
<1>2. life' \in Lives
  <2>1. PICK b : b = (life.fatal \/ code = "Err")
    OBVIOUS
  <2>2. b \in BOOLEAN
    BY <1>1, <2>1 DEF Lives
  <2>3. life' = [life EXCEPT !.fatal = b]
    BY <2>1 DEF goAway
  <2> QED BY <1>1, <2>2, <2>3 DEF Lives
<1>3. CASE sc.inGoAway
  <2>1. sc' = sc /\ pend' = Tail(pend)
    BY <1>3 DEF goAway
  <2> QED BY <1>1, <1>2, <2>1, SameStreamsTyped DEF goAway
<1>4. CASE ~sc.inGoAway
  <2>1. PICK s : s = [sc EXCEPT !.inGoAway = TRUE, !.needToSendGoAway = TRUE, !.goAwayCode = code]
    OBVIOUS
  <2>2. /\ s \in Sessions
        /\ s.maxClientStreamID = sc.maxClientStreamID
        /\ s.maxPushPromiseID = sc.maxPushPromiseID
    BY <1>1, <2>1 DEF Sessions
  <2>3. ScheduleFrameWrite(s, Tail(pend))
    BY <1>4, <2>1 DEF goAway
  <2>4. /\ sc' \in Sessions
        /\ sc'.maxClientStreamID = s.maxClientStreamID
        /\ sc'.maxPushPromiseID = s.maxPushPromiseID
        /\ pend' \in Seq(Stackable(Known, Closed))
    BY <1>1, <2>2, <2>3, ScheduleTyped
  <2> QED BY <1>2, <2>2, <2>4, SameStreamsTyped DEF goAway
<1> QED BY <1>3, <1>4

LEMMA WriteStepTyped == ASSUME Typed, WriteStep \/ writeFrameAsync PROVE Typed'
<1>1. CASE writeFrameAsync
  <2>1. WriterOK(writer, Known) /\ writer' = [writer EXCEPT !.stage = "wrote"] /\ sc \in Sessions
    BY <1>1 DEF writeFrameAsync, Typed
  <2>2. WriterOK(writer', Known)
    BY <2>1 DEF WriterOK, Writers
  <2> QED BY <1>1, <2>1, <2>2, SameStreamsTyped DEF writeFrameAsync
<1>2. CASE goAway("goAwayNo", "No") \/ goAway("goAwayErr", "Err")
  BY <1>2, goAwayTyped
<1> QED BY <1>1, <1>2, writeFrameTyped, sendWindowUpdateTyped, LoopGoAwayTyped,
           LoopSettingsAckTyped, LoopFlushTyped, LoopExitTyped, LoopPopTyped, markResetTyped,
           wroteFrameTyped, replyTyped, closeStreamTyped, closeRestTyped DEF WriteStep

-------------------------------------------------------------------------------
(* The read side: what the reader offers, and what a handler leaves to do. *)
LEMMA ReceiveTyped ==
    ASSUME Typed, NEW t, Receive(t)
    PROVE  /\ reader' \in FrameReaders
           /\ frame \in Frames /\ frame \in AnyFrames /\ frame.t = t
           /\ frame.id \in Ids \union {0} /\ frame.n \in Nat /\ frame.pad \in Nat
<1>1. reader \in FrameReaders
  BY DEF Typed
<1>2. reader' \in FrameReaders
  BY <1>1 DEF Receive, FrameReaders
<1>3. frame \in Frames /\ frame.t = t
  BY <1>1 DEF FrameReaders, frame, Receive
<1>4. frame \in AnyFrames
  BY <1>3 DEF Frames
<1> QED BY <1>2, <1>3, <1>4, IdsFacts DEF AnyFrames

LEMMA AfterwardsTyped ==
    ASSUME NEW K, NEW D
    PROVE  <<Op("readMore", 0, 0), Op("iter", 0, 0)>> \in Seq(Stackable(K, D))
<1>1. Op("readMore", 0, 0) \in Stackable(K, D) /\ Op("iter", 0, 0) \in Stackable(K, D)
  BY OpTyped DEF PlainOps
<1> QED BY <1>1

LEMMA ThenTyped ==
    ASSUME NEW K, NEW D, NEW calls \in Seq(Stackable(K, D)), Then(calls)
    PROVE  pend' \in Seq(Stackable(K, D))
<1>1. PICK rest : rest = <<Op("readMore", 0, 0), Op("iter", 0, 0)>>
  OBVIOUS
<1>2. rest \in Seq(Stackable(K, D))
  BY <1>1, AfterwardsTyped
<1>3. pend' = calls \o rest
  BY <1>1 DEF Then
<1> QED BY <1>2, <1>3

LEMMA ConnErrorTyped ==
    ASSUME NEW K, NEW D
    PROVE  ConnError \in Seq(Stackable(K, D)) /\ <<>> \in Seq(Stackable(K, D))
<1>1. Op("goAwayErr", 0, 0) \in Stackable(K, D)
  BY OpTyped DEF PlainOps
<1>2. ConnError = <<Op("goAwayErr", 0, 0)>>
  BY DEF ConnError
<1> QED BY <1>1, <1>2

(* A handler that changes nothing but serve's stack.                       *)
LEMMA AnswerTyped ==
    ASSUME Typed, NEW t, Receive(t), NEW calls \in Seq(Stackable(Known, Closed)), Answer(calls)
    PROVE  Typed'
<1>1. pend' \in Seq(Stackable(Known, Closed))
  BY ThenTyped DEF Answer
<1>2. reader' \in FrameReaders /\ sc \in Sessions
  BY ReceiveTyped DEF Typed
<1> QED BY <1>1, <1>2, SameStreamsTyped DEF Answer

LEMMA TooEarlyTyped == ASSUME Typed, NEW t, TooEarly(t) PROVE Typed'
<1>1. Receive(t) /\ Answer(ConnError)
  BY DEF TooEarly, Answer
<1> QED BY <1>1, AnswerTyped, ConnErrorTyped

LEMMA processPingTyped == ASSUME Typed, processPing PROVE Typed'
<1>1. Receive("ping")
  BY DEF processPing, Handled
<1>2. OpOn("writeFrame", Control("ping")) \in Stackable(Known, Closed)
  BY ControlTyped, OpOnTyped
<1>3. <<OpOn("writeFrame", Control("ping"))>> \in Seq(Stackable(Known, Closed))
  BY <1>2
<1>4. PICK calls : calls = IF frame.id # 0 THEN ConnError
                           ELSE IF GoingDown THEN <<>>
                           ELSE <<OpOn("writeFrame", Control("ping"))>>
  OBVIOUS
<1>5. calls \in Seq(Stackable(Known, Closed))
  BY <1>3, <1>4, ConnErrorTyped
<1>6. Answer(calls)
  BY <1>4 DEF processPing
<1> QED BY <1>1, <1>5, <1>6, AnswerTyped

LEMMA processFatalTyped == ASSUME Typed, processFatal PROVE Typed'
<1>1. \E t : Receive(t)
  BY DEF processFatal, Handled
<1>2. Answer(ConnError)
  BY DEF processFatal
<1> QED BY <1>1, <1>2, ConnErrorTyped, AnswerTyped

LEMMA processIgnoredTyped == ASSUME Typed, processIgnored PROVE Typed'
<1>1. \E t : Receive(t)
  BY DEF processIgnored, Handled
<1>2. Answer(<<>>)
  BY DEF processIgnored
<1> QED BY <1>1, <1>2, ConnErrorTyped, AnswerTyped

LEMMA processGoAwayTyped == ASSUME Typed, processGoAway PROVE Typed'
<1>1. Receive("goAway") /\ Answer(<<Op("goAwayNo", 0, 0)>>)
  BY DEF processGoAway, Handled
<1>2. Op("goAwayNo", 0, 0) \in Stackable(Known, Closed)
  BY OpTyped DEF PlainOps
<1>3. <<Op("goAwayNo", 0, 0)>> \in Seq(Stackable(Known, Closed))
  BY <1>2
<1> QED BY <1>1, <1>3, AnswerTyped

LEMMA FrameIdTyped ==
    ASSUME Typed, NEW t \in {"headers", "rst", "priority", "streamError"}, Receive(t)
    PROVE  frame.id \in Ids
<1>1. frame \in Frames /\ frame.t = t /\ frame.id \in Ids \union {0}
  BY ReceiveTyped
<1> QED BY <1>1 DEF Frames

LEMMA processStreamErrorTyped == ASSUME Typed, processStreamError PROVE Typed'
<1>1. Receive("streamError") /\ Answer(resetStream(frame.id))
  BY DEF processStreamError
<1>2. resetStream(frame.id) \in Seq(Stackable(Known, Closed))
  BY <1>1, FrameIdTyped, ResetStreamTyped
<1> QED BY <1>1, <1>2, AnswerTyped

LEMMA processPriorityTyped == ASSUME Typed, processPriority PROVE Typed'
<1>1. Receive("priority")
  BY DEF processPriority, Handled
<1>2. resetStream(frame.id) \in Seq(Stackable(Known, Closed))
  BY <1>1, FrameIdTyped, ResetStreamTyped
<1>3. PICK calls : calls = IF ~sc.inGoAway /\ frame.x = "selfDep"
                           THEN resetStream(frame.id) ELSE <<>>
  OBVIOUS
<1>4. calls \in Seq(Stackable(Known, Closed))
  BY <1>2, <1>3, ConnErrorTyped
<1>5. Answer(calls)
  BY <1>3 DEF processPriority
<1> QED BY <1>1, <1>4, <1>5, AnswerTyped

LEMMA processResetStreamTyped == ASSUME Typed, processResetStream PROVE Typed'
<1>1. Receive("rst")
  BY DEF processResetStream, Handled
<1>2. frame.id \in Ids /\ Known \subseteq Ids
  BY <1>1, FrameIdTyped DEF Known
<1>3. PICK calls : calls = IF stateOf(frame.id) = "idle" THEN ConnError
                           ELSE IF InMap(frame.id) THEN <<Op("closeStream", frame.id, 0)>>
                           ELSE <<>>
  OBVIOUS
<1>4. calls \in Seq(Stackable(Known, Closed))
  <2>1. CASE ~InMap(frame.id)
    BY <1>3, <2>1, ConnErrorTyped
  <2>2. CASE InMap(frame.id)
    <3>1. frame.id \in Known
      BY <1>2, <2>2 DEF InMap, Live, Known
    <3>2. Op("closeStream", frame.id, 0) \in Stackable(Known, Closed)
      BY <1>2, <3>1, StreamOpTyped
    <3>3. <<Op("closeStream", frame.id, 0)>> \in Seq(Stackable(Known, Closed))
      BY <3>2
    <3> QED BY <1>3, <2>2, <3>3, ConnErrorTyped
  <2> QED BY <2>1, <2>2
<1>5. Answer(calls)
  BY <1>3 DEF processResetStream
<1> QED BY <1>1, <1>4, <1>5, AnswerTyped

LEMMA processEOFTyped == ASSUME Typed, processEOF PROVE Typed'
<1>1. reader' \in FrameReaders /\ sc \in Sessions
  BY ReceiveTyped DEF processEOF, Typed
<1>2. Op("exit", 0, 0) \in Stackable(Known, Closed)
  BY OpTyped DEF PlainOps
<1>3. pend' \in Seq(Stackable(Known, Closed))
  <2>1. pend' = <<Op("exit", 0, 0)>>
    BY DEF processEOF
  <2> QED BY <1>2, <2>1
<1> QED BY <1>1, <1>3, SameStreamsTyped DEF processEOF

(* Frames that the model makes up: the end of the stream of frames.        *)
LEMMA EOFTyped == Frame("eof", 0) \in Frames
<1>1. <<>> \in Seq(Settings)
  OBVIOUS
<1>2. Frame("eof", 0) \in AnyFrames
  BY <1>1, IdsFacts DEF Frame, AnyFrames
<1> QED BY <1>2 DEF Frame, Frames

LEMMA readMoreTyped == ASSUME Typed, readMore PROVE Typed'
<1>1. Tail(pend) \in Seq(Stackable(Known, Closed)) /\ sc \in Sessions
  BY TopTyped DEF readMore, Running, Typed
<1>2. reader' \in FrameReaders
  BY EOFTyped DEF readMore, FrameReaders
<1> QED BY <1>1, <1>2, SameStreamsTyped DEF readMore

LEMMA ReaderTyped ==
    ASSUME Typed, (\E fr \in PeerFrames : ReadFrame(fr)) \/ ReadError \/ ReaderStops
    PROVE  Typed'
<1>1. sc \in Sessions /\ peerLeft \in Nat
  BY DEF Typed
<1>2. CASE ReadError \/ ReaderStops
  <2>1. reader' \in FrameReaders
    BY <1>2, EOFTyped DEF ReadError, ReaderStops, FrameReaders
  <2> QED BY <1>1, <1>2, <2>1, SameStreamsTyped DEF ReadError, ReaderStops
<1>3. ASSUME NEW fr \in PeerFrames, ReadFrame(fr) PROVE Typed'
  <2>1. fr \in Frames
    BY SessionAssumption
  <2>2. reader' \in FrameReaders /\ peerLeft' \in Nat
    BY <1>1, <1>3, <2>1 DEF ReadFrame, FrameReaders
  <2> QED BY <1>1, <1>3, <2>2, SameStreamsTyped DEF ReadFrame
<1> QED BY <1>2, <1>3

(* The session after a handler that ends with scheduleFrameWrite.          *)
LEMMA ThenScheduleTyped ==
    ASSUME NEW s \in Sessions, NEW K, NEW D, ThenSchedule(s)
    PROVE  /\ sc' \in Sessions
           /\ sc'.maxClientStreamID = s.maxClientStreamID
           /\ sc'.maxPushPromiseID = s.maxPushPromiseID
           /\ pend' \in Seq(Stackable(K, D))
<1>1. PICK rest : rest = <<Op("readMore", 0, 0), Op("iter", 0, 0)>>
  OBVIOUS
<1>2. rest \in Seq(Stackable(K, D))
  BY <1>1, AfterwardsTyped
<1>3. ScheduleFrameWrite(s, rest)
  BY <1>1 DEF ThenSchedule
<1> QED BY <1>2, <1>3, ScheduleTyped

(* The credit of one window moves, nothing else.                           *)
LEMMA CreditTyped ==
    /\ \A s \in Sessions, a \in Int, b \in Nat : [s EXCEPT !.flow = a, !.connInc = b] \in Sessions
    /\ \A r \in StreamObjects, a \in Int, b \in Nat :
         [r EXCEPT !.flow = a, !.inc = b] \in StreamObjects
    /\ \A r \in StreamObjects, a \in Int, b \in Nat :
         [r EXCEPT !.inflow = a, !.body = b] \in StreamObjects
    /\ \A r \in StreamObjects, a \in Int : [r EXCEPT !.flow = a] \in StreamObjects
BY DEF Sessions, StreamObjects

LEMMA processWindowUpdateTyped == ASSUME Typed, processWindowUpdate PROVE Typed'
<1>1. Receive("windowUpdate")
  BY DEF processWindowUpdate, Handled
<1>2. PICK id, n : id = frame.id /\ n = frame.n
  OBVIOUS
<1>3. reader' \in FrameReaders /\ id \in Ids \union {0} /\ n \in Nat /\ n \in Int /\ sc \in Sessions
  BY <1>1, <1>2, ReceiveTyped DEF Typed
<1>4. UNCHANGED <<q, writer, want, msgs, call, life, sent, peerLeft, panic>>
  BY DEF processWindowUpdate
<1>5. CASE /\ ThenSchedule([sc EXCEPT !.flow = added(@, n), !.connInc = @ + n])
           /\ UNCHANGED st
  <2>1. sc.flow \in Int /\ sc.connInc \in Nat
    BY <1>3 DEF Sessions
  <2>2. added(sc.flow, n) \in Int
    BY <1>3, <2>1, AddedInt, Zenon
  <2>3. sc.connInc + n \in Nat
    BY <1>3, <2>1
  <2>4. PICK s : s = [sc EXCEPT !.flow = added(sc.flow, n), !.connInc = sc.connInc + n]
    OBVIOUS
  <2>5. s \in Sessions
    BY <1>3, <2>2, <2>3, <2>4, CreditTyped
  <2>6. /\ s.maxClientStreamID = sc.maxClientStreamID
        /\ s.maxPushPromiseID = sc.maxPushPromiseID
    BY <1>3, <2>4 DEF Sessions
  <2>7. ThenSchedule(s)
    BY <1>5, <2>4
  <2>8. /\ sc' \in Sessions
        /\ sc'.maxClientStreamID = s.maxClientStreamID
        /\ sc'.maxPushPromiseID = s.maxPushPromiseID
        /\ pend' \in Seq(Stackable(Known, Closed))
    BY <2>5, <2>7, ThenScheduleTyped
  <2> QED BY <1>3, <1>4, <1>5, <2>6, <2>8, SameStreamsTyped
<1>6. CASE /\ id # 0
           /\ st' = [st EXCEPT ![id] = [@ EXCEPT !.flow = added(st[id].flow, n),
                                                 !.inc = st[id].inc + n]]
           /\ ThenSchedule(sc)
  <2>1. id \in Ids /\ st[id] \in StreamObjects
    BY <1>3, <1>6 DEF Typed
  <2>2. st[id].flow \in Int /\ st[id].inc \in Nat
    BY <2>1 DEF StreamObjects
  <2>3. added(st[id].flow, n) \in Int
    BY <1>3, <2>2, AddedInt, Zenon
  <2>4. st[id].inc + n \in Nat
    BY <1>3, <2>2
  <2>5. PICK r : r = [st[id] EXCEPT !.flow = added(st[id].flow, n), !.inc = st[id].inc + n]
    OBVIOUS
  <2>6. r \in StreamObjects
    BY <2>1, <2>3, <2>4, <2>5, CreditTyped
  <2>7. r.state = st[id].state /\ r.held = st[id].held /\ r.cw = st[id].cw
    BY <2>1, <2>5 DEF StreamObjects
  <2>8. st' = [st EXCEPT ![id] = r]
    BY <1>6, <2>5
  <2>9. r.cw => r.state = "closed"
    BY <2>1, <2>7 DEF Typed, StreamsOK
  <2>10. /\ sc' \in Sessions
         /\ sc'.maxClientStreamID = sc.maxClientStreamID
         /\ sc'.maxPushPromiseID = sc.maxPushPromiseID
         /\ pend' \in Seq(Stackable(Known, Closed))
    BY <1>3, <1>6, ThenScheduleTyped
  <2> QED BY <1>3, <1>4, <2>1, <2>6, <2>7, <2>8, <2>9, <2>10, OneStreamStepTyped
<1>7. CASE Then(ConnError) /\ UNCHANGED <<sc, st>>
  <2>1. pend' \in Seq(Stackable(Known, Closed))
    BY <1>7, ThenTyped, ConnErrorTyped
  <2> QED BY <1>3, <1>4, <1>7, <2>1, SameStreamsTyped
<1>8. CASE /\ id # 0
           /\ Then(IF stateOf(id) = "idle" THEN ConnError
                   ELSE IF InMap(id) THEN resetStream(id) ELSE <<>>)
           /\ UNCHANGED <<sc, st>>
  <2>1. PICK calls : calls = IF stateOf(id) = "idle" THEN ConnError
                             ELSE IF InMap(id) THEN resetStream(id) ELSE <<>>
    OBVIOUS
  <2>2. calls \in Seq(Stackable(Known, Closed))
    BY <1>3, <1>8, <2>1, ConnErrorTyped, ResetStreamTyped
  <2>3. pend' \in Seq(Stackable(Known, Closed))
    BY <1>8, <2>1, <2>2, ThenTyped
  <2> QED BY <1>3, <1>4, <1>8, <2>3, SameStreamsTyped
<1> QED BY <1>2, <1>5, <1>6, <1>7, <1>8 DEF processWindowUpdate

LEMMA processSettingsAckTyped == ASSUME Typed, processSettingsAck PROVE Typed'
<1>1. reader' \in FrameReaders /\ sc \in Sessions
  BY ReceiveTyped DEF processSettingsAck, Typed
<1>2. PICK n : n = sc.unackedSettings - 1
  OBVIOUS
<1>3. n \in Int
  BY <1>1, <1>2 DEF Sessions
<1>4. sc' = [sc EXCEPT !.sawFirstSettings = TRUE, !.unackedSettings = n]
  BY <1>2 DEF processSettingsAck
<1>5. /\ sc' \in Sessions
      /\ sc'.maxClientStreamID = sc.maxClientStreamID
      /\ sc'.maxPushPromiseID = sc.maxPushPromiseID
  BY <1>1, <1>3, <1>4 DEF Sessions
<1>6. PICK calls : calls = IF sc.unackedSettings <= 0 THEN ConnError ELSE <<>>
  OBVIOUS
<1>7. calls \in Seq(Stackable(Known, Closed)) /\ Then(calls)
  BY <1>6, ConnErrorTyped DEF processSettingsAck
<1>8. pend' \in Seq(Stackable(Known, Closed))
  BY <1>7, ThenTyped
<1> QED BY <1>1, <1>5, <1>8, SameStreamsTyped DEF processSettingsAck

LEMMA receiveSettingsTyped == ASSUME Typed, receiveSettings PROVE Typed'
<1>1. reader' \in FrameReaders /\ sc \in Sessions /\ frame.set \in Seq(Settings)
  BY ReceiveTyped DEF receiveSettings, Typed, AnyFrames
<1>2. /\ sc' \in Sessions
      /\ sc'.maxClientStreamID = sc.maxClientStreamID
      /\ sc'.maxPushPromiseID = sc.maxPushPromiseID
  BY <1>1 DEF receiveSettings, Sessions
<1>3. Op("processSettings", 0, 0) \in Stackable(Known, Closed)
  BY OpTyped DEF PlainOps
<1>4. PICK p : p = [Op("processSettings", 0, 0) EXCEPT !.set = frame.set]
  OBVIOUS
<1>5. p \in Stackable(Known, Closed)
  BY <1>1, <1>3, <1>4 DEF Stackable, Pending
<1>6. <<p>> \in Seq(Stackable(Known, Closed)) /\ Then(<<p>>)
  BY <1>4, <1>5 DEF receiveSettings
<1>7. pend' \in Seq(Stackable(Known, Closed))
  BY <1>6, ThenTyped
<1> QED BY <1>1, <1>2, <1>7, SameStreamsTyped DEF receiveSettings

LEMMA SettingsDoneTyped == ASSUME Typed, SettingsDone PROVE Typed'
<1>1. Tail(pend) \in Seq(Stackable(Known, Closed)) /\ sc \in Sessions
  BY TopTyped DEF SettingsDone, Running, Typed
<1>2. PICK s : s = [sc EXCEPT !.needToSendSettingsAck = TRUE]
  OBVIOUS
<1>3. /\ s \in Sessions
      /\ s.maxClientStreamID = sc.maxClientStreamID
      /\ s.maxPushPromiseID = sc.maxPushPromiseID
  BY <1>1, <1>2 DEF Sessions
<1>4. ScheduleFrameWrite(s, Tail(pend))
  BY <1>2 DEF SettingsDone
<1>5. /\ sc' \in Sessions
      /\ sc'.maxClientStreamID = s.maxClientStreamID
      /\ sc'.maxPushPromiseID = s.maxPushPromiseID
      /\ pend' \in Seq(Stackable(Known, Closed))
  BY <1>1, <1>3, <1>4, ScheduleTyped
<1> QED BY <1>3, <1>5, SameStreamsTyped DEF SettingsDone

(* processSettings goes on, or is given up.                                *)
LEMMA NextSettingTyped ==
    ASSUME Typed, Running("processSettings"), Top.set # <<>>
    PROVE  /\ Head(Top.set) \in Settings
           /\ NextSetting \in Seq(Stackable(Known, Closed))
           /\ ConnError \o Tail(pend) \in Seq(Stackable(Known, Closed))
<1>1. /\ Top \in Stackable(Known, Closed) /\ Top \in Pending
      /\ Tail(pend) \in Seq(Stackable(Known, Closed))
  BY TopTyped DEF Running
<1>2. Top.set \in Seq(Settings)
  BY <1>1 DEF Pending
<1>3. Head(Top.set) \in Settings /\ Tail(Top.set) \in Seq(Settings)
  BY <1>2
<1>4. PICK p : p = [Top EXCEPT !.set = Tail(Top.set)]
  OBVIOUS
<1>5. p \in Stackable(Known, Closed)
  BY <1>1, <1>3, <1>4 DEF Stackable, Pending
<1>6. NextSetting = <<p>> \o Tail(pend)
  BY <1>4 DEF NextSetting
<1>7. NextSetting \in Seq(Stackable(Known, Closed))
  BY <1>1, <1>5, <1>6
<1>8. ConnError \in Seq(Stackable(Known, Closed))
  BY ConnErrorTyped
<1> QED BY <1>1, <1>3, <1>7, <1>8

LEMMA processSettingTyped == ASSUME Typed, processSetting PROVE Typed'
<1>1. PICK s : s = Head(Top.set)
  OBVIOUS
<1>2. /\ s \in Settings /\ sc \in Sessions
      /\ NextSetting \in Seq(Stackable(Known, Closed))
      /\ ConnError \o Tail(pend) \in Seq(Stackable(Known, Closed))
  BY <1>1, NextSettingTyped DEF processSetting, Typed
<1>3. pend' = IF s.k = "invalid" THEN ConnError \o Tail(pend) ELSE NextSetting
  BY <1>1 DEF processSetting
<1>4. pend' \in Seq(Stackable(Known, Closed))
  BY <1>2, <1>3
<1>5. sc' = CASE s.k = "maxStreams" -> [sc EXCEPT !.peerMaxStreams = s.v]
              [] s.k = "maxFrame" -> [sc EXCEPT !.maxFrameSize = s.v]
              [] OTHER -> sc
  BY <1>1 DEF processSetting
<1>6. s.v \in Nat
  BY <1>2 DEF Settings
<1>7. \/ sc' = [sc EXCEPT !.peerMaxStreams = s.v]
      \/ sc' = [sc EXCEPT !.maxFrameSize = s.v]
      \/ sc' = sc
  BY <1>5
<1>8. /\ sc' \in Sessions
      /\ sc'.maxClientStreamID = sc.maxClientStreamID
      /\ sc'.maxPushPromiseID = sc.maxPushPromiseID
  <2>1. CASE sc' = [sc EXCEPT !.peerMaxStreams = s.v]
    BY <1>2, <1>6, <2>1 DEF Sessions
  <2>2. CASE sc' = [sc EXCEPT !.maxFrameSize = s.v]
    BY <1>2, <1>6, <2>2 DEF Sessions
  <2>3. CASE sc' = sc
    BY <1>2, <2>3
  <2> QED BY <1>7, <2>1, <2>2, <2>3
<1> QED BY <1>4, <1>8, SameStreamsTyped DEF processSetting

LEMMA processSettingInitialWindowSizeTyped ==
    ASSUME Typed, processSettingInitialWindowSize PROVE Typed'
<1>1. PICK v : v = Head(Top.set).v
  OBVIOUS
<1>2. PICK growth : growth = v - sc.initialStreamSendWindowSize
  OBVIOUS
<1>3. /\ Head(Top.set) \in Settings /\ Head(Top.set).k = "initWin" /\ sc \in Sessions
      /\ NextSetting \in Seq(Stackable(Known, Closed))
      /\ ConnError \o Tail(pend) \in Seq(Stackable(Known, Closed))
      /\ st \in [Ids -> StreamObjects]
  BY NextSettingTyped DEF processSettingInitialWindowSize, Typed
<1>4. v \in 0 .. MaxInt32 /\ growth \in Int
  <2>1. v \in 0 .. MaxInt32
    BY <1>1, <1>3, MaxInt32Assumption DEF Settings
  <2>2. sc.initialStreamSendWindowSize \in 0 .. MaxInt32
    BY <1>3 DEF Sessions
  <2> QED BY <1>2, <2>1, <2>2, MaxInt32Assumption
<1>5. PICK refusing : refusing = {id \in Ids : InMap(id) /\ ~addOK(st[id].flow, growth)}
  OBVIOUS
<1>6. PICK b \in BOOLEAN : b = (sc.misgrown \/ refusing # {})
  BY <1>3 DEF Sessions
<1>7. sc' = [sc EXCEPT !.initialStreamSendWindowSize = v, !.misgrown = b]
  BY <1>1, <1>2, <1>5, <1>6 DEF processSettingInitialWindowSize
<1>8. /\ sc' \in Sessions
      /\ sc'.maxClientStreamID = sc.maxClientStreamID
      /\ sc'.maxPushPromiseID = sc.maxPushPromiseID
  BY <1>3, <1>4, <1>7 DEF Sessions
<1>9. pend' \in Seq(Stackable(Known, Closed))
  <2>1. pend' = IF refusing = {} THEN NextSetting ELSE ConnError \o Tail(pend)
    BY <1>1, <1>2, <1>5 DEF processSettingInitialWindowSize
  <2> QED BY <1>3, <2>1
<1>10. PICK grown : st' = [id \in Ids |-> IF id \in grown
                                          THEN [st[id] EXCEPT !.flow = added(@, growth)]
                                          ELSE st[id]]
  <2>1. \E grown :
          st' = [id \in Ids |-> IF id \in grown
                                THEN [st[id] EXCEPT !.flow =
                                        added(@, Head(Top.set).v - sc.initialStreamSendWindowSize)]
                                ELSE st[id]]
    BY Zenon DEF processSettingInitialWindowSize
  <2> QED BY <1>1, <1>2, <2>1
<1>11. \A id \in Ids : /\ st'[id] \in StreamObjects
                       /\ st'[id].state = st[id].state
                       /\ st'[id].held = st[id].held /\ st'[id].cw = st[id].cw
  <2> TAKE id \in Ids
  <2>1. st[id] \in StreamObjects
    BY <1>3
  <2>2. st[id].flow \in Int
    BY <2>1 DEF StreamObjects
  <2>3. added(st[id].flow, growth) \in Int
    BY <1>4, <2>2, AddedInt, Zenon
  <2>4. PICK r : r = [st[id] EXCEPT !.flow = added(st[id].flow, growth)]
    OBVIOUS
  <2>5. r \in StreamObjects
    BY <2>1, <2>3, <2>4, CreditTyped
  <2>6. r.state = st[id].state /\ r.held = st[id].held /\ r.cw = st[id].cw
    BY <2>1, <2>4 DEF StreamObjects
  <2>7. st'[id] = r \/ st'[id] = st[id]
    BY <1>10, <2>4
  <2> QED BY <2>1, <2>5, <2>6, <2>7
<1>12. /\ Known' = Known /\ Closed' = Closed /\ st' \in [Ids -> StreamObjects] /\ StreamsOK'
  <2>1. Known' = Known /\ Closed' = Closed
    BY <1>11 DEF Known, Closed
  <2>2. \A id \in Ids : MaxStreamID(id)' = MaxStreamID(id)
    BY <1>8 DEF MaxStreamID
  <2>3. StreamsOK'
    BY <1>11, <2>1, <2>2 DEF Typed, StreamsOK
  <2>4. st' = [id \in Ids |-> st'[id]]
    BY <1>10
  <2> QED BY <1>11, <2>1, <2>3, <2>4
<1> QED BY <1>8, <1>9, <1>12, TypedKept DEF processSettingInitialWindowSize

(* An integer field of the session moves, nothing else.                    *)
LEMMA ConnInflowTyped ==
    ASSUME NEW s \in Sessions, NEW n \in Nat
    PROVE  /\ [s EXCEPT !.inflow = @ - n] \in Sessions
           /\ [s EXCEPT !.inflow = @ - n].maxClientStreamID = s.maxClientStreamID
           /\ [s EXCEPT !.inflow = @ - n].maxPushPromiseID = s.maxPushPromiseID
<1>1. s.inflow \in Int
  BY DEF Sessions
<1>2. s.inflow - n \in Int
  BY <1>1
<1>3. [s EXCEPT !.inflow = @ - n] = [s EXCEPT !.inflow = s.inflow - n]
  OBVIOUS
<1>4. [s EXCEPT !.inflow = @ - n] \in Sessions
  BY <1>2, <1>3, WindowFieldTyped
<1> QED BY <1>4 DEF Sessions

LEMMA processDataTyped == ASSUME Typed, processData PROVE Typed'
<1>1. Receive("data")
  BY DEF processData, Handled
<1>2. PICK id, n, pad, length :
        id = frame.id /\ n = frame.n /\ pad = frame.pad /\ length = frame.n + frame.pad
  OBVIOUS
<1>3. /\ reader' \in FrameReaders /\ sc \in Sessions
      /\ id \in Ids \union {0} /\ n \in Nat /\ pad \in Nat
  BY <1>1, <1>2, ReceiveTyped DEF Typed
<1>4. length \in Nat
  BY <1>2, <1>3
<1>5. UNCHANGED <<q, writer, want, msgs, call, life, sent, peerLeft, panic>>
  BY DEF processData
<1>6. CASE UNCHANGED <<sc, st>> /\ \E calls \in Seq(Stackable(Known, Closed)) : Then(calls)
  <2>1. pend' \in Seq(Stackable(Known, Closed))
    BY <1>6, ThenTyped
  <2> QED BY <1>3, <1>5, <1>6, <2>1, SameStreamsTyped
<1>7. CASE DiscardData
  <2>1. id \in Ids
    BY <1>2, <1>3, <1>7 DEF DiscardData
  <2>2. resetStream(id) \in Seq(Stackable(Known, Closed))
    BY <2>1, ResetStreamTyped
  <2>3. CASE sc.inflow < length
    <3>1. UNCHANGED <<sc, st>> /\ Then(resetStream(id))
      BY <1>2, <1>7, <2>3 DEF DiscardData
    <3> QED BY <1>6, <2>2, <3>1
  <2>4. CASE ~(sc.inflow < length)
    <3>1. PICK last : last = IF InMap(id) /\ st[id].resetQueued THEN <<>> ELSE resetStream(id)
      OBVIOUS
    <3>2. /\ sc' = [sc EXCEPT !.inflow = @ - length]
          /\ Then(<<Op("sendWindowUpdate", 0, length)>> \o last)
          /\ st' = st
      BY <1>2, <1>7, <2>4, <3>1 DEF DiscardData
    <3>3. last \in Seq(Stackable(Known, Closed))
      BY <2>2, <3>1, ConnErrorTyped
    <3>4. Op("sendWindowUpdate", 0, length) \in Stackable(Known, Closed)
      BY <1>4, ConnRefundTyped
    <3>5. <<Op("sendWindowUpdate", 0, length)>> \o last \in Seq(Stackable(Known, Closed))
      BY <3>3, <3>4
    <3>6. pend' \in Seq(Stackable(Known, Closed))
      BY <3>2, <3>5, ThenTyped
    <3>7. /\ sc' \in Sessions
          /\ sc'.maxClientStreamID = sc.maxClientStreamID
          /\ sc'.maxPushPromiseID = sc.maxPushPromiseID
      BY <1>3, <1>4, <3>2, ConnInflowTyped
    <3> QED BY <1>3, <1>5, <3>2, <3>6, <3>7, SameStreamsTyped
  <2> QED BY <2>3, <2>4
<1>8. CASE AcceptData
  <2>1. id \in Ids /\ id \in Known /\ st[id] \in StreamObjects /\ Known \subseteq Ids
    <3>1. id \in Ids /\ InMap(id)
      BY <1>2, <1>3, <1>8 DEF AcceptData
    <3> QED BY <3>1 DEF InMap, Live, Known, Typed
  <2>2. CASE available(st[id].inflow, sc.inflow) < length
    <3>1. UNCHANGED <<sc, st>> /\ Then(resetStream(id))
      BY <1>2, <1>8, <2>2 DEF AcceptData
    <3>2. resetStream(id) \in Seq(Stackable(Known, Closed))
      BY <2>1, ResetStreamTyped
    <3> QED BY <1>6, <3>1, <3>2
  <2>3. CASE ~(available(st[id].inflow, sc.inflow) < length)
    <3>1. PICK refunds, last :
            /\ refunds = RefundPadding(id, pad)
            /\ last = IF frame.end THEN <<Op("endStream", id, 0)>> ELSE <<>>
      OBVIOUS
    <3>2. /\ sc' = [sc EXCEPT !.inflow = @ - length]
          /\ st' = [st EXCEPT ![id] = [@ EXCEPT !.inflow = st[id].inflow - length,
                                                !.body = st[id].body + n]]
          /\ Then(refunds \o last)
      BY <1>2, <1>8, <2>3, <3>1 DEF AcceptData
    <3>3. refunds \in Seq(Stackable(Known, Closed))
      <4>1. /\ Op("sendWindowUpdate", 0, pad) \in Stackable(Known, Closed)
            /\ Op("sendWindowUpdate", id, pad) \in Stackable(Known, Closed)
        BY <1>3, <2>1, ConnRefundTyped, StreamOpTyped
      <4>2. <<Op("sendWindowUpdate", 0, pad), Op("sendWindowUpdate", id, pad)>>
              \in Seq(Stackable(Known, Closed))
        BY <4>1
      <4> QED BY <3>1, <4>2, ConnErrorTyped DEF RefundPadding
    <3>4. last \in Seq(Stackable(Known, Closed))
      <4>1. Op("endStream", id, 0) \in Stackable(Known, Closed)
        BY <2>1, StreamOpTyped
      <4>2. <<Op("endStream", id, 0)>> \in Seq(Stackable(Known, Closed))
        BY <4>1
      <4> QED BY <3>1, <4>2, ConnErrorTyped
    <3>5. refunds \o last \in Seq(Stackable(Known, Closed))
      BY <3>3, <3>4
    <3>6. pend' \in Seq(Stackable(Known, Closed))
      BY <3>2, <3>5, ThenTyped
    <3>7. /\ sc' \in Sessions
          /\ sc'.maxClientStreamID = sc.maxClientStreamID
          /\ sc'.maxPushPromiseID = sc.maxPushPromiseID
      BY <1>3, <1>4, <3>2, ConnInflowTyped
    <3>8. st[id].inflow - length \in Int /\ st[id].body + n \in Nat
      <4>1. st[id].inflow \in Int /\ st[id].body \in Nat
        BY <2>1 DEF StreamObjects
      <4> QED BY <1>3, <1>4, <4>1
    <3>9. PICK r : r = [st[id] EXCEPT !.inflow = st[id].inflow - length, !.body = st[id].body + n]
      OBVIOUS
    <3>10. r \in StreamObjects
      BY <2>1, <3>8, <3>9, CreditTyped
    <3>11. r.state = st[id].state /\ r.held = st[id].held /\ r.cw = st[id].cw
      BY <2>1, <3>9 DEF StreamObjects
    <3>12. st' = [st EXCEPT ![id] = r]
      BY <3>2, <3>9
    <3>13. r.cw => r.state = "closed"
      BY <2>1, <3>11 DEF Typed, StreamsOK
    <3> QED BY <1>3, <1>5, <2>1, <3>6, <3>7, <3>10, <3>11, <3>12, <3>13, OneStreamStepTyped
  <2> QED BY <2>2, <2>3
<1>9. CASE RefuseData
  BY <1>6, <1>9, ConnErrorTyped DEF RefuseData
<1>10. CASE GoingDown
  <2>1. UNCHANGED <<sc, st>> /\ Then(<<>>)
    BY <1>10 DEF processData
  <2> QED BY <1>6, <2>1, ConnErrorTyped
<1> QED BY <1>7, <1>8, <1>9, <1>10 DEF processData

LEMMA endStreamTyped == ASSUME Typed, endStream PROVE Typed'
<1>1. PICK id : id = Top.id
  OBVIOUS
<1>2. /\ id \in Known /\ id \in Ids /\ sc \in Sessions
      /\ Tail(pend) \in Seq(Stackable(Known, Closed)) /\ st[id] \in StreamObjects
  <2>1. Top \in Stackable(Known, Closed) /\ Top.op = "endStream"
    BY TopTyped DEF endStream, Running, Top
  <2>2. Top.id \in Known
    BY <2>1 DEF Stackable
  <2> QED BY <1>1, <2>2, TopTyped DEF endStream, Running, Typed, Known
<1>3. PICK b \in BOOLEAN : b = ~InMap(id)
  OBVIOUS
<1>4. PICK s : s = IF InMap(id) THEN "halfClosedRemote" ELSE st[id].state
  OBVIOUS
<1>5. PICK r : r = [st[id] EXCEPT !.bodyErr = TRUE, !.stale = b, !.state = s]
  OBVIOUS
<1>6. s \in StreamStates
  BY <1>2, <1>4 DEF StreamStates, StreamObjects
<1>7. r \in StreamObjects
  BY <1>2, <1>5, <1>6, StreamFlagsTyped
<1>8. r.state = s /\ r.held = st[id].held /\ r.cw = st[id].cw
  BY <1>2, <1>5 DEF StreamObjects
<1>9. /\ st' = [st EXCEPT ![id] = r]
      /\ pend' = Tail(pend)
      /\ UNCHANGED <<sc, q, writer, reader, want, msgs, call, life, sent, peerLeft, panic>>
  BY <1>1, <1>3, <1>4, <1>5 DEF endStream
<1>10. /\ r.state = "idle" <=> st[id].state = "idle"
       /\ st[id].state = "closed" => r.state = "closed"
       /\ r.cw => r.state = "closed"
  BY <1>2, <1>4, <1>8 DEF InMap, Live, Typed, StreamsOK
<1> QED BY <1>2, <1>7, <1>8, <1>9, <1>10, OneStreamStepTyped

(* createStream and processHeaders make a stream object, and count it.     *)
LEMMA NewStreamTyped ==
    ASSUME Typed, NEW state \in {"open", "halfClosedRemote"}, NEW held \in BOOLEAN
    PROVE  /\ NewStream(state, held) \in StreamObjects
           /\ NewStream(state, held).state = state
           /\ NewStream(state, held).held = held
           /\ NewStream(state, held).cw = FALSE
<1>1. sc.initialStreamSendWindowSize \in Int /\ InitialStreamWindow \in Int
  <2>1. sc.initialStreamSendWindowSize \in 0 .. MaxInt32
    BY DEF Typed, Sessions
  <2> QED BY <2>1, MaxInt32Assumption, SessionAssumption
<1>2. PICK a \in Int, b \in Int : a = sc.initialStreamSendWindowSize /\ b = InitialStreamWindow
  BY <1>1
<1>3. NoStream \in StreamObjects /\ NoStream.cw = FALSE
  BY DEF NoStream, StreamObjects, StreamStates
<1>4. PICK r \in StreamObjects : r = NoStream /\ r.cw = FALSE
  BY <1>3
<1>5. NewStream(state, held) = [r EXCEPT !.state = state, !.flow = a, !.inflow = b, !.held = held]
  BY <1>2, <1>4 DEF NewStream
<1>6. PICK t : t = [r EXCEPT !.state = state, !.flow = a, !.inflow = b, !.held = held]
  OBVIOUS
<1>7. t \in StreamObjects
  BY <1>6 DEF StreamObjects, StreamStates
<1>8. t.state = state /\ t.held = held /\ t.cw = FALSE
  BY <1>4, <1>6 DEF StreamObjects
<1> QED BY <1>5, <1>6, <1>7, <1>8

LEMMA SetMaxStreamIDTyped ==
    ASSUME NEW s \in Sessions, NEW id \in Ids
    PROVE  /\ SetMaxStreamID(s, id) \in Sessions
           /\ Counted(SetMaxStreamID(s, id), id) \in Sessions
           /\ \A t \in {SetMaxStreamID(s, id), Counted(SetMaxStreamID(s, id), id)} :
                /\ t.maxClientStreamID = IF isPushed(id) THEN s.maxClientStreamID ELSE id
                /\ t.maxPushPromiseID = IF isPushed(id) THEN id ELSE s.maxPushPromiseID
<1>1. PICK t : t = SetMaxStreamID(s, id)
  OBVIOUS
<1>2. /\ t \in Sessions
      /\ t.maxClientStreamID = IF isPushed(id) THEN s.maxClientStreamID ELSE id
      /\ t.maxPushPromiseID = IF isPushed(id) THEN id ELSE s.maxPushPromiseID
  <2>1. CASE isPushed(id)
    BY <1>1, <2>1 DEF SetMaxStreamID, Sessions
  <2>2. CASE ~isPushed(id)
    BY <1>1, <2>2 DEF SetMaxStreamID, Sessions
  <2> QED BY <2>1, <2>2
<1>3. PICK u : u = Counted(t, id)
  OBVIOUS
<1>4. /\ u \in Sessions
      /\ u.maxClientStreamID = t.maxClientStreamID
      /\ u.maxPushPromiseID = t.maxPushPromiseID
  <2>1. t.curPushedStreams \in Int /\ t.curClientStreams \in Int
    BY <1>2 DEF Sessions
  <2>2. t.curPushedStreams + 1 \in Int /\ t.curClientStreams + 1 \in Int
    BY <2>1
  <2>3. u = IF isPushed(id) THEN [t EXCEPT !.curPushedStreams = t.curPushedStreams + 1]
            ELSE [t EXCEPT !.curClientStreams = t.curClientStreams + 1]
    BY <1>3 DEF Counted
  <2>4. u \in Sessions
    BY <1>2, <2>2, <2>3, CountsTyped
  <2>5. u.maxClientStreamID = t.maxClientStreamID /\ u.maxPushPromiseID = t.maxPushPromiseID
    BY <1>2, <2>3 DEF Sessions
  <2> QED BY <2>4, <2>5
<1> QED BY <1>1, <1>2, <1>3, <1>4

(* A new stream: its identifier is above those in use of its kind.         *)
LEMMA CreatedTyped ==
    ASSUME Typed, NEW id \in Ids, id > MaxStreamID(id),
           NEW state \in {"open", "halfClosedRemote"}, NEW held \in BOOLEAN,
           st' = [st EXCEPT ![id] = NewStream(state, held)],
           sc' = Counted(SetMaxStreamID(sc, id), id)
    PROVE  /\ sc' \in Sessions /\ id \in Known'
           /\ Known \subseteq Known' /\ Closed \subseteq Closed'
           /\ st' \in [Ids -> StreamObjects] /\ StreamsOK'
<1>1. PICK r : r = NewStream(state, held)
  OBVIOUS
<1>2. r \in StreamObjects /\ r.state = state /\ r.held = held /\ r.cw = FALSE
  BY <1>1, NewStreamTyped
<1>3. sc \in Sessions
  BY DEF Typed
<1>4. /\ sc' \in Sessions
      /\ sc'.maxClientStreamID = IF isPushed(id) THEN sc.maxClientStreamID ELSE id
      /\ sc'.maxPushPromiseID = IF isPushed(id) THEN id ELSE sc.maxPushPromiseID
  BY <1>3, SetMaxStreamIDTyped
<1>5. id \in Nat /\ sc.maxClientStreamID \in Nat /\ sc.maxPushPromiseID \in Nat
  BY <1>3, MaxStreamIDNat DEF Ids
<1>6. /\ sc'.maxClientStreamID >= sc.maxClientStreamID
      /\ sc'.maxPushPromiseID >= sc.maxPushPromiseID
      /\ id <= MaxStreamID(id)'
  BY <1>4, <1>5 DEF MaxStreamID
<1>7. st' = [st EXCEPT ![id] = r]
  BY <1>1
<1>8. id \notin Known
  <2>1. MaxStreamID(id) \in Nat
    BY <1>5 DEF MaxStreamID
  <2> QED BY <1>5, <2>1 DEF Typed, StreamsOK
<1>9. id \notin Closed
  BY <1>8 DEF Known, Closed
<1>10. Known \subseteq Known' /\ Closed \subseteq Closed' /\ st' \in [Ids -> StreamObjects] /\ StreamsOK'
  BY <1>2, <1>4, <1>6, <1>7, <1>8, <1>9, OneStreamTyped
<1>11. id \in Known'
  <2>1. st'[id] = r
    BY <1>7 DEF Typed
  <2> QED BY <1>2, <2>1 DEF Known
<1> QED BY <1>4, <1>10, <1>11

LEMMA HeadersOnStreamTyped ==
    ASSUME Typed, Receive("headers"), HeadersOnStream,
           UNCHANGED <<q, writer, want, msgs, call, life, sent, peerLeft, panic>>
    PROVE  Typed'
<1>1. PICK id : id = frame.id
  OBVIOUS
<1>2. /\ reader' \in FrameReaders /\ sc \in Sessions /\ sc' = sc
      /\ id \in Ids /\ id \in Known /\ st[id] \in StreamObjects /\ Known \subseteq Ids
  <2>1. id \in Ids /\ InMap(id) /\ sc' = sc
    BY <1>1, FrameIdTyped DEF HeadersOnStream
  <2> QED BY <2>1, ReceiveTyped DEF Typed, InMap, Live, Known
<1>3. /\ resetStream(id) \in Seq(Stackable(Known, Closed))
      /\ <<>> \in Seq(Stackable(Known, Closed)) /\ ConnError \in Seq(Stackable(Known, Closed))
      /\ <<Op("endStream", id, 0)>> \in Seq(Stackable(Known, Closed))
  <2>1. Op("endStream", id, 0) \in Stackable(Known, Closed)
    BY <1>2, StreamOpTyped
  <2>2. <<Op("endStream", id, 0)>> \in Seq(Stackable(Known, Closed))
    BY <2>1
  <2> QED BY <1>2, <2>2, ResetStreamTyped, ConnErrorTyped
<1>4. PICK after : after = IF ~frame.end \/ frame.x = "pseudo" THEN resetStream(id)
                           ELSE <<Op("endStream", id, 0)>>
  OBVIOUS
<1>5. after \in Seq(Stackable(Known, Closed))
  BY <1>3, <1>4
<1>6. CASE st' = st /\ (Then(<<>>) \/ Then(ConnError))
  <2>1. pend' \in Seq(Stackable(Known, Closed))
    BY <1>3, <1>6, ThenTyped
  <2> QED BY <1>2, <1>6, <2>1, SameStreamsTyped
<1>7. ASSUME NEW r \in StreamObjects, st' = [st EXCEPT ![id] = r],
             r.state = st[id].state, r.held = st[id].held, r.cw = st[id].cw,
             Then(<<>>) \/ Then(after)
      PROVE  Typed'
  <2>1. pend' \in Seq(Stackable(Known, Closed))
    BY <1>3, <1>5, <1>7, ThenTyped
  <2>2. r.cw => r.state = "closed"
    BY <1>2, <1>7 DEF Typed, StreamsOK
  <2> QED BY <1>2, <1>7, <2>1, <2>2, OneStreamStepTyped
<1>8. CASE /\ st' = [st EXCEPT ![id] = [@ EXCEPT !.replied = TRUE, !.ready = TRUE]]
           /\ Then(<<>>)
  <2>1. PICK r : r = [st[id] EXCEPT !.replied = TRUE, !.ready = TRUE]
    OBVIOUS
  <2>2. r \in StreamObjects
    BY <1>2, <2>1, StreamFlagsTyped DEF StreamStates
  <2>3. r.state = st[id].state /\ r.held = st[id].held /\ r.cw = st[id].cw
    BY <1>2, <2>1 DEF StreamObjects
  <2>4. st' = [st EXCEPT ![id] = r]
    BY <1>8, <2>1
  <2> QED BY <1>7, <1>8, <2>2, <2>3, <2>4
<1>9. CASE st' = [st EXCEPT ![id].gotTrailerHeader = TRUE] /\ Then(after)
  <2>1. PICK r : r = [st[id] EXCEPT !.gotTrailerHeader = TRUE]
    OBVIOUS
  <2>2. r \in StreamObjects
    BY <1>2, <2>1, StreamFlagsTyped DEF StreamStates
  <2>3. r.state = st[id].state /\ r.held = st[id].held /\ r.cw = st[id].cw
    BY <1>2, <2>1 DEF StreamObjects
  <2>4. st' = [st EXCEPT ![id] = r]
    BY <1>9, <2>1
  <2> QED BY <1>7, <1>9, <2>2, <2>3, <2>4
<1> QED BY <1>1, <1>4, <1>6, <1>8, <1>9 DEF HeadersOnStream

LEMMA HeadersOpenStreamTyped ==
    ASSUME Typed, Receive("headers"), HeadersOpenStream,
           UNCHANGED <<q, writer, want, msgs, call, life, sent, peerLeft, panic>>
    PROVE  Typed'
<1>1. PICK id : id = frame.id
  OBVIOUS
<1>2. reader' \in FrameReaders /\ sc \in Sessions /\ id \in Ids
  BY <1>1, FrameIdTyped, ReceiveTyped DEF Typed
<1>3. CASE UNCHANGED <<sc, st>> /\ Then(ConnError)
  <2>1. pend' \in Seq(Stackable(Known, Closed))
    BY <1>3, ThenTyped, ConnErrorTyped
  <2> QED BY <1>2, <1>3, <2>1, SameStreamsTyped
<1>4. CASE /\ ~(id <= MaxStreamID(id))
           /\ sc' = SetMaxStreamID(sc, id) /\ UNCHANGED st /\ Then(resetStream(id))
  <2>1. pend' \in Seq(Stackable(Known, Closed))
    BY <1>2, <1>4, ThenTyped, ResetStreamTyped
  <2>2. /\ sc' \in Sessions
        /\ sc'.maxClientStreamID = IF isPushed(id) THEN sc.maxClientStreamID ELSE id
        /\ sc'.maxPushPromiseID = IF isPushed(id) THEN id ELSE sc.maxPushPromiseID
    BY <1>2, <1>4, SetMaxStreamIDTyped
  <2>3. id \in Nat /\ sc.maxClientStreamID \in Nat /\ sc.maxPushPromiseID \in Nat
    BY <1>2, MaxStreamIDNat DEF Ids
  <2>4. \A i \in Ids : /\ i \in Nat /\ MaxStreamID(i) \in Nat /\ MaxStreamID(i)' \in Nat
                       /\ MaxStreamID(i) <= MaxStreamID(i)'
    BY <1>2, <1>4, <2>2, <2>3 DEF MaxStreamID, Ids
  <2>5. Known' = Known /\ Closed' = Closed /\ st' \in [Ids -> StreamObjects]
    BY <1>4 DEF Known, Closed, Typed
  <2>6. StreamsOK'
    BY <1>4, <2>4, <2>5 DEF Typed, StreamsOK
  <2> QED BY <1>2, <2>1, <2>2, <2>5, <2>6, TypedKept
<1>5. CASE /\ ~(id <= MaxStreamID(id))
           /\ sc' = Counted(SetMaxStreamID(sc, id), id)
           /\ st' = [st EXCEPT ![id] = NewStream(IF frame.end THEN "halfClosedRemote" ELSE "open",
                                                 frame.x # "selfDep")]
           /\ Then(IF frame.x = "selfDep" THEN resetStream(id) ELSE <<>>)
  <2>1. PICK state \in {"open", "halfClosedRemote"} :
          state = IF frame.end THEN "halfClosedRemote" ELSE "open"
    OBVIOUS
  <2>2. PICK held \in BOOLEAN : held = (frame.x # "selfDep")
    OBVIOUS
  <2>3. st' = [st EXCEPT ![id] = NewStream(state, held)]
    BY <1>5, <2>1, <2>2
  <2>4. id > MaxStreamID(id)
    <3>1. id \in Nat /\ MaxStreamID(id) \in Nat
      BY <1>2, MaxStreamIDNat DEF Ids, MaxStreamID
    <3> QED BY <1>5, <3>1
  <2>5. /\ sc' \in Sessions /\ id \in Known'
        /\ Known \subseteq Known' /\ Closed \subseteq Closed'
        /\ st' \in [Ids -> StreamObjects] /\ StreamsOK'
    BY <1>2, <1>5, <2>3, <2>4, CreatedTyped
  <2>6. PICK calls : calls = IF frame.x = "selfDep" THEN resetStream(id) ELSE <<>>
    OBVIOUS
  <2>7. calls \in Seq(Stackable(Known', Closed')) /\ Then(calls)
    BY <1>2, <1>5, <2>6, ResetStreamTyped, ConnErrorTyped
  <2>8. pend' \in Seq(Stackable(Known', Closed'))
    BY <2>7, ThenTyped
  <2> QED BY <1>2, <2>5, <2>8, TypedKept
<1> QED BY <1>1, <1>3, <1>4, <1>5 DEF HeadersOpenStream

LEMMA processHeadersTyped == ASSUME Typed, processHeaders PROVE Typed'
<1>1. /\ Receive("headers")
      /\ UNCHANGED <<q, writer, want, msgs, call, life, sent, peerLeft, panic>>
  BY DEF processHeaders, Handled
<1>2. frame.id \in Ids /\ reader' \in FrameReaders /\ sc \in Sessions
  BY <1>1, FrameIdTyped, ReceiveTyped DEF Typed
<1>3. CASE UNCHANGED <<sc, st>> /\ (Then(<<>>) \/ Then(resetStream(frame.id)))
  <2>1. pend' \in Seq(Stackable(Known, Closed))
    BY <1>2, <1>3, ThenTyped, ResetStreamTyped, ConnErrorTyped
  <2> QED BY <1>1, <1>2, <1>3, <2>1, SameStreamsTyped
<1> QED BY <1>1, <1>3, HeadersOnStreamTyped, HeadersOpenStreamTyped DEF processHeaders

LEMMA ReadStepTyped == ASSUME Typed, ReadStep PROVE Typed'
BY readMoreTyped, TooEarlyTyped, processPingTyped, processFatalTyped, processStreamErrorTyped,
   processIgnoredTyped, processPriorityTyped, processGoAwayTyped, processEOFTyped,
   processResetStreamTyped, processWindowUpdateTyped, processSettingsAckTyped,
   receiveSettingsTyped, SettingsDoneTyped, processSettingTyped,
   processSettingInitialWindowSizeTyped, processDataTyped, endStreamTyped, processHeadersTyped
   DEF ReadStep

-------------------------------------------------------------------------------
(* serve's loop.                                                           *)
LEMMA handshakeTyped == ASSUME Typed, handshake PROVE Typed'
<1>1. sc \in Sessions /\ sc.unackedSettings \in Int /\ sc.inflow \in Int /\ DefaultWindow \in Int
  <2>1. sc \in Sessions
    BY DEF Typed
  <2> QED BY <2>1, SessionAssumption, MaxInt32Assumption DEF Sessions
<1>2. CASE pend' = <<Op("exit", 0, 0)>> /\ UNCHANGED sc
  <2>1. Op("exit", 0, 0) \in Stackable(Known, Closed)
    BY OpTyped DEF PlainOps
  <2>2. pend' \in Seq(Stackable(Known, Closed))
    BY <1>2, <2>1
  <2> QED BY <1>1, <1>2, <2>2, SameStreamsTyped DEF handshake
<1>3. CASE /\ pend' = <<OpOn("writeFrame", Control("settings"))>> \o
                      (IF sc.inflow > DefaultWindow
                       THEN <<Op("sendWindowUpdate", 0, sc.inflow - DefaultWindow)>> ELSE <<>>)
                      \o <<Op("startReader", 0, 0)>>
           /\ sc' = [sc EXCEPT !.unackedSettings = @ + 1]
  <2>1. PICK n \in Int : n = sc.unackedSettings + 1
    BY <1>1
  <2>2. /\ sc' \in Sessions
        /\ sc'.maxClientStreamID = sc.maxClientStreamID
        /\ sc'.maxPushPromiseID = sc.maxPushPromiseID
    <3>1. sc' = [sc EXCEPT !.unackedSettings = n]
      BY <1>3, <2>1
    <3> QED BY <1>1, <3>1 DEF Sessions
  <2>3. OpOn("writeFrame", Control("settings")) \in Stackable(Known, Closed)
    BY ControlTyped, OpOnTyped
  <2>4. Op("startReader", 0, 0) \in Stackable(Known, Closed)
    BY OpTyped DEF PlainOps
  <2>5. PICK update : update = IF sc.inflow > DefaultWindow
                               THEN <<Op("sendWindowUpdate", 0, sc.inflow - DefaultWindow)>>
                               ELSE <<>>
    OBVIOUS
  <2>6. update \in Seq(Stackable(Known, Closed))
    <3>1. CASE sc.inflow > DefaultWindow
      <4>1. sc.inflow - DefaultWindow \in Nat
        BY <1>1, <3>1
      <4>2. Op("sendWindowUpdate", 0, sc.inflow - DefaultWindow) \in Stackable(Known, Closed)
        BY <4>1, ConnRefundTyped
      <4> QED BY <2>5, <3>1, <4>2
    <3>2. CASE ~(sc.inflow > DefaultWindow)
      BY <2>5, <3>2, ConnErrorTyped
    <3> QED BY <3>1, <3>2
  <2>7. pend' = <<OpOn("writeFrame", Control("settings"))>> \o update \o <<Op("startReader", 0, 0)>>
    BY <1>3, <2>5
  <2>8. pend' \in Seq(Stackable(Known, Closed))
    BY <2>3, <2>4, <2>6, <2>7
  <2> QED BY <2>2, <2>8, SameStreamsTyped DEF handshake
<1> QED BY <1>2, <1>3 DEF handshake

LEMMA startReaderTyped == ASSUME Typed, startReader PROVE Typed'
<1>1. Tail(pend) \in Seq(Stackable(Known, Closed)) /\ sc \in Sessions /\ reader \in FrameReaders
  BY TopTyped DEF startReader, Running, Typed
<1>2. reader' \in FrameReaders
  BY <1>1 DEF startReader, FrameReaders
<1> QED BY <1>1, <1>2, SameStreamsTyped DEF startReader

LEMMA SelectWantTyped == ASSUME Typed, SelectWant PROVE Typed'
<1>1. PICK wr : wr = Head(want)
  OBVIOUS
<1>2. want \in Seq(Requests(Known)) /\ want # <<>> /\ sc \in Sessions
  BY DEF SelectWant, Typed
<1>3. wr \in Requests(Known) /\ want' \in Seq(Requests(Known))
  BY <1>1, <1>2 DEF SelectWant
<1>4. PICK calls : calls = IF wr.kind = "rst" THEN resetStream(wr.id) ELSE <<OpOn("writeFrame", wr)>>
  OBVIOUS
<1>5. pend' = calls \o <<Op("iter", 0, 0)>>
  BY <1>1, <1>4 DEF SelectWant
<1>6. calls \in Seq(Stackable(Known, Closed))
  <2>1. CASE wr.kind = "rst"
    <3>1. wr.id \in Ids
      BY <1>3, <2>1, IdsFacts DEF Requests, WriteRequests
    <3> QED BY <1>4, <2>1, <3>1, ResetStreamTyped
  <2>2. CASE wr.kind # "rst"
    <3>1. OpOn("writeFrame", wr) \in Stackable(Known, Closed)
      BY <1>3, OpOnTyped
    <3> QED BY <1>4, <2>2, <3>1
  <2> QED BY <2>1, <2>2
<1>7. Op("iter", 0, 0) \in Stackable(Known, Closed)
  BY OpTyped DEF PlainOps
<1>8. pend' \in Seq(Stackable(Known, Closed))
  BY <1>5, <1>6, <1>7
<1> QED BY <1>2, <1>3, <1>8, SameStreamsTyped DEF SelectWant

LEMMA SelectWroteTyped == ASSUME Typed, SelectWrote PROVE Typed'
<1>1. sc \in Sessions /\ writer.wr \in Requests(Known)
  BY DEF Typed, WriterOK
<1>2. /\ OpOn("wroteFrame", writer.wr) \in Stackable(Known, Closed)
      /\ Op("iter", 0, 0) \in Stackable(Known, Closed)
  BY <1>1, OpOnTyped, OpTyped DEF PlainOps
<1>3. pend' \in Seq(Stackable(Known, Closed))
  <2>1. pend' = <<OpOn("wroteFrame", writer.wr), Op("iter", 0, 0)>>
    BY DEF SelectWrote
  <2> QED BY <1>2, <2>1
<1>4. WriterOK(writer', Known)
  <2>1. Control("flush") \in Requests(Known)
    BY ControlTyped
  <2>2. Control("flush") \in WriteRequests
    BY <2>1 DEF Requests
  <2> QED BY <2>1, <2>2 DEF SelectWrote, WriterOK, Writers
<1> QED BY <1>1, <1>3, <1>4, SameStreamsTyped DEF SelectWrote

LEMMA SelectMsgTyped ==
    ASSUME Typed, NEW m, SelectMsg(m)
    PROVE  /\ msgs' \in Seq(GoodMessages) /\ sc \in Sessions
           /\ m = "open" => Head(msgs).c \in Calls
<1>1. msgs \in Seq(GoodMessages) /\ sc \in Sessions
  BY DEF Typed
<1>2. msgs # <<>> /\ Head(msgs).m = m /\ msgs' = Tail(msgs)
  BY DEF SelectMsg
<1> QED BY <1>1, <1>2 DEF GoodMessages

LEMMA SelectShutdownTyped == ASSUME Typed, SelectShutdown PROVE Typed'
<1>1. msgs' \in Seq(GoodMessages) /\ sc \in Sessions
  BY SelectMsgTyped DEF SelectShutdown
<1>2. /\ Op("goAwayNo", 0, 0) \in Stackable(Known, Closed)
      /\ Op("iter", 0, 0) \in Stackable(Known, Closed)
  BY OpTyped DEF PlainOps
<1>3. pend' \in Seq(Stackable(Known, Closed))
  <2>1. pend' = <<Op("goAwayNo", 0, 0), Op("iter", 0, 0)>>
    BY DEF SelectShutdown
  <2> QED BY <1>2, <2>1
<1> QED BY <1>1, <1>3, SameStreamsTyped DEF SelectShutdown

LEMMA SelectTimerTyped == ASSUME Typed, SelectTimer PROVE Typed'
<1>1. msgs' \in Seq(GoodMessages) /\ sc \in Sessions
  BY SelectMsgTyped DEF SelectTimer
<1>2. Op("exit", 0, 0) \in Stackable(Known, Closed)
  BY OpTyped DEF PlainOps
<1>3. pend' \in Seq(Stackable(Known, Closed))
  <2>1. pend' = <<Op("exit", 0, 0)>>
    BY DEF SelectTimer
  <2> QED BY <1>2, <2>1
<1> QED BY <1>1, <1>3, SameStreamsTyped DEF SelectTimer

(* The identifier that createStream chooses is new, and of this side.      *)
LEMMA NextLocalIDFresh ==
    ASSUME sc \in Sessions, LastLocalID + 2 < StreamIDLimit
    PROVE  /\ NextLocalID \in Ids /\ Local(NextLocalID)
           /\ NextLocalID > MaxStreamID(NextLocalID)
<1>1. /\ sc.maxClientStreamID \in Nat /\ sc.maxPushPromiseID \in Nat
      /\ sc.maxClientStreamID = 0 \/ sc.maxClientStreamID % 2 # 0
      /\ sc.maxPushPromiseID % 2 = 0
  BY MaxStreamIDNat
<1>2. IsServer \in BOOLEAN /\ StreamIDLimit \in Nat /\ StreamIDLimit > 1
  BY SessionAssumption
<1>3. CASE IsServer
  <2>1. NextLocalID = sc.maxPushPromiseID + 2 /\ sc.maxPushPromiseID + 2 < StreamIDLimit
    BY <1>3 DEF NextLocalID, LastLocalID
  <2>2. (sc.maxPushPromiseID + 2) % 2 = 0
    BY <1>1
  <2>3. isPushed(NextLocalID)
    BY <2>1, <2>2 DEF isPushed
  <2>4. Local(NextLocalID)
    BY <1>2, <1>3, <2>3, Zenon DEF Local, isPushed
  <2>5. NextLocalID > MaxStreamID(NextLocalID)
    BY <1>1, <2>1, <2>3 DEF MaxStreamID
  <2> QED BY <1>1, <1>2, <2>1, <2>4, <2>5 DEF Ids
<1>4. CASE ~IsServer
  <2>1. CASE sc.maxClientStreamID = 0
    <3>1. NextLocalID = 1
      BY <1>4, <2>1 DEF NextLocalID
    <3> QED BY <1>1, <1>2, <1>4, <2>1, <3>1 DEF Ids, Local, isPushed, MaxStreamID
  <2>2. CASE sc.maxClientStreamID # 0
    <3>1. NextLocalID = sc.maxClientStreamID + 2 /\ sc.maxClientStreamID + 2 < StreamIDLimit
      BY <1>4, <2>2 DEF NextLocalID, LastLocalID
    <3>2. (sc.maxClientStreamID + 2) % 2 # 0
      BY <1>1, <2>2
    <3> QED BY <1>1, <1>2, <1>4, <3>1, <3>2 DEF Ids, Local, isPushed, MaxStreamID
  <2> QED BY <2>1, <2>2
<1> QED BY <1>3, <1>4

LEMMA createStreamTyped == ASSUME Typed, createStream PROVE Typed'
<1>1. PICK c, id : c = Head(msgs).c /\ id = NextLocalID
  OBVIOUS
<1>2. c \in Calls /\ msgs' \in Seq(GoodMessages) /\ sc \in Sessions
  BY <1>1, SelectMsgTyped DEF createStream
<1>3. UNCHANGED <<q, writer, reader, want, call, life, sent, peerLeft, panic>>
  BY DEF createStream
<1>4. \A K, D : /\ Op("goAwayNo", 0, 0) \in Stackable(K, D)
                /\ Op("iter", 0, 0) \in Stackable(K, D)
  BY OpTyped DEF PlainOps
<1>5. Op("refuse", 0, c) \in Stackable(Known, Closed)
  BY <1>2, CallOpTyped DEF Known
<1>6. CASE UNCHANGED <<sc, st>> /\ pend' = <<Op("refuse", 0, c), Op("iter", 0, 0)>>
  <2>1. pend' \in Seq(Stackable(Known, Closed))
    BY <1>4, <1>5, <1>6
  <2> QED BY <1>2, <1>3, <1>6, <2>1, SameStreamsTyped
<1>7. CASE /\ UNCHANGED <<sc, st>>
           /\ pend' = <<Op("goAwayNo", 0, 0), Op("refuse", 0, c), Op("iter", 0, 0)>>
  <2>1. pend' \in Seq(Stackable(Known, Closed))
    BY <1>4, <1>5, <1>7
  <2> QED BY <1>2, <1>3, <1>7, <2>1, SameStreamsTyped
<1>8. CASE /\ ~(LastLocalID + 2 >= StreamIDLimit)
           /\ sc' = Counted(SetMaxStreamID(sc, id), id)
           /\ st' = [st EXCEPT ![id] =
                       NewStream(IF Script[c].end THEN "halfClosedRemote" ELSE "open", FALSE)]
           /\ pend' = <<OpOn("writeFrame", WR("headers", id, 0, Script[c].end, Nobody)),
                        Op("handOver", id, c), Op("iter", 0, 0)>>
  <2>1. id \in Ids /\ id > MaxStreamID(id)
    <3>1. LastLocalID + 2 < StreamIDLimit
      <4>1. LastLocalID \in Nat /\ StreamIDLimit \in Nat
        BY <1>2, MaxStreamIDNat, SessionAssumption DEF LastLocalID
      <4> QED BY <1>8, <4>1
    <3> QED BY <1>1, <1>2, <3>1, NextLocalIDFresh
  <2>2. PICK state \in {"open", "halfClosedRemote"} :
          state = IF Script[c].end THEN "halfClosedRemote" ELSE "open"
    OBVIOUS
  <2>3. st' = [st EXCEPT ![id] = NewStream(state, FALSE)]
    BY <1>8, <2>2
  <2>4. /\ sc' \in Sessions /\ id \in Known'
        /\ Known \subseteq Known' /\ Closed \subseteq Closed'
        /\ st' \in [Ids -> StreamObjects] /\ StreamsOK'
    BY <1>8, <2>1, <2>3, CreatedTyped
  <2>5. Known' \subseteq Ids /\ Script[c].end \in BOOLEAN
    BY <1>2, SessionAssumption DEF Known, CallScripts
  <2>6. PICK wr : wr = WR("headers", id, 0, Script[c].end, Nobody)
    OBVIOUS
  <2>7. wr \in Requests(Known')
    BY <2>4, <2>5, <2>6, FrameTyped
  <2>8. OpOn("writeFrame", wr) \in Stackable(Known', Closed')
    BY <2>7, OpOnTyped
  <2>9. Op("handOver", id, c) \in Stackable(Known', Closed')
    BY <1>2, <2>4, <2>5, CallOpTyped
  <2>10. pend' = <<OpOn("writeFrame", wr), Op("handOver", id, c), Op("iter", 0, 0)>>
    BY <1>8, <2>6
  <2>11. pend' \in Seq(Stackable(Known', Closed'))
    BY <1>4, <2>8, <2>9, <2>10
  <2> QED BY <1>2, <1>3, <2>4, <2>11, TypedKept
<1> QED BY <1>1, <1>6, <1>7, <1>8 DEF createStream

(* A call of the application moves on; its stream, if any, exists.         *)
LEMMA OneCallTyped ==
    ASSUME NEW K, CallsOK(call, K), NEW c \in Calls, NEW r \in CallStates,
           r.stage \in {"replying", "sending"} => r.id \in K,
           call' = [call EXCEPT ![c] = r]
    PROVE  CallsOK(call', K)
<1>1. call \in [Calls -> CallStates]
  BY DEF CallsOK
<1>2. call' \in [Calls -> CallStates] /\ \A d \in Calls : call'[d] = IF d = c THEN r ELSE call[d]
  BY <1>1
<1> QED BY <1>2 DEF CallsOK

Results == {"none", "done", "closed", "disconnected", "refused", "replied", "dead", "timeout"}

LEMMA CallReturnedTyped ==
    ASSUME NEW r \in CallStates, NEW res \in Results
    PROVE  /\ [r EXCEPT !.stage = "returned", !.res = res] \in CallStates
           /\ [r EXCEPT !.stage = "returned", !.res = res].stage = "returned"
BY DEF CallStates, Results

LEMMA CallOpenedTyped ==
    ASSUME NEW r \in CallStates, NEW id \in Ids
    PROVE  /\ [r EXCEPT !.stage = "returned", !.id = id, !.res = "done"] \in CallStates
           /\ [r EXCEPT !.stage = "returned", !.id = id, !.res = "done"].stage = "returned"
BY DEF CallStates

LEMMA CallStageTyped ==
    ASSUME NEW r \in CallStates, NEW stage \in {"wait", "sending", "replying"}
    PROVE  /\ [r EXCEPT !.stage = stage] \in CallStates
           /\ [r EXCEPT !.stage = stage].stage = stage
           /\ [r EXCEPT !.stage = stage].id = r.id
BY DEF CallStates

LEMMA ReturnTyped ==
    ASSUME NEW K, CallsOK(call, K), NEW c \in Calls,
           NEW res \in Results,
           call' = Return(c, res)
    PROVE  CallsOK(call', K)
<1>1. PICK r : r = [call[c] EXCEPT !.stage = "returned", !.res = res]
  OBVIOUS
<1>2. call[c] \in CallStates
  BY DEF CallsOK
<1>3. r \in CallStates /\ r.stage = "returned"
  BY <1>1, <1>2, CallReturnedTyped
<1>4. call' = [call EXCEPT ![c] = r]
  BY <1>1 DEF Return
<1> QED BY <1>3, <1>4, OneCallTyped

LEMMA StageTyped ==
    ASSUME NEW K, CallsOK(call, K), NEW c \in Calls, NEW stage \in {"wait", "sending"},
           stage = "sending" => call[c].id \in K,
           call' = [call EXCEPT ![c].stage = stage]
    PROVE  CallsOK(call', K)
<1>1. PICK r : r = [call[c] EXCEPT !.stage = stage]
  OBVIOUS
<1>2. call[c] \in CallStates
  BY DEF CallsOK
<1>3. r \in CallStates /\ r.stage = stage /\ r.id = call[c].id
  BY <1>1, <1>2, CallStageTyped
<1>4. call' = [call EXCEPT ![c] = r]
  BY <1>1
<1> QED BY <1>3, <1>4, OneCallTyped

LEMMA StageOnTyped ==
    ASSUME NEW K, CallsOK(call, K), NEW c \in Calls, NEW id \in Ids, id \in K,
           NEW stage \in {"wait", "sending", "replying"},
           call' = [call EXCEPT ![c] = [@ EXCEPT !.stage = stage, !.id = id]]
    PROVE  CallsOK(call', K)
<1>1. PICK r : r = [call[c] EXCEPT !.stage = stage, !.id = id]
  OBVIOUS
<1>2. call[c] \in CallStates
  BY DEF CallsOK
<1>3. r \in CallStates /\ r.id = id
  <2>1. PICK o \in CallStates : o = call[c]
    BY <1>2
  <2>2. r = [o EXCEPT !.stage = stage, !.id = id]
    BY <1>1, <2>1
  <2> QED BY <2>2 DEF CallStates
<1>4. call' = [call EXCEPT ![c] = r]
  BY <1>1
<1> QED BY <1>3, <1>4, OneCallTyped

LEMMA refuseTyped == ASSUME Typed, refuse PROVE Typed'
<1>1. /\ Top.n \in Calls /\ Tail(pend) \in Seq(Stackable(Known, Closed)) /\ sc \in Sessions
      /\ CallsOK(call, Known)
  <2>1. Top \in Stackable(Known, Closed) /\ Top.op = "refuse"
    BY TopTyped DEF refuse, Running, Top
  <2> QED BY <2>1, TopTyped DEF Stackable, refuse, Running, Typed
<1>2. CallsOK(call', Known)
  BY <1>1, CallToldTyped DEF refuse
<1> QED BY <1>1, <1>2, SameStreamsTyped DEF refuse

LEMMA handOverTyped == ASSUME Typed, handOver PROVE Typed'
<1>1. PICK id, c : id = Top.id /\ c = Top.n
  OBVIOUS
<1>2. /\ c \in Calls /\ id \in Known /\ id \in Ids /\ sc \in Sessions
      /\ Tail(pend) \in Seq(Stackable(Known, Closed))
      /\ CallsOK(call, Known) /\ st[id] \in StreamObjects
  <2>1. Top \in Stackable(Known, Closed) /\ Top.op = "handOver"
    BY TopTyped DEF handOver, Running, Top
  <2>2. c \in Calls /\ id \in Known
    BY <1>1, <2>1 DEF Stackable
  <2> QED BY <2>2, TopTyped DEF handOver, Running, Typed, Known
<1>3. PICK r : r = [call[c] EXCEPT !.stage = "returned", !.id = id, !.res = "done"]
  OBVIOUS
<1>4. r \in CallStates /\ r.stage = "returned"
  <2>1. call[c] \in CallStates
    BY <1>2 DEF CallsOK
  <2> QED BY <1>2, <1>3, <2>1, CallOpenedTyped
<1>5. call' = [call EXCEPT ![c] = r]
  BY <1>1, <1>3 DEF handOver
<1>6. CallsOK(call', Known)
  BY <1>2, <1>4, <1>5, OneCallTyped
<1>7. PICK o : o = [st[id] EXCEPT !.held = TRUE]
  OBVIOUS
<1>8. o \in StreamObjects
  BY <1>2, <1>7, StreamFlagsTyped DEF StreamStates
<1>9. o.state = st[id].state /\ o.cw = st[id].cw
  BY <1>2, <1>7 DEF StreamObjects
<1>10. st' = [st EXCEPT ![id] = o]
  BY <1>1, <1>7 DEF handOver
<1>11. o.cw => o.state = "closed"
  BY <1>2, <1>9 DEF Typed, StreamsOK
<1> QED BY <1>2, <1>6, <1>8, <1>9, <1>10, <1>11, OneStreamStepTyped DEF handOver

LEMMA iterTyped == ASSUME Typed, iter PROVE Typed'
<1>1. Tail(pend) \in Seq(Stackable(Known, Closed)) /\ sc \in Sessions
  BY TopTyped DEF iter, Running, Typed
<1>2. sc' = [sc EXCEPT !.shutdownTimer = "armed"] \/ sc' = sc
  BY DEF iter
<1>3. /\ sc' \in Sessions
      /\ sc'.maxClientStreamID = sc.maxClientStreamID
      /\ sc'.maxPushPromiseID = sc.maxPushPromiseID
  BY <1>1, <1>2 DEF Sessions
<1> QED BY <1>1, <1>3, SameStreamsTyped DEF iter

LEMMA exitTyped == ASSUME Typed, exit PROVE Typed'
<1>1. sc \in Sessions /\ life \in Lives
  BY DEF Typed
<1>2. Op("closeAll", 0, 0) \in Stackable(Known, Closed)
  BY OpTyped DEF PlainOps
<1>3. pend' \in Seq(Stackable(Known, Closed))
  <2>1. pend' = <<Op("closeAll", 0, 0)>>
    BY DEF exit
  <2> QED BY <1>2, <2>1
<1>4. life' \in Lives
  BY <1>1 DEF exit, Lives
<1> QED BY <1>1, <1>3, <1>4, SameStreamsTyped DEF exit

LEMMA closeAllTyped == ASSUME Typed, closeAllStreamsOnConnClose PROVE Typed'
<1>1. /\ Tail(pend) \in Seq(Stackable(Known, Closed)) /\ sc \in Sessions /\ life \in Lives
      /\ pend \in Seq(Stackable(Known, Closed)) /\ Known \subseteq Ids
  BY TopTyped DEF closeAllStreamsOnConnClose, Running, Typed, Known
<1>2. CASE pend' = Tail(pend) /\ life' = [life EXCEPT !.connClosed = TRUE]
  <2>1. life' \in Lives
    BY <1>1, <1>2 DEF Lives
  <2> QED BY <1>1, <1>2, <2>1, SameStreamsTyped DEF closeAllStreamsOnConnClose
<1>3. ASSUME NEW id \in Ids, InMap(id), pend' = <<Op("closeStream", id, 0)>> \o pend, life' = life
      PROVE  Typed'
  <2>1. id \in Known
    BY <1>3 DEF InMap, Live, Known
  <2>2. Op("closeStream", id, 0) \in Stackable(Known, Closed)
    BY <1>1, <2>1, StreamOpTyped
  <2>3. pend' \in Seq(Stackable(Known, Closed))
    BY <1>1, <1>3, <2>2
  <2> QED BY <1>1, <1>3, <2>3, SameStreamsTyped DEF closeAllStreamsOnConnClose
<1> QED BY <1>2, <1>3 DEF closeAllStreamsOnConnClose

LEMMA onShutdownTimerTyped == ASSUME Typed, onShutdownTimer PROVE Typed'
<1>1. sc \in Sessions /\ msgs \in Seq(GoodMessages)
  BY DEF Typed
<1>2. [m |-> "timer", c |-> Nobody] \in GoodMessages
  BY DEF GoodMessages, Messages
<1>3. msgs' \in Seq(GoodMessages)
  BY <1>1, <1>2 DEF onShutdownTimer
<1>4. sc' = [sc EXCEPT !.shutdownTimer = "fired"]
  BY DEF onShutdownTimer
<1>5. /\ sc' \in Sessions
      /\ sc'.maxClientStreamID = sc.maxClientStreamID
      /\ sc'.maxPushPromiseID = sc.maxPushPromiseID
  BY <1>1, <1>4 DEF Sessions
<1> QED BY <1>3, <1>5, SameStreamsTyped DEF onShutdownTimer

LEMMA ServeStepTyped == ASSUME Typed, ServeStep PROVE Typed'
BY handshakeTyped, startReaderTyped, SelectWantTyped, SelectWroteTyped, SelectShutdownTyped,
   SelectTimerTyped, createStreamTyped, refuseTyped, handOverTyped, iterTyped, exitTyped,
   closeAllTyped DEF ServeStep

-------------------------------------------------------------------------------
(* The application's calls.                                                *)
LEMMA CallStepTyped ==
    ASSUME Typed, AppUnchanged, st' = st, life' = life \/ life' \in Lives,
           CallsOK(call', Known),
           want' = want \/ want' \in Seq(Requests(Known)),
           msgs' = msgs \/ msgs' \in Seq(GoodMessages)
    PROVE  Typed'
BY SameStreamsTyped DEF AppUnchanged, Typed

LEMMA OpenStreamTyped == ASSUME Typed, NEW c \in Calls, OpenStream(c) PROVE Typed'
<1>1. CallsOK(call, Known) /\ msgs \in Seq(GoodMessages)
  BY DEF Typed
<1>2. CallsOK(call', Known)
  BY <1>1, StageTyped DEF OpenStream
<1>3. [m |-> "open", c |-> c] \in GoodMessages
  BY DEF GoodMessages, Messages
<1>4. msgs' \in Seq(GoodMessages)
  BY <1>1, <1>3 DEF OpenStream
<1> QED BY <1>2, <1>4, CallStepTyped DEF OpenStream

(* The calls that return without more ado.                                 *)
LEMMA ReturnsTyped ==
    ASSUME Typed, NEW c \in Calls,
           \/ OpenStreamRefused(c) \/ WriteReturns(c) \/ WaitForReplyReturns(c)
           \/ CloseTimeout(c) \/ Disconnected(c)
    PROVE  Typed'
<1>1. CallsOK(call, Known)
  BY DEF Typed
<1>2. /\ AppUnchanged /\ UNCHANGED <<st, want, msgs, life, panic>>
      /\ \E res \in Results : call' = Return(c, res)
  BY DEF OpenStreamRefused, WriteReturns, WaitForReplyReturns, CloseTimeout, Disconnected, Results
<1>3. CallsOK(call', Known)
  BY <1>1, <1>2, ReturnTyped
<1> QED BY <1>2, <1>3, CallStepTyped

LEMMA HeldTyped ==
    ASSUME Typed, NEW id \in Ids, Held(id)
    PROVE  id \in Known /\ st[id] \in StreamObjects /\ CallsOK(call, Known) /\ Known \subseteq Ids
BY DEF Typed, Held, StreamsOK, Known

LEMMA WriteDataTyped ==
    ASSUME Typed, NEW c \in Calls, NEW id \in Ids, WriteData(c, id) PROVE Typed'
<1>1. id \in Known /\ CallsOK(call, Known) /\ Known \subseteq Ids /\ want \in Seq(Requests(Known))
  BY HeldTyped DEF WriteData, Typed
<1>2. CallsOK(call', Known)
  BY <1>1, StageOnTyped DEF WriteData
<1>3. Script[c].n \in Nat /\ Script[c].end \in BOOLEAN
  BY SessionAssumption DEF CallScripts
<1>4. PICK wr : wr = WR("data", id, Script[c].n, Script[c].end, c)
  OBVIOUS
<1>5. wr \in Requests(Known)
  BY <1>1, <1>3, <1>4, FrameTyped
<1>6. want' = Append(want, wr)
  BY <1>4 DEF WriteData
<1>7. want' \in Seq(Requests(Known))
  BY <1>1, <1>5, <1>6
<1> QED BY <1>2, <1>7, CallStepTyped DEF WriteData

LEMMA ReplyTyped ==
    ASSUME Typed, NEW c \in Calls, NEW id \in Ids, Reply(c, id) PROVE Typed'
<1>1. id \in Known /\ CallsOK(call, Known)
  BY HeldTyped DEF Reply
<1>2. CASE st[id].replied
  <2>1. CallsOK(call', Known)
    BY <1>1, <1>2, ReturnTyped DEF Reply, Results
  <2> QED BY <2>1, CallStepTyped DEF Reply
<1>3. CASE ~st[id].replied
  <2>1. CallsOK(call', Known)
    BY <1>1, <1>3, StageOnTyped DEF Reply
  <2> QED BY <2>1, CallStepTyped DEF Reply
<1> QED BY <1>2, <1>3

LEMMA WaitForReplyTyped ==
    ASSUME Typed, NEW c \in Calls, NEW id \in Ids, WaitForReply(c, id) PROVE Typed'
<1>1. id \in Known /\ CallsOK(call, Known)
  BY HeldTyped DEF WaitForReply
<1>2. CallsOK(call', Known)
  BY <1>1, StageOnTyped DEF WaitForReply
<1> QED BY <1>2, CallStepTyped DEF WaitForReply

(* A call that writes to its stream object.                                *)
LEMMA CallOnStreamTyped ==
    ASSUME Typed, AppUnchanged, NEW id \in Ids, NEW r \in StreamObjects,
           st' = [st EXCEPT ![id] = r], r.state = st[id].state,
           r.held = st[id].held, r.cw = st[id].cw,
           UNCHANGED <<want, msgs, life>>,
           call' = call \/ CallsOK(call', Known)
    PROVE  Typed'
<1>1. r.cw => r.state = "closed"
  BY DEF Typed, StreamsOK
<1>2. sc \in Sessions
  BY DEF Typed
<1> QED BY <1>1, <1>2, OneStreamStepTyped DEF AppUnchanged

LEMMA ReplyReadyTyped == ASSUME Typed, NEW c \in Calls, ReplyReady(c) PROVE Typed'
<1>1. PICK id : id = call[c].id
  OBVIOUS
<1>2. id \in Known /\ id \in Ids /\ CallsOK(call, Known) /\ st[id] \in StreamObjects
  BY <1>1 DEF ReplyReady, Typed, CallsOK, Known
<1>3. CASE st[id].ready
  <2>1. st' = st /\ call' = call /\ AppUnchanged /\ UNCHANGED <<want, msgs, life>>
    BY <1>1, <1>3 DEF ReplyReady
  <2> QED BY <1>2, <2>1, CallStepTyped
<1>4. CASE ~st[id].ready
  <2>1. /\ st' = [st EXCEPT ![id] = [@ EXCEPT !.replied = TRUE, !.ready = TRUE]]
        /\ call' = [call EXCEPT ![c].stage = "sending"]
        /\ AppUnchanged /\ UNCHANGED <<want, msgs, life>>
    BY <1>1, <1>4 DEF ReplyReady
  <2>2. CallsOK(call', Known)
    BY <1>1, <1>2, <2>1, StageTyped
  <2>3. PICK r : r = [st[id] EXCEPT !.replied = TRUE, !.ready = TRUE]
    OBVIOUS
  <2>4. r \in StreamObjects
    BY <1>2, <2>3, StreamFlagsTyped DEF StreamStates
  <2>5. r.state = st[id].state /\ r.held = st[id].held /\ r.cw = st[id].cw
    BY <1>2, <2>3 DEF StreamObjects
  <2>6. st' = [st EXCEPT ![id] = r]
    BY <2>1, <2>3
  <2> QED BY <1>2, <2>1, <2>2, <2>4, <2>5, <2>6, CallOnStreamTyped
<1> QED BY <1>3, <1>4

LEMMA ResetWithErrorTyped ==
    ASSUME Typed, NEW c \in Calls, NEW id \in Ids, ResetWithError(c, id) PROVE Typed'
<1>1. id \in Known /\ CallsOK(call, Known) /\ st[id] \in StreamObjects
  BY HeldTyped DEF ResetWithError
<1>2. AppUnchanged /\ UNCHANGED <<want, msgs, life>>
  BY DEF ResetWithError
<1>3. CASE call' = Return(c, "dead") /\ UNCHANGED st
  <2>1. CallsOK(call', Known)
    BY <1>1, <1>3, ReturnTyped DEF Results
  <2> QED BY <1>2, <1>3, <2>1, CallStepTyped
<1>4. CASE /\ call' = [call EXCEPT ![c] = [@ EXCEPT !.stage = "sending", !.id = id]]
           /\ st' = [st EXCEPT ![id].replied = TRUE]
  <2>1. CallsOK(call', Known)
    BY <1>1, <1>4, StageOnTyped
  <2>2. PICK r : r = [st[id] EXCEPT !.replied = TRUE]
    OBVIOUS
  <2>3. r \in StreamObjects
    BY <1>1, <2>2, StreamFlagsTyped DEF StreamStates
  <2>4. r.state = st[id].state /\ r.held = st[id].held /\ r.cw = st[id].cw
    BY <1>1, <2>2 DEF StreamObjects
  <2>5. st' = [st EXCEPT ![id] = r]
    BY <1>4, <2>2
  <2> QED BY <1>1, <1>2, <2>1, <2>3, <2>4, <2>5, CallOnStreamTyped
<1> QED BY <1>3, <1>4 DEF ResetWithError

LEMMA SendTyped == ASSUME Typed, NEW c \in Calls, Send(c) PROVE Typed'
<1>1. PICK isReply \in BOOLEAN : isReply = (Script[c].api = "reply")
  OBVIOUS
<1>2. /\ call[c].id \in Known /\ CallsOK(call, Known) /\ Known \subseteq Ids
      /\ want \in Seq(Requests(Known))
      /\ Script[c].hdr \in BOOLEAN /\ Script[c].end \in BOOLEAN
  BY SessionAssumption DEF Send, Typed, CallsOK, Known, CallScripts
<1>3. PICK waits \in BOOLEAN : waits = (isReply /\ Script[c].hdr)
  BY <1>2
<1>4. PICK wr : wr = WR(IF isReply THEN "headers" ELSE "rst", call[c].id, 0,
                        isReply /\ Script[c].end, IF waits THEN c ELSE Nobody)
  OBVIOUS
<1>5. /\ want' = Append(want, wr)
      /\ call' = IF waits THEN [call EXCEPT ![c].stage = "wait"] ELSE Return(c, "done")
      /\ AppUnchanged /\ UNCHANGED <<st, msgs, life, panic>>
  BY <1>1, <1>3, <1>4 DEF Send
<1>6. wr \in Requests(Known)
  <2>1. CASE isReply
    <3>1. PICK end \in BOOLEAN, by \in Calls \union {Nobody} :
            end = (isReply /\ Script[c].end) /\ by = IF waits THEN c ELSE Nobody
      BY <1>2
    <3>2. wr = WR("headers", call[c].id, 0, end, by)
      BY <1>4, <2>1, <3>1
    <3> QED BY <1>2, <3>2, FrameTyped
  <2>2. CASE ~isReply
    <3>1. wr = WR("rst", call[c].id, 0, FALSE, Nobody)
      <4>1. ~waits
        BY <1>3, <2>2
      <4> QED BY <1>2, <1>4, <2>2, <4>1
    <3> QED BY <1>2, <3>1, ResetTyped
  <2> QED BY <2>1, <2>2
<1>7. want' \in Seq(Requests(Known))
  BY <1>2, <1>5, <1>6
<1>8. CallsOK(call', Known)
  <2>1. CASE waits
    BY <1>2, <1>5, <2>1, StageTyped
  <2>2. CASE ~waits
    BY <1>2, <1>5, <2>2, ReturnTyped DEF Results
  <2> QED BY <2>1, <2>2
<1> QED BY <1>5, <1>7, <1>8, CallStepTyped

LEMMA CloseTyped == ASSUME Typed, NEW c \in Calls, Close(c) PROVE Typed'
<1>1. CallsOK(call, Known) /\ msgs \in Seq(GoodMessages) /\ life \in Lives
  BY DEF Typed
<1>2. AppUnchanged /\ UNCHANGED <<st, want, panic>>
  BY DEF Close
<1>3. CASE /\ life' = [life EXCEPT !.connClosed = TRUE]
           /\ call' = Return(c, "done") /\ UNCHANGED msgs
  <2>1. CallsOK(call', Known)
    BY <1>1, <1>3, ReturnTyped DEF Results
  <2>2. life' \in Lives
    BY <1>1, <1>3 DEF Lives
  <2> QED BY <1>2, <1>3, <2>1, <2>2, CallStepTyped
<1>4. CASE /\ msgs' = IF life.once THEN msgs ELSE Append(msgs, [m |-> "graceful", c |-> Nobody])
           /\ life' = [life EXCEPT !.once = TRUE]
           /\ call' = [call EXCEPT ![c].stage = "wait"]
  <2>1. CallsOK(call', Known)
    BY <1>1, <1>4, StageTyped
  <2>2. life' \in Lives
    BY <1>1, <1>4 DEF Lives
  <2>3. [m |-> "graceful", c |-> Nobody] \in GoodMessages
    BY DEF GoodMessages, Messages
  <2>4. msgs' \in Seq(GoodMessages)
    BY <1>1, <1>4, <2>3
  <2> QED BY <1>2, <2>1, <2>2, <2>4, CallStepTyped
<1> QED BY <1>3, <1>4 DEF Close

LEMMA ReadTyped == ASSUME Typed, NEW id \in Ids, Read(id) PROVE Typed'
<1>1. st[id] \in StreamObjects /\ CallsOK(call, Known)
  BY DEF Typed
<1>2. PICK n : n = st[id].read + (IF InMap(id) THEN st[id].body ELSE 0)
  OBVIOUS
<1>3. n \in Nat
  <2>1. st[id].read \in Nat /\ st[id].body \in Nat
    BY <1>1 DEF StreamObjects
  <2> QED BY <1>2, <2>1
<1>4. PICK r : r = [st[id] EXCEPT !.body = 0, !.read = n]
  OBVIOUS
<1>5. r \in StreamObjects
  BY <1>1, <1>3, <1>4 DEF StreamObjects
<1>6. r.state = st[id].state /\ r.held = st[id].held /\ r.cw = st[id].cw
  BY <1>1, <1>4 DEF StreamObjects
<1>7. st' = [st EXCEPT ![id] = r] /\ AppUnchanged /\ UNCHANGED <<want, msgs, life, call>>
  BY <1>2, <1>4 DEF Read
<1> QED BY <1>5, <1>6, <1>7, CallOnStreamTyped

LEMMA AppStepTyped == ASSUME Typed, AppStep PROVE Typed'
BY OpenStreamTyped, ReturnsTyped, WriteDataTyped, ReplyTyped, WaitForReplyTyped,
   ReplyReadyTyped, ResetWithErrorTyped, SendTyped, CloseTyped, ReadTyped DEF AppStep

-------------------------------------------------------------------------------
LEMMA InitTyped == Init => Typed
<1> SUFFICES ASSUME Init PROVE Typed
  OBVIOUS
<1>1. sc \in Sessions
  <2>1. /\ InitialStreamWindow \in 0 .. MaxInt32 /\ InitialSessionWindow \in Int
        /\ MaxFrameSize \in Nat /\ NoLimit \in Nat
    BY SessionAssumption, MaxInt32Assumption DEF NoLimit
  <2>2. sc = NewSession
    BY DEF Init
  <2> QED BY <2>1, <2>2 DEF NewSession, Sessions
<1>2. NoStream \in StreamObjects /\ NoStream.state = "idle" /\ NoStream.held = FALSE
      /\ NoStream.cw = FALSE
  BY DEF NoStream, StreamObjects, StreamStates
<1>3. st \in [Ids -> StreamObjects] /\ \A id \in Ids : st[id] = NoStream
  BY <1>2 DEF Init
<1>4. Known = {} /\ StreamsOK
  BY <1>2, <1>3 DEF Known, StreamsOK
<1>5. QueuesOK(q, Known)
  <2>1. \A i : <<>> \in Seq(Queueable(i, Known)) /\ <<>> \in Seq(WriteRequests)
    OBVIOUS
  <2>2. q = [id \in Ids \union {0} |-> <<>>]
    BY DEF Init
  <2> QED BY <2>1, <2>2 DEF QueuesOK
<1>6. pend \in Seq(Stackable(Known, Closed))
  <2>1. Op("handshake", 0, 0) \in Stackable(Known, Closed)
    BY OpTyped DEF PlainOps
  <2>2. pend = <<Op("handshake", 0, 0)>>
    BY DEF Init
  <2> QED BY <2>1, <2>2
<1>7. WriterOK(writer, Known)
  <2>1. Control("flush") \in Requests(Known)
    BY ControlTyped
  <2>2. Control("flush") \in WriteRequests
    BY <2>1 DEF Requests
  <2> QED BY <2>1, <2>2 DEF Init, WriterOK, Writers
<1>8. reader \in FrameReaders
  BY EOFTyped DEF Init, FrameReaders
<1>9. want \in Seq(Requests(Known)) /\ msgs \in Seq(GoodMessages)
  BY DEF Init
<1>10. CallsOK(call, Known)
  BY DEF Init, CallsOK, CallStates
<1>11. life \in Lives /\ peerLeft \in Nat
  BY SessionAssumption DEF Init, Lives
<1>12. sent \in [Ids -> Seq(Marks)]
  <2>1. <<>> \in Seq(Marks)
    OBVIOUS
  <2> QED BY <2>1 DEF Init
<1> QED BY <1>1, <1>3, <1>4, <1>5, <1>6, <1>7, <1>8, <1>9, <1>10, <1>11, <1>12 DEF Typed

LEMMA UnchangedTyped == ASSUME Typed, UNCHANGED vars PROVE Typed'
<1>1. /\ sc' = sc /\ st' = st /\ q' = q /\ pend' = pend /\ writer' = writer
      /\ reader' = reader /\ want' = want /\ msgs' = msgs /\ call' = call
      /\ life' = life /\ sent' = sent /\ peerLeft' = peerLeft
  BY DEF vars
<1>2. sc' \in Sessions
  BY <1>1 DEF Typed
<1> QED BY <1>1, <1>2, SameStreamsTyped

(* Whatever the goroutines do, in whatever order: every frame under way in *)
(* a channel, in a queue, on serve's stack or with writeFrameAsync is well *)
(* formed and names a stream that was created.                             *)
THEOREM TypedHolds == Spec => []Typed
<1>1. Init => Typed
  BY InitTyped
<1>2. ASSUME Typed, Next PROVE Typed'
  <2>1. CASE Over
    BY <1>2, <2>1, UnchangedTyped DEF Over
  <2> QED BY <1>2, <2>1, WriteStepTyped, ReadStepTyped, ReaderTyped, ServeStepTyped,
             onShutdownTimerTyped, AppStepTyped DEF Next
<1>3. Typed /\ [Next]_vars => Typed'
  BY <1>2, UnchangedTyped
<1> QED BY <1>1, <1>3, PTL DEF Spec

(* Type correctness of the session: the fields that the code keeps in      *)
(* fixed-width or enumerated types keep to them, the bytes of a DATA frame *)
(* that Consume splits stay a natural number, and the highest identifiers  *)
(* stay odd for the client and even for the server.                        *)
THEOREM TypeCorrect == Spec => []TypeOK
<1>1. Typed => TypeOK
  <2> SUFFICES ASSUME Typed PROVE TypeOK
    OBVIOUS
  <2>1. /\ Stackable(Known, Closed) \subseteq Pending /\ Requests(Known) \subseteq WriteRequests
        /\ GoodMessages \subseteq Messages
    BY DEF Stackable, Requests, GoodMessages
  <2>2. pend \in Seq(Pending) /\ want \in Seq(WriteRequests) /\ msgs \in Seq(Messages)
    BY <2>1 DEF Typed
  <2> QED BY <2>2 DEF Typed, TypeOK, QueuesOK, WriterOK, CallsOK
<1> QED BY <1>1, TypedHolds, PTL

===============================================================================
