------------------------------ MODULE SessionStack -----------------------------
(***************************************************************************)
(* serve's call stack, for every script, every peer and every              *)
(* configuration: although scheduleFrameWrite, startFrameWrite, wroteFrame *)
(* and closeStream call one another, only one scheduleFrameWrite ever      *)
(* loops, and wroteFrame and closeStream run at once when they are called. *)
(* The assertions of the write loop follow.                                *)
(***************************************************************************)
EXTENDS SessionTypes, SequenceTheorems

(* Calls that are made at once: they are on the stack only at its top.     *)
Tops == {"wroteFrame", "closeStream", "exit", "handshake"}

(* A stack, or a part of it, below such a call; loops: whether it has the  *)
(* loop of scheduleFrameWrite, which it has at most once, as it has the    *)
(* rest of closeStream for one stream.                                     *)
Inner(s, loops) ==
    /\ \A k \in 1 .. Len(s) : s[k].op \notin Tops
    /\ \A j, k \in 1 .. Len(s) : s[j].op = "loop" /\ s[k].op = "loop" => j = k
    /\ loops <=> \E k \in 1 .. Len(s) : s[k].op = "loop"
    /\ \A j, k \in 1 .. Len(s) :
         s[j].op = "closeRest" /\ s[k].op = "closeRest" /\ s[j].id = s[k].id => j = k

OnTop(op) == pend # <<>> /\ Top.op = op

Below == IF pend # <<>> /\ Top.op \in Tops THEN Tail(pend) ELSE pend

(* The stack, the flags that guard the loop, and the writer agree.         *)
Discipline ==
    /\ Inner(Below, sc.inFrameScheduleLoop)
    /\ OnTop("exit") \/ OnTop("handshake") => Below = <<>>
    /\ writer.stage # "idle" => sc.writingFrame /\ ~sc.inFrameScheduleLoop
    /\ sc.writingFrame /\ writer.stage = "idle" => OnTop("wroteFrame")
    /\ OnTop("wroteFrame") => sc.writingFrame /\ writer.stage = "idle"
    /\ OnTop("closeStream") => InMap(Top.id)
    /\ panic \notin {"already writing", "not writing", "cannot close stream"}

-------------------------------------------------------------------------------
(* Stacks: what a call leaves, and what it adds.                           *)
LEMMA InnerEmpty == Inner(<<>>, FALSE)
BY DEF Inner

LEMMA InnerNoLoop == ASSUME NEW loops \in BOOLEAN, Inner(<<>>, loops) PROVE ~loops
BY DEF Inner

LEMMA InnerTail ==
    ASSUME NEW S, NEW s \in Seq(S), s # <<>>, NEW loops \in BOOLEAN, Inner(s, loops)
    PROVE  /\ Head(s).op \notin Tops
           /\ Head(s).op # "loop" => Inner(Tail(s), loops)
           /\ Head(s).op = "loop" => loops /\ Inner(Tail(s), FALSE)
<1>1. /\ Len(s) \in Nat /\ Len(s) > 0 /\ Len(Tail(s)) = Len(s) - 1
      /\ \A k \in 1 .. Len(Tail(s)) : Tail(s)[k] = s[k + 1] /\ k + 1 \in 1 .. Len(s)
      /\ Head(s) = s[1] /\ 1 \in 1 .. Len(s)
  OBVIOUS
<1>2. \A k \in 1 .. Len(s) : k # 1 => k - 1 \in 1 .. Len(Tail(s)) /\ Tail(s)[k - 1] = s[k]
  BY <1>1
<1>2a. \A j, k \in 1 .. Len(Tail(s)) :
        /\ Tail(s)[j].op = "closeRest" /\ Tail(s)[k].op = "closeRest"
        /\ Tail(s)[j].id = Tail(s)[k].id
        => j = k
  <2> TAKE j, k \in 1 .. Len(Tail(s))
  <2> HAVE /\ Tail(s)[j].op = "closeRest" /\ Tail(s)[k].op = "closeRest"
           /\ Tail(s)[j].id = Tail(s)[k].id
  <2>1. j + 1 = k + 1
    BY <1>1 DEF Inner
  <2> QED BY <2>1
<1>3. CASE Head(s).op # "loop"
  <2>1. loops <=> \E k \in 1 .. Len(Tail(s)) : Tail(s)[k].op = "loop"
    BY <1>1, <1>2, <1>3 DEF Inner
  <2> QED BY <1>1, <1>2a, <1>3, <2>1 DEF Inner
<1>4. CASE Head(s).op = "loop"
  <2>1. \A k \in 1 .. Len(Tail(s)) : Tail(s)[k].op # "loop"
    BY <1>1, <1>4 DEF Inner
  <2> QED BY <1>1, <1>2a, <1>4, <2>1 DEF Inner
<1> QED BY <1>1, <1>3, <1>4 DEF Inner

LEMMA InnerLoop ==
    ASSUME NEW S, NEW s \in Seq(S), NEW p, p.op = "loop", Inner(s, FALSE)
    PROVE  Inner(<<p>> \o s, TRUE)
<1>1. PICK t : t = <<p>> \o s
  OBVIOUS
<1>2. /\ Len(s) \in Nat /\ Len(t) = Len(s) + 1
      /\ t[1] = p /\ \A k \in 2 .. Len(t) : t[k] = s[k - 1] /\ k - 1 \in 1 .. Len(s)
  BY <1>1
<1>3. \A k \in 1 .. Len(t) : k = 1 \/ (k \in 2 .. Len(t) /\ t[k].op \notin Tops \union {"loop"})
  BY <1>2 DEF Inner
<1>4. 1 \in 1 .. Len(t) /\ t[1].op = "loop"
  BY <1>2
<1>5. ASSUME NEW j \in 1 .. Len(t), NEW k \in 1 .. Len(t), t[j].op = "closeRest",
             t[k].op = "closeRest", t[j].id = t[k].id
      PROVE  j = k
  <2>1. j \in 2 .. Len(t) /\ k \in 2 .. Len(t)
    BY <1>3, <1>4, <1>5
  <2>2. j - 1 = k - 1
    BY <1>2, <1>5, <2>1 DEF Inner
  <2> QED BY <2>2
<1> QED BY <1>1, <1>3, <1>4, <1>5 DEF Inner, Tops

(* Calls that do not both have the rest of a closeStream, for one stream.  *)
NoClash(a, s) ==
    \A j \in 1 .. Len(a), k \in 1 .. Len(s) :
        ~(a[j].op = "closeRest" /\ s[k].op = "closeRest" /\ a[j].id = s[k].id)

(* Calls without the rest of a closeStream.                                *)
NoRest(s) == \A k \in 1 .. Len(s) : s[k].op # "closeRest"

LEMMA InnerCalls ==
    ASSUME NEW S, NEW a \in Seq(S), NEW s \in Seq(S), NEW loops \in BOOLEAN,
           Inner(a, FALSE), NoClash(a, s), Inner(s, loops)
    PROVE  Inner(a \o s, loops)
<1>1. PICK t : t = a \o s
  OBVIOUS
<1>2. /\ Len(a) \in Nat /\ Len(s) \in Nat /\ Len(t) = Len(a) + Len(s)
      /\ \A k \in 1 .. Len(a) : t[k] = a[k]
      /\ \A k \in 1 .. Len(s) : t[k + Len(a)] = s[k] /\ k + Len(a) \in 1 .. Len(t)
  BY <1>1
<1>3. \A k \in 1 .. Len(t) : \/ k \in 1 .. Len(a)
                             \/ k - Len(a) \in 1 .. Len(s) /\ t[k] = s[k - Len(a)]
  <2> TAKE k \in 1 .. Len(t)
  <2>1. CASE k > Len(a)
    <3>1. k - Len(a) \in 1 .. Len(s) /\ (k - Len(a)) + Len(a) = k
      BY <1>2, <2>1
    <3> QED BY <1>2, <3>1
  <2>2. CASE ~(k > Len(a))
    BY <1>2, <2>2
  <2> QED BY <2>1, <2>2
<1>4. \A k \in 1 .. Len(a) : t[k].op \notin Tops /\ t[k].op # "loop"
  BY <1>2 DEF Inner
<1>5. \A k \in 1 .. Len(t) : t[k].op = "loop" =>
        k - Len(a) \in 1 .. Len(s) /\ s[k - Len(a)].op = "loop"
  BY <1>3, <1>4
<1>6. \A k \in 1 .. Len(t) : t[k].op \notin Tops
  BY <1>3, <1>4 DEF Inner
<1>7. \A j, k \in 1 .. Len(t) : t[j].op = "loop" /\ t[k].op = "loop" => j = k
  <2> TAKE j, k \in 1 .. Len(t)
  <2> HAVE t[j].op = "loop" /\ t[k].op = "loop"
  <2>1. j - Len(a) = k - Len(a)
    BY <1>5 DEF Inner
  <2> QED BY <1>2, <2>1
<1>8. loops <=> \E k \in 1 .. Len(t) : t[k].op = "loop"
  <2>1. ASSUME loops PROVE \E k \in 1 .. Len(t) : t[k].op = "loop"
    <3>1. PICK k \in 1 .. Len(s) : s[k].op = "loop"
      BY <2>1 DEF Inner
    <3> QED BY <1>2, <3>1
  <2>2. ASSUME NEW k \in 1 .. Len(t), t[k].op = "loop" PROVE loops
    BY <1>5, <2>2 DEF Inner
  <2> QED BY <2>1, <2>2
<1>9. ASSUME NEW j \in 1 .. Len(t), NEW k \in 1 .. Len(t), t[j].op = "closeRest",
             t[k].op = "closeRest", t[j].id = t[k].id
      PROVE  j = k
  <2>1. CASE j \in 1 .. Len(a) /\ k \in 1 .. Len(a)
    BY <1>2, <1>9, <2>1 DEF Inner
  <2>2. CASE j \notin 1 .. Len(a) /\ k \notin 1 .. Len(a)
    <3>1. j - Len(a) = k - Len(a)
      BY <1>3, <1>9, <2>2 DEF Inner
    <3> QED BY <1>2, <3>1
  <2>3. CASE j \in 1 .. Len(a) /\ k \notin 1 .. Len(a)
    <3>1. /\ t[j] = a[j] /\ k - Len(a) \in 1 .. Len(s) /\ t[k] = s[k - Len(a)]
      BY <1>2, <1>3, <2>3
    <3> QED BY <1>9, <2>3, <3>1 DEF NoClash
  <2>4. CASE j \notin 1 .. Len(a) /\ k \in 1 .. Len(a)
    <3>1. /\ t[k] = a[k] /\ j - Len(a) \in 1 .. Len(s) /\ t[j] = s[j - Len(a)]
      BY <1>2, <1>3, <2>4
    <3> QED BY <1>9, <2>4, <3>1 DEF NoClash
  <2> QED BY <2>1, <2>2, <2>3, <2>4
<1> QED BY <1>1, <1>6, <1>7, <1>8, <1>9 DEF Inner

(* Calls that may be put on the stack without harm.                        *)
Calm(calls) == NoRest(calls) /\ \E S : calls \in Seq(S) /\ Inner(calls, FALSE)

LEMMA CalmOnStack ==
    ASSUME NEW S, NEW s \in Seq(S), NEW loops \in BOOLEAN, Inner(s, loops),
           NEW calls, Calm(calls)
    PROVE  Inner(calls \o s, loops) /\ \E T : calls \o s \in Seq(T)
<1>1. PICK A : calls \in Seq(A) /\ Inner(calls, FALSE) /\ NoRest(calls)
  BY DEF Calm
<1>2. calls \in Seq(A \union S) /\ s \in Seq(A \union S)
  BY <1>1
<1>3. Inner(calls \o s, loops)
  <2>1. NoClash(calls, s)
    BY <1>1 DEF NoClash, NoRest
  <2> QED BY <1>1, <1>2, <2>1, InnerCalls
<1>4. calls \o s \in Seq(A \union S)
  BY <1>2
<1> QED BY <1>3, <1>4

LEMMA CalmJoined ==
    ASSUME NEW c, Calm(c), NEW d, Calm(d)
    PROVE  Calm(c \o d)
<1>1. PICK A : c \in Seq(A) /\ Inner(c, FALSE) /\ NoRest(c)
  BY DEF Calm
<1>2. PICK B : d \in Seq(B) /\ Inner(d, FALSE) /\ NoRest(d)
  BY DEF Calm
<1>3. c \in Seq(A \union B) /\ d \in Seq(A \union B)
  BY <1>1, <1>2
<1>4. Inner(c \o d, FALSE)
  <2>1. NoClash(c, d)
    BY <1>1 DEF NoClash, NoRest
  <2> QED BY <1>1, <1>2, <1>3, <2>1, InnerCalls
<1>5. c \o d \in Seq(A \union B)
  BY <1>3
<1>6. NoRest(c \o d)
  BY <1>1, <1>2, <1>3 DEF NoRest
<1> QED BY <1>4, <1>5, <1>6 DEF Calm

LEMMA CalmNone == Calm(<<>>)
<1>1. <<>> \in Seq(Nat)
  OBVIOUS
<1>2. NoRest(<<>>)
  BY DEF NoRest
<1> QED BY <1>1, <1>2, InnerEmpty DEF Calm

(* The calls that need care.                                               *)
Apart == Tops \union {"loop", "closeRest"}

LEMMA CalmOne ==
    ASSUME NEW p, p.op \notin Apart
    PROVE  Calm(<<p>>)
<1>1. Inner(<<p>>, FALSE) /\ NoRest(<<p>>)
  BY DEF Inner, NoRest, Apart
<1>2. <<p>> \in Seq({p})
  OBVIOUS
<1> QED BY <1>1, <1>2 DEF Calm

LEMMA CalmTwo ==
    ASSUME NEW p, p.op \notin Apart, NEW r, r.op \notin Apart
    PROVE  Calm(<<p, r>>)
<1>1. Inner(<<p, r>>, FALSE) /\ NoRest(<<p, r>>)
  BY DEF Inner, NoRest, Apart
<1>2. <<p, r>> \in Seq({p, r})
  OBVIOUS
<1> QED BY <1>1, <1>2 DEF Calm

LEMMA CalmThree ==
    ASSUME NEW p, p.op \notin Apart, NEW r, r.op \notin Apart,
           NEW u, u.op \notin Apart
    PROVE  Calm(<<p, r, u>>)
<1>1. Inner(<<p, r, u>>, FALSE) /\ NoRest(<<p, r, u>>)
  BY DEF Inner, NoRest, Apart
<1>2. <<p, r, u>> \in Seq({p, r, u})
  OBVIOUS
<1> QED BY <1>1, <1>2 DEF Calm

LEMMA OpFields ==
    /\ \A op, id, n : Op(op, id, n).op = op /\ Op(op, id, n).id = id /\ Op(op, id, n).n = n
    /\ \A op, wr : OpOn(op, wr).op = op /\ OpOn(op, wr).wr = wr
BY DEF Op, OpOn

LEMMA RunningTop == ASSUME NEW op, Running(op) PROVE pend # <<>> /\ Top.op = op
BY DEF Running, Top

LEMMA CalmCalls ==
    /\ Calm(ConnError)
    /\ \A id : Calm(resetStream(id))
    /\ \A wr : Calm(<<OpOn("writeFrame", wr)>>)
    /\ \A op, id, n : op \notin Apart => Calm(<<Op(op, id, n)>>)
    /\ Calm(<<Op("readMore", 0, 0), Op("iter", 0, 0)>>)
<1>1. Calm(ConnError)
  BY OpFields, CalmOne DEF ConnError, Apart, Tops
<1>2. ASSUME NEW id PROVE Calm(resetStream(id))
  <2>1. PICK p, r : /\ p = OpOn("writeFrame", WR("rst", id, 0, FALSE, Nobody))
                    /\ r = Op("markReset", id, 0)
    OBVIOUS
  <2>2. p.op = "writeFrame" /\ r.op = "markReset"
    BY <2>1, OpFields
  <2>3. resetStream(id) = <<p, r>>
    BY <2>1 DEF resetStream
  <2> QED BY <2>2, <2>3, CalmTwo DEF Apart, Tops
<1>3. ASSUME NEW wr PROVE Calm(<<OpOn("writeFrame", wr)>>)
  BY OpFields, CalmOne DEF Apart, Tops
<1>4. ASSUME NEW op, NEW id, NEW n, op \notin Apart PROVE Calm(<<Op(op, id, n)>>)
  BY <1>4, OpFields, CalmOne
<1>5. Calm(<<Op("readMore", 0, 0), Op("iter", 0, 0)>>)
  BY OpFields, CalmTwo DEF Apart, Tops
<1> QED BY <1>1, <1>2, <1>3, <1>4, <1>5

-------------------------------------------------------------------------------
(* What the discipline says of the call that serve is about to make.       *)
LEMMA RunningInner ==
    ASSUME Typed, Discipline, NEW op, Running(op)
    PROVE  /\ op # "loop" => Inner(Tail(pend), sc.inFrameScheduleLoop)
           /\ op \notin Tops => Inner(pend, sc.inFrameScheduleLoop)
           /\ op # "wroteFrame" => (sc.writingFrame <=> writer.stage # "idle")
           /\ op = "loop" => /\ sc.inFrameScheduleLoop /\ ~sc.writingFrame
                             /\ Inner(Tail(pend), FALSE)
           /\ sc.inFrameScheduleLoop \in BOOLEAN /\ sc.writingFrame \in BOOLEAN
           /\ pend \in Seq(Pending) /\ pend # <<>> /\ Tail(pend) \in Seq(Pending)
<1>1. /\ sc.inFrameScheduleLoop \in BOOLEAN /\ sc.writingFrame \in BOOLEAN
      /\ pend \in Seq(Pending) /\ pend # <<>> /\ Top.op = op /\ Top = Head(pend)
  <2>1. pend \in Seq(Stackable(Known, Closed)) /\ Stackable(Known, Closed) \subseteq Pending
    BY DEF Typed, Stackable
  <2>2. pend \in Seq(Pending)
    BY <2>1
  <2> QED BY <2>2 DEF Typed, Sessions, Running, Top
<1>2. CASE op \in Tops
  <2>1. Below = Tail(pend) /\ op # "loop"
    BY <1>1, <1>2 DEF Below, Tops
  <2>2. Inner(Tail(pend), sc.inFrameScheduleLoop)
    BY <2>1 DEF Discipline
  <2>3. Tail(pend) \in Seq(Pending)
    BY <1>1
  <2>4. op # "wroteFrame" => (sc.writingFrame <=> writer.stage # "idle")
    BY <1>1 DEF Discipline, OnTop
  <2> QED BY <1>1, <1>2, <2>1, <2>2, <2>3, <2>4
<1>3. CASE op \notin Tops
  <2>1. Inner(pend, sc.inFrameScheduleLoop)
    BY <1>1, <1>3 DEF Discipline, Below
  <2>2. /\ op # "loop" => Inner(Tail(pend), sc.inFrameScheduleLoop)
        /\ op = "loop" => sc.inFrameScheduleLoop /\ Inner(Tail(pend), FALSE)
    BY <1>1, <2>1, InnerTail
  <2>3. sc.writingFrame <=> writer.stage # "idle"
    BY <1>1, <1>3 DEF Discipline, OnTop, Tops
  <2>4. Tail(pend) \in Seq(Pending)
    BY <1>1
  <2>5. op = "loop" => ~sc.writingFrame
    BY <2>2, <2>3 DEF Discipline
  <2> QED BY <1>1, <1>3, <2>1, <2>2, <2>3, <2>4, <2>5
<1> QED BY <1>2, <1>3

LEMMA ParkedInner ==
    ASSUME Typed, Discipline, pend = <<>>
    PROVE  /\ ~sc.inFrameScheduleLoop
           /\ sc.inFrameScheduleLoop \in BOOLEAN /\ sc.writingFrame \in BOOLEAN
           /\ sc.writingFrame <=> writer.stage # "idle"
<1>1. sc.inFrameScheduleLoop \in BOOLEAN /\ sc.writingFrame \in BOOLEAN
  BY DEF Typed, Sessions
<1>2. Inner(<<>>, sc.inFrameScheduleLoop)
  BY DEF Discipline, Below
<1>3. ~sc.inFrameScheduleLoop
  BY <1>1, <1>2, InnerNoLoop
<1> QED BY <1>1, <1>3 DEF Discipline, OnTop

GoodPanic(why) == why \notin {"already writing", "not writing", "cannot close stream"}

(* closeStream has still to tell the application and the scheduler of the  *)
(* end of the stream, as the stack s says.                                 *)
Awaits(s, id) == \E k \in 1 .. Len(s) : s[k].op = "closeRest" /\ s[k].id = id

(* Every other rest of a closeStream that is on the stack was there before *)
(* the step.                                                               *)
NoNewRest == closeStream \/ \A id : Awaits(pend', id) => Awaits(pend, id)

Kept == Discipline' /\ NoNewRest

LEMMA RestNone == ASSUME NoRest(pend') PROVE NoNewRest
BY DEF NoRest, NoNewRest, Awaits

LEMMA RestAlone == ASSUME pend' = pend PROVE NoNewRest
BY DEF NoNewRest

LEMMA AwaitsBelow ==
    ASSUME NEW S, NEW s \in Seq(S), s # <<>>, NEW id, Awaits(Tail(s), id)
    PROVE  Awaits(s, id)
<1>1. PICK k \in 1 .. Len(Tail(s)) : Tail(s)[k].op = "closeRest" /\ Tail(s)[k].id = id
  BY DEF Awaits
<1>2. k + 1 \in 1 .. Len(s) /\ Tail(s)[k] = s[k + 1]
  OBVIOUS
<1> QED BY <1>1, <1>2 DEF Awaits

LEMMA AwaitsIn ==
    ASSUME NEW A, NEW calls \in Seq(A), NoRest(calls), NEW S, NEW s \in Seq(S),
           NEW id, Awaits(calls \o s, id)
    PROVE  Awaits(s, id)
<1>1. PICK t : t = calls \o s
  OBVIOUS
<1>2. calls \in Seq(A \union S) /\ s \in Seq(A \union S)
  OBVIOUS
<1>3. /\ Len(calls) \in Nat /\ Len(s) \in Nat /\ Len(t) = Len(calls) + Len(s)
      /\ \A k \in 1 .. Len(calls) : t[k] = calls[k]
      /\ \A k \in 1 .. Len(s) : t[k + Len(calls)] = s[k]
  BY <1>1, <1>2
<1>4. PICK k \in 1 .. Len(t) : t[k].op = "closeRest" /\ t[k].id = id
  BY <1>1 DEF Awaits
<1>5. ~(k <= Len(calls))
  BY <1>3, <1>4 DEF NoRest
<1>6. k - Len(calls) \in 1 .. Len(s) /\ (k - Len(calls)) + Len(calls) = k
  BY <1>3, <1>5
<1>7. s[k - Len(calls)] = t[k]
  BY <1>3, <1>6
<1> QED BY <1>4, <1>6, <1>7 DEF Awaits

LEMMA RestTail ==
    ASSUME NEW S, pend \in Seq(S), pend # <<>>, pend' = Tail(pend)
    PROVE  NoNewRest
BY AwaitsBelow DEF NoNewRest

(* Calm calls add none.                                                    *)
LEMMA RestCalls ==
    ASSUME NEW S, pend \in Seq(S), NEW calls, Calm(calls),
           \/ pend # <<>> /\ pend' = calls \o Tail(pend)
           \/ pend' = calls \o pend
    PROVE  NoNewRest
<1>1. PICK A : calls \in Seq(A) /\ NoRest(calls)
  BY DEF Calm
<1>2. CASE pend # <<>> /\ pend' = calls \o Tail(pend)
  <2>1. Tail(pend) \in Seq(S)
    BY <1>2
  <2> QED BY <1>1, <1>2, <2>1, AwaitsIn, AwaitsBelow DEF NoNewRest
<1>3. CASE pend' = calls \o pend
  BY <1>1, <1>3, AwaitsIn DEF NoNewRest
<1> QED BY <1>2, <1>3

LEMMA NoRestOne == ASSUME NEW p, p.op # "closeRest" PROVE NoRest(<<p>>) /\ <<p>> \in Seq({p})
BY DEF NoRest

LEMMA RestOne ==
    ASSUME NEW S, NEW s \in Seq(S), NEW p, p.op # "closeRest", pend' = <<p>> \o s,
           \A id : Awaits(s, id) => Awaits(pend, id)
    PROVE  NoNewRest
BY NoRestOne, AwaitsIn DEF NoNewRest

(* The stack after a step: no call that is made at once, or one.           *)
LEMMA PlainStack ==
    ASSUME NEW S, pend' \in Seq(S), sc'.inFrameScheduleLoop \in BOOLEAN,
           Inner(pend', sc'.inFrameScheduleLoop),
           writer'.stage # "idle" => ~sc'.inFrameScheduleLoop,
           sc'.writingFrame <=> writer'.stage # "idle",
           GoodPanic(panic'), NoNewRest
    PROVE  Kept
<1>1. pend' # <<>> => Head(pend').op \notin Tops
  BY InnerTail
<1>2. Top' = Head(pend')
  BY DEF Top
<1>3. Below' = pend' /\ \A op \in Tops : ~OnTop(op)'
  BY <1>1, <1>2 DEF Below, OnTop
<1> QED BY <1>3 DEF Kept, Discipline, GoodPanic, Tops

LEMMA TopStack ==
    ASSUME NEW S, NEW rest \in Seq(S), NEW p, p.op \in Tops, pend' = <<p>> \o rest,
           Inner(rest, sc'.inFrameScheduleLoop),
           p.op \in {"exit", "handshake"} => rest = <<>>,
           p.op = "closeStream" => InMap(p.id)',
           p.op = "wroteFrame" => sc'.writingFrame /\ writer'.stage = "idle",
           p.op # "wroteFrame" => (sc'.writingFrame <=> writer'.stage # "idle"),
           writer'.stage # "idle" => ~sc'.inFrameScheduleLoop,
           GoodPanic(panic'), NoNewRest
    PROVE  Kept
<1>1. pend' # <<>> /\ Head(pend') = p /\ Tail(pend') = rest
  <2>1. rest \in Seq(S \union {p}) /\ <<p>> \in Seq(S \union {p})
    OBVIOUS
  <2> QED BY <2>1
<1>2. Top' = p
  BY <1>1 DEF Top
<1>3. Below' = rest /\ \A op : OnTop(op)' <=> p.op = op
  BY <1>1, <1>2 DEF Below, OnTop
<1>4. OnTop("closeStream")' => InMap(Top.id)'
  BY <1>2, <1>3
<1> QED BY <1>3, <1>4 DEF Kept, Discipline, GoodPanic

(* scheduleFrameWrite in a session state s.                                *)
LEMMA ScheduleInner ==
    ASSUME NEW s \in Sessions, NEW S, NEW rest \in Seq(S), Inner(rest, s.inFrameScheduleLoop),
           ScheduleFrameWrite(s, rest),
           writer' = writer, GoodPanic(panic'),
           writer.stage # "idle" => ~s.inFrameScheduleLoop,
           s.writingFrame <=> writer.stage # "idle",
           \A id : Awaits(rest, id) => Awaits(pend, id)
    PROVE  Kept
<1>1. CASE sc' = s /\ pend' = rest
  BY <1>1, PlainStack DEF Sessions, NoNewRest
<1>2. CASE /\ ~s.writingFrame /\ ~s.inFrameScheduleLoop
           /\ sc' = [s EXCEPT !.inFrameScheduleLoop = TRUE]
           /\ pend' = <<Op("loop", 0, 0)>> \o rest
  <2>1. sc'.inFrameScheduleLoop = TRUE /\ sc'.writingFrame = s.writingFrame
    BY <1>2 DEF Sessions
  <2>2. s.inFrameScheduleLoop = FALSE
    BY <1>2 DEF Sessions
  <2>3. Inner(rest, FALSE)
    BY <2>2
  <2>4. Inner(pend', TRUE)
    <3>1. PICK p : p = Op("loop", 0, 0)
      OBVIOUS
    <3>2. p.op = "loop" /\ pend' = <<p>> \o rest
      BY <1>2, <3>1, OpFields
    <3> QED BY <2>3, <3>2, InnerLoop
  <2>5. pend' \in Seq(S \union {Op("loop", 0, 0)})
    BY <1>2
  <2>6. NoNewRest
    <3>1. PICK p : p = Op("loop", 0, 0)
      OBVIOUS
    <3>2. p.op = "loop" /\ pend' = <<p>> \o rest
      BY <1>2, <3>1, OpFields
    <3> QED BY <3>2, RestOne
  <2> QED BY <1>2, <2>1, <2>4, <2>5, <2>6, PlainStack
<1> QED BY <1>1, <1>2 DEF ScheduleFrameWrite

-------------------------------------------------------------------------------
(* The flags that guard the write loop.                                    *)
SameFlags(s, t) ==
    s.writingFrame = t.writingFrame /\ s.inFrameScheduleLoop = t.inFrameScheduleLoop

(* A call is over, or has been replaced by other calls.                    *)
LEMMA ReplacedCall ==
    ASSUME Typed, Discipline, NEW op, Running(op), op # "loop", op # "wroteFrame",
           NEW calls, Calm(calls), pend' = calls \o Tail(pend),
           SameFlags(sc', sc), writer' = writer, GoodPanic(panic')
    PROVE  Kept
<1>1. /\ Inner(Tail(pend), sc.inFrameScheduleLoop) /\ Tail(pend) \in Seq(Pending)
      /\ sc.writingFrame <=> writer.stage # "idle"
      /\ sc.inFrameScheduleLoop \in BOOLEAN /\ pend \in Seq(Pending) /\ pend # <<>>
  BY RunningInner
<1>2. Inner(pend', sc.inFrameScheduleLoop) /\ \E T : pend' \in Seq(T)
  BY <1>1, CalmOnStack
<1>4. NoNewRest
  BY <1>1, RestCalls
<1>3. writer'.stage # "idle" => ~sc'.inFrameScheduleLoop
  BY DEF Discipline, SameFlags
<1> QED BY <1>1, <1>2, <1>3, <1>4, PlainStack DEF SameFlags

LEMMA CallOver ==
    ASSUME Typed, Discipline, NEW op, Running(op), op # "loop", op # "wroteFrame",
           pend' = Tail(pend), SameFlags(sc', sc), writer' = writer, GoodPanic(panic')
    PROVE  Kept
<1>1. Tail(pend) \in Seq(Pending)
  BY RunningInner
<1>2. pend' = <<>> \o Tail(pend)
  BY <1>1
<1> QED BY <1>2, CalmNone, ReplacedCall

(* A call ends with scheduleFrameWrite.                                    *)
LEMMA ScheduleCall ==
    ASSUME Typed, Discipline, NEW op, Running(op), op # "loop", op # "wroteFrame",
           NEW s \in Sessions, SameFlags(s, sc), ScheduleFrameWrite(s, Tail(pend)),
           writer' = writer, GoodPanic(panic')
    PROVE  Kept
<1>1. /\ Inner(Tail(pend), sc.inFrameScheduleLoop) /\ Tail(pend) \in Seq(Pending)
      /\ sc.writingFrame <=> writer.stage # "idle"
      /\ pend \in Seq(Pending) /\ pend # <<>>
  BY RunningInner
<1>4. \A id : Awaits(Tail(pend), id) => Awaits(pend, id)
  BY <1>1, AwaitsBelow
<1>2. writer.stage # "idle" => ~s.inFrameScheduleLoop
  BY DEF Discipline, SameFlags
<1>3. Inner(Tail(pend), s.inFrameScheduleLoop) /\ (s.writingFrame <=> writer.stage # "idle")
  BY <1>1 DEF SameFlags
<1> QED BY <1>1, <1>2, <1>3, <1>4, ScheduleInner

(* A step that leaves the stack alone.                                     *)
LEMMA StackAlone ==
    ASSUME Discipline, pend' = pend, writer' = writer, SameFlags(sc', sc),
           OnTop("closeStream") => InMap(Top.id)', GoodPanic(panic')
    PROVE  Kept
<1>1. Top' = Top /\ Below' = Below
  BY DEF Top, Below
<1>2. \A op : OnTop(op)' <=> OnTop(op)
  BY <1>1 DEF OnTop
<1>3. OnTop("closeStream")' => InMap(Top.id)'
  BY <1>1, <1>2
<1> QED BY <1>1, <1>2, <1>3, RestAlone DEF Kept, Discipline, SameFlags, GoodPanic

(* A handler that serve runs from its select.                              *)
LEMMA HandlerCalls ==
    ASSUME Typed, Discipline, Parked, NEW calls, Calm(calls), Then(calls),
           SameFlags(sc', sc), writer' = writer, panic' = panic
    PROVE  Kept
<1>1. /\ ~sc.inFrameScheduleLoop /\ sc.inFrameScheduleLoop \in BOOLEAN
      /\ sc.writingFrame <=> writer.stage # "idle"
  BY ParkedInner DEF Parked
<1>2. PICK rest : rest = <<Op("readMore", 0, 0), Op("iter", 0, 0)>>
  OBVIOUS
<1>3. Calm(rest) /\ pend' = calls \o rest
  BY <1>2, CalmCalls DEF Then
<1>4. Calm(pend')
  BY <1>3, CalmJoined
<1>5. PICK S : pend' \in Seq(S) /\ Inner(pend', FALSE)
  BY <1>4 DEF Calm
<1>6. sc'.inFrameScheduleLoop = FALSE
  BY <1>1 DEF SameFlags
<1>7. NoNewRest
  BY <1>4, RestNone DEF Calm
<1> QED BY <1>1, <1>5, <1>6, <1>7, PlainStack DEF SameFlags, Discipline, GoodPanic

LEMMA HandlerSchedules ==
    ASSUME Typed, Discipline, Parked, NEW s \in Sessions, SameFlags(s, sc), ThenSchedule(s),
           writer' = writer, panic' = panic
    PROVE  Kept
<1>1. /\ ~sc.inFrameScheduleLoop /\ sc.inFrameScheduleLoop \in BOOLEAN
      /\ sc.writingFrame <=> writer.stage # "idle"
  BY ParkedInner DEF Parked
<1>2. PICK rest : rest = <<Op("readMore", 0, 0), Op("iter", 0, 0)>>
  OBVIOUS
<1>3. Calm(rest) /\ ScheduleFrameWrite(s, rest)
  BY <1>2, CalmCalls DEF ThenSchedule
<1>4. PICK S : rest \in Seq(S) /\ Inner(rest, FALSE)
  BY <1>3 DEF Calm
<1>5. s.inFrameScheduleLoop = FALSE /\ (s.writingFrame <=> writer.stage # "idle")
  BY <1>1 DEF SameFlags
<1>6. GoodPanic(panic')
  BY DEF Discipline, GoodPanic
<1>7. \A id : Awaits(rest, id) => Awaits(pend, id)
  BY <1>3 DEF Calm, NoRest, Awaits
<1> QED BY <1>3, <1>4, <1>5, <1>6, <1>7, ScheduleInner

(* startFrameWrite from the loop: nothing is being written.                *)
LEMMA StartKeeps ==
    ASSUME Typed, Discipline, Running("loop"), NEW s \in Sessions, SameFlags(s, sc),
           NEW wr, startFrameWrite(s, wr)
    PROVE  Kept
<1>a. "loop" \notin Tops /\ "loop" # "wroteFrame"
  BY DEF Tops
<1>1. /\ sc.inFrameScheduleLoop /\ ~sc.writingFrame /\ Inner(Tail(pend), FALSE)
      /\ Inner(pend, sc.inFrameScheduleLoop) /\ (sc.writingFrame <=> writer.stage # "idle")
      /\ sc.inFrameScheduleLoop \in BOOLEAN /\ pend \in Seq(Pending) /\ pend # <<>>
      /\ Tail(pend) \in Seq(Pending)
  BY <1>a, RunningInner, Zenon
<1>2. s.inFrameScheduleLoop = TRUE /\ s.writingFrame = sc.writingFrame
  BY <1>1 DEF SameFlags
<1>3. CASE StartPanic(wr) # "none"
  <2>1. StartPanic(wr) \in {"frame on half-closed-local stream", "frame on closed stream"}
    BY <1>1, <1>3 DEF StartPanic
  <2>2. panic' = StartPanic(wr) /\ sc' = s /\ pend' = pend /\ writer' = writer
    BY <1>3 DEF startFrameWrite
  <2>3. GoodPanic(panic')
    BY <2>1, <2>2 DEF GoodPanic
  <2> QED BY <1>1, <1>2, <2>2, <2>3, RestAlone, PlainStack
<1>4. CASE StartPanic(wr) = "none"
  <2>1. PICK on : on = [s EXCEPT !.writingFrame = TRUE, !.needsFrameFlush = (wr.kind # "flush")]
    OBVIOUS
  <2>2. /\ panic' = panic
        /\ \/ /\ sc' = on
              /\ pend' = <<OpOn("wroteFrame", wr)>> \o pend
              /\ writer' = writer
           \/ /\ sc' = [on EXCEPT !.writingFrameAsync = TRUE, !.inFrameScheduleLoop = FALSE]
              /\ pend' = Tail(pend)
              /\ writer' = [stage |-> "writing", wr |-> wr]
    BY <1>4, <2>1 DEF startFrameWrite
  <2>3. on.writingFrame = TRUE /\ on.inFrameScheduleLoop = TRUE /\ on \in Sessions
    <3>1. PICK b \in BOOLEAN : b = (wr.kind # "flush")
      OBVIOUS
    <3>2. on = [s EXCEPT !.writingFrame = TRUE, !.needsFrameFlush = b]
      BY <2>1, <3>1
    <3> QED BY <1>2, <3>2 DEF Sessions
  <2>4. GoodPanic(panic')
    BY <2>2 DEF Discipline, GoodPanic
  <2>5. CASE /\ sc' = on
             /\ pend' = <<OpOn("wroteFrame", wr)>> \o pend
             /\ writer' = writer
    <3>1. PICK p : p = OpOn("wroteFrame", wr)
      OBVIOUS
    <3>2. p.op = "wroteFrame" /\ pend' = <<p>> \o pend
      BY <2>5, <3>1, OpFields
    <3>3. writer'.stage = "idle"
      BY <1>1, <2>5
    <3>4. Inner(pend, sc'.inFrameScheduleLoop)
      BY <1>1, <2>3, <2>5
    <3>5. NoNewRest
      BY <1>1, <3>2, RestOne
    <3> QED BY <1>1, <2>3, <2>4, <2>5, <3>2, <3>3, <3>4, <3>5, TopStack DEF Tops
  <2>6. CASE /\ sc' = [on EXCEPT !.writingFrameAsync = TRUE, !.inFrameScheduleLoop = FALSE]
             /\ pend' = Tail(pend)
             /\ writer' = [stage |-> "writing", wr |-> wr]
    <3>1. sc'.writingFrame = TRUE /\ sc'.inFrameScheduleLoop = FALSE
      BY <2>3, <2>6 DEF Sessions
    <3>2. writer'.stage = "writing"
      BY <2>6
    <3>3. NoNewRest
      BY <1>1, <2>6, RestTail
    <3> QED BY <1>1, <2>4, <2>6, <3>1, <3>2, <3>3, PlainStack
  <2> QED BY <2>2, <2>5, <2>6
<1> QED BY <1>3, <1>4

-------------------------------------------------------------------------------
(* The actions of the write side.                                          *)
LEMMA SameFlagsSelf == \A s : SameFlags(s, s)
BY DEF SameFlags

LEMMA PanicKept == ASSUME Discipline, panic' = panic PROVE GoodPanic(panic')
BY DEF Discipline, GoodPanic

LEMMA QuietPanic ==
    /\ GoodPanic("none") /\ GoodPanic("too many window updates")
    /\ GoodPanic("idleTimer is nil") /\ GoodPanic("close of closed readyCh")
BY DEF GoodPanic

LEMMA ReplyingKeeps == ASSUME Typed, Discipline, writeFrame \/ reply PROVE Kept
<1>1. sc \in Sessions /\ SameFlags(sc, sc) /\ GoodPanic(panic')
  BY SameFlagsSelf, PanicKept DEF Typed, writeFrame, reply
<1>2. CASE writeFrame
  <2>1. Running("writeFrame") /\ ScheduleFrameWrite(sc, Tail(pend)) /\ writer' = writer
    BY <1>2 DEF writeFrame
  <2> QED BY <1>1, <2>1, ScheduleCall
<1>3. CASE reply
  <2>1. Running("reply") /\ ScheduleFrameWrite(sc, Tail(pend)) /\ writer' = writer
    BY <1>3 DEF reply
  <2> QED BY <1>1, <2>1, ScheduleCall
<1> QED BY <1>2, <1>3

LEMMA sendWindowUpdateKeeps == ASSUME Typed, Discipline, sendWindowUpdate PROVE Kept
<1>1. sc \in Sessions /\ SameFlags(sc, sc) /\ Running("sendWindowUpdate") /\ writer' = writer
  BY SameFlagsSelf DEF Typed, sendWindowUpdate
<1>2. CASE Top.n = 0
  <2>1. pend' = Tail(pend) /\ sc' = sc /\ panic' = panic
    BY <1>2 DEF sendWindowUpdate
  <2> QED BY <1>1, <2>1, PanicKept, CallOver
<1>3. CASE panic' = "too many window updates" /\ sc' = sc /\ pend' = pend /\ st' = st
  <2>1. OnTop("closeStream") => InMap(Top.id)'
    BY <1>3 DEF Discipline, InMap, Top
  <2> QED BY <1>1, <1>3, <2>1, QuietPanic, StackAlone
<1>4. CASE /\ panic' = panic
           /\ \E n \in Int : ScheduleFrameWrite([sc EXCEPT !.inflow = n], Tail(pend))
  <2>1. PICK n \in Int : ScheduleFrameWrite([sc EXCEPT !.inflow = n], Tail(pend))
    BY <1>4
  <2>2. PICK s : s = [sc EXCEPT !.inflow = n]
    OBVIOUS
  <2>3. s \in Sessions /\ SameFlags(s, sc)
    BY <1>1, <2>2 DEF Sessions, SameFlags
  <2>4. GoodPanic(panic')
    BY <1>4, PanicKept
  <2> QED BY <1>1, <2>1, <2>2, <2>3, <2>4, ScheduleCall
<1>5. CASE panic' = panic /\ ScheduleFrameWrite(sc, Tail(pend))
  <2>1. GoodPanic(panic')
    BY <1>5, PanicKept
  <2> QED BY <1>1, <1>5, <2>1, ScheduleCall
<1>6. ASSUME Top.n # 0, Top.id = 0, ~addOK(sc.inflow, Top.n) PROVE Kept
  BY <1>3, <1>6 DEF sendWindowUpdate
<1>7. ASSUME Top.n # 0, Top.id # 0, ~addOK(st[Top.id].inflow, Top.n) PROVE Kept
  BY <1>3, <1>7 DEF sendWindowUpdate
<1>8. ASSUME Top.n # 0, Top.id = 0, addOK(sc.inflow, Top.n) PROVE Kept
  <2>1. added(sc.inflow, Top.n) \in Int
    <3>1. Top.n \in Int /\ sc.inflow \in Int
      BY <1>1, TopTyped DEF Pending, Sessions, Running
    <3> QED BY <3>1, AddedInt, Zenon
  <2>2. ScheduleFrameWrite([sc EXCEPT !.inflow = added(sc.inflow, Top.n)], Tail(pend))
    BY <1>8, Zenon DEF sendWindowUpdate
  <2>3. panic' = panic
    BY <1>8 DEF sendWindowUpdate
  <2> QED BY <1>4, <2>1, <2>2, <2>3
<1>9. ASSUME Top.n # 0, Top.id # 0, addOK(st[Top.id].inflow, Top.n) PROVE Kept
  BY <1>5, <1>9 DEF sendWindowUpdate
<1> QED BY <1>2, <1>6, <1>7, <1>8, <1>9

LEMMA LoopKeeps ==
    ASSUME Typed, Discipline,
           LoopGoAway \/ LoopSettingsAck \/ LoopFlush \/ LoopExit
    PROVE  Kept
<1>1. sc \in Sessions /\ SameFlags(sc, sc)
  BY SameFlagsSelf DEF Typed
<1>2. CASE LoopGoAway
  <2>1. PICK s : s = [sc EXCEPT !.needToSendGoAway = FALSE]
    OBVIOUS
  <2>2. s \in Sessions /\ SameFlags(s, sc)
    BY <1>1, <2>1 DEF Sessions, SameFlags
  <2>3. Running("loop") /\ startFrameWrite(s, Control("goAway"))
    BY <1>2, <2>1 DEF LoopGoAway
  <2> QED BY <2>2, <2>3, StartKeeps
<1>3. CASE LoopSettingsAck
  <2>1. PICK s : s = [sc EXCEPT !.needToSendSettingsAck = FALSE]
    OBVIOUS
  <2>2. s \in Sessions /\ SameFlags(s, sc)
    BY <1>1, <2>1 DEF Sessions, SameFlags
  <2>3. Running("loop") /\ startFrameWrite(s, Control("settingsAck"))
    BY <1>3, <2>1 DEF LoopSettingsAck
  <2> QED BY <2>2, <2>3, StartKeeps
<1>4. CASE LoopFlush
  <2>1. Running("loop") /\ startFrameWrite(sc, Control("flush"))
    BY <1>4 DEF LoopFlush
  <2> QED BY <1>1, <2>1, StartKeeps
<1>5. CASE LoopExit
  <2>1. /\ Running("loop") /\ sc' = [sc EXCEPT !.inFrameScheduleLoop = FALSE]
        /\ pend' = Tail(pend) /\ writer' = writer /\ panic' = panic
    BY <1>5 DEF LoopExit
  <2>2. "loop" \notin Tops /\ "loop" # "wroteFrame"
    BY DEF Tops
  <2>3. /\ Inner(Tail(pend), FALSE) /\ (sc.writingFrame <=> writer.stage # "idle")
        /\ Tail(pend) \in Seq(Pending) /\ pend \in Seq(Pending) /\ pend # <<>>
    BY <2>1, <2>2, RunningInner, Zenon
  <2>5. NoNewRest
    BY <2>1, <2>3, RestTail
  <2>4. sc'.inFrameScheduleLoop = FALSE /\ sc'.writingFrame = sc.writingFrame
    BY <1>1, <2>1 DEF Sessions
  <2> QED BY <2>1, <2>3, <2>4, <2>5, PanicKept, PlainStack
<1> QED BY <1>2, <1>3, <1>4, <1>5

LEMMA LoopPopKeeps ==
    ASSUME Typed, Discipline, NEW i \in Ids \union {0}, LoopPop(i)
    PROVE  Kept
<1>1. PICK wr : wr = Consumed(Head(q[i]))
  OBVIOUS
<1>2. PICK n : n = IF wr.kind = "data" THEN wr.n ELSE 0
  OBVIOUS
<1>3. PICK s : s = [sc EXCEPT !.flow = @ - n, !.connSent = @ + n]
  OBVIOUS
<1>4. Running("loop") /\ startFrameWrite(s, wr) /\ i \in ReadyQueues
  BY <1>1, <1>2, <1>3 DEF LoopPop
<1>5. n \in Nat
  <2>1. wr \in Requests(Known)
    BY <1>1, <1>4, PoppedTyped
  <2> QED BY <1>2, <2>1 DEF Requests, WriteRequests
<1>6. s \in Sessions /\ SameFlags(s, sc)
  <2>0. sc \in Sessions /\ sc.flow \in Int /\ sc.connSent \in Nat
    BY DEF Typed, Sessions
  <2>1. sc.flow - n \in Int /\ sc.connSent + n \in Nat /\ sc \in Sessions
    BY <1>5, <2>0
  <2>2. PICK a \in Int, b \in Nat : a = sc.flow - n /\ b = sc.connSent + n
    BY <2>1
  <2>3. s = [sc EXCEPT !.flow = a, !.connSent = b]
    BY <1>3, <2>2
  <2> QED BY <2>1, <2>3 DEF Sessions, SameFlags
<1> QED BY <1>4, <1>6, StartKeeps

LEMMA RestKeeps == ASSUME Typed, Discipline, markReset \/ closeRest PROVE Kept
<1>1. SameFlags(sc, sc)
  BY SameFlagsSelf
<1>2. CASE markReset
  <2>1. /\ Running("markReset") /\ pend' = Tail(pend) /\ sc' = sc /\ writer' = writer
        /\ panic' = panic
    BY <1>2 DEF markReset
  <2> QED BY <1>1, <2>1, PanicKept, CallOver
<1>3. CASE closeRest
  <2>1. /\ Running("closeRest") /\ pend' = Tail(pend) /\ sc' = sc /\ writer' = writer
        /\ panic' = panic
    BY <1>3 DEF closeRest
  <2> QED BY <1>1, <2>1, PanicKept, CallOver
<1> QED BY <1>2, <1>3

LEMMA goAwayKeeps ==
    ASSUME Typed, Discipline, goAway("goAwayNo", "No") \/ goAway("goAwayErr", "Err")
    PROVE  Kept
<1>1. ASSUME NEW op, op # "loop", op # "wroteFrame", NEW code \in {"No", "Err"}, goAway(op, code)
      PROVE  Kept
  <2>1. Running(op) /\ writer' = writer /\ panic' = panic /\ GoodPanic(panic')
    BY <1>1, PanicKept DEF goAway
  <2>2. CASE sc.inGoAway
    <3>1. pend' = Tail(pend) /\ sc' = sc
      BY <1>1, <2>2 DEF goAway
    <3> QED BY <1>1, <2>1, <3>1, SameFlagsSelf, CallOver
  <2>3. CASE ~sc.inGoAway
    <3>1. PICK s : s = [sc EXCEPT !.inGoAway = TRUE, !.needToSendGoAway = TRUE, !.goAwayCode = code]
      OBVIOUS
    <3>2. ScheduleFrameWrite(s, Tail(pend))
      BY <1>1, <2>3, <3>1 DEF goAway
    <3>3. s \in Sessions /\ SameFlags(s, sc)
      BY <1>1, <3>1 DEF Typed, Sessions, SameFlags
    <3> QED BY <1>1, <2>1, <3>2, <3>3, ScheduleCall
  <2> QED BY <2>2, <2>3
<1> QED BY <1>1

LEMMA closeStreamKeeps == ASSUME Typed, Discipline, closeStream PROVE Kept
<1>1. Running("closeStream") /\ InMap(Top.id) /\ writer' = writer
  BY DEF closeStream, Panic, Running, Discipline, OnTop, Top
<1>2. CASE ClosePanic(Top.id) # "none"
  <2>1. ClosePanic(Top.id) = "idleTimer is nil"
    BY <1>1, <1>2 DEF ClosePanic
  <2>2. panic' = "idleTimer is nil" /\ pend' = pend /\ sc' = sc /\ st' = st
    BY <1>2, <2>1 DEF closeStream, Panic
  <2>3. OnTop("closeStream") => InMap(Top.id)'
    BY <1>1, <2>2 DEF InMap, Top
  <2> QED BY <1>1, <2>2, <2>3, SameFlagsSelf, QuietPanic, StackAlone
<1>3. CASE ClosePanic(Top.id) = "none"
  <2>1. PICK p, r : /\ p = Op("sendWindowUpdate", 0, st[Top.id].body)
                    /\ r = Op("closeRest", Top.id, 0)
    OBVIOUS
  <2>2. p.op = "sendWindowUpdate" /\ r.op = "closeRest" /\ r.id = Top.id
    BY <2>1, OpFields
  <2>3. PICK c : c = <<p, r>>
    OBVIOUS
  <2>4. pend' = c \o Tail(pend) /\ panic' = panic
    BY <1>3, <2>1, <2>3 DEF closeStream
  <2>5. SameFlags(sc', sc)
    BY <1>3 DEF closeStream, SameFlags, Typed, Sessions
  <2>6. /\ Inner(Tail(pend), sc.inFrameScheduleLoop) /\ Tail(pend) \in Seq(Pending)
        /\ sc.writingFrame <=> writer.stage # "idle"
        /\ sc.inFrameScheduleLoop \in BOOLEAN
    <3>1. "closeStream" # "loop" /\ "closeStream" # "wroteFrame"
      OBVIOUS
    <3> QED BY <1>1, <3>1, RunningInner, Zenon
  <2>7. \A k \in 1 .. Len(Tail(pend)) : Tail(pend)[k].op = "closeRest" => Tail(pend)[k].id # r.id
    <3>1. pend \in Seq(Stackable(Known, Closed)) /\ pend # <<>>
      BY <1>1 DEF Typed, Running
    <3>2. \A k \in 1 .. Len(Tail(pend)) : Tail(pend)[k] \in Stackable(Known, Closed)
      BY <3>1
    <3>3. Top.id \notin Closed
      BY <1>1 DEF Closed, InMap, Live
    <3> QED BY <2>2, <3>2, <3>3 DEF Stackable
  <2>8. /\ Len(c) = 2 /\ c[1] = p /\ c[2] = r /\ \A k \in 1 .. Len(c) : k = 1 \/ k = 2
        /\ c \in Seq(Pending \union {p, r}) /\ Tail(pend) \in Seq(Pending \union {p, r})
    BY <2>3, <2>6
  <2>9. Inner(c, FALSE) /\ NoClash(c, Tail(pend))
    BY <2>2, <2>7, <2>8 DEF Inner, NoClash, Tops
  <2>10. pend' \in Seq(Pending \union {p, r})
    BY <2>4, <2>8
  <2>11. Inner(pend', sc.inFrameScheduleLoop)
    BY <2>4, <2>6, <2>8, <2>9, InnerCalls
  <2>12. writer'.stage # "idle" => ~sc'.inFrameScheduleLoop
    BY <1>1, <2>5 DEF Discipline, SameFlags
  <2>13. NoNewRest
    BY DEF NoNewRest
  <2> QED BY <1>1, <2>4, <2>5, <2>6, <2>10, <2>11, <2>12, <2>13, PanicKept, PlainStack
          DEF SameFlags
<1> QED BY <1>2, <1>3

LEMMA wroteFrameKeeps == ASSUME Typed, Discipline, wroteFrame PROVE Kept
<1>1. PICK wr : wr = Top.wr
  OBVIOUS
<1>2. Running("wroteFrame") /\ pend # <<>> /\ sc.writingFrame /\ writer.stage = "idle"
  BY DEF wroteFrame, Running, Discipline, OnTop, Top
<1>3. /\ sc' = [sc EXCEPT !.writingFrame = FALSE, !.writingFrameAsync = FALSE]
      /\ st' = IF writeEndsStream(wr) THEN [st EXCEPT ![wr.id].state = AfterEndStream(@)] ELSE st
      /\ pend' = WroteCalls(wr) \o <<OpOn("reply", wr)>> \o Tail(pend)
      /\ writer' = writer /\ panic' = panic
  BY <1>1, <1>2 DEF wroteFrame
<1>4. /\ sc'.writingFrame = FALSE /\ sc'.inFrameScheduleLoop = sc.inFrameScheduleLoop
      /\ sc.inFrameScheduleLoop \in BOOLEAN
  BY <1>3 DEF Typed, Sessions
<1>5. Inner(Tail(pend), sc.inFrameScheduleLoop) /\ Tail(pend) \in Seq(Pending)
  BY <1>2, RunningInner
<1>6. PICK r : r = OpOn("reply", wr)
  OBVIOUS
<1>7. r.op = "reply" /\ Calm(<<r>>)
  BY <1>6, OpFields, CalmOne DEF Apart, Tops
<1>8. /\ Inner(<<r>> \o Tail(pend), sc.inFrameScheduleLoop)
      /\ \E T : <<r>> \o Tail(pend) \in Seq(T)
  BY <1>4, <1>5, <1>7, CalmOnStack
<1>9. PICK T : <<r>> \o Tail(pend) \in Seq(T)
  BY <1>8
<1>10. PICK rest : rest = <<r>> \o Tail(pend)
  OBVIOUS
<1>11. rest \in Seq(T) /\ Inner(rest, sc'.inFrameScheduleLoop) /\ GoodPanic(panic')
  BY <1>3, <1>4, <1>8, <1>9, <1>10, PanicKept
<1>19. pend \in Seq(Pending) /\ \A id : Awaits(rest, id) => Awaits(pend, id)
  <2>1. pend \in Seq(Pending)
    BY <1>2, RunningInner
  <2>2. NoRest(<<r>>) /\ <<r>> \in Seq({r})
    BY <1>7, NoRestOne
  <2> QED BY <1>2, <1>5, <1>10, <2>1, <2>2, AwaitsIn, AwaitsBelow
<1>12. CASE WroteCalls(wr) = <<>>
  <2>1. pend' = rest
    BY <1>3, <1>5, <1>6, <1>10, <1>12
  <2>2. NoNewRest
    BY <1>19, <2>1 DEF NoNewRest
  <2> QED BY <1>2, <1>3, <1>4, <1>11, <2>1, <2>2, PlainStack
<1>13. CASE WroteCalls(wr) = resetStream(wr.id)
  <2>1. PICK c : c = resetStream(wr.id)
    OBVIOUS
  <2>2. Calm(c)
    BY <2>1, CalmCalls
  <2>3. PICK A : c \in Seq(A)
    BY <2>2 DEF Calm
  <2>4. pend' = c \o rest
    <3>1. PICK U : U = A \union {r} \union Pending
      OBVIOUS
    <3>2. c \in Seq(U) /\ <<r>> \in Seq(U) /\ Tail(pend) \in Seq(U)
      BY <1>5, <2>3, <3>1
    <3>3. pend' = c \o <<r>> \o Tail(pend)
      BY <1>3, <1>6, <1>13, <2>1
    <3> QED BY <1>10, <3>2, <3>3
  <2>5. Inner(pend', sc'.inFrameScheduleLoop) /\ \E V : pend' \in Seq(V)
    BY <1>4, <1>11, <2>2, <2>4, CalmOnStack
  <2>6. NoNewRest
    BY <1>11, <1>19, <2>2, <2>3, <2>4, AwaitsIn DEF NoNewRest, Calm
  <2> QED BY <1>2, <1>3, <1>4, <1>11, <2>5, <2>6, PlainStack
<1>14. CASE WroteCalls(wr) = <<Op("closeStream", wr.id, 0)>> /\ InMap(wr.id)'
  <2>1. PICK p : p = Op("closeStream", wr.id, 0)
    OBVIOUS
  <2>2. p.op = "closeStream" /\ p.id = wr.id
    BY <2>1, OpFields
  <2>3. pend' = <<p>> \o rest
    <3>1. pend' = <<p>> \o <<r>> \o Tail(pend)
      BY <1>3, <1>6, <1>14, <2>1
    <3> QED BY <1>5, <1>10, <3>1
  <2>4. InMap(p.id)'
    BY <1>14, <2>2
  <2>5. "closeStream" \in Tops /\ "closeStream" # "exit" /\ "closeStream" # "wroteFrame"
    BY DEF Tops
  <2>6. sc'.writingFrame <=> writer'.stage # "idle"
    BY <1>2, <1>3, <1>4
  <2>7. NoNewRest
    BY <1>11, <1>19, <2>2, <2>3, RestOne
  <2> QED BY <1>2, <1>3, <1>11, <2>2, <2>3, <2>4, <2>5, <2>6, <2>7, TopStack
<1>15. /\ wr \in Requests(Known) /\ st \in [Ids -> StreamObjects]
       /\ wr.kind \in {"headers", "data"} => wr.id \in Ids
  <2>1. wr \in Requests(Known)
    BY <1>1, <1>2, TopTyped
  <2> QED BY <2>1 DEF Typed, Requests, HasStream, Known
<1>16. \/ WroteCalls(wr) = <<>> \/ WroteCalls(wr) = resetStream(wr.id)
       \/ /\ WroteCalls(wr) = <<Op("closeStream", wr.id, 0)>>
          /\ \/ writeEndsStream(wr) /\ st[wr.id].state = "halfClosedRemote"
             \/ wr.kind = "rst" /\ InMap(wr.id)
  BY DEF WroteCalls, writeEndsStream
<1>17. ASSUME writeEndsStream(wr), st[wr.id].state = "halfClosedRemote" PROVE InMap(wr.id)'
  BY <1>3, <1>15, <1>17 DEF InMap, Live, AfterEndStream, writeEndsStream, StreamObjects
<1>18. ASSUME wr.kind = "rst", InMap(wr.id) PROVE InMap(wr.id)'
  BY <1>3, <1>18 DEF InMap, writeEndsStream
<1> QED BY <1>12, <1>13, <1>14, <1>16, <1>17, <1>18

LEMMA writeFrameAsyncKeeps == ASSUME Typed, Discipline, writeFrameAsync PROVE Kept
<1>1. /\ pend' = pend /\ sc' = sc /\ st' = st /\ panic' = panic
      /\ writer.stage # "idle" /\ writer'.stage # "idle"
  BY DEF writeFrameAsync, Typed, WriterOK, Writers
<1>2. Top' = Top /\ Below' = Below /\ \A id : InMap(id)' <=> InMap(id)
  BY <1>1 DEF Top, Below, InMap
<1>3. \A op : OnTop(op)' <=> OnTop(op)
  BY <1>1, <1>2 DEF OnTop
<1>4. OnTop("closeStream")' => InMap(Top.id)'
  BY <1>1, <1>3 DEF Discipline, InMap, Top
<1> QED BY <1>1, <1>2, <1>3, <1>4, RestAlone DEF Kept, Discipline

LEMMA WriteStepKeeps == ASSUME Typed, Discipline, WriteStep \/ writeFrameAsync PROVE Kept
BY ReplyingKeeps, sendWindowUpdateKeeps, LoopKeeps, LoopPopKeeps, RestKeeps, goAwayKeeps,
   closeStreamKeeps, wroteFrameKeeps, writeFrameAsyncKeeps
   DEF WriteStep

-------------------------------------------------------------------------------
(* The actions of the read side.                                           *)
LEMMA CalmPing == Calm(<<OpOn("writeFrame", Control("ping"))>>)
BY CalmCalls

LEMMA CalmRefunds ==
    ASSUME NEW id, NEW n
    PROVE  Calm(RefundPadding(id, n)) /\ Calm(<<Op("sendWindowUpdate", id, n)>>)
<1>1. PICK p, r : p = Op("sendWindowUpdate", 0, n) /\ r = Op("sendWindowUpdate", id, n)
  OBVIOUS
<1>2. p.op = "sendWindowUpdate" /\ r.op = "sendWindowUpdate"
  BY <1>1, OpFields
<1>3. Calm(<<p, r>>) /\ Calm(<<r>>)
  BY <1>2, CalmOne, CalmTwo DEF Apart, Tops
<1>4. RefundPadding(id, n) = <<p, r>> \/ RefundPadding(id, n) = <<>>
  BY <1>1 DEF RefundPadding
<1> QED BY <1>1, <1>3, <1>4, CalmNone

LEMMA CalmEnd == \A id : Calm(<<Op("endStream", id, 0)>>)
BY CalmCalls DEF Apart, Tops

(* Every handler but those of EOF, RST_STREAM and what ends in             *)
(* scheduleFrameWrite leaves calls that are not made at once.              *)
LEMMA AnswerKeeps ==
    ASSUME Typed, Discipline, Parked, NEW calls, Calm(calls), Answer(calls)
    PROVE  Kept
<1>1. Then(calls) /\ sc' = sc /\ writer' = writer /\ panic' = panic
  BY DEF Answer
<1> QED BY <1>1, SameFlagsSelf, HandlerCalls

LEMMA SimpleFramesKeep ==
    ASSUME Typed, Discipline,
           \/ \E t : TooEarly(t)
           \/ processPing \/ processFatal \/ processStreamError \/ processIgnored
           \/ processPriority \/ processGoAway
    PROVE  Kept
<1>1. Parked
  BY DEF TooEarly, processPing, processFatal, processStreamError, processIgnored,
         processPriority, processGoAway, Handled, Receive
<1>2. CASE \E t : TooEarly(t)
  <2>1. Answer(ConnError)
    BY <1>2 DEF TooEarly, Answer
  <2> QED BY <1>1, <2>1, AnswerKeeps, CalmCalls
<1>3. CASE processPing
  <2>1. \/ Answer(ConnError) \/ Answer(<<>>) \/ Answer(<<OpOn("writeFrame", Control("ping"))>>)
    BY <1>3 DEF processPing
  <2> QED BY <1>1, <2>1, AnswerKeeps, CalmCalls, CalmPing, CalmNone
<1>4. CASE processFatal
  BY <1>1, <1>4, AnswerKeeps, CalmCalls DEF processFatal
<1>5. CASE processStreamError
  BY <1>1, <1>5, AnswerKeeps, CalmCalls DEF processStreamError
<1>6. CASE processIgnored
  BY <1>1, <1>6, AnswerKeeps, CalmNone DEF processIgnored
<1>7. CASE processPriority
  <2>1. Answer(resetStream(frame.id)) \/ Answer(<<>>)
    BY <1>7 DEF processPriority
  <2> QED BY <1>1, <2>1, AnswerKeeps, CalmCalls, CalmNone
<1>8. CASE processGoAway
  <2>1. Answer(<<Op("goAwayNo", 0, 0)>>) /\ Calm(<<Op("goAwayNo", 0, 0)>>)
    BY <1>8, CalmCalls DEF processGoAway, Apart, Tops
  <2> QED BY <1>1, <2>1, AnswerKeeps
<1> QED BY <1>2, <1>3, <1>4, <1>5, <1>6, <1>7, <1>8

(* serve is left with one call that is made at once.                       *)
LEMMA HandlerTop ==
    ASSUME Typed, Discipline, Parked, NEW p, p.op \in {"closeStream", "exit"},
           NEW rest, Calm(rest), pend' = <<p>> \o rest,
           p.op = "exit" => rest = <<>>,
           p.op = "closeStream" => InMap(p.id)',
           SameFlags(sc', sc), writer' = writer, panic' = panic
    PROVE  Kept
<1>1. /\ ~sc.inFrameScheduleLoop /\ sc.inFrameScheduleLoop \in BOOLEAN
      /\ (sc.writingFrame <=> writer.stage # "idle")
  BY ParkedInner DEF Parked
<1>2. PICK S : rest \in Seq(S) /\ Inner(rest, FALSE)
  BY DEF Calm
<1>3. sc'.inFrameScheduleLoop = FALSE /\ (sc'.writingFrame <=> writer'.stage # "idle")
  BY <1>1 DEF SameFlags
<1>4. Inner(rest, sc'.inFrameScheduleLoop) /\ GoodPanic(panic')
  BY <1>2, <1>3, PanicKept
<1>5. p.op \in Tops /\ p.op # "wroteFrame"
  BY DEF Tops
<1>6. \A id : ~Awaits(rest, id)
  BY DEF Calm, NoRest, Awaits
<1>7. NoNewRest
  BY <1>2, <1>6, RestOne
<1> QED BY <1>2, <1>3, <1>4, <1>5, <1>7, TopStack

LEMMA processEOFKeeps == ASSUME Typed, Discipline, processEOF PROVE Kept
<1>1. PICK p : p = Op("exit", 0, 0)
  OBVIOUS
<1>2. p.op = "exit" /\ pend' = <<p>> /\ Parked /\ sc' = sc /\ writer' = writer /\ panic' = panic
  BY <1>1, OpFields DEF processEOF, Receive
<1>3. pend' = <<p>> \o <<>>
  BY <1>2
<1> QED BY <1>2, <1>3, CalmNone, SameFlagsSelf, HandlerTop

LEMMA processResetStreamKeeps == ASSUME Typed, Discipline, processResetStream PROVE Kept
<1>1. Parked
  BY DEF processResetStream, Handled, Receive
<1>2. CASE stateOf(frame.id) # "idle" /\ InMap(frame.id)
  <2>1. PICK p : p = Op("closeStream", frame.id, 0)
    OBVIOUS
  <2>2. p.op = "closeStream" /\ p.id = frame.id
    BY <2>1, OpFields
  <2>3. Then(<<p>>) /\ sc' = sc /\ st' = st /\ writer' = writer /\ panic' = panic
    BY <1>2, <2>1 DEF processResetStream, Answer
  <2>4. PICK rest : rest = <<Op("readMore", 0, 0), Op("iter", 0, 0)>>
    OBVIOUS
  <2>5. pend' = <<p>> \o rest /\ Calm(rest)
    BY <2>3, <2>4, CalmCalls DEF Then
  <2>6. InMap(p.id)'
    BY <1>2, <2>2, <2>3 DEF InMap
  <2>7. SameFlags(sc', sc)
    BY <2>3, SameFlagsSelf
  <2> QED BY <1>1, <2>2, <2>3, <2>5, <2>6, <2>7, HandlerTop
<1>3. CASE ~(stateOf(frame.id) # "idle" /\ InMap(frame.id))
  <2>1. Answer(ConnError) \/ Answer(<<>>)
    BY <1>3 DEF processResetStream
  <2> QED BY <1>1, <2>1, AnswerKeeps, CalmCalls, CalmNone
<1> QED BY <1>2, <1>3

LEMMA processWindowUpdateKeeps == ASSUME Typed, Discipline, processWindowUpdate PROVE Kept
<1>1. Parked /\ writer' = writer /\ panic' = panic /\ sc \in Sessions /\ SameFlags(sc, sc)
  BY SameFlagsSelf DEF processWindowUpdate, Handled, Receive, Typed
<1>2. frame \in Frames /\ frame.n \in Nat
  <2>1. frame \in Frames
    BY DEF Typed, FrameReaders, frame
  <2> QED BY <2>1 DEF Frames, AnyFrames
<1>3. CASE frame.id = 0 /\ ThenSchedule([sc EXCEPT !.flow = added(sc.flow, frame.n),
                                                   !.connInc = sc.connInc + frame.n])
  <2>1. added(sc.flow, frame.n) \in Int
    <3>1. sc.flow \in Int /\ frame.n \in Int
      BY <1>1, <1>2 DEF Sessions
    <3> QED BY <3>1, AddedInt, Zenon
  <2>2. sc.connInc \in Nat
    BY <1>1 DEF Sessions
  <2>3. PICK a \in Int, b \in Nat : a = added(sc.flow, frame.n) /\ b = sc.connInc + frame.n
    BY <1>2, <2>1, <2>2
  <2>4. PICK s : s = [sc EXCEPT !.flow = a, !.connInc = b]
    OBVIOUS
  <2>5. s \in Sessions /\ SameFlags(s, sc) /\ ThenSchedule(s)
    BY <1>1, <1>3, <2>3, <2>4 DEF Sessions, SameFlags
  <2> QED BY <1>1, <2>5, HandlerSchedules
<1>4. CASE ThenSchedule(sc)
  BY <1>1, <1>4, HandlerSchedules
<1>5. CASE sc' = sc /\ (Then(ConnError) \/ Then(resetStream(frame.id)) \/ Then(<<>>))
  BY <1>1, <1>5, HandlerCalls, CalmCalls, CalmNone
<1>6. CASE frame.id = 0 /\ addOK(sc.flow, frame.n)
  <2>1. ThenSchedule([sc EXCEPT !.flow = added(sc.flow, frame.n), !.connInc = sc.connInc + frame.n])
    BY <1>6, Zenon DEF processWindowUpdate
  <2> QED BY <1>3, <1>6, <2>1
<1>7. CASE ~(frame.id = 0 /\ addOK(sc.flow, frame.n))
  <2>1. \/ ThenSchedule(sc)
        \/ sc' = sc /\ (Then(ConnError) \/ Then(resetStream(frame.id)) \/ Then(<<>>))
    BY <1>7 DEF processWindowUpdate
  <2> QED BY <1>4, <1>5, <2>1
<1> QED BY <1>6, <1>7

LEMMA SettingsFramesKeep ==
    ASSUME Typed, Discipline, processSettingsAck \/ receiveSettings
    PROVE  Kept
<1>1. Parked /\ writer' = writer /\ panic' = panic
  BY DEF processSettingsAck, receiveSettings, Receive
<1>2. SameFlags(sc', sc)
  BY DEF processSettingsAck, receiveSettings, SameFlags, Typed, Sessions
<1>3. CASE processSettingsAck
  <2>1. Then(ConnError) \/ Then(<<>>)
    BY <1>3 DEF processSettingsAck
  <2> QED BY <1>1, <1>2, <2>1, HandlerCalls, CalmCalls, CalmNone
<1>4. CASE receiveSettings
  <2>1. PICK p : p = [Op("processSettings", 0, 0) EXCEPT !.set = frame.set]
    OBVIOUS
  <2>2. p.op = "processSettings"
    BY <2>1 DEF Op
  <2>3. Then(<<p>>) /\ Calm(<<p>>)
    BY <1>4, <2>1, <2>2, CalmOne DEF receiveSettings, Apart, Tops
  <2> QED BY <1>1, <1>2, <2>3, HandlerCalls
<1> QED BY <1>3, <1>4

LEMMA SettingsDoneKeeps == ASSUME Typed, Discipline, SettingsDone PROVE Kept
<1>1. PICK s : s = [sc EXCEPT !.needToSendSettingsAck = TRUE]
  OBVIOUS
<1>2. /\ Running("processSettings") /\ ScheduleFrameWrite(s, Tail(pend))
      /\ writer' = writer /\ panic' = panic
  BY <1>1 DEF SettingsDone
<1>3. s \in Sessions /\ SameFlags(s, sc)
  BY <1>1 DEF Typed, Sessions, SameFlags
<1> QED BY <1>2, <1>3, PanicKept, ScheduleCall

LEMMA processSettingKeeps ==
    ASSUME Typed, Discipline, processSetting \/ processSettingInitialWindowSize
    PROVE  Kept
<1>1. Running("processSettings") /\ writer' = writer /\ panic' = panic
  BY DEF processSetting, processSettingInitialWindowSize
<1>2. SameFlags(sc', sc)
  <2>1. CASE processSetting
    <3>1. \/ sc' = sc \/ sc' = [sc EXCEPT !.peerMaxStreams = Head(Top.set).v]
          \/ sc' = [sc EXCEPT !.maxFrameSize = Head(Top.set).v]
      BY <2>1 DEF processSetting
    <3> QED BY <3>1 DEF SameFlags, Typed, Sessions
  <2>2. CASE processSettingInitialWindowSize
    <3>1. \E v, b : sc' = [sc EXCEPT !.initialStreamSendWindowSize = v, !.misgrown = b]
      BY <2>2 DEF processSettingInitialWindowSize
    <3> QED BY <3>1 DEF SameFlags, Typed, Sessions
  <2> QED BY <2>1, <2>2
<1>3. pend' = ConnError \o Tail(pend) \/ pend' = NextSetting
  BY DEF processSetting, processSettingInitialWindowSize
<1>4. PICK p : p = [Top EXCEPT !.set = Tail(@)]
  OBVIOUS
<1>5. p.op = "processSettings"
  BY <1>1, <1>4, TopTyped DEF Running, Top, Pending
<1>6. NextSetting = <<p>> \o Tail(pend) /\ Calm(<<p>>)
  BY <1>4, <1>5, CalmOne DEF NextSetting, Apart, Tops
<1> QED BY <1>1, <1>2, <1>3, <1>6, PanicKept, CalmCalls, ReplacedCall

LEMMA processDataKeeps == ASSUME Typed, Discipline, processData PROVE Kept
<1>1. Parked /\ writer' = writer /\ panic' = panic
  BY DEF processData, Handled, Receive
<1>2. SameFlags(sc', sc)
  BY DEF processData, DiscardData, AcceptData, RefuseData, SameFlags, Typed, Sessions
<1>3. SUFFICES \E calls : Calm(calls) /\ Then(calls)
  BY <1>1, <1>2, HandlerCalls
<1>4. CASE GoingDown
  BY <1>4, CalmNone DEF processData
<1>5. CASE DiscardData
  <2>1. PICK c : c = <<Op("sendWindowUpdate", 0, frame.n + frame.pad)>>
    OBVIOUS
  <2>2. PICK d : d = IF InMap(frame.id) /\ st[frame.id].resetQueued THEN <<>>
                     ELSE resetStream(frame.id)
    OBVIOUS
  <2>3. Then(resetStream(frame.id)) \/ Then(c \o d)
    BY <1>5, <2>1, <2>2 DEF DiscardData
  <2>4. Calm(resetStream(frame.id)) /\ Calm(c) /\ Calm(d)
    BY <2>1, <2>2, CalmCalls, CalmRefunds, CalmNone
  <2> QED BY <2>3, <2>4, CalmJoined
<1>6. CASE AcceptData
  <2>1. PICK c : c = RefundPadding(frame.id, frame.pad)
    OBVIOUS
  <2>2. PICK d : d = IF frame.end THEN <<Op("endStream", frame.id, 0)>> ELSE <<>>
    OBVIOUS
  <2>3. Then(resetStream(frame.id)) \/ Then(c \o d)
    BY <1>6, <2>1, <2>2 DEF AcceptData
  <2>4. Calm(resetStream(frame.id)) /\ Calm(c) /\ Calm(d)
    BY <2>1, <2>2, CalmCalls, CalmRefunds, CalmEnd, CalmNone
  <2> QED BY <2>3, <2>4, CalmJoined
<1>7. CASE RefuseData
  BY <1>7, CalmCalls DEF RefuseData
<1> QED BY <1>4, <1>5, <1>6, <1>7 DEF processData

LEMMA processHeadersKeeps == ASSUME Typed, Discipline, processHeaders PROVE Kept
<1>1. Parked /\ writer' = writer /\ panic' = panic
  BY DEF processHeaders, Handled, Receive
<1>2. SameFlags(sc', sc)
  <2>1. \/ sc' = sc \/ sc' = SetMaxStreamID(sc, frame.id)
        \/ sc' = Counted(SetMaxStreamID(sc, frame.id), frame.id)
    BY DEF processHeaders, HeadersOnStream, HeadersOpenStream
  <2>2. PICK s : s = SetMaxStreamID(sc, frame.id)
    OBVIOUS
  <2>3. SameFlags(s, sc) /\ DOMAIN s = DOMAIN sc
    BY <2>2 DEF SetMaxStreamID, SameFlags, Typed, Sessions
  <2>4. SameFlags(Counted(s, frame.id), s)
    BY <2>3 DEF Counted, SameFlags, Typed, Sessions
  <2> QED BY <2>1, <2>2, <2>3, <2>4 DEF SameFlags
<1>3. \/ Then(<<>>) \/ Then(resetStream(frame.id)) \/ Then(ConnError)
      \/ Then(<<Op("endStream", frame.id, 0)>>)
  BY DEF processHeaders, HeadersOnStream, HeadersOpenStream
<1> QED BY <1>1, <1>2, <1>3, HandlerCalls, CalmCalls, CalmEnd, CalmNone

LEMMA ReaderCallsKeep == ASSUME Typed, Discipline, readMore \/ endStream PROVE Kept
<1>1. /\ Running("readMore") \/ Running("endStream")
      /\ pend' = Tail(pend) /\ sc' = sc /\ writer' = writer /\ panic' = panic
  BY DEF readMore, endStream
<1> QED BY <1>1, SameFlagsSelf, PanicKept, CallOver

LEMMA ReadStepKeeps == ASSUME Typed, Discipline, ReadStep PROVE Kept
BY SimpleFramesKeep, processEOFKeeps, processResetStreamKeeps, processWindowUpdateKeeps,
   SettingsFramesKeep, SettingsDoneKeeps, processSettingKeeps, processDataKeeps,
   processHeadersKeeps, ReaderCallsKeep
   DEF ReadStep

-------------------------------------------------------------------------------
(* The actions of serve, of the timer and of the application.              *)

(* serve is in its select, or about to shake hands: nothing is under way.  *)
LEMMA FreshTop ==
    ASSUME Typed, Discipline, pend = <<>> \/ OnTop("handshake"),
           NEW p, p.op \in {"closeStream", "exit"},
           NEW rest, Calm(rest), pend' = <<p>> \o rest,
           p.op = "exit" => rest = <<>>,
           p.op = "closeStream" => InMap(p.id)',
           SameFlags(sc', sc), writer' = writer, panic' = panic
    PROVE  Kept
<1>1. sc.inFrameScheduleLoop \in BOOLEAN /\ Inner(<<>>, sc.inFrameScheduleLoop)
  BY DEF Typed, Sessions, Discipline, Below
<1>2. ~sc.inFrameScheduleLoop /\ (sc.writingFrame <=> writer.stage # "idle")
  BY <1>1, InnerNoLoop DEF Discipline, OnTop
<1>3. PICK S : rest \in Seq(S) /\ Inner(rest, FALSE)
  BY DEF Calm
<1>4. sc'.inFrameScheduleLoop = FALSE /\ (sc'.writingFrame <=> writer'.stage # "idle")
  BY <1>1, <1>2 DEF SameFlags
<1>5. Inner(rest, sc'.inFrameScheduleLoop) /\ GoodPanic(panic')
  BY <1>3, <1>4, PanicKept
<1>6. p.op \in Tops /\ p.op # "wroteFrame" /\ p.op # "handshake"
  BY DEF Tops
<1>7. \A id : ~Awaits(rest, id)
  BY DEF Calm, NoRest, Awaits
<1>8. NoNewRest
  BY <1>3, <1>7, RestOne
<1> QED BY <1>3, <1>4, <1>5, <1>6, <1>8, TopStack

LEMMA FreshCalls ==
    ASSUME Typed, Discipline, pend = <<>> \/ OnTop("handshake") \/ OnTop("exit"), Calm(pend'),
           SameFlags(sc', sc), writer' = writer, panic' = panic
    PROVE  Kept
<1>1. sc.inFrameScheduleLoop \in BOOLEAN /\ Inner(<<>>, sc.inFrameScheduleLoop)
  BY DEF Typed, Sessions, Discipline, Below
<1>2. ~sc.inFrameScheduleLoop /\ (sc.writingFrame <=> writer.stage # "idle")
  BY <1>1, InnerNoLoop DEF Discipline, OnTop
<1>3. PICK S : pend' \in Seq(S) /\ Inner(pend', FALSE)
  BY DEF Calm
<1>4. sc'.inFrameScheduleLoop = FALSE /\ (sc'.writingFrame <=> writer'.stage # "idle")
  BY <1>1, <1>2 DEF SameFlags
<1>5. Inner(pend', sc'.inFrameScheduleLoop) /\ GoodPanic(panic')
  BY <1>3, <1>4, PanicKept
<1>6. NoNewRest
  BY RestNone DEF Calm
<1> QED BY <1>3, <1>4, <1>5, <1>6, PlainStack

LEMMA handshakeKeeps == ASSUME Typed, Discipline, handshake PROVE Kept
<1>1. /\ OnTop("handshake") /\ writer' = writer /\ panic' = panic
  BY DEF handshake, Running, OnTop, Top
<1>2. SameFlags(sc', sc)
  BY DEF handshake, Typed, Sessions, SameFlags
<1>3. CASE pend' = <<Op("exit", 0, 0)>>
  <2>1. PICK p : p = Op("exit", 0, 0)
    OBVIOUS
  <2>2. p.op = "exit" /\ pend' = <<p>> \o <<>>
    BY <1>3, <2>1, OpFields
  <2> QED BY <1>1, <1>2, <2>2, CalmNone, FreshTop
<1>4. CASE pend' = <<OpOn("writeFrame", Control("settings"))>> \o
                     (IF sc.inflow > DefaultWindow
                      THEN <<Op("sendWindowUpdate", 0, sc.inflow - DefaultWindow)>> ELSE <<>>)
                     \o <<Op("startReader", 0, 0)>>
  <2>1. PICK c : c = <<OpOn("writeFrame", Control("settings"))>>
    OBVIOUS
  <2>2. PICK d : d = IF sc.inflow > DefaultWindow
                     THEN <<Op("sendWindowUpdate", 0, sc.inflow - DefaultWindow)>> ELSE <<>>
    OBVIOUS
  <2>3. PICK e : e = <<Op("startReader", 0, 0)>>
    OBVIOUS
  <2>4. Calm(c) /\ Calm(d) /\ Calm(e)
    BY <2>1, <2>2, <2>3, CalmCalls, CalmRefunds, CalmNone DEF Apart, Tops
  <2>5. pend' = c \o d \o e
    BY <1>4, <2>1, <2>2, <2>3
  <2>6. Calm(pend')
    BY <2>4, <2>5, CalmJoined
  <2> QED BY <1>1, <1>2, <2>6, FreshCalls
<1> QED BY <1>3, <1>4 DEF handshake

LEMMA SelectKeeps ==
    ASSUME Typed, Discipline, SelectWant \/ SelectShutdown \/ SelectTimer
    PROVE  Kept
<1>1. Parked /\ pend = <<>> /\ sc' = sc /\ writer' = writer /\ panic' = panic /\ SameFlags(sc', sc)
  BY SameFlagsSelf DEF SelectWant, SelectShutdown, SelectTimer, SelectMsg, Parked
<1>2. CASE SelectWant
  <2>1. PICK c : c = IF Head(want).kind = "rst" THEN resetStream(Head(want).id)
                     ELSE <<OpOn("writeFrame", Head(want))>>
    OBVIOUS
  <2>2. PICK d : d = <<Op("iter", 0, 0)>>
    OBVIOUS
  <2>3. Calm(c) /\ Calm(d) /\ pend' = c \o d
    BY <1>2, <2>1, <2>2, CalmCalls DEF SelectWant, Apart, Tops
  <2> QED BY <1>1, <2>3, CalmJoined, FreshCalls
<1>3. CASE SelectShutdown
  <2>1. PICK p, r : p = Op("goAwayNo", 0, 0) /\ r = Op("iter", 0, 0)
    OBVIOUS
  <2>2. p.op = "goAwayNo" /\ r.op = "iter" /\ pend' = <<p, r>>
    BY <1>3, <2>1, OpFields DEF SelectShutdown
  <2> QED BY <1>1, <2>2, CalmTwo, FreshCalls DEF Apart, Tops
<1>4. CASE SelectTimer
  <2>1. PICK p : p = Op("exit", 0, 0)
    OBVIOUS
  <2>2. p.op = "exit" /\ pend' = <<p>> \o <<>>
    BY <1>4, <2>1, OpFields DEF SelectTimer
  <2> QED BY <1>1, <2>2, CalmNone, FreshTop
<1> QED BY <1>2, <1>3, <1>4

LEMMA SelectWroteKeeps == ASSUME Typed, Discipline, SelectWrote PROVE Kept
<1>1. PICK p, r : p = OpOn("wroteFrame", writer.wr) /\ r = Op("iter", 0, 0)
  OBVIOUS
<1>2. p.op = "wroteFrame" /\ r.op = "iter"
  BY <1>1, OpFields
<1>3. /\ Parked /\ writer.stage = "wrote" /\ writer'.stage = "idle" /\ pend' = <<p, r>>
      /\ sc' = sc /\ panic' = panic
  BY <1>1 DEF SelectWrote
<1>4. /\ ~sc.inFrameScheduleLoop /\ sc.inFrameScheduleLoop \in BOOLEAN
      /\ (sc.writingFrame <=> writer.stage # "idle")
  BY <1>3, ParkedInner DEF Parked
<1>5. Calm(<<r>>) /\ pend' = <<p>> \o <<r>>
  <2>1. Calm(<<r>>)
    BY <1>2, CalmOne DEF Apart, Tops
  <2>2. <<p, r>> = <<p>> \o <<r>>
    <3>1. <<p>> \in Seq({p, r}) /\ <<r>> \in Seq({p, r}) /\ <<p, r>> \in Seq({p, r})
      OBVIOUS
    <3>2. /\ Len(<<p>> \o <<r>>) = 2 /\ (<<p>> \o <<r>>)[1] = p /\ (<<p>> \o <<r>>)[2] = r
          /\ <<p>> \o <<r>> \in Seq({p, r})
      BY <3>1
    <3>3. PICK a, b : a = <<p, r>> /\ b = <<p>> \o <<r>>
      OBVIOUS
    <3>4. /\ a \in Seq({p, r}) /\ b \in Seq({p, r}) /\ Len(a) = 2 /\ Len(b) = 2
          /\ a[1] = p /\ a[2] = r /\ b[1] = p /\ b[2] = r
      BY <3>1, <3>2, <3>3
    <3>5. \A i \in 1 .. Len(a) : a[i] = b[i]
      BY <3>4
    <3>6. a = b
      BY <3>4, <3>5, SeqEqual
    <3> QED BY <3>3, <3>6
  <2> QED BY <1>3, <2>1, <2>2
<1>6. PICK S : <<r>> \in Seq(S) /\ Inner(<<r>>, FALSE)
  BY <1>5 DEF Calm
<1>7. sc'.inFrameScheduleLoop = FALSE /\ sc'.writingFrame
  BY <1>3, <1>4
<1>8. Inner(<<r>>, sc'.inFrameScheduleLoop) /\ GoodPanic(panic')
  BY <1>3, <1>6, <1>7, PanicKept
<1>9. "wroteFrame" \in Tops
  BY DEF Tops
<1>10. \A id : ~Awaits(<<r>>, id)
  BY <1>5 DEF Calm, NoRest, Awaits
<1>11. NoNewRest
  BY <1>2, <1>5, <1>6, <1>10, RestOne
<1> QED BY <1>2, <1>3, <1>5, <1>6, <1>7, <1>8, <1>9, <1>11, TopStack

LEMMA createStreamKeeps == ASSUME Typed, Discipline, createStream PROVE Kept
<1>1. Parked /\ pend = <<>> /\ writer' = writer /\ panic' = panic
  BY DEF createStream, SelectMsg, Parked
<1>2. SameFlags(sc', sc)
  <2>1. sc' = sc \/ sc' = Counted(SetMaxStreamID(sc, NextLocalID), NextLocalID)
    BY DEF createStream
  <2>2. PICK s : s = SetMaxStreamID(sc, NextLocalID)
    OBVIOUS
  <2>3. SameFlags(s, sc) /\ DOMAIN s = DOMAIN sc
    BY <2>2 DEF SetMaxStreamID, SameFlags, Typed, Sessions
  <2>4. SameFlags(Counted(s, NextLocalID), s)
    BY <2>3 DEF Counted, SameFlags, Typed, Sessions
  <2> QED BY <2>1, <2>2, <2>3, <2>4 DEF SameFlags
<1>3. ASSUME NEW p, NEW r, p.op \in {"refuse", "writeFrame", "goAwayNo"},
             r.op \in {"iter", "refuse", "handOver"}, NEW u, u.op = "iter"
      PROVE  Calm(<<p, r>>) /\ Calm(<<p, r, u>>)
  BY <1>3, CalmTwo, CalmThree DEF Apart, Tops
<1>4. \E p, r, u : /\ p.op \in {"refuse", "writeFrame", "goAwayNo"}
                   /\ r.op \in {"iter", "refuse", "handOver"} /\ u.op = "iter"
                   /\ pend' = <<p, r>> \/ pend' = <<p, r, u>>
  <2>1. PICK c : c = Head(msgs).c
    OBVIOUS
  <2>2. PICK u : u = Op("iter", 0, 0)
    OBVIOUS
  <2>3. PICK p : p = Op("refuse", 0, c)
    OBVIOUS
  <2>4. PICK g : g = Op("goAwayNo", 0, 0)
    OBVIOUS
  <2>5. PICK w : w = OpOn("writeFrame", WR("headers", NextLocalID, 0, Script[c].end, Nobody))
    OBVIOUS
  <2>6. PICK h : h = Op("handOver", NextLocalID, c)
    OBVIOUS
  <2>7. u.op = "iter" /\ p.op = "refuse" /\ g.op = "goAwayNo" /\ w.op = "writeFrame"
        /\ h.op = "handOver"
    BY <2>2, <2>3, <2>4, <2>5, <2>6, OpFields
  <2>8. pend' = <<p, u>> \/ pend' = <<g, p, u>> \/ pend' = <<w, h, u>>
    BY <2>1, <2>2, <2>3, <2>4, <2>5, <2>6 DEF createStream
  <2> QED BY <2>7, <2>8
<1>5. Calm(pend')
  <2>1. PICK p, r, u : /\ p.op \in {"refuse", "writeFrame", "goAwayNo"}
                       /\ r.op \in {"iter", "refuse", "handOver"} /\ u.op = "iter"
                       /\ pend' = <<p, r>> \/ pend' = <<p, r, u>>
    BY <1>4
  <2>2. Calm(<<p, r>>) /\ Calm(<<p, r, u>>)
    BY <1>3, <2>1
  <2> QED BY <2>1, <2>2
<1> QED BY <1>1, <1>2, <1>5, FreshCalls

LEMMA ServeCallsKeep ==
    ASSUME Typed, Discipline, startReader \/ refuse \/ handOver \/ iter
    PROVE  Kept
<1>1. /\ pend' = Tail(pend) /\ writer' = writer /\ panic' = panic
      /\ Running("startReader") \/ Running("refuse") \/ Running("handOver") \/ Running("iter")
  BY DEF startReader, refuse, handOver, iter
<1>2. SameFlags(sc', sc)
  BY DEF startReader, refuse, handOver, iter, Typed, Sessions, SameFlags
<1> QED BY <1>1, <1>2, PanicKept, CallOver

LEMMA exitKeeps == ASSUME Typed, Discipline, exit PROVE Kept
<1>1. PICK p : p = Op("closeAll", 0, 0)
  OBVIOUS
<1>2. p.op = "closeAll" /\ pend' = <<p>> /\ OnTop("exit")
  BY <1>1, OpFields DEF exit, Running, OnTop, Top
<1>3. Calm(pend') /\ SameFlags(sc', sc) /\ writer' = writer /\ panic' = panic
  BY <1>2, CalmOne, SameFlagsSelf DEF exit, Apart, Tops
<1> QED BY <1>2, <1>3, FreshCalls

LEMMA closeAllKeeps ==
    ASSUME Typed, Discipline, closeAllStreamsOnConnClose
    PROVE  Kept
<1>1. Running("closeAll") /\ sc' = sc /\ st' = st /\ writer' = writer /\ panic' = panic
  BY DEF closeAllStreamsOnConnClose
<1>2. CASE pend' = Tail(pend)
  BY <1>1, <1>2, SameFlagsSelf, PanicKept, CallOver
<1>3. CASE \E id \in Ids : InMap(id) /\ pend' = <<Op("closeStream", id, 0)>> \o pend
  <2>1. PICK id \in Ids : InMap(id) /\ pend' = <<Op("closeStream", id, 0)>> \o pend
    BY <1>3
  <2>2. PICK p : p = Op("closeStream", id, 0)
    OBVIOUS
  <2>3. p.op = "closeStream" /\ p.id = id /\ pend' = <<p>> \o pend
    BY <2>1, <2>2, OpFields
  <2>4. "closeAll" \notin Tops /\ "closeAll" # "wroteFrame"
    BY DEF Tops
  <2>5. /\ Inner(pend, sc.inFrameScheduleLoop) /\ pend \in Seq(Pending)
        /\ (sc.writingFrame <=> writer.stage # "idle")
    BY <1>1, <2>4, RunningInner, Zenon
  <2>6. InMap(p.id)'
    BY <1>1, <2>1, <2>3 DEF InMap
  <2>7. Inner(pend, sc'.inFrameScheduleLoop) /\ (sc'.writingFrame <=> writer'.stage # "idle")
        /\ (writer'.stage # "idle" => ~sc'.inFrameScheduleLoop) /\ GoodPanic(panic')
    BY <1>1, <2>5, PanicKept DEF Discipline
  <2>8. "closeStream" \in Tops /\ "closeStream" \notin {"exit", "handshake"}
        /\ "closeStream" # "wroteFrame"
    BY DEF Tops
  <2>9. NoNewRest
    BY <2>3, <2>5, RestOne
  <2> QED BY <2>3, <2>5, <2>6, <2>7, <2>8, <2>9, TopStack
<1> QED BY <1>2, <1>3 DEF closeAllStreamsOnConnClose

LEMMA ServeStepKeeps == ASSUME Typed, Discipline, ServeStep PROVE Kept
BY handshakeKeeps, SelectKeeps, SelectWroteKeeps, createStreamKeeps, ServeCallsKeep, exitKeeps,
   closeAllKeeps
   DEF ServeStep

(* The other goroutines leave serve's stack and its flags alone.           *)
LEMMA OthersKeep ==
    ASSUME Typed, Discipline, pend' = pend, writer' = writer, SameFlags(sc', sc),
           \A id \in Ids : InMap(id) => InMap(id)',
           panic' = panic \/ panic' = "close of closed readyCh"
    PROVE  Kept
<1>1. OnTop("closeStream") => InMap(Top.id)'
  <2>1. ASSUME OnTop("closeStream") PROVE Top.id \in Ids /\ InMap(Top.id)
    BY <2>1, TopTyped DEF OnTop, Discipline, Stackable, Known
  <2>2. pend' = pend => Top' = Top
    BY DEF Top
  <2>3. ASSUME NEW id \in Ids, InMap(id), Top.id = id PROVE InMap(Top.id)'
    BY <2>2, <2>3 DEF InMap
  <2> QED BY <2>1, <2>3
<1> QED BY <1>1, PanicKept, QuietPanic, StackAlone

LEMMA ReaderKeeps ==
    ASSUME Typed, Discipline, (\E f \in PeerFrames : ReadFrame(f)) \/ ReadError \/ ReaderStops
    PROVE  Kept
<1>1. UNCHANGED <<pend, writer, sc, st, panic>>
  BY DEF ReadFrame, ReadError, ReaderStops
<1> QED BY <1>1, SameFlagsSelf, OthersKeep DEF InMap

LEMMA onShutdownTimerKeeps == ASSUME Typed, Discipline, onShutdownTimer PROVE Kept
<1>1. UNCHANGED <<pend, writer, st, panic>> /\ SameFlags(sc', sc)
  BY DEF onShutdownTimer, Typed, Sessions, SameFlags
<1> QED BY <1>1, OthersKeep DEF InMap

(* The application changes no stream's state.                              *)
LEMMA AppStreams ==
    ASSUME Typed, AppStep
    PROVE  \A id \in Ids : /\ st'[id].state = st[id].state /\ st'[id].cw = st[id].cw
                           /\ st'[id].bodyErr = st[id].bodyErr /\ st'[id].flow = st[id].flow
                           /\ st'[id].inc = st[id].inc /\ st'[id].spent = st[id].spent
                           /\ st'[id].resetQueued = st[id].resetQueued
<1>1. st \in [Ids -> StreamObjects]
  BY DEF Typed
<1>2. ASSUME NEW i \in Ids, NEW r \in StreamObjects, st' = [st EXCEPT ![i] = r],
             /\ r.state = st[i].state /\ r.cw = st[i].cw /\ r.bodyErr = st[i].bodyErr
             /\ r.flow = st[i].flow /\ r.inc = st[i].inc /\ r.spent = st[i].spent
             /\ r.resetQueued = st[i].resetQueued
      PROVE  \A id \in Ids : /\ st'[id].state = st[id].state /\ st'[id].cw = st[id].cw
                             /\ st'[id].bodyErr = st[id].bodyErr /\ st'[id].flow = st[id].flow
                             /\ st'[id].inc = st[id].inc /\ st'[id].spent = st[id].spent
                             /\ st'[id].resetQueued = st[id].resetQueued
  BY <1>1, <1>2
<1>3. CASE st' = st
  BY <1>3
<1>4. ASSUME NEW c \in Calls, ReplyReady(c), st' # st
      PROVE  \E i \in Ids : st' = [st EXCEPT ![i] = [st[i] EXCEPT !.replied = TRUE, !.ready = TRUE]]
  <2>1. call[c].id \in Ids
    BY <1>4 DEF ReplyReady, Known, Typed, CallsOK
  <2> QED BY <1>1, <1>4, <2>1 DEF ReplyReady
<1>5. ASSUME NEW c \in Calls, NEW i \in Ids, ResetWithError(c, i), st' # st
      PROVE  st' = [st EXCEPT ![i] = [st[i] EXCEPT !.replied = TRUE]]
  BY <1>1, <1>5 DEF ResetWithError
<1>6. ASSUME NEW i \in Ids, Read(i)
      PROVE  \E m \in Nat : st' = [st EXCEPT ![i] = [st[i] EXCEPT !.body = 0, !.read = m]]
  <2>1. st[i].read \in Nat /\ st[i].body \in Nat
    BY <1>1 DEF StreamObjects
  <2>2. PICK m : m = st[i].read + IF InMap(i) THEN st[i].body ELSE 0
    OBVIOUS
  <2>3. m \in Nat
    BY <2>1, <2>2
  <2>4. st' = [st EXCEPT ![i] = [st[i] EXCEPT !.body = 0, !.read = m]]
    BY <1>1, <1>6, <2>2 DEF Read
  <2> QED BY <2>3, <2>4
<1>7. \/ st' = st
      \/ \E c \in Calls : ReplyReady(c)
      \/ \E c \in Calls, i \in Ids : ResetWithError(c, i)
      \/ \E i \in Ids : Read(i)
  BY DEF AppStep, OpenStream, OpenStreamRefused, Send, WriteReturns,
         WaitForReplyReturns, Close, CloseTimeout, Disconnected, WriteData, Reply,
         WaitForReply, AppUnchanged
<1>8. CASE \E c \in Calls : ReplyReady(c)
  <2>1. CASE st' # st
    <3>1. PICK i \in Ids : st' = [st EXCEPT ![i] = [st[i] EXCEPT !.replied = TRUE, !.ready = TRUE]]
      BY <1>4, <1>8, <2>1
    <3>2. PICK r : r = [st[i] EXCEPT !.replied = TRUE, !.ready = TRUE]
      OBVIOUS
    <3>3. /\ r \in StreamObjects
          /\ r.state = st[i].state /\ r.cw = st[i].cw /\ r.bodyErr = st[i].bodyErr
          /\ r.flow = st[i].flow /\ r.inc = st[i].inc /\ r.spent = st[i].spent
      BY <1>1, <3>2 DEF StreamObjects
    <3> QED BY <1>2, <3>1, <3>2, <3>3
  <2> QED BY <1>3, <2>1
<1>9. CASE \E c \in Calls, i \in Ids : ResetWithError(c, i)
  <2>1. CASE st' # st
    <3>1. PICK i \in Ids : st' = [st EXCEPT ![i] = [st[i] EXCEPT !.replied = TRUE]]
      BY <1>5, <1>9, <2>1
    <3>2. PICK r : r = [st[i] EXCEPT !.replied = TRUE]
      OBVIOUS
    <3>3. /\ r \in StreamObjects
          /\ r.state = st[i].state /\ r.cw = st[i].cw /\ r.bodyErr = st[i].bodyErr
          /\ r.flow = st[i].flow /\ r.inc = st[i].inc /\ r.spent = st[i].spent
      BY <1>1, <3>2 DEF StreamObjects
    <3> QED BY <1>2, <3>1, <3>2, <3>3
  <2> QED BY <1>3, <2>1
<1>10. CASE \E i \in Ids : Read(i)
  <2>1. PICK i \in Ids, m \in Nat : st' = [st EXCEPT ![i] = [st[i] EXCEPT !.body = 0, !.read = m]]
    BY <1>6, <1>10
  <2>2. PICK r : r = [st[i] EXCEPT !.body = 0, !.read = m]
    OBVIOUS
  <2>3. /\ r \in StreamObjects
        /\ r.state = st[i].state /\ r.cw = st[i].cw /\ r.bodyErr = st[i].bodyErr
        /\ r.flow = st[i].flow /\ r.inc = st[i].inc /\ r.spent = st[i].spent
    BY <1>1, <2>2 DEF StreamObjects
  <2> QED BY <1>2, <2>1, <2>2, <2>3
<1> QED BY <1>3, <1>7, <1>8, <1>9, <1>10

(* Nor does it touch what belongs to serve and to the writer.              *)
LEMMA AppFrame ==
    ASSUME AppStep
    PROVE  /\ UNCHANGED <<pend, writer, sc, q, sent, peerLeft, reader>>
           /\ panic' = panic \/ panic' = "close of closed readyCh"
<1>1. ASSUME NEW c \in Calls,
             \/ OpenStream(c) \/ OpenStreamRefused(c) \/ ReplyReady(c) \/ Send(c)
             \/ WriteReturns(c) \/ WaitForReplyReturns(c) \/ Close(c) \/ CloseTimeout(c)
             \/ Disconnected(c)
      PROVE  AppUnchanged /\ (panic' = panic \/ panic' = "close of closed readyCh")
  BY <1>1 DEF OpenStream, OpenStreamRefused, ReplyReady, Send, WriteReturns,
         WaitForReplyReturns, Close, CloseTimeout, Disconnected
<1>2. ASSUME NEW c \in Calls, NEW id \in Ids,
             WriteData(c, id) \/ Reply(c, id) \/ ResetWithError(c, id) \/ WaitForReply(c, id)
      PROVE  AppUnchanged /\ (panic' = panic \/ panic' = "close of closed readyCh")
  BY <1>2 DEF WriteData, Reply, ResetWithError, WaitForReply
<1>3. ASSUME NEW id \in Ids, Read(id)
      PROVE  AppUnchanged /\ (panic' = panic \/ panic' = "close of closed readyCh")
  BY <1>3 DEF Read
<1>4. AppUnchanged /\ (panic' = panic \/ panic' = "close of closed readyCh")
  BY <1>1, <1>2, <1>3 DEF AppStep
<1> QED BY <1>4 DEF AppUnchanged

LEMMA AppStepKeeps == ASSUME Typed, Discipline, AppStep PROVE Kept
<1>1. /\ UNCHANGED <<pend, writer, sc>>
      /\ panic' = panic \/ panic' = "close of closed readyCh"
  BY AppFrame
<1>3. \A id \in Ids : st'[id].state = st[id].state
  BY AppStreams
<1> QED BY <1>1, <1>3, SameFlagsSelf, OthersKeep DEF InMap

-------------------------------------------------------------------------------
LEMMA InitDiscipline == Init => Discipline
<1> SUFFICES ASSUME Init PROVE Discipline
  OBVIOUS
<1>1. PICK p : p = Op("handshake", 0, 0)
  OBVIOUS
<1>2. p.op = "handshake" /\ pend = <<p>>
  BY <1>1, OpFields DEF Init
<1>3. Top = p /\ Tail(pend) = <<>>
  BY <1>2 DEF Top
<1>4. Below = <<>> /\ \A op : OnTop(op) <=> op = "handshake"
  BY <1>2, <1>3 DEF Below, OnTop, Tops
<1>5. sc.inFrameScheduleLoop = FALSE /\ sc.writingFrame = FALSE
  BY DEF Init, NewSession
<1>6. writer.stage = "idle" /\ panic = "none"
  BY DEF Init
<1> QED BY <1>4, <1>5, <1>6, InnerEmpty DEF Discipline

LEMMA UnchangedDiscipline == ASSUME Discipline, UNCHANGED vars PROVE Kept
<1>1. UNCHANGED <<pend, writer, sc, st, panic>>
  BY DEF vars
<1>2. OnTop("closeStream") => InMap(Top.id)'
  BY <1>1 DEF Discipline, InMap, Top
<1> QED BY <1>1, <1>2, SameFlagsSelf, PanicKept, StackAlone

LEMMA NextKeeps == ASSUME Typed, Discipline, [Next]_vars PROVE Kept
BY WriteStepKeeps, ReadStepKeeps, ServeStepKeeps, ReaderKeeps, onShutdownTimerKeeps,
   AppStepKeeps, UnchangedDiscipline
   DEF Next, Over

(* The discipline of the call stack holds in every state.                  *)
THEOREM DisciplineHolds == Spec => []Discipline
<1>1. Init => Discipline
  BY InitDiscipline
<1>2. Typed /\ Discipline /\ [Next]_vars => Discipline'
  BY NextKeeps DEF Kept
<1> QED BY <1>1, <1>2, TypedHolds, PTL DEF Spec

(* "At most one goroutine can be running writeFrameAsync at a time", for   *)
(* every nesting of scheduleFrameWrite, wroteFrame and closeStream.        *)
THEOREM WritesOneFrame == Spec => []OneFrameAtATime
<1>1. Typed /\ Discipline => OneFrameAtATime
  <2> SUFFICES ASSUME Typed, Discipline PROVE OneFrameAtATime
    OBVIOUS
  <2>1. writer.stage # "idle" => sc.writingFrame
    BY DEF Discipline
  <2>2. Running("loop") => ~sc.writingFrame
    BY RunningInner
  <2>3. Running("wroteFrame") => sc.writingFrame /\ writer.stage = "idle"
    BY DEF Discipline, Running, OnTop, Top
  <2>4. Parked => (sc.writingFrame <=> writer.stage # "idle") /\ ~sc.inFrameScheduleLoop
    BY ParkedInner DEF Parked
  <2> QED BY <2>1, <2>2, <2>3, <2>4 DEF OneFrameAtATime
<1> QED BY <1>1, TypedHolds, DisciplineHolds, PTL

(* The panics of the assertions on the write loop's own state.             *)
WriteLoopPanics == {"already writing", "not writing", "cannot close stream"}

NoWriteLoopPanic == panic \notin WriteLoopPanics

(* The assertions of startFrameWrite ("internal error: can only be writing *)
(* one frame at a time"), of wroteFrame ("internal error: expected to be   *)
(* already writing a frame") and of closeStream never fail.                *)
THEOREM WriteLoopAsserts == Spec => []NoWriteLoopPanic
<1>1. Discipline => NoWriteLoopPanic
  BY DEF Discipline, NoWriteLoopPanic, WriteLoopPanics
<1> QED BY <1>1, DisciplineHolds, PTL

===============================================================================
