--------------------------- MODULE SendWindowProofs ----------------------------
(***************************************************************************)
(* The invariants of SendWindow, for every set of streams, every integer   *)
(* width and every configuration.                                          *)
(*                                                                         *)
(* The ledgers say that the 32-bit windows equal exact sums, so the proof  *)
(* has to show that flow.add never wraps around.  Upwards the test in add  *)
(* sees to that.  Downwards it is Debt: a stream's credit was at least 0   *)
(* whenever bytes were sent, hence SETTINGS can take its window no lower   *)
(* than -(2^31 - 1).                                                       *)
(***************************************************************************)
EXTENDS SendWindow, TLAPS

(* What is owed on a stream is at most the largest initial window; nothing *)
(* has happened on a stream before it is opened.                           *)
Debt == \A s \in Streams :
    /\ ~failed /\ s \in open => inc[s] - sent[s] >= -MaxInt32
    /\ s \notin used => inc[s] = 0 /\ sent[s] = 0

(* The inductive invariant.                                                *)
Inv == TypeOK /\ StreamLedger /\ ConnLedger /\ Debt

(* A result of int32 arithmetic on values in range is back in range.       *)
LEMMA WrapInRange ==
    ASSUME NEW x \in Int, x <= 2 * MaxInt32 + 1, x >= -2 * MaxInt32 - 2
    PROVE  Wrap32(x) \in Int32
BY MaxInt32Assumption DEF Wrap32, Int32, MinInt32

(* flow.add: the window stays in range, and what is accepted is not above  *)
(* 2^31 - 1; the sum is exact unless it is below the range of an int32.    *)
LEMMA AddIsSafe ==
    ASSUME NEW n \in Int32, NEW d \in -MaxInt32 .. MaxInt32
    PROVE  /\ added(n, d) \in Int32
           /\ addOK(n, d) => n + d <= MaxInt32
           /\ addOK(n, d) /\ n + d >= MinInt32 => added(n, d) = n + d
           /\ ~addOK(n, d) => added(n, d) = n
BY MaxInt32Assumption DEF added, addOK, Wrap32, Int32, MinInt32

(* Consume never splits off more than the two windows hold.                *)
LEMMA AllowedBounds ==
    ASSUME TypeOK, NEW s \in Streams
    PROVE  /\ Allowed(s) \in Int
           /\ Allowed(s) <= win[s]
           /\ Allowed(s) <= conn
BY SendWindowAssumption, MaxInt32Assumption
   DEF TypeOK, Allowed, available, Int32, MinInt32

LEMMA InitInv == Init => Inv
<1> SUFFICES ASSUME Init PROVE Inv
  OBVIOUS
<1>1. 0 \in Int32 /\ InitialSessionWindow \in Int32
  BY SendWindowAssumption, MaxInt32Assumption DEF Int32, MinInt32
<1>2. TypeOK
  <2>1. /\ win \in [Streams -> Int32]
        /\ inc \in [Streams -> Nat] /\ sent \in [Streams -> Nat]
    BY <1>1 DEF Init
  <2> QED BY <1>1, <2>1, SendWindowAssumption DEF Init, TypeOK
<1>3. StreamLedger /\ Debt
  BY DEF Init, StreamLedger, Debt
<1>4. ConnLedger
  BY SendWindowAssumption, MaxInt32Assumption DEF Init, ConnLedger
<1> QED BY <1>2, <1>3, <1>4 DEF Inv

LEMMA NewStreamInv ==
    ASSUME Inv, NEW s \in Streams, NewStream(s)
    PROVE  Inv'
BY MaxInt32Assumption
   DEF NewStream, Inv, TypeOK, StreamLedger, ConnLedger, Debt, Int32, MinInt32

LEMMA CloseStreamInv ==
    ASSUME Inv, NEW s \in Streams, CloseStream(s)
    PROVE  Inv'
BY DEF CloseStream, Inv, TypeOK, StreamLedger, ConnLedger, Debt

(* Both windows hold at least the bytes that are put into a frame.         *)
LEMMA ConsumeInv ==
    ASSUME Inv, NEW s \in Streams, NEW len \in 1 .. MaxInt32, Consume(s, len)
    PROVE  Inv'
<1> DEFINE n == IF len > Allowed(s) THEN Allowed(s) ELSE len
<1>1. n \in Nat /\ n > 0 /\ n <= win[s] /\ n <= conn
  BY AllowedBounds, MaxInt32Assumption DEF Consume, Inv, TypeOK, Int32, MinInt32
<1>2. /\ win' = [win EXCEPT ![s] = @ - n]
      /\ conn' = conn - n
      /\ sent' = [sent EXCEPT ![s] = @ + n]
      /\ connSent' = connSent + n
      /\ s \in open
      /\ UNCHANGED <<open, used, initWin, failed, inc, connInc>>
  BY DEF Consume, TakenFromConn
<1> HIDE DEF n
<1>3. TypeOK'
  BY <1>1, <1>2, MaxInt32Assumption DEF Inv, TypeOK, Int32, MinInt32
<1>4. ConnLedger'
  BY <1>1, <1>2, SendWindowAssumption DEF Inv, TypeOK, ConnLedger, Int32, MinInt32
<1>5. StreamLedger'
  BY <1>1, <1>2 DEF Inv, TypeOK, StreamLedger, Int32, MinInt32
<1>6. Debt'
  BY <1>1, <1>2, MaxInt32Assumption DEF Inv, TypeOK, StreamLedger, Debt, Int32, MinInt32
<1> QED BY <1>3, <1>4, <1>5, <1>6 DEF Inv

LEMMA WindowUpdateInv ==
    ASSUME Inv, NEW s \in Streams, NEW d \in 1 .. MaxInt32, WindowUpdate(s, d)
    PROVE  Inv'
<1>1. win[s] \in Int32 /\ d \in -MaxInt32 .. MaxInt32
  BY MaxInt32Assumption DEF Inv, TypeOK
<1>2. /\ added(win[s], d) \in Int32
      /\ addOK(win[s], d) => win[s] + d <= MaxInt32 /\ added(win[s], d) = win[s] + d
      /\ ~addOK(win[s], d) => added(win[s], d) = win[s]
  BY <1>1, AddIsSafe, MaxInt32Assumption DEF Int32, MinInt32
<1>3. /\ win' = [win EXCEPT ![s] = added(win[s], d)]
      /\ inc' = [inc EXCEPT ![s] = IF addOK(win[s], d) THEN @ + d ELSE @]
      /\ s \in open
      /\ UNCHANGED <<open, used, conn, initWin, failed, sent, connInc, connSent>>
  BY DEF WindowUpdate
<1>4. TypeOK'
  BY <1>2, <1>3, MaxInt32Assumption DEF Inv, TypeOK, Int32, MinInt32
<1>5. StreamLedger' /\ Debt'
  BY <1>2, <1>3, MaxInt32Assumption DEF Inv, TypeOK, StreamLedger, Debt, Int32, MinInt32
<1>6. ConnLedger'
  BY <1>3 DEF Inv, ConnLedger
<1> QED BY <1>4, <1>5, <1>6 DEF Inv

LEMMA ConnWindowUpdateInv ==
    ASSUME Inv, NEW d \in 1 .. MaxInt32, ConnWindowUpdate(d)
    PROVE  Inv'
<1>1. conn \in Int32 /\ d \in -MaxInt32 .. MaxInt32
  BY MaxInt32Assumption DEF Inv, TypeOK
<1>2. /\ added(conn, d) \in Int32
      /\ addOK(conn, d) => conn + d <= MaxInt32 /\ added(conn, d) = conn + d
      /\ ~addOK(conn, d) => added(conn, d) = conn
  BY <1>1, AddIsSafe, MaxInt32Assumption DEF Int32, MinInt32
<1>3. /\ conn' = added(conn, d)
      /\ connInc' = IF addOK(conn, d) THEN connInc + d ELSE connInc
      /\ UNCHANGED <<open, used, win, initWin, failed, inc, sent, connSent>>
  BY DEF ConnWindowUpdate
<1>4. TypeOK'
  BY <1>2, <1>3, MaxInt32Assumption DEF Inv, TypeOK, Int32, MinInt32
<1>5. ConnLedger'
  BY <1>2, <1>3, SendWindowAssumption DEF Inv, TypeOK, ConnLedger, Int32, MinInt32
<1>6. StreamLedger' /\ Debt'
  BY <1>3 DEF Inv, StreamLedger, Debt
<1> QED BY <1>4, <1>5, <1>6 DEF Inv

(* A change of the initial window moves all open streams, or the session   *)
(* has failed.  Debt keeps the sum from wrapping around downwards.         *)
LEMMA InitialWindowSizeInv ==
    ASSUME Inv, NEW v \in 0 .. MaxInt32, InitialWindowSize(v)
    PROVE  Inv'
<1> DEFINE g == v - initWin
           refusing == {s \in open : ~addOK(win[s], g)}
<1>1. g \in -MaxInt32 .. MaxInt32
  BY MaxInt32Assumption DEF Inv, TypeOK
<1>2. PICK done \in SUBSET (open \ refusing) :
        /\ refusing = {} => done = open
        /\ win' = [s \in Streams |-> IF s \in done THEN added(win[s], g) ELSE win[s]]
  BY DEF InitialWindowSize, Growth
<1>3. /\ initWin' = v
      /\ failed' = (failed \/ refusing # {})
      /\ UNCHANGED <<open, used, conn, inc, sent, connInc, connSent>>
  BY DEF InitialWindowSize, Growth
<1>4. \A s \in Streams : added(win[s], g) \in Int32
  BY <1>1, AddIsSafe DEF Inv, TypeOK
<1>5. TypeOK'
  BY <1>2, <1>3, <1>4 DEF Inv, TypeOK
<1>6. ConnLedger' /\ Debt'
  BY <1>3 DEF Inv, ConnLedger, Debt
<1>7. StreamLedger'
  <2>1. SUFFICES ASSUME ~failed, refusing = {}, NEW s \in open
                 PROVE  win'[s] = v + inc[s] - sent[s]
    BY <1>3 DEF StreamLedger
  <2>2. win[s] \in Int32 /\ win[s] = initWin + inc[s] - sent[s] /\ inc[s] - sent[s] >= -MaxInt32
        /\ s \in Streams /\ inc[s] \in Nat /\ sent[s] \in Nat
    BY <2>1 DEF Inv, TypeOK, StreamLedger, Debt
  <2>3. addOK(win[s], g) /\ win'[s] = added(win[s], g)
    BY <1>2, <2>1, <2>2
  <2>4. win[s] + g = v + inc[s] - sent[s] /\ win[s] + g >= MinInt32
    BY <2>2, MaxInt32Assumption DEF Inv, TypeOK, MinInt32
  <2> HIDE DEF g
  <2> QED BY <1>1, <2>2, <2>3, <2>4, AddIsSafe
<1> QED BY <1>5, <1>6, <1>7 DEF Inv

LEMMA NextInv == Inv /\ [Next]_vars => Inv'
<1> SUFFICES ASSUME Inv, [Next]_vars PROVE Inv'
  OBVIOUS
<1>1. CASE UNCHANGED vars
  BY <1>1 DEF vars, Inv, TypeOK, StreamLedger, ConnLedger, Debt
<1>2. ASSUME NEW s \in Streams, NewStream(s) \/ CloseStream(s) PROVE Inv'
  BY <1>2, NewStreamInv, CloseStreamInv
<1>3. ASSUME NEW s \in Streams, NEW len \in 1 .. MaxInt32, Consume(s, len) PROVE Inv'
  BY <1>3, ConsumeInv
<1>4. ASSUME NEW s \in Streams, NEW d \in 1 .. MaxInt32, WindowUpdate(s, d) PROVE Inv'
  BY <1>4, WindowUpdateInv
<1>5. ASSUME NEW d \in 1 .. MaxInt32, ConnWindowUpdate(d) PROVE Inv'
  BY <1>5, ConnWindowUpdateInv
<1>6. ASSUME NEW v \in 0 .. MaxInt32, InitialWindowSize(v) PROVE Inv'
  BY <1>6, InitialWindowSizeInv
<1> QED BY <1>1, <1>2, <1>3, <1>4, <1>5, <1>6 DEF Next

(* The invariant of all the theorems below.                                *)
THEOREM Invariance == Spec => []Inv
BY InitInv, NextInv, PTL DEF Spec

(* The windows of session.go and stream.go stay within an int32.           *)
THEOREM TypeCorrect == Spec => []TypeOK
<1>1. Inv => TypeOK
  BY DEF Inv
<1> QED BY <1>1, Invariance, PTL

(* stream.flow is the initial size plus the increments minus the bytes     *)
(* sent, whatever SETTINGS and WINDOW_UPDATE frames arrived.               *)
THEOREM StreamLedgerHolds == Spec => []StreamLedger
<1>1. Inv => StreamLedger
  BY DEF Inv
<1> QED BY <1>1, Invariance, PTL

(* Session.flow is what was granted minus what was sent on all streams,    *)
(* and never negative.                                                     *)
THEOREM ConnLedgerHolds == Spec => []ConnLedger
<1>1. Inv => ConnLedger
  BY DEF Inv
<1> QED BY <1>1, Invariance, PTL

(* Consume sends no byte beyond the peer's grant to the stream or to the   *)
(* connection.                                                             *)
THEOREM NoOverrun == Spec => NeverOverruns
<1> DEFINE Step == \A s \in Streams : sent'[s] > sent[s] =>
                      /\ ~failed => sent'[s] <= initWin + inc[s]
                      /\ connSent' <= InitialSessionWindow + connInc
<1>1. Inv /\ [Next]_vars => [Step]_vars
  <2> SUFFICES ASSUME Inv, Next PROVE Step
    BY DEF vars
  <2>1. ASSUME sent' = sent PROVE Step
    BY <2>1 DEF Inv, TypeOK
  <2>2. ASSUME NEW s \in Streams, NEW len \in 1 .. MaxInt32, Consume(s, len) PROVE Step
    <3> DEFINE n == IF len > Allowed(s) THEN Allowed(s) ELSE len
    <3>1. n \in Nat /\ n <= win[s] /\ n <= conn
      BY <2>2, AllowedBounds, MaxInt32Assumption DEF Consume, Inv, TypeOK, Int32, MinInt32
    <3>2. sent' = [sent EXCEPT ![s] = @ + n] /\ connSent' = connSent + n /\ s \in open
      BY <2>2 DEF Consume
    <3> HIDE DEF n
    <3>3. (~failed => win[s] = initWin + inc[s] - sent[s]) /\ conn = InitialSessionWindow + connInc - connSent
      BY <3>2 DEF Inv, StreamLedger, ConnLedger
    <3> QED BY <3>1, <3>2, <3>3, SendWindowAssumption DEF Inv, TypeOK, Int32, MinInt32
  <2>3. ASSUME NEW s \in Streams, NewStream(s) \/ CloseStream(s) PROVE Step
    BY <2>1, <2>3 DEF NewStream, CloseStream
  <2>4. ASSUME NEW s \in Streams, NEW d \in 1 .. MaxInt32, WindowUpdate(s, d) PROVE Step
    BY <2>1, <2>4 DEF WindowUpdate
  <2>5. ASSUME NEW d \in 1 .. MaxInt32, ConnWindowUpdate(d) PROVE Step
    BY <2>1, <2>5 DEF ConnWindowUpdate
  <2>6. ASSUME NEW v \in 0 .. MaxInt32, InitialWindowSize(v) PROVE Step
    BY <2>1, <2>6 DEF InitialWindowSize
  <2> QED BY <2>2, <2>3, <2>4, <2>5, <2>6 DEF Next
<1> QED BY <1>1, Invariance, PTL DEF Spec, NeverOverruns

================================================================================
