------------------------------ MODULE SessionLedger ----------------------------
(***************************************************************************)
(* The session implements the outbound flow control ledger of SendWindow,  *)
(* for every script, every peer and every configuration, so that what      *)
(* SendWindowProofs proves of the ledger holds of the session: whatever    *)
(* the write loop, resets and closing streams do around the windows, they  *)
(* are exact sums and nothing is sent beyond them.                         *)
(*                                                                         *)
(* Before that, the inbound windows: what is missing from the connection's *)
(* is in the bodies of open streams, has been read, or is owed by a call   *)
(* on serve's stack, so no byte is lost or refunded twice and no credit    *)
(* overflows a window.                                                     *)
(*                                                                         *)
(* Only the actions that SessionStreams calls loud can change the ledger;  *)
(* each of them is one action of SendWindow, or a stutter.                 *)
(***************************************************************************)
EXTENDS SessionStreams, WellFoundedInduction

-------------------------------------------------------------------------------
(* Sums: what the streams hold of the connection's window.                  *)

LEMMA SetInduction ==
    ASSUME NEW S, 0 \in S, \A n \in Nat : n \in S => n + 1 \in S
    PROVE  Nat \subseteq S
<1> SUFFICES ASSUME NEW m \in Nat, m \notin S PROVE FALSE
  OBVIOUS
<1> DEFINE R == StrictSubsetOrdering(0 .. m)
           F == FiniteSubsetsOf(0 .. m)
           T == {0 .. k : k \in {j \in 0 .. m : j \notin S}}
<1>1. IsWellFoundedOn(R, F)
  BY FS_StrictSubsetOrderingWellFounded
<1>2. T \subseteq F /\ T # {}
  <2>1. \A k \in 0 .. m : 0 .. k \in SUBSET (0 .. m) /\ IsFiniteSet(0 .. k)
    BY FS_Interval
  <2> QED BY <2>1 DEF FiniteSubsetsOf
<1>3. PICK x \in T : \A y \in T : <<y, x>> \notin R
  <2> HIDE DEF R, F, T
  <2> QED BY <1>1, <1>2, WFMin
<1>4. PICK k \in 0 .. m : k \notin S /\ x = 0 .. k
  OBVIOUS
<1>5. k - 1 \in 0 .. m /\ k - 1 \notin S
  <2>1. k # 0
    BY <1>4
  <2>2. k - 1 \in Nat /\ (k - 1) + 1 = k
    BY <2>1
  <2> QED BY <1>4, <2>2
<1>6. 0 .. (k - 1) \in T
  BY <1>5
<1>7. <<0 .. (k - 1), x>> \in R
  <2>1. /\ 0 .. (k - 1) \subseteq 0 .. k /\ 0 .. (k - 1) # 0 .. k
        /\ 0 .. (k - 1) \subseteq 0 .. m /\ 0 .. k \subseteq 0 .. m
    BY <1>4, <1>5
  <2> QED BY <1>4, <2>1 DEF StrictSubsetOrdering
<1> QED BY <1>3, <1>6, <1>7

(* What the stream id holds of the connection's window.                    *)
Share(id) == st[id].read + (IF InMap(id) THEN st[id].body ELSE 0)

(* The sums of the first terms of a.                                       *)
SumsOf(f, a, n) ==
    /\ f \in [0 .. n -> Nat] /\ f[0] = 0
    /\ \A i \in 1 .. n : f[i] = f[i - 1] + a[i]

LEMMA SumsExist ==
    ASSUME NEW m \in Nat, NEW a \in [1 .. m -> Nat]
    PROVE  \E f : SumsOf(f, a, m)
<1> DEFINE S == {n \in Nat : n <= m => \E f : SumsOf(f, a, n)}
<1>1. 0 \in S
  <2>1. PICK f : f = [i \in 0 .. 0 |-> 0]
    OBVIOUS
  <2>2. SumsOf(f, a, 0)
    BY <2>1 DEF SumsOf
  <2> QED BY <2>2
<1>2. ASSUME NEW n \in Nat, n \in S PROVE n + 1 \in S
  <2> SUFFICES ASSUME n + 1 <= m PROVE \E f : SumsOf(f, a, n + 1)
    OBVIOUS
  <2>1. PICK f : SumsOf(f, a, n)
    BY <1>2
  <2>2. PICK g : g = [i \in 0 .. n + 1 |-> IF i = n + 1 THEN f[n] + a[n + 1] ELSE f[i]]
    OBVIOUS
  <2>3. a[n + 1] \in Nat /\ f[n] \in Nat
    BY <2>1 DEF SumsOf
  <2>4. g \in [0 .. n + 1 -> Nat] /\ g[0] = 0
    BY <2>1, <2>2, <2>3 DEF SumsOf
  <2>5. ASSUME NEW i \in 1 .. n + 1 PROVE g[i] = g[i - 1] + a[i]
    <3>1. CASE i = n + 1
      BY <2>2, <3>1
    <3>2. CASE i # n + 1
      <4>1. i \in 1 .. n /\ i \in 0 .. n + 1 /\ i - 1 \in 0 .. n + 1 /\ i - 1 # n + 1
        BY <3>2
      <4> QED BY <2>1, <2>2, <3>2, <4>1 DEF SumsOf
    <3> QED BY <3>1, <3>2
  <2> QED BY <2>4, <2>5 DEF SumsOf
<1>3. Nat \subseteq S
  <2> HIDE DEF S
  <2> QED BY <1>1, <1>2, SetInduction
<1> QED BY <1>3

LEMMA ShareNat == ASSUME Typed PROVE \A id \in Ids : Share(id) \in Nat
BY DEF Typed, StreamObjects, Share

Shares == [id \in Ids |-> Share(id)]

HeldAddsUp ==
    Shares \in [Ids -> Nat] /\ SumsOf(HeldBytes, Shares, StreamIDLimit - 1)

(* HeldBytes is what its definition says.                                  *)
LEMMA HeldSums == Typed => HeldAddsUp
<1> SUFFICES ASSUME Typed PROVE HeldAddsUp
  OBVIOUS
<1> DEFINE m == StreamIDLimit - 1
           F(g) == [i \in 0 .. m |-> IF i = 0 THEN 0
                      ELSE g[i - 1] + st[i].read + (IF InMap(i) THEN st[i].body ELSE 0)]
<1>1. m \in Nat /\ Ids = 1 .. m
  BY SessionAssumption DEF Ids
<1>2. PICK a : a = [id \in Ids |-> Share(id)] /\ a = Shares
  BY DEF Shares
<1>3. a \in [1 .. m -> Nat]
  BY <1>1, <1>2, ShareNat
<1>4. PICK f : SumsOf(f, a, m)
  BY <1>1, <1>3, SumsExist
<1>5. f = F(f)
  <2>1. \A i \in 0 .. m : f[i] = F(f)[i]
    <3> TAKE i \in 0 .. m
    <3>1. CASE i = 0
      BY <1>4, <3>1 DEF SumsOf
    <3>2. CASE i # 0
      <4>1. i \in Ids /\ i - 1 \in 0 .. m
        BY <1>1, <3>2
      <4>2. f[i] = f[i - 1] + Share(i)
        BY <1>1, <1>2, <1>4, <4>1 DEF SumsOf
      <4>3. f[i - 1] \in Nat /\ st[i].read \in Nat /\ (IF InMap(i) THEN st[i].body ELSE 0) \in Nat
        BY <1>1, <1>4, <4>1 DEF SumsOf, Typed, StreamObjects
      <4> QED BY <3>2, <4>2, <4>3 DEF Share
    <3> QED BY <3>1, <3>2
  <2> QED BY <1>4, <2>1 DEF SumsOf
<1>6. HeldBytes = F(HeldBytes)
  <2>1. HeldBytes = CHOOSE g : g = F(g)
    BY DEF HeldBytes
  <2> HIDE DEF F
  <2> QED BY <1>5, <2>1
<1>7. HeldBytes = f
  <2>1. PICK h : h = HeldBytes
    OBVIOUS
  <2> DEFINE S == {n \in Nat : n <= m => h[n] = f[n]}
  <2>2. h = F(h)
    BY <1>6, <2>1
  <2>3. 0 \in S
    BY <1>1, <1>4, <2>2 DEF SumsOf
  <2>4. ASSUME NEW n \in Nat, n \in S PROVE n + 1 \in S
    <3> SUFFICES ASSUME n + 1 <= m PROVE h[n + 1] = f[n + 1]
      OBVIOUS
    <3>1. h[n] = f[n] /\ n + 1 \in 0 .. m /\ n + 1 # 0 /\ (n + 1) - 1 = n
      <4>1. n <= m
        BY <1>1
      <4> QED BY <1>1, <2>4, <4>1
    <3>2. h[n + 1] = F(h)[n + 1] /\ f[n + 1] = F(f)[n + 1]
      BY <1>5, <2>2
    <3> QED BY <3>1, <3>2
  <2>5. \A n \in 0 .. m : h[n] = f[n]
    <3>1. Nat \subseteq S
      BY <2>3, <2>4, SetInduction
    <3> QED BY <1>1, <3>1
  <2>6. h = [n \in 0 .. m |-> h[n]] /\ f = [n \in 0 .. m |-> f[n]]
    BY <1>5, <2>2
  <2> QED BY <2>1, <2>5, <2>6
<1> QED BY <1>1, <1>2, <1>3, <1>4, <1>7 DEF HeldAddsUp

LEMMA HeldSumsNext == (Typed => HeldAddsUp)'
BY HeldSums, PTL

(* All that the streams hold.                                              *)
AllHeld == HeldBytes[StreamIDLimit - 1]

LEMMA HeldNat == ASSUME Typed PROVE AllHeld \in Nat
<1>1. StreamIDLimit - 1 \in Nat /\ HeldBytes \in [0 .. StreamIDLimit - 1 -> Nat]
  BY HeldSums, SessionAssumption DEF SumsOf, HeldAddsUp
<1> QED BY <1>1 DEF AllHeld

(* A step that changes the share of one stream.                            *)
LEMMA HeldChange ==
    ASSUME Typed, Typed', NEW id \in Ids, \A i \in Ids : i # id => Share(i)' = Share(i)
    PROVE  AllHeld' = AllHeld + Share(id)' - Share(id)
<1>1. PICK m \in Nat : m = StreamIDLimit - 1
  BY SessionAssumption
<1>2. Ids = 1 .. m
  BY <1>1 DEF Ids
<1>3. PICK k \in 1 .. m : k = id
  BY <1>2
<1>4. PICK a \in [1 .. m -> Nat] : a = Shares
  BY <1>1, <1>2, HeldSums DEF HeldAddsUp
<1>5. PICK b \in [1 .. m -> Nat] : b = Shares'
  BY <1>1, <1>2, HeldSumsNext DEF HeldAddsUp
<1>6. PICK f, g : f = HeldBytes /\ g = HeldBytes'
  OBVIOUS
<1>7. /\ \A i \in Ids : a[i] = Share(i) /\ b[i] = Share(i)'
      /\ SumsOf(f, a, m) /\ SumsOf(g, b, m)
  BY <1>1, <1>4, <1>5, <1>6, HeldSums, HeldSumsNext DEF HeldAddsUp, Shares
<1>8. \A i \in 1 .. m : i # k => b[i] = a[i]
  BY <1>2, <1>3, <1>7
<1> DEFINE S == {n \in Nat : n <= m => g[n] = f[n] + (IF k <= n THEN b[k] - a[k] ELSE 0)}
<1>9. 0 \in S
  BY <1>7 DEF SumsOf
<1>10. ASSUME NEW n \in Nat, n \in S PROVE n + 1 \in S
  <2> SUFFICES ASSUME n + 1 <= m
               PROVE  g[n + 1] = f[n + 1] + (IF k <= n + 1 THEN b[k] - a[k] ELSE 0)
    OBVIOUS
  <2>1. /\ n + 1 \in 1 .. m /\ (n + 1) - 1 = n /\ n <= m
        /\ f[n] \in Nat /\ g[n] \in Nat /\ a[n + 1] \in Nat /\ b[n + 1] \in Nat
        /\ a[k] \in Nat /\ b[k] \in Nat
    BY <1>7 DEF SumsOf
  <2>2. g[n] = f[n] + (IF k <= n THEN b[k] - a[k] ELSE 0)
    BY <1>10, <2>1
  <2>3. f[n + 1] = f[n] + a[n + 1] /\ g[n + 1] = g[n] + b[n + 1]
    BY <1>7, <2>1 DEF SumsOf
  <2>4. CASE k = n + 1
    BY <2>1, <2>2, <2>3, <2>4
  <2>5. CASE k # n + 1
    <3>1. b[n + 1] = a[n + 1]
      BY <2>1, <2>5, <1>8
    <3>2. k <= n + 1 <=> k <= n
      BY <2>5
    <3>3. CASE k <= n
      BY <2>1, <2>2, <2>3, <3>1, <3>2, <3>3
    <3>4. CASE ~(k <= n)
      BY <2>1, <2>2, <2>3, <3>1, <3>2, <3>4
    <3> QED BY <3>3, <3>4
  <2> QED BY <2>4, <2>5
<1>11. m \in S
  <2>1. Nat \subseteq S
    <3> HIDE DEF S
    <3> QED BY <1>9, <1>10, SetInduction
  <2> QED BY <2>1
<1>12. f[m] \in Nat /\ a[k] \in Nat /\ b[k] \in Nat
  BY <1>7 DEF SumsOf
<1> QED BY <1>1, <1>3, <1>6, <1>7, <1>11, <1>12 DEF AllHeld

LEMMA HeldSame ==
    ASSUME Typed, Typed', \A i \in Ids : Share(i)' = Share(i)
    PROVE  AllHeld' = AllHeld
<1>1. 1 \in Ids /\ Share(1) \in Nat /\ AllHeld \in Nat
  BY ShareNat, HeldNat, SessionAssumption DEF Ids
<1>2. AllHeld' = AllHeld + Share(1)' - Share(1) /\ Share(1)' = Share(1)
  BY <1>1, HeldChange
<1> QED BY <1>1, <1>2

-------------------------------------------------------------------------------
(* What the call stack owes.                                                *)

(* What the first SETTINGS are followed by: credit for the connection.     *)
Surplus ==
    IF InitialSessionWindow > DefaultWindow THEN InitialSessionWindow - DefaultWindow ELSE 0

ConnRefund(p) == p.op = "sendWindowUpdate" /\ p.id = 0

(* Bytes that a call on the stack gives back to the connection's window;   *)
(* below the top of the stack this can only be the surplus.                *)
Due(p) == IF ConnRefund(p) THEN p.n ELSE IF p.op = "handshake" THEN Surplus ELSE 0

Backlog(s) == IF \E k \in 1 .. Len(s) : ConnRefund(s[k]) THEN Surplus ELSE 0

Owing(s) == IF s = <<>> THEN 0 ELSE Due(Head(s)) + Backlog(Tail(s))

Rest == IF pend = <<>> THEN <<>> ELSE Tail(pend)

NowDue == IF pend = <<>> THEN 0 ELSE Due(Top)

(* Below the top of the stack: at most one such call, and no handshake.    *)
Lone(s) ==
    \A k \in 1 .. Len(s) :
        /\ s[k].op # "handshake"
        /\ ConnRefund(s[k]) => s[k].n = Surplus
                               /\ \A j \in 1 .. Len(s) : ConnRefund(s[j]) => j = k

(* Calls that give the connection's window nothing back.                   *)
Plain(c) == \A k \in 1 .. Len(c) : c[k].op # "handshake" /\ ~ConnRefund(c[k])

LEMMA SurplusNat == Surplus \in Nat
BY SessionAssumption, MaxInt32Assumption DEF Surplus

LEMMA Placed ==
    ASSUME NEW S, NEW s \in Seq(S), NEW A, NEW c \in Seq(A), NEW t, t = c \o s
    PROVE  /\ Len(c) \in Nat /\ Len(s) \in Nat /\ Len(t) = Len(c) + Len(s)
           /\ \A k \in 1 .. Len(t) :
                \/ k \in 1 .. Len(c) /\ t[k] = c[k]
                \/ k - Len(c) \in 1 .. Len(s) /\ t[k] = s[k - Len(c)]
           /\ \A k \in 1 .. Len(s) : k + Len(c) \in 1 .. Len(t) /\ t[k + Len(c)] = s[k]
           /\ t \in Seq(A \union S)
<1>1. c \in Seq(A \union S) /\ s \in Seq(A \union S)
  OBVIOUS
<1> QED BY <1>1

LEMMA PlainBacklog ==
    ASSUME NEW S, NEW s \in Seq(S), NEW A, NEW c \in Seq(A), Plain(c)
    PROVE  /\ Backlog(c \o s) = Backlog(s)
           /\ Lone(s) => Lone(c \o s)
<1>1. PICK t : t = c \o s
  OBVIOUS
<1>2. /\ Len(c) \in Nat /\ Len(s) \in Nat /\ Len(t) = Len(c) + Len(s)
      /\ \A k \in 1 .. Len(t) :
           \/ k \in 1 .. Len(c) /\ t[k] = c[k]
           \/ k - Len(c) \in 1 .. Len(s) /\ t[k] = s[k - Len(c)]
      /\ \A k \in 1 .. Len(s) : k + Len(c) \in 1 .. Len(t) /\ t[k + Len(c)] = s[k]
  BY <1>1, Placed
<1>3. \A k \in 1 .. Len(t) : ConnRefund(t[k]) =>
        k - Len(c) \in 1 .. Len(s) /\ t[k] = s[k - Len(c)]
  BY <1>2 DEF ConnRefund, Plain
<1>4. (\E k \in 1 .. Len(t) : ConnRefund(t[k])) <=> (\E k \in 1 .. Len(s) : ConnRefund(s[k]))
  BY <1>2, <1>3
<1>5. ASSUME Lone(s) PROVE Lone(t)
  <2> SUFFICES ASSUME NEW k \in 1 .. Len(t)
               PROVE  /\ t[k].op # "handshake"
                      /\ ConnRefund(t[k]) => t[k].n = Surplus
                           /\ \A j \in 1 .. Len(t) : ConnRefund(t[j]) => j = k
    BY DEF Lone
  <2>1. t[k].op # "handshake"
    BY <1>2, <1>5 DEF Plain, Lone
  <2>2. ASSUME ConnRefund(t[k]) PROVE t[k].n = Surplus
    BY <1>3, <1>5, <2>2 DEF Lone
  <2>3. ASSUME ConnRefund(t[k]), NEW j \in 1 .. Len(t), ConnRefund(t[j]) PROVE j = k
    <3>1. PICK i : i = k - Len(c)
      OBVIOUS
    <3>2. PICK h : h = j - Len(c)
      OBVIOUS
    <3>3. i \in 1 .. Len(s) /\ h \in 1 .. Len(s) /\ ConnRefund(s[i]) /\ ConnRefund(s[h])
      BY <1>3, <2>3, <3>1, <3>2
    <3>4. h = i
      BY <1>5, <3>3 DEF Lone
    <3> QED BY <1>2, <3>1, <3>2, <3>4
  <2> QED BY <2>1, <2>2, <2>3
<1> QED BY <1>1, <1>4, <1>5 DEF Backlog

LEMMA LoneTail ==
    ASSUME NEW S, NEW s \in Seq(S), Lone(s), s # <<>>
    PROVE  Lone(Tail(s)) /\ Due(Head(s)) + Backlog(Tail(s)) = Backlog(s)
<1>1. PICK t : t = Tail(s)
  OBVIOUS
<1>2. /\ Len(s) \in Nat /\ Len(s) > 0 /\ Len(t) = Len(s) - 1 /\ Head(s) = s[1] /\ 1 \in 1 .. Len(s)
      /\ \A k \in 1 .. Len(t) : k + 1 \in 1 .. Len(s) /\ t[k] = s[k + 1]
      /\ \A k \in 1 .. Len(s) : k # 1 => k - 1 \in 1 .. Len(t) /\ s[k] = t[k - 1]
  BY <1>1
<1>3. Lone(t)
  <2> SUFFICES ASSUME NEW k \in 1 .. Len(t)
               PROVE  /\ t[k].op # "handshake"
                      /\ ConnRefund(t[k]) => t[k].n = Surplus
                           /\ \A j \in 1 .. Len(t) : ConnRefund(t[j]) => j = k
    BY DEF Lone
  <2>1. k + 1 \in 1 .. Len(s) /\ t[k] = s[k + 1]
    BY <1>2
  <2>2. ASSUME ConnRefund(t[k]), NEW j \in 1 .. Len(t), ConnRefund(t[j]) PROVE j = k
    <3>1. j + 1 = k + 1
      BY <1>2, <2>1, <2>2 DEF Lone
    <3> QED BY <1>2, <3>1
  <2> QED BY <2>1, <2>2 DEF Lone
<1>4. CASE ConnRefund(s[1])
  <2>1. \A k \in 1 .. Len(t) : ~ConnRefund(t[k])
    <3> SUFFICES ASSUME NEW k \in 1 .. Len(t), ConnRefund(t[k]) PROVE FALSE
      OBVIOUS
    <3>1. k + 1 = 1
      BY <1>2, <1>4 DEF Lone
    <3> QED BY <1>2, <3>1
  <2>2. s[1].n = Surplus
    BY <1>2, <1>4 DEF Lone
  <2> QED BY <1>1, <1>2, <1>3, <1>4, <2>1, <2>2, SurplusNat DEF Due, Backlog
<1>5. CASE ~ConnRefund(s[1])
  <2>1. (\E k \in 1 .. Len(t) : ConnRefund(t[k])) <=> (\E k \in 1 .. Len(s) : ConnRefund(s[k]))
    BY <1>2, <1>5
  <2>2. s[1].op # "handshake"
    BY <1>2 DEF Lone
  <2>3. Due(Head(s)) = 0 /\ Backlog(t) = Backlog(s)
    BY <1>2, <1>5, <2>1, <2>2 DEF Due, Backlog
  <2> QED BY <1>1, <1>3, <2>3, SurplusNat DEF Backlog
<1> QED BY <1>4, <1>5

LEMMA OneOnTop ==
    ASSUME NEW S, NEW s \in Seq(S), NEW p, NEW t, t = <<p>> \o s
    PROVE  t # <<>> /\ Head(t) = p /\ Tail(t) = s
<1>1. PICK T : T = S \union {p}
  OBVIOUS
<1>2. PICK u : u = <<p>>
  OBVIOUS
<1>3. s \in Seq(T) /\ u \in Seq(T) /\ Len(u) = 1 /\ u[1] = p
  BY <1>1, <1>2
<1>4. t \in Seq(T) /\ Len(t) = Len(s) + 1 /\ t[1] = p /\ t # <<>>
  BY <1>2, <1>3
<1>5. \A k \in 1 .. Len(s) : t[k + 1] = s[k]
  BY <1>2, <1>3
<1>6. Tail(t) \in Seq(T) /\ Len(Tail(t)) = Len(s) /\ \A k \in 1 .. Len(s) : Tail(t)[k] = t[k + 1]
  BY <1>4
<1>7. Tail(t) = s
  BY <1>3, <1>5, <1>6, SeqEqual
<1> QED BY <1>4, <1>7

(* What the stack owes after its top has been replaced.                    *)
LEMMA RefundOwing ==
    ASSUME NEW S, NEW s \in Seq(S), Lone(s), NEW A, NEW c \in Seq(A), Plain(c), NEW p, NEW t,
           t = <<p>> \o (c \o s)
    PROVE  Owing(t) = Due(p) + Backlog(s) /\ t # <<>> /\ Lone(Tail(t)) /\ Head(t) = p
<1>1. PICK r : r = c \o s
  OBVIOUS
<1>2. r \in Seq(A \union S) /\ Backlog(r) = Backlog(s) /\ Lone(r)
  BY <1>1, Placed, PlainBacklog
<1>3. t = <<p>> \o r /\ t # <<>> /\ Head(t) = p /\ Tail(t) = r
  BY <1>1, <1>2, OneOnTop
<1> QED BY <1>2, <1>3 DEF Owing

LEMMA PlainOwing ==
    ASSUME NEW S, NEW s \in Seq(S), Lone(s), NEW A, NEW c \in Seq(A), Plain(c), NEW t, t = c \o s
    PROVE  Owing(t) = Backlog(s) /\ (t # <<>> => Lone(Tail(t)) /\ Head(t).op # "handshake")
<1>1. t \in Seq(A \union S) /\ Backlog(t) = Backlog(s) /\ Lone(t)
  BY Placed, PlainBacklog
<1>2. CASE t # <<>>
  <2>1. Head(t).op # "handshake"
    <3>1. Head(t) = t[1] /\ 1 \in 1 .. Len(t)
      BY <1>1, <1>2
    <3> QED BY <1>1, <3>1 DEF Lone
  <2> QED BY <1>1, <1>2, <2>1, LoneTail DEF Owing
<1>3. CASE t = <<>>
  BY <1>1, <1>3 DEF Owing, Backlog
<1> QED BY <1>2, <1>3

-------------------------------------------------------------------------------
(* Calls that give nothing back.                                            *)

PlainOp(op) == op \notin {"sendWindowUpdate", "handshake"}

(* Calls that give nothing back, to no window.                             *)
Free(c) == (\A k \in 1 .. Len(c) : PlainOp(c[k].op)) /\ \E A : c \in Seq(A)

LEMMA FreePlain == ASSUME NEW c, Free(c) PROVE Plain(c)
BY DEF Free, Plain, PlainOp, ConnRefund

(* A step that gives nothing back and is no handshake, as the stack shows. *)
PlainStep == pend' = pend \/ (NowDue = 0 /\ \E c : Free(c) /\ pend' = c \o Rest)

LEMMA FreeOne == ASSUME NEW p, PlainOp(p.op) PROVE Free(<<p>>)
<1>1. PICK c : c = <<p>>
  OBVIOUS
<1>2. c \in Seq({p}) /\ Len(c) = 1 /\ c[1] = p
  BY <1>1
<1>3. \A k \in 1 .. Len(c) : PlainOp(c[k].op)
  BY <1>2
<1> QED BY <1>1, <1>2, <1>3 DEF Free

LEMMA FreeTwo == ASSUME NEW p, NEW r, PlainOp(p.op), PlainOp(r.op) PROVE Free(<<p, r>>)
<1>1. PICK c : c = <<p, r>>
  OBVIOUS
<1>2. c \in Seq({p, r}) /\ Len(c) = 2 /\ c[1] = p /\ c[2] = r
  BY <1>1
<1>3. \A k \in 1 .. Len(c) : PlainOp(c[k].op)
  BY <1>2
<1> QED BY <1>1, <1>2, <1>3 DEF Free

LEMMA FreeNone == Free(<<>>)
<1>1. <<>> \in Seq({})
  OBVIOUS
<1> QED BY <1>1 DEF Free

LEMMA FreeJoined ==
    ASSUME NEW c, NEW d, Free(c), Free(d)
    PROVE  Free(c \o d)
<1>1. PICK A : c \in Seq(A)
  BY DEF Free
<1>2. PICK B : d \in Seq(B)
  BY DEF Free
<1>3. PICK t : t = c \o d
  OBVIOUS
<1>4. /\ t \in Seq(A \union B)
      /\ \A k \in 1 .. Len(t) :
           \/ k \in 1 .. Len(c) /\ t[k] = c[k]
           \/ k - Len(c) \in 1 .. Len(d) /\ t[k] = d[k - Len(c)]
  BY <1>1, <1>2, <1>3, Placed
<1>5. \A k \in 1 .. Len(t) : PlainOp(t[k].op)
  BY <1>4 DEF Free
<1> QED BY <1>3, <1>4, <1>5 DEF Free

LEMMA RestTyped == ASSUME Typed PROVE Rest \in Seq(Stackable(Known, Closed))
BY DEF Rest, Typed

LEMMA RestWhole == ASSUME Typed PROVE Rest = <<>> \o Rest
BY RestTyped

LEMMA RunningRest ==
    ASSUME NEW op, Running(op)
    PROVE  Rest = Tail(pend) /\ (PlainOp(op) => NowDue = 0)
BY RunningTop DEF Rest, NowDue, Due, ConnRefund, PlainOp

LEMMA ReplacedPlain ==
    ASSUME Typed, NEW op, Running(op), PlainOp(op),
           \/ pend' = Tail(pend)
           \/ \E s : ScheduleFrameWrite(s, Tail(pend))
           \/ \E c : Free(c) /\ pend' = c \o Tail(pend)
    PROVE  PlainStep
<1>1. Rest = Tail(pend) /\ NowDue = 0
  BY RunningRest
<1>2. CASE pend' = Tail(pend)
  BY <1>1, <1>2, RestWhole, FreeNone DEF PlainStep
<1>3. CASE \E c : Free(c) /\ pend' = c \o Tail(pend)
  BY <1>1, <1>3 DEF PlainStep
<1>4. CASE \E s : ScheduleFrameWrite(s, Tail(pend))
  <2>1. PICK p : p = Op("loop", 0, 0)
    OBVIOUS
  <2>2. pend' = Tail(pend) \/ pend' = <<p>> \o Tail(pend)
    BY <1>4, <2>1 DEF ScheduleFrameWrite
  <2>3. Free(<<p>>)
    BY <2>1, OpFields, FreeOne DEF PlainOp
  <2> QED BY <1>2, <1>3, <2>2, <2>3
<1> QED BY <1>2, <1>3, <1>4

LEMMA PushedPlain ==
    ASSUME Typed, NEW op, Running(op), PlainOp(op), NEW p, PlainOp(p.op), pend' = <<p>> \o pend
    PROVE  PlainStep
<1>1. pend # <<>> /\ Top.op = op /\ pend \in Seq(Stackable(Known, Closed))
  BY RunningTop DEF Typed
<1>2. PICK t : t = Top
  OBVIOUS
<1>3. <<p>> \o pend = <<p, t>> \o Tail(pend)
  BY <1>1, <1>2 DEF Top
<1>4. Free(<<p, t>>)
  BY <1>1, <1>2, FreeTwo
<1> QED BY <1>3, <1>4, ReplacedPlain

LEMMA StartedPlain ==
    ASSUME Typed, Running("loop"), NEW s, NEW wr, startFrameWrite(s, wr)
    PROVE  PlainStep
<1>1. PICK p : p = OpOn("wroteFrame", wr)
  OBVIOUS
<1>2. pend' = pend \/ pend' = Tail(pend) \/ pend' = <<p>> \o pend
  BY <1>1 DEF startFrameWrite
<1>3. p.op = "wroteFrame"
  BY <1>1, OpFields
<1> QED BY <1>2, <1>3, ReplacedPlain, PushedPlain DEF PlainStep, PlainOp

LEMMA ThenPlain ==
    ASSUME Typed, pend = <<>>, NEW c, Free(c), Then(c)
    PROVE  PlainStep
<1>1. PICK p, r : p = Op("readMore", 0, 0) /\ r = Op("iter", 0, 0)
  OBVIOUS
<1>2. Free(<<p, r>>)
  BY <1>1, OpFields, FreeTwo DEF PlainOp
<1>3. PICK d : d = c \o <<p, r>>
  OBVIOUS
<1>4. Free(d) /\ pend' = d /\ Rest = <<>> /\ NowDue = 0
  BY <1>1, <1>2, <1>3, FreeJoined DEF Then, Rest, NowDue
<1>5. d \o <<>> = d
  BY <1>4 DEF Free
<1> QED BY <1>4, <1>5 DEF PlainStep

LEMMA SelectPlain ==
    ASSUME pend = <<>>, NEW c, Free(c), pend' = c
    PROVE  PlainStep
<1>1. c \o <<>> = c
  BY DEF Free
<1> QED BY <1>1 DEF PlainStep, Rest, NowDue

-------------------------------------------------------------------------------
(* Steps that give nothing back.                                            *)

LEMMA FreeCalls ==
    /\ Free(ConnError)
    /\ \A id : Free(resetStream(id))
    /\ \A wr : Free(<<OpOn("writeFrame", wr)>>)
    /\ \A wr : Free(<<OpOn("reply", wr)>>)
    /\ \A op, id, n : PlainOp(op) => Free(<<Op(op, id, n)>>)
<1>1. Free(ConnError)
  BY OpFields, FreeOne DEF ConnError, PlainOp
<1>2. ASSUME NEW id PROVE Free(resetStream(id))
  <2>1. PICK p, r : /\ p = OpOn("writeFrame", WR("rst", id, 0, FALSE, Nobody))
                    /\ r = Op("markReset", id, 0)
    OBVIOUS
  <2>2. p.op = "writeFrame" /\ r.op = "markReset"
    BY <2>1, OpFields
  <2>3. resetStream(id) = <<p, r>>
    BY <2>1 DEF resetStream
  <2> QED BY <2>2, <2>3, FreeTwo DEF PlainOp
<1>3. ASSUME NEW wr PROVE Free(<<OpOn("writeFrame", wr)>>) /\ Free(<<OpOn("reply", wr)>>)
  BY OpFields, FreeOne DEF PlainOp
<1>4. ASSUME NEW op, NEW id, NEW n, PlainOp(op) PROVE Free(<<Op(op, id, n)>>)
  BY <1>4, OpFields, FreeOne
<1> QED BY <1>1, <1>2, <1>3, <1>4

LEMMA WroteFree == \A wr : Free(WroteCalls(wr))
<1> TAKE wr
<1>1. \/ WroteCalls(wr) = <<>> \/ WroteCalls(wr) = resetStream(wr.id)
      \/ WroteCalls(wr) = <<Op("closeStream", wr.id, 0)>>
  BY DEF WroteCalls
<1>2. Free(<<Op("closeStream", wr.id, 0)>>)
  BY FreeCalls DEF PlainOp
<1> QED BY <1>1, <1>2, FreeNone, FreeCalls

LEMMA WritePlain ==
    ASSUME Typed, WriteStep \/ writeFrameAsync, ~sendWindowUpdate, ~closeStream
    PROVE  PlainStep
<1>1. CASE writeFrame \/ reply
  <2>1. ScheduleFrameWrite(sc, Tail(pend)) /\ (Running("writeFrame") \/ Running("reply"))
    BY <1>1 DEF writeFrame, reply
  <2> QED BY <2>1, ReplacedPlain DEF PlainOp
<1>2. CASE LoopGoAway \/ LoopSettingsAck \/ LoopFlush
  <2>1. Running("loop") /\ \E s, wr : startFrameWrite(s, wr)
    BY <1>2 DEF LoopGoAway, LoopSettingsAck, LoopFlush
  <2> QED BY <2>1, StartedPlain
<1>3. ASSUME NEW i \in Ids \union {0}, LoopPop(i) PROVE PlainStep
  <2>1. Running("loop") /\ \E s, wr : startFrameWrite(s, wr)
    BY <1>3, Zenon DEF LoopPop
  <2> QED BY <2>1, StartedPlain
<1>4. CASE LoopExit \/ markReset \/ closeRest
  <2>1. /\ pend' = Tail(pend)
        /\ Running("loop") \/ Running("markReset") \/ Running("closeRest")
    BY <1>4 DEF LoopExit, markReset, closeRest
  <2> QED BY <2>1, ReplacedPlain DEF PlainOp
<1>5. CASE wroteFrame
  <2>1. PICK wr, r, c : wr = Top.wr /\ r = OpOn("reply", wr) /\ c = WroteCalls(wr)
    OBVIOUS
  <2>2. Running("wroteFrame") /\ (pend' = pend \/ pend' = c \o <<r>> \o Tail(pend))
    BY <1>5, <2>1 DEF wroteFrame, Panic
  <2>3. CASE pend' = pend
    BY <2>3 DEF PlainStep
  <2>4. CASE pend' # pend
    <3>1. pend' = (c \o <<r>>) \o Tail(pend)
      BY <2>2, <2>4
    <3>2. Free(c) /\ Free(<<r>>)
      BY <2>1, WroteFree, FreeCalls
    <3>3. PICK d : d = c \o <<r>>
      OBVIOUS
    <3>4. Free(d) /\ pend' = d \o Tail(pend)
      BY <3>1, <3>2, <3>3, FreeJoined
    <3> QED BY <2>2, <3>4, ReplacedPlain DEF PlainOp
  <2> QED BY <2>3, <2>4
<1>6. ASSUME NEW op, NEW code, PlainOp(op), goAway(op, code) PROVE PlainStep
  <2>1. Running(op) /\ (pend' = Tail(pend) \/ \E s : ScheduleFrameWrite(s, Tail(pend)))
    BY <1>6, Zenon DEF goAway
  <2> QED BY <1>6, <2>1, ReplacedPlain
<1>7. CASE writeFrameAsync
  BY <1>7 DEF writeFrameAsync, PlainStep
<1> QED BY <1>1, <1>2, <1>3, <1>4, <1>5, <1>6, <1>7 DEF WriteStep, PlainOp

LEMMA AnswerPlain ==
    ASSUME Typed, pend = <<>>, NEW c, Free(c), Answer(c)
    PROVE  PlainStep
BY ThenPlain DEF Answer

LEMMA ThenSchedulePlain ==
    ASSUME Typed, pend = <<>>, NEW s, ThenSchedule(s)
    PROVE  PlainStep
<1>1. PICK p, r, l : p = Op("readMore", 0, 0) /\ r = Op("iter", 0, 0) /\ l = Op("loop", 0, 0)
  OBVIOUS
<1>2. Free(<<p, r>>) /\ Free(<<l>>)
  BY <1>1, OpFields, FreeOne, FreeTwo DEF PlainOp
<1>3. pend' = <<p, r>> \/ pend' = <<l>> \o <<p, r>>
  BY <1>1 DEF ThenSchedule, ScheduleFrameWrite
<1>4. Free(<<l>> \o <<p, r>>)
  BY <1>2, FreeJoined
<1> QED BY <1>2, <1>3, <1>4, SelectPlain

LEMMA FramesPlain ==
    ASSUME Typed,
           \/ \E t : TooEarly(t)
           \/ processPing \/ processFatal \/ processStreamError \/ processIgnored
           \/ processPriority \/ processGoAway \/ processEOF \/ processResetStream
           \/ processSettingsAck \/ receiveSettings
    PROVE  PlainStep
<1>1. pend = <<>>
  BY DEF TooEarly, processPing, processFatal, processStreamError, processIgnored,
         processPriority, processGoAway, processEOF, processResetStream, processSettingsAck,
         receiveSettings, Handled, Receive, Parked
<1>2. CASE \E t : TooEarly(t)
  <2>1. Then(ConnError)
    BY <1>2 DEF TooEarly
  <2> QED BY <1>1, <2>1, ThenPlain, FreeCalls
<1>3. CASE processPing
  <2>1. \/ Answer(ConnError) \/ Answer(<<>>) \/ Answer(<<OpOn("writeFrame", Control("ping"))>>)
    BY <1>3 DEF processPing
  <2> QED BY <1>1, <2>1, AnswerPlain, FreeCalls, FreeNone
<1>4. CASE processFatal
  BY <1>1, <1>4, AnswerPlain, FreeCalls DEF processFatal
<1>5. CASE processStreamError
  BY <1>1, <1>5, AnswerPlain, FreeCalls DEF processStreamError
<1>6. CASE processIgnored
  BY <1>1, <1>6, AnswerPlain, FreeNone DEF processIgnored
<1>7. CASE processPriority
  <2>1. Answer(resetStream(frame.id)) \/ Answer(<<>>)
    BY <1>7 DEF processPriority
  <2> QED BY <1>1, <2>1, AnswerPlain, FreeCalls, FreeNone
<1>8. CASE processGoAway
  <2>1. Answer(<<Op("goAwayNo", 0, 0)>>) /\ Free(<<Op("goAwayNo", 0, 0)>>)
    BY <1>8, FreeCalls DEF processGoAway, PlainOp
  <2> QED BY <1>1, <2>1, AnswerPlain
<1>9. CASE processEOF
  <2>1. pend' = <<Op("exit", 0, 0)>> /\ Free(<<Op("exit", 0, 0)>>)
    BY <1>9, FreeCalls DEF processEOF, PlainOp
  <2> QED BY <1>1, <2>1, SelectPlain
<1>10. CASE processResetStream
  <2>1. \/ Answer(ConnError) \/ Answer(<<>>) \/ Answer(<<Op("closeStream", frame.id, 0)>>)
    BY <1>10 DEF processResetStream
  <2>2. Free(<<Op("closeStream", frame.id, 0)>>)
    BY FreeCalls DEF PlainOp
  <2> QED BY <1>1, <2>1, <2>2, AnswerPlain, FreeCalls, FreeNone
<1>11. CASE processSettingsAck
  <2>1. Then(ConnError) \/ Then(<<>>)
    BY <1>11 DEF processSettingsAck
  <2> QED BY <1>1, <2>1, ThenPlain, FreeCalls, FreeNone
<1>12. CASE receiveSettings
  <2>1. PICK p : p = [Op("processSettings", 0, 0) EXCEPT !.set = frame.set]
    OBVIOUS
  <2>2. p.op = "processSettings"
    BY <2>1 DEF Op
  <2>3. Then(<<p>>) /\ Free(<<p>>)
    BY <1>12, <2>1, <2>2, FreeOne DEF receiveSettings, PlainOp
  <2> QED BY <1>1, <2>3, ThenPlain
<1> QED BY <1>2, <1>3, <1>4, <1>5, <1>6, <1>7, <1>8, <1>9, <1>10, <1>11, <1>12

LEMMA ReadPlain == ASSUME Typed, ReadStep, ~processData PROVE PlainStep
<1>1. CASE readMore \/ endStream
  <2>1. pend' = Tail(pend) /\ (Running("readMore") \/ Running("endStream"))
    BY <1>1 DEF readMore, endStream
  <2> QED BY <2>1, ReplacedPlain DEF PlainOp
<1>2. CASE SettingsDone
  BY <1>2, ReplacedPlain DEF SettingsDone, PlainOp
<1>3. CASE processSetting \/ processSettingInitialWindowSize
  <2>1. PICK p : p = [Top EXCEPT !.set = Tail(@)]
    OBVIOUS
  <2>2. /\ Running("processSettings")
        /\ pend' = <<p>> \o Tail(pend) \/ pend' = ConnError \o Tail(pend)
    BY <1>3, <2>1 DEF processSetting, processSettingInitialWindowSize, NextSetting
  <2>3. p.op = "processSettings"
    <3>1. pend # <<>> /\ Top.op = "processSettings"
      BY <2>2, RunningTop
    <3>2. Top \in Pending
      BY <3>1, TopTyped
    <3> QED BY <2>1, <3>1, <3>2 DEF Pending
  <2>4. Free(<<p>>) /\ Free(ConnError)
    BY <2>3, FreeOne, FreeCalls DEF PlainOp
  <2> QED BY <2>2, <2>4, ReplacedPlain DEF PlainOp
<1>4. CASE processWindowUpdate
  <2>1. pend = <<>>
    BY <1>4 DEF processWindowUpdate, Handled, Receive, Parked
  <2>2. \/ \E s : ThenSchedule(s)
        \/ Then(ConnError) \/ Then(resetStream(frame.id)) \/ Then(<<>>)
    BY <1>4, Zenon DEF processWindowUpdate
  <2> QED BY <2>1, <2>2, ThenSchedulePlain, ThenPlain, FreeCalls, FreeNone
<1>5. CASE processHeaders
  <2>1. pend = <<>>
    BY <1>5 DEF processHeaders, Handled, Receive, Parked
  <2>2. \/ Then(ConnError) \/ Then(resetStream(frame.id)) \/ Then(<<>>)
        \/ Then(<<Op("endStream", frame.id, 0)>>)
    <3>1. CASE HeadersOnStream
      BY <3>1 DEF HeadersOnStream
    <3>2. CASE HeadersOpenStream
      BY <3>2 DEF HeadersOpenStream
    <3> QED BY <1>5, <3>1, <3>2 DEF processHeaders
  <2>3. Free(<<Op("endStream", frame.id, 0)>>)
    BY FreeCalls DEF PlainOp
  <2> QED BY <2>1, <2>2, <2>3, ThenPlain, FreeCalls, FreeNone
<1> QED BY <1>1, <1>2, <1>3, <1>4, <1>5, FramesPlain DEF ReadStep

LEMMA ServePlain ==
    ASSUME Typed, Discipline, ServeStep \/ onShutdownTimer, ~handshake
    PROVE  PlainStep
<1>1. CASE startReader \/ refuse \/ handOver \/ iter
  <2>1. /\ pend' = Tail(pend)
        /\ Running("startReader") \/ Running("refuse") \/ Running("handOver") \/ Running("iter")
    BY <1>1 DEF startReader, refuse, handOver, iter
  <2> QED BY <2>1, ReplacedPlain DEF PlainOp
<1>2. CASE exit
  <2>1. Running("exit") /\ pend' = <<Op("closeAll", 0, 0)>>
    BY <1>2 DEF exit
  <2>2. Tail(pend) = <<>>
    <3>1. OnTop("exit")
      BY <2>1, RunningTop DEF OnTop
    <3> QED BY <3>1 DEF Discipline, Below, OnTop, Tops
  <2>3. PICK c : c = <<Op("closeAll", 0, 0)>>
    OBVIOUS
  <2>4. Free(c)
    BY <2>3, FreeCalls DEF PlainOp
  <2>5. c \o <<>> = c
    BY <2>4 DEF Free
  <2> QED BY <2>1, <2>2, <2>3, <2>4, <2>5, ReplacedPlain DEF PlainOp
<1>3. CASE closeAllStreamsOnConnClose
  <2>1. /\ Running("closeAll")
        /\ pend' = Tail(pend) \/ \E id : pend' = <<Op("closeStream", id, 0)>> \o pend
    BY <1>3 DEF closeAllStreamsOnConnClose
  <2>2. ASSUME NEW id, pend' = <<Op("closeStream", id, 0)>> \o pend PROVE PlainStep
    <3>1. PICK p : p = Op("closeStream", id, 0)
      OBVIOUS
    <3>2. PlainOp(p.op)
      BY <3>1, OpFields DEF PlainOp
    <3> QED BY <2>1, <2>2, <3>1, <3>2, PushedPlain DEF PlainOp
  <2> QED BY <2>1, <2>2, ReplacedPlain DEF PlainOp
<1>4. CASE SelectWant \/ SelectWrote \/ SelectShutdown \/ SelectTimer \/ createStream
  <2>1. PICK it : it = Op("iter", 0, 0)
    OBVIOUS
  <2>2. pend = <<>> /\ Free(<<it>>)
    BY <1>4, <2>1, FreeCalls DEF SelectWant, SelectWrote, SelectShutdown, SelectTimer,
       createStream, SelectMsg, Parked, PlainOp
  <2>3. ASSUME NEW c, Free(c), pend' = c \o <<it>> PROVE PlainStep
    BY <2>2, <2>3, FreeJoined, SelectPlain
  <2>4. CASE SelectWant
    <3>1. \/ pend' = resetStream(Head(want).id) \o <<it>>
          \/ pend' = <<OpOn("writeFrame", Head(want))>> \o <<it>>
      BY <2>1, <2>4 DEF SelectWant
    <3> QED BY <2>3, <3>1, FreeCalls
  <2>5. CASE SelectWrote
    <3>1. PICK p : p = OpOn("wroteFrame", writer.wr)
      OBVIOUS
    <3>2. pend' = <<p, it>> /\ PlainOp(p.op) /\ PlainOp(it.op)
      BY <2>1, <2>5, <3>1, OpFields DEF SelectWrote, PlainOp
    <3> QED BY <2>2, <3>2, FreeTwo, SelectPlain
  <2>6. CASE SelectShutdown
    <3>1. PICK p : p = Op("goAwayNo", 0, 0)
      OBVIOUS
    <3>2. pend' = <<p, it>> /\ PlainOp(p.op) /\ PlainOp(it.op)
      BY <2>1, <2>6, <3>1, OpFields DEF SelectShutdown, PlainOp
    <3> QED BY <2>2, <3>2, FreeTwo, SelectPlain
  <2>7. CASE SelectTimer
    <3>1. pend' = <<Op("exit", 0, 0)>> /\ Free(<<Op("exit", 0, 0)>>)
      BY <2>7, FreeCalls DEF SelectTimer, PlainOp
    <3> QED BY <2>2, <3>1, SelectPlain
  <2>8. CASE createStream
    <3>1. PICK c, id, n : c = Head(msgs).c /\ id = NextLocalID /\ n = Script[c].end
      OBVIOUS
    <3>2. PICK a, b, d, e : /\ a = Op("refuse", 0, c) /\ b = Op("goAwayNo", 0, 0)
                            /\ d = OpOn("writeFrame", WR("headers", id, 0, n, Nobody))
                            /\ e = Op("handOver", id, c)
      OBVIOUS
    <3>3. pend' = <<a, it>> \/ pend' = <<b, a, it>> \/ pend' = <<d, e, it>>
      BY <2>1, <2>8, <3>1, <3>2 DEF createStream
    <3>4. PlainOp(a.op) /\ PlainOp(b.op) /\ PlainOp(d.op) /\ PlainOp(e.op) /\ PlainOp(it.op)
      BY <2>1, <3>2, OpFields DEF PlainOp
    <3>5. Free(<<a, it>>) /\ Free(<<b, a>>) /\ Free(<<d, e>>)
      BY <3>4, FreeTwo
    <3>6. <<b, a, it>> = <<b, a>> \o <<it>> /\ <<d, e, it>> = <<d, e>> \o <<it>>
      OBVIOUS
    <3> QED BY <2>2, <2>3, <3>3, <3>5, <3>6, SelectPlain
  <2> QED BY <1>4, <2>4, <2>5, <2>6, <2>7, <2>8
<1>5. CASE onShutdownTimer
  BY <1>5 DEF onShutdownTimer, PlainStep
<1> QED BY <1>1, <1>2, <1>3, <1>4, <1>5 DEF ServeStep

(* The steps that give something back, or ask that it be given back.       *)
Refunds == sendWindowUpdate \/ closeStream \/ processData \/ handshake

LEMMA PlainSteps == ASSUME Typed, Discipline, [Next]_vars, ~Refunds PROVE PlainStep
<1>1. CASE AppStep
  BY <1>1, AppFrame DEF PlainStep
<1>2. CASE \/ (\E f \in PeerFrames : ReadFrame(f)) \/ ReadError \/ ReaderStops
           \/ Over \/ UNCHANGED vars
  BY <1>2 DEF ReadFrame, ReadError, ReaderStops, Over, vars, PlainStep
<1> QED BY <1>1, <1>2, WritePlain, ReadPlain, ServePlain DEF Next, Refunds

-------------------------------------------------------------------------------
(* Steps that leave the inbound windows and the bodies alone.               *)

SameBytes(r, s) == r.inflow = s.inflow /\ r.body = s.body /\ r.read = s.read

SameHeld == \A id \in Ids : SameBytes(st'[id], st[id])

(* A step that leaves the inbound windows and the bodies alone.            *)
BytesSame == sc'.inflow = sc.inflow /\ SameHeld

(* The other steps.                                                        *)
Moves ==
    \/ sendWindowUpdate \/ processData \/ createStream
    \/ processHeaders /\ HeadersOpenStream
    \/ \E id \in Ids : Read(id)

LEMMA HeldAlone == ASSUME st' = st PROVE SameHeld
BY DEF SameHeld, SameBytes

LEMMA OneHeld ==
    ASSUME st \in [Ids -> StreamObjects], NEW i \in Ids, NEW r, st' = [st EXCEPT ![i] = r],
           SameBytes(r, st[i])
    PROVE  SameHeld
BY DEF SameHeld, SameBytes

LEMMA BytesFields ==
    ASSUME NEW r \in StreamObjects, NEW v, NEW w, NEW u
    PROVE  /\ SameBytes([r EXCEPT !.state = v], r)
           /\ SameBytes([r EXCEPT !.resetQueued = v], r)
           /\ SameBytes([r EXCEPT !.bodyErr = v, !.cw = w], r)
           /\ SameBytes([r EXCEPT !.bodyErr = v, !.stale = w, !.state = u], r)
           /\ SameBytes([r EXCEPT !.gotTrailerHeader = v], r)
           /\ SameBytes([r EXCEPT !.held = v], r)
           /\ SameBytes([r EXCEPT !.replied = v], r)
           /\ SameBytes([r EXCEPT !.replied = v, !.ready = w], r)
           /\ SameBytes([r EXCEPT !.flow = v], r)
           /\ SameBytes([r EXCEPT !.flow = v, !.inc = w], r)
           /\ SameBytes([r EXCEPT !.flow = v, !.spent = w], r)
BY DEF SameBytes, StreamObjects

LEMMA ScheduleInflow ==
    ASSUME NEW s \in Sessions, NEW rest, ScheduleFrameWrite(s, rest)
    PROVE  sc'.inflow = s.inflow
BY DEF ScheduleFrameWrite, Sessions

LEMMA StartInflow ==
    ASSUME NEW s \in Sessions, NEW wr, startFrameWrite(s, wr)
    PROVE  sc'.inflow = s.inflow
<1>1. \/ sc' = s
      \/ sc' = [s EXCEPT !.writingFrame = TRUE, !.needsFrameFlush = (wr.kind # "flush")]
      \/ sc' = [[s EXCEPT !.writingFrame = TRUE, !.needsFrameFlush = (wr.kind # "flush")]
                EXCEPT !.writingFrameAsync = TRUE, !.inFrameScheduleLoop = FALSE]
  BY DEF startFrameWrite
<1> QED BY <1>1 DEF Sessions

LEMMA WriteBytes ==
    ASSUME Typed, Discipline, WriteStep \/ writeFrameAsync, ~sendWindowUpdate
    PROVE  BytesSame
<1>1. sc \in Sessions /\ st \in [Ids -> StreamObjects]
  BY DEF Typed
<1>2. CASE writeFrame \/ reply
  <2>1. ScheduleFrameWrite(sc, Tail(pend)) /\ st' = st
    BY <1>2 DEF writeFrame, reply
  <2> QED BY <1>1, <2>1, ScheduleInflow, HeldAlone DEF BytesSame
<1>3. CASE markReset
  <2>1. sc' = sc /\ Top.id \in Ids
    BY <1>3, TopTyped DEF markReset, Running, Top, Stackable, Pending, Ids
  <2>2. CASE st' # st
    <3>1. PICK r : r = [st[Top.id] EXCEPT !.resetQueued = TRUE]
      OBVIOUS
    <3>2. st' = [st EXCEPT ![Top.id] = r]
      BY <1>3, <2>2, <3>1 DEF markReset
    <3> QED BY <1>1, <2>1, <3>1, <3>2, OneHeld, BytesFields DEF BytesSame
  <2> QED BY <2>1, <2>2, HeldAlone DEF BytesSame
<1>4. CASE LoopGoAway \/ LoopSettingsAck \/ LoopFlush \/ LoopExit
  <2>1. st' = st
    BY <1>4 DEF LoopGoAway, LoopSettingsAck, LoopFlush, LoopExit
  <2>2. ASSUME NEW s \in Sessions, s.inflow = sc.inflow, NEW wr, startFrameWrite(s, wr)
        PROVE  BytesSame
    BY <2>1, <2>2, StartInflow, HeldAlone DEF BytesSame
  <2>3. CASE LoopGoAway
    <3>1. PICK s : s = [sc EXCEPT !.needToSendGoAway = FALSE]
      OBVIOUS
    <3>2. s \in Sessions /\ s.inflow = sc.inflow
      BY <1>1, <3>1 DEF Sessions
    <3> QED BY <2>2, <2>3, <3>1, <3>2 DEF LoopGoAway
  <2>4. CASE LoopSettingsAck
    <3>1. PICK s : s = [sc EXCEPT !.needToSendSettingsAck = FALSE]
      OBVIOUS
    <3>2. s \in Sessions /\ s.inflow = sc.inflow
      BY <1>1, <3>1 DEF Sessions
    <3> QED BY <2>2, <2>4, <3>1, <3>2 DEF LoopSettingsAck
  <2>5. CASE LoopFlush
    BY <1>1, <2>2, <2>5 DEF LoopFlush
  <2>6. CASE LoopExit
    BY <1>1, <2>1, <2>6, HeldAlone DEF LoopExit, BytesSame, Sessions
  <2> QED BY <1>4, <2>3, <2>4, <2>5, <2>6
<1>5. ASSUME NEW i \in Ids \union {0}, LoopPop(i) PROVE BytesSame
  <2>1. PICK wr : wr = Consumed(Head(q[i]))
    OBVIOUS
  <2>2. PICK n : n = IF wr.kind = "data" THEN wr.n ELSE 0
    OBVIOUS
  <2>3. PICK s : s = [sc EXCEPT !.flow = sc.flow - n, !.connSent = sc.connSent + n]
    OBVIOUS
  <2>4. /\ startFrameWrite(s, wr) /\ i \in ReadyQueues
        /\ st' = IF n = 0 THEN st
                 ELSE [st EXCEPT ![i] = [@ EXCEPT !.flow = st[i].flow - n, !.spent = st[i].spent + n]]
    BY <1>5, <2>1, <2>2, <2>3 DEF LoopPop
  <2>5. wr \in Requests(Known) /\ (wr.kind = "data" => i \in Ids)
    <3>1. wr.kind = "data" => i \in Known
      BY <2>1, <2>4, PoppedTyped
    <3> QED BY <2>1, <2>4, <3>1, PoppedTyped DEF Known
  <2>6. n \in Nat
    BY <2>2, <2>5 DEF Requests, WriteRequests
  <2>7. s \in Sessions /\ s.inflow = sc.inflow
    <3>1. sc.flow \in Int /\ sc.connSent \in Nat
      BY <1>1 DEF Sessions
    <3>2. sc.flow - n \in Int /\ sc.connSent + n \in Nat
      BY <2>6, <3>1
    <3>3. s \in Sessions
      BY <1>1, <2>3, <3>2, ChargeTyped
    <3> QED BY <1>1, <2>3, <3>3 DEF Sessions
  <2>8. sc'.inflow = sc.inflow
    BY <2>4, <2>7, StartInflow
  <2>9. CASE n = 0
    BY <2>4, <2>8, <2>9, HeldAlone DEF BytesSame
  <2>10. CASE n # 0
    <3>1. PICK a, b : a = st[i].flow - n /\ b = st[i].spent + n
      OBVIOUS
    <3>2. PICK r : r = [st[i] EXCEPT !.flow = a, !.spent = b]
      OBVIOUS
    <3>3. st' = [st EXCEPT ![i] = r] /\ i \in Ids
      BY <2>2, <2>4, <2>5, <2>10, <3>1, <3>2
    <3> QED BY <1>1, <2>8, <3>2, <3>3, OneHeld, BytesFields DEF BytesSame
  <2> QED BY <2>9, <2>10
<1>6. CASE wroteFrame
  <2>1. PICK wr : wr = Top.wr
    OBVIOUS
  <2>2. pend # <<>> /\ sc.writingFrame
    BY <1>6 DEF wroteFrame, Running, Discipline, OnTop, Top
  <2>3. /\ sc' = [sc EXCEPT !.writingFrame = FALSE, !.writingFrameAsync = FALSE]
        /\ st' = IF writeEndsStream(wr) THEN [st EXCEPT ![wr.id].state = AfterEndStream(@)] ELSE st
    BY <1>6, <2>1, <2>2 DEF wroteFrame
  <2>4. sc'.inflow = sc.inflow
    BY <1>1, <2>3 DEF Sessions
  <2>5. CASE writeEndsStream(wr)
    <3>1. wr.id \in Ids
      <4>1. wr \in Requests(Known)
        BY <2>1, <2>2, TopTyped
      <4> QED BY <2>5, <4>1 DEF Requests, HasStream, Known, writeEndsStream
    <3>2. PICK a, r : a = AfterEndStream(st[wr.id].state) /\ r = [st[wr.id] EXCEPT !.state = a]
      OBVIOUS
    <3>3. st' = [st EXCEPT ![wr.id] = r]
      BY <2>3, <2>5, <3>2
    <3> QED BY <1>1, <2>4, <3>1, <3>2, <3>3, OneHeld, BytesFields DEF BytesSame
  <2> QED BY <2>3, <2>4, <2>5, HeldAlone DEF BytesSame
<1>7. CASE closeStream
  <2>1. pend # <<>> /\ Top.id \in Ids
    BY <1>7, TopTyped DEF closeStream, Running, Top, Stackable, Known
  <2>2. CASE ClosePanic(Top.id) # "none"
    BY <1>7, <2>2, HeldAlone DEF closeStream, Panic, BytesSame
  <2>3. CASE ClosePanic(Top.id) = "none"
    <3>1. PICK r : r = [st[Top.id] EXCEPT !.state = "closed"]
      OBVIOUS
    <3>2. st' = [st EXCEPT ![Top.id] = r]
      BY <1>7, <2>3, <3>1 DEF closeStream
    <3>3. \/ sc' = [sc EXCEPT !.curPushedStreams = @ - 1] \/ sc' = [sc EXCEPT !.curClientStreams = @ - 1]
      BY <1>7, <2>3 DEF closeStream
    <3>4. sc'.inflow = sc.inflow
      BY <1>1, <3>3 DEF Sessions
    <3> QED BY <1>1, <2>1, <3>1, <3>2, <3>4, OneHeld, BytesFields DEF BytesSame
  <2> QED BY <2>2, <2>3
<1>8. CASE closeRest
  <2>1. sc' = sc /\ Top.id \in Ids
    BY <1>8, TopTyped DEF closeRest, Running, Top, Stackable, Known
  <2>2. PICK r : r = [st[Top.id] EXCEPT !.bodyErr = TRUE, !.cw = TRUE]
    OBVIOUS
  <2>3. st' = [st EXCEPT ![Top.id] = r]
    BY <1>8, <2>2 DEF closeRest
  <2> QED BY <1>1, <2>1, <2>2, <2>3, OneHeld, BytesFields DEF BytesSame
<1>9. ASSUME NEW op, NEW code \in {"No", "Err"}, goAway(op, code) PROVE BytesSame
  <2>1. st' = st
    BY <1>9 DEF goAway
  <2>2. CASE sc' # sc
    <3>1. PICK s : s = [sc EXCEPT !.inGoAway = TRUE, !.needToSendGoAway = TRUE, !.goAwayCode = code]
      OBVIOUS
    <3>2. ScheduleFrameWrite(s, Tail(pend))
      BY <1>9, <2>2, <3>1 DEF goAway
    <3>3. s \in Sessions /\ s.inflow = sc.inflow
      BY <1>1, <3>1 DEF Sessions
    <3> QED BY <2>1, <3>2, <3>3, ScheduleInflow, HeldAlone DEF BytesSame
  <2> QED BY <2>1, <2>2, HeldAlone DEF BytesSame
<1>10. CASE writeFrameAsync
  BY <1>10, HeldAlone DEF writeFrameAsync, BytesSame
<1> QED BY <1>2, <1>3, <1>4, <1>5, <1>6, <1>7, <1>8, <1>9, <1>10 DEF WriteStep

LEMMA ReadBytes ==
    ASSUME Typed, ReadStep, ~processData, ~(processHeaders /\ HeadersOpenStream)
    PROVE  BytesSame
<1>1. sc \in Sessions /\ st \in [Ids -> StreamObjects]
  BY DEF Typed
<1>2. CASE \/ \E t : TooEarly(t)
           \/ processPing \/ processFatal \/ processStreamError \/ processIgnored
           \/ processPriority \/ processGoAway \/ processEOF \/ processResetStream
           \/ processSettingsAck \/ receiveSettings \/ SettingsDone \/ processSetting \/ readMore
  <2>1. st' = st
    BY <1>2 DEF TooEarly, processPing, processFatal, processStreamError, processIgnored, Answer,
         processPriority, processGoAway, processEOF, processResetStream, processSettingsAck,
         receiveSettings, SettingsDone, processSetting, readMore
  <2>2. \/ sc' = sc \/ processSettingsAck \/ receiveSettings \/ SettingsDone \/ processSetting
    BY <1>2 DEF TooEarly, processPing, processFatal, processStreamError, processIgnored, Answer,
         processPriority, processGoAway, processEOF, processResetStream, readMore
  <2>3. CASE processSettingsAck \/ receiveSettings
    <3>1. sc'.inflow = sc.inflow
      BY <1>1, <2>3 DEF processSettingsAck, receiveSettings, Sessions
    <3> QED BY <2>1, <3>1, HeldAlone DEF BytesSame
  <2>4. CASE SettingsDone
    <3>1. PICK s : s = [sc EXCEPT !.needToSendSettingsAck = TRUE]
      OBVIOUS
    <3>2. s \in Sessions /\ s.inflow = sc.inflow /\ ScheduleFrameWrite(s, Tail(pend))
      BY <1>1, <2>4, <3>1 DEF SettingsDone, Sessions
    <3> QED BY <2>1, <3>2, ScheduleInflow, HeldAlone DEF BytesSame
  <2>5. CASE processSetting
    <3>1. \/ sc' = sc \/ sc' = [sc EXCEPT !.peerMaxStreams = Head(Top.set).v]
          \/ sc' = [sc EXCEPT !.maxFrameSize = Head(Top.set).v]
      BY <2>5 DEF processSetting
    <3>2. sc'.inflow = sc.inflow
      BY <1>1, <3>1 DEF Sessions
    <3> QED BY <2>1, <3>2, HeldAlone DEF BytesSame
  <2> QED BY <2>1, <2>2, <2>3, <2>4, <2>5, HeldAlone DEF BytesSame
<1>3. CASE processWindowUpdate
  <2>1. frame.id \in Ids \union {0} /\ frame.n \in Nat
    BY <1>3, ReceiveTyped DEF processWindowUpdate, Handled
  <2>2. sc'.inflow = sc.inflow
    <3>1. CASE ThenSchedule(sc)
      BY <1>1, <3>1, ScheduleInflow DEF ThenSchedule
    <3>2. ASSUME NEW a, NEW b, ThenSchedule([sc EXCEPT !.flow = a, !.connInc = b])
          PROVE  sc'.inflow = sc.inflow
      BY <1>1, <3>2 DEF ThenSchedule, ScheduleFrameWrite, Sessions
    <3>3. \/ sc' = sc \/ ThenSchedule(sc)
          \/ ThenSchedule([sc EXCEPT !.flow = added(sc.flow, frame.n),
                                     !.connInc = sc.connInc + frame.n])
      BY <1>3, Zenon DEF processWindowUpdate
    <3> QED BY <3>1, <3>2, <3>3
  <2>3. \/ st' = st
        \/ /\ frame.id # 0
           /\ \E a, b : st' = [st EXCEPT ![frame.id] = [st[frame.id] EXCEPT !.flow = a, !.inc = b]]
    BY <1>3, Zenon DEF processWindowUpdate
  <2>4. CASE st' # st
    <3>1. PICK a, b : st' = [st EXCEPT ![frame.id] = [st[frame.id] EXCEPT !.flow = a, !.inc = b]]
      BY <2>3, <2>4
    <3>2. PICK r : r = [st[frame.id] EXCEPT !.flow = a, !.inc = b]
      OBVIOUS
    <3> QED BY <1>1, <2>1, <2>2, <2>3, <2>4, <3>1, <3>2, OneHeld, BytesFields DEF BytesSame
  <2> QED BY <2>2, <2>4, HeldAlone DEF BytesSame
<1>4. CASE processSettingInitialWindowSize
  <2>1. \E v, b : sc' = [sc EXCEPT !.initialStreamSendWindowSize = v, !.misgrown = b]
    BY <1>4 DEF processSettingInitialWindowSize
  <2>2. sc'.inflow = sc.inflow
    BY <1>1, <2>1 DEF Sessions
  <2>3. PICK d : d = Head(Top.set).v - sc.initialStreamSendWindowSize
    OBVIOUS
  <2>4. PICK grown : st' = [id \in Ids |-> IF id \in grown
                                            THEN [st[id] EXCEPT !.flow = added(@, d)]
                                            ELSE st[id]]
    <3>1. \E grown :
            st' = [id \in Ids |-> IF id \in grown
                                  THEN [st[id] EXCEPT !.flow =
                                          added(@, Head(Top.set).v - sc.initialStreamSendWindowSize)]
                                  ELSE st[id]]
      BY <1>4, Zenon DEF processSettingInitialWindowSize
    <3> QED BY <2>3, <3>1
  <2>5. ASSUME NEW id \in Ids PROVE SameBytes(st'[id], st[id])
    <3>1. PICK a : a = added(st[id].flow, d)
      OBVIOUS
    <3>2. st'[id] = st[id] \/ st'[id] = [st[id] EXCEPT !.flow = a]
      BY <2>4, <3>1
    <3>3. st[id] \in StreamObjects
      BY <1>1
    <3>4. SameBytes([st[id] EXCEPT !.flow = a], st[id])
      BY <3>3, BytesFields
    <3> QED BY <3>2, <3>4 DEF SameBytes
  <2> QED BY <2>2, <2>5 DEF BytesSame, SameHeld
<1>5. CASE endStream
  <2>1. sc' = sc /\ Top.id \in Ids
    BY <1>5, TopTyped DEF endStream, Running, Top, Stackable, Known
  <2>2. PICK b, x : /\ b = ~InMap(Top.id)
                    /\ x = IF InMap(Top.id) THEN "halfClosedRemote" ELSE st[Top.id].state
    OBVIOUS
  <2>3. PICK r : r = [st[Top.id] EXCEPT !.bodyErr = TRUE, !.stale = b, !.state = x]
    OBVIOUS
  <2>4. st' = [st EXCEPT ![Top.id] = r]
    BY <1>5, <2>2, <2>3 DEF endStream
  <2>5. st[Top.id] \in StreamObjects
    BY <1>1, <2>1
  <2>6. SameBytes(r, st[Top.id])
    BY <2>3, <2>5, BytesFields
  <2> QED BY <1>1, <2>1, <2>4, <2>6, OneHeld DEF BytesSame
<1>6. CASE processHeaders
  <2>1. frame.id \in Ids
    BY <1>6, FrameIdTyped DEF processHeaders, Handled, Receive, frame
  <2>2. (sc' = sc /\ st' = st) \/ HeadersOnStream
    BY <1>6 DEF processHeaders
  <2>3. CASE HeadersOnStream
    <3>1. PICK id : id = frame.id
      OBVIOUS
    <3>2. PICK r, s : /\ r = [st[id] EXCEPT !.replied = TRUE, !.ready = TRUE]
                      /\ s = [st[id] EXCEPT !.gotTrailerHeader = TRUE]
      OBVIOUS
    <3>3. sc' = sc /\ (st' = st \/ st' = [st EXCEPT ![id] = r] \/ st' = [st EXCEPT ![id] = s])
      BY <2>3, <3>1, <3>2 DEF HeadersOnStream
    <3>4. st[id] \in StreamObjects
      BY <1>1, <2>1, <3>1
    <3>5. SameBytes(r, st[id]) /\ SameBytes(s, st[id])
      BY <3>2, <3>4, BytesFields
    <3> QED BY <1>1, <2>1, <3>1, <3>3, <3>5, HeldAlone, OneHeld DEF BytesSame
  <2> QED BY <2>2, <2>3, HeldAlone DEF BytesSame
<1> QED BY <1>2, <1>3, <1>4, <1>5, <1>6 DEF ReadStep

LEMMA ServeBytes ==
    ASSUME Typed, ServeStep \/ onShutdownTimer, ~createStream
    PROVE  BytesSame
<1>1. sc \in Sessions /\ st \in [Ids -> StreamObjects]
  BY DEF Typed
<1>2. \/ sc' = sc \/ sc' = [sc EXCEPT !.unackedSettings = @ + 1]
      \/ sc' = [sc EXCEPT !.shutdownTimer = "armed"]
      \/ sc' = [sc EXCEPT !.shutdownTimer = "fired"]
  BY DEF ServeStep, handshake, startReader, SelectWant, SelectWrote, SelectShutdown, SelectTimer,
         refuse, handOver, iter, exit, closeAllStreamsOnConnClose, onShutdownTimer
<1>3. sc'.inflow = sc.inflow
  BY <1>1, <1>2 DEF Sessions
<1>4. st' = st \/ handOver
  BY DEF ServeStep, handshake, startReader, SelectWant, SelectWrote, SelectShutdown, SelectTimer,
         refuse, iter, exit, closeAllStreamsOnConnClose, onShutdownTimer
<1>5. CASE handOver
  <2>1. Top.id \in Ids
    BY <1>5, TopTyped DEF handOver, Running, Top, Stackable, Known
  <2>2. PICK r : r = [st[Top.id] EXCEPT !.held = TRUE]
    OBVIOUS
  <2>3. st' = [st EXCEPT ![Top.id] = r]
    BY <1>5, <2>2 DEF handOver
  <2> QED BY <1>1, <1>3, <2>1, <2>2, <2>3, OneHeld, BytesFields DEF BytesSame
<1> QED BY <1>3, <1>4, <1>5, HeldAlone DEF BytesSame

LEMMA AppBytes ==
    ASSUME Typed, AppStep, ~\E id \in Ids : Read(id)
    PROVE  BytesSame
<1>1. st \in [Ids -> StreamObjects]
  BY DEF Typed
<1>2. sc' = sc
  BY AppFrame
<1>3. ASSUME NEW i \in Ids, NEW r, st' = [st EXCEPT ![i] = r], SameBytes(r, st[i]) PROVE BytesSame
  BY <1>1, <1>2, <1>3, OneHeld DEF BytesSame
<1>4. CASE st' = st
  BY <1>2, <1>4, HeldAlone DEF BytesSame
<1>5. ASSUME NEW c \in Calls, ReplyReady(c), st' # st PROVE BytesSame
  <2>1. call[c].id \in Ids
    BY <1>5 DEF ReplyReady, Known, Typed, CallsOK
  <2>2. PICK r : r = [st[call[c].id] EXCEPT !.replied = TRUE, !.ready = TRUE]
    OBVIOUS
  <2>3. st' = [st EXCEPT ![call[c].id] = r]
    BY <1>5, <2>2 DEF ReplyReady
  <2> QED BY <1>1, <1>3, <2>1, <2>2, <2>3, BytesFields
<1>6. ASSUME NEW c \in Calls, NEW i \in Ids, ResetWithError(c, i), st' # st PROVE BytesSame
  <2>1. PICK r : r = [st[i] EXCEPT !.replied = TRUE]
    OBVIOUS
  <2>2. st' = [st EXCEPT ![i] = r]
    BY <1>6, <2>1 DEF ResetWithError
  <2> QED BY <1>1, <1>3, <2>1, <2>2, BytesFields
<1>7. \/ st' = st \/ (\E c \in Calls : ReplyReady(c))
      \/ \E c \in Calls : \E i \in Ids : ResetWithError(c, i)
  <2>1. ASSUME NEW c \in Calls,
               \/ OpenStream(c) \/ OpenStreamRefused(c) \/ Send(c)
               \/ WriteReturns(c) \/ WaitForReplyReturns(c) \/ Close(c) \/ CloseTimeout(c)
               \/ Disconnected(c)
        PROVE  st' = st
    BY <2>1 DEF OpenStream, OpenStreamRefused, Send, WriteReturns, WaitForReplyReturns,
           Close, CloseTimeout, Disconnected
  <2>2. ASSUME NEW c \in Calls, NEW i \in Ids, WriteData(c, i) \/ Reply(c, i) \/ WaitForReply(c, i)
        PROVE  st' = st
    BY <2>2 DEF WriteData, Reply, WaitForReply
  <2> QED BY <2>1, <2>2 DEF AppStep
<1> QED BY <1>4, <1>5, <1>6, <1>7

LEMMA BytesKept == ASSUME Typed, Discipline, [Next]_vars, ~Moves PROVE BytesSame
<1>1. CASE \/ (\E f \in PeerFrames : ReadFrame(f)) \/ ReadError \/ ReaderStops
           \/ Over \/ UNCHANGED vars
  <2>1. sc' = sc /\ st' = st
    BY <1>1 DEF ReadFrame, ReadError, ReaderStops, Over, vars
  <2> QED BY <2>1, HeldAlone DEF BytesSame
<1> QED BY <1>1, WriteBytes, ReadBytes, ServeBytes, AppBytes DEF Next, Moves

-------------------------------------------------------------------------------
(* What the other steps do to the shares.                                   *)

(* Only serve's return sets doneServing.                                   *)
LEMMA ServingKept ==
    ASSUME Typed, [Next]_vars PROVE exit \/ life'.doneServing = life.doneServing
<1>0. life \in Lives
  BY DEF Typed
<1>1. CASE WriteStep \/ writeFrameAsync
  <2>1. life' = life \/ \E op, code : goAway(op, code)
    BY <1>1 DEF WriteStep, writeFrame, sendWindowUpdate, LoopGoAway, LoopSettingsAck, LoopFlush,
       LoopExit, LoopPop, markReset, wroteFrame, reply, closeStream, closeRest, writeFrameAsync, Panic
  <2> QED BY <1>0, <2>1 DEF goAway, Lives
<1>2. CASE ReadStep
  BY <1>2 DEF ReadStep, readMore, TooEarly, Answer, processPing, processFatal, processStreamError,
     processIgnored, processPriority, processGoAway, processEOF, processResetStream,
     processWindowUpdate, processSettingsAck, receiveSettings, SettingsDone, processSetting,
     processSettingInitialWindowSize, processData, endStream, processHeaders
<1>3. CASE ServeStep \/ onShutdownTimer
  BY <1>0, <1>3 DEF ServeStep, handshake, startReader, SelectWant, SelectWrote, SelectShutdown,
     SelectTimer, createStream, refuse, handOver, iter, closeAllStreamsOnConnClose, onShutdownTimer, Lives
<1>4. CASE AppStep
  <2>1. ASSUME NEW c \in Calls,
               \/ OpenStream(c) \/ OpenStreamRefused(c) \/ ReplyReady(c) \/ Send(c)
               \/ WriteReturns(c) \/ WaitForReplyReturns(c) \/ Close(c) \/ CloseTimeout(c)
               \/ Disconnected(c)
        PROVE  life'.doneServing = life.doneServing
    BY <1>0, <2>1 DEF OpenStream, OpenStreamRefused, ReplyReady, Send, WriteReturns,
           WaitForReplyReturns, Close, CloseTimeout, Disconnected, Lives
  <2>2. ASSUME NEW c \in Calls, NEW i \in Ids,
               WriteData(c, i) \/ Reply(c, i) \/ ResetWithError(c, i) \/ WaitForReply(c, i)
        PROVE  life' = life
    BY <2>2 DEF WriteData, Reply, ResetWithError, WaitForReply
  <2>3. ASSUME NEW i \in Ids, Read(i) PROVE life' = life
    BY <2>3 DEF Read
  <2> QED BY <1>4, <2>1, <2>2, <2>3 DEF AppStep
<1>5. CASE \/ (\E f \in PeerFrames : ReadFrame(f)) \/ ReadError \/ ReaderStops
           \/ Over \/ UNCHANGED vars
  BY <1>5 DEF ReadFrame, ReadError, ReaderStops, Over, vars
<1> QED BY <1>1, <1>2, <1>3, <1>4, <1>5 DEF Next

(* What is on top of the stack is what serve does next.                    *)
LEMMA TopFirst ==
    ASSUME [Next]_vars, pend' # pend, pend # <<>>
    PROVE  /\ Top.op = "exit" => exit
           /\ Top.op = "handshake" => handshake
<1>1. CASE WriteStep \/ writeFrameAsync
  <2>1. Top.op \notin {"exit", "handshake"}
    BY <1>1 DEF WriteStep, writeFrame, sendWindowUpdate, LoopGoAway, LoopSettingsAck, LoopFlush,
       LoopExit, LoopPop, markReset, wroteFrame, reply, closeStream, closeRest, writeFrameAsync,
       goAway, Running, Top
  <2> QED BY <2>1
<1>2. CASE ReadStep
  <2>1. Top.op \notin {"exit", "handshake"}
    BY <1>2 DEF ReadStep, readMore, TooEarly, processPing, processFatal, processStreamError,
     processIgnored, processPriority, processGoAway, processEOF, processResetStream,
     processWindowUpdate, processSettingsAck, receiveSettings, SettingsDone, processSetting,
     processSettingInitialWindowSize, processData, endStream, processHeaders,
     Handled, Receive, Parked, Running, Top
  <2> QED BY <2>1
<1>3. CASE ServeStep \/ onShutdownTimer
  BY <1>3 DEF ServeStep, handshake, exit, startReader, SelectWant, SelectWrote, SelectShutdown,
     SelectTimer, createStream, refuse, handOver, iter, closeAllStreamsOnConnClose, onShutdownTimer,
     SelectMsg, Parked, Running, Top
<1>4. CASE AppStep
  BY <1>4, AppFrame
<1>5. CASE \/ (\E f \in PeerFrames : ReadFrame(f)) \/ ReadError \/ ReaderStops
           \/ Over \/ UNCHANGED vars
  BY <1>5 DEF ReadFrame, ReadError, ReaderStops, Over, vars
<1> QED BY <1>1, <1>2, <1>3, <1>4, <1>5 DEF Next

-------------------------------------------------------------------------------
(* A stream that was never opened holds nothing.                           *)
IdleEmpty == \A id \in Ids : st[id].state = "idle" => st[id].body = 0 /\ st[id].read = 0

SameShares == \A id \in Ids : Share(id)' = Share(id)

(* The step leaves every share as it is, and what is idle empty.           *)
Holds == SameShares /\ IdleEmpty'

(* Only closeStream ends a stream.                                         *)
LEMMA StaysOpen ==
    ASSUME Typed, [Next]_vars, Discipline, ~closeStream
    PROVE  Steady \/ \E id \in Ids : Opened(id)
<1>1. Quiet \/ Loud
  BY QuietOrLoud
<1> QED BY <1>1, QuietSteady, LoopPopSteady, wroteFrameSteady, StreamEndSteady, CreditSteady,
           HeadersOpen, createStreamOpens DEF Loud

LEMMA BytesHold ==
    ASSUME Typed, Discipline, IdleEmpty, [Next]_vars, ~closeStream, SameHeld
    PROVE  Holds
<1>1. Steady \/ \E id \in Ids : Opened(id)
  BY StaysOpen
<1>2. ASSUME NEW id \in Ids
      PROVE  /\ Share(id)' = Share(id)
             /\ st'[id].state = "idle" => st'[id].body = 0 /\ st'[id].read = 0
  <2>1. SameBytes(st'[id], st[id])
    BY DEF SameHeld
  <2>2. CASE st'[id].state = st[id].state
    BY <2>1, <2>2 DEF SameBytes, Share, InMap, IdleEmpty
  <2>3. CASE InMap(id) /\ st'[id].state \in Live
    BY <2>1, <2>3 DEF SameBytes, Share, InMap, IdleEmpty, Live
  <2>4. CASE Opened(id)
    <3>1. st[id].body = 0 /\ st[id].read = 0 /\ st[id].state = "idle" /\ st'[id].state \in Live
      BY <2>4 DEF Opened, IdleEmpty, Live
    <3> QED BY <2>1, <3>1 DEF SameBytes, Share, InMap, Live
  <2> QED BY <1>1, <2>2, <2>3, <2>4 DEF Steady, HalfDone, Opened, Change
<1> QED BY <1>2 DEF Holds, SameShares, IdleEmpty

LEMMA NewStreamEmpty ==
    ASSUME NEW state, NEW held
    PROVE  /\ NewStream(state, held).body = 0 /\ NewStream(state, held).read = 0
           /\ NewStream(state, held).inflow = InitialStreamWindow
           /\ NewStream(state, held).state = state
BY DEF NewStream, NoStream

(* What a new stream takes.                                                *)
Creates ==
    /\ sc'.inflow = sc.inflow
    /\ \/ st' = st
       \/ \E id \in Ids, state \in Live, held \in BOOLEAN :
            st[id].state = "idle" /\ st' = [st EXCEPT ![id] = NewStream(state, held)]

LEMMA CountedInflow ==
    ASSUME NEW id \in Ids
    PROVE  /\ Counted(SetMaxStreamID(sc, id), id).inflow = sc.inflow
           /\ SetMaxStreamID(sc, id).inflow = sc.inflow
<1>1. PICK s : s = SetMaxStreamID(sc, id)
  OBVIOUS
<1>2. s.inflow = sc.inflow
  BY <1>1 DEF SetMaxStreamID
<1>3. PICK a, b : a = s.curPushedStreams + 1 /\ b = s.curClientStreams + 1
  OBVIOUS
<1>4. Counted(s, id).inflow = s.inflow
  BY <1>3 DEF Counted
<1> QED BY <1>1, <1>2, <1>4

LEMMA createStreamCreates == ASSUME Typed, createStream PROVE Creates
<1>1. CASE curLocalStreams + 1 > sc.peerMaxStreams \/ LastLocalID + 2 >= StreamIDLimit
  BY <1>1 DEF createStream, Creates
<1>2. CASE ~(curLocalStreams + 1 > sc.peerMaxStreams \/ LastLocalID + 2 >= StreamIDLimit)
  <2>1. sc \in Sessions
    BY DEF Typed
  <2>2. LastLocalID \in Nat /\ StreamIDLimit \in Nat
    BY <2>1, MaxStreamIDNat, SessionAssumption DEF LastLocalID
  <2>3. LastLocalID + 2 < StreamIDLimit
    BY <1>2, <2>2
  <2>4. NextLocalID \in Ids /\ NextLocalID > MaxStreamID(NextLocalID)
    BY <2>1, <2>3, NextLocalIDFresh
  <2>5. PICK id \in Ids : id = NextLocalID
    BY <2>4
  <2>6. PICK state : state = IF Script[Head(msgs).c].end THEN "halfClosedRemote" ELSE "open"
    OBVIOUS
  <2>7. /\ sc' = Counted(SetMaxStreamID(sc, id), id)
        /\ st' = [st EXCEPT ![id] = NewStream(state, FALSE)]
    BY <1>2, <2>5, <2>6 DEF createStream
  <2>8. st[id].state = "idle"
    <3>1. id \in Nat /\ MaxStreamID(id) \in Nat
      BY <2>1, MaxStreamIDNat DEF Ids, MaxStreamID
    <3>2. id \notin Known
      BY <2>4, <2>5, <3>1 DEF Typed, StreamsOK
    <3> QED BY <3>2 DEF Known
  <2>9. state \in Live
    BY <2>6 DEF Live
  <2>10. sc'.inflow = sc.inflow
    BY <2>7, CountedInflow
  <2> QED BY <2>7, <2>8, <2>9, <2>10 DEF Creates
<1> QED BY <1>1, <1>2

LEMMA HeadersCreate == ASSUME Typed, processHeaders, HeadersOpenStream PROVE Creates
<1>1. PICK id \in Ids : id = frame.id
  BY FrameIdTyped DEF processHeaders, Handled
<1>2. CASE Local(id) \/ id <= MaxStreamID(id)
  BY <1>1, <1>2 DEF HeadersOpenStream, Creates
<1>3. CASE ~(Local(id) \/ id <= MaxStreamID(id)) /\ ~HasHandler
  <2>1. sc' = SetMaxStreamID(sc, id) /\ st' = st
    BY <1>1, <1>3 DEF HeadersOpenStream
  <2>2. sc'.inflow = sc.inflow
    BY <2>1, CountedInflow
  <2> QED BY <2>1, <2>2 DEF Creates
<1>4. CASE ~(Local(id) \/ id <= MaxStreamID(id)) /\ HasHandler
  <2>1. PICK state, held : /\ state = IF frame.end THEN "halfClosedRemote" ELSE "open"
                           /\ held = (frame.x # "selfDep")
    OBVIOUS
  <2>2. /\ sc' = Counted(SetMaxStreamID(sc, id), id)
        /\ st' = [st EXCEPT ![id] = NewStream(state, held)]
    BY <1>1, <1>4, <2>1 DEF HeadersOpenStream
  <2>3. id \notin Known
    <3>1. id \in Nat /\ MaxStreamID(id) \in Nat
      BY MaxStreamIDNat DEF Ids, MaxStreamID, Typed
    <3> QED BY <1>4, <3>1 DEF Typed, StreamsOK
  <2>4. state \in Live /\ held \in BOOLEAN /\ st[id].state = "idle"
    BY <2>1, <2>3 DEF Live, Known
  <2>5. sc'.inflow = sc.inflow
    BY <2>2, CountedInflow
  <2> QED BY <2>2, <2>4, <2>5 DEF Creates
<1> QED BY <1>2, <1>3, <1>4

LEMMA CreatesHold == ASSUME Typed, IdleEmpty, Creates PROVE Holds
<1>1. st \in [Ids -> StreamObjects]
  BY DEF Typed
<1>2. CASE st' = st
  BY <1>2 DEF Holds, SameShares, IdleEmpty, Share, InMap
<1>3. ASSUME NEW id \in Ids, NEW state \in Live, NEW held,
             st[id].state = "idle", st' = [st EXCEPT ![id] = NewStream(state, held)]
      PROVE  Holds
  <2>1. PICK r : r = NewStream(state, held)
    OBVIOUS
  <2>2. r.body = 0 /\ r.read = 0 /\ r.state = state
    BY <2>1, NewStreamEmpty
  <2>3. st'[id] = r /\ \A i \in Ids : i # id => st'[i] = st[i]
    BY <1>1, <1>3, <2>1
  <2>4. ASSUME NEW i \in Ids
        PROVE  Share(i)' = Share(i) /\ (st'[i].state = "idle" => st'[i].body = 0 /\ st'[i].read = 0)
    <3>1. CASE i = id
      <4>1. Share(i) = 0
        BY <1>3, <3>1 DEF Share, IdleEmpty, InMap, Live
      <4>2. Share(i)' = 0
        BY <2>2, <2>3, <3>1 DEF Share, InMap
      <4> QED BY <2>2, <2>3, <3>1, <4>1, <4>2
    <3>2. CASE i # id
      BY <2>3, <3>2 DEF Share, InMap, IdleEmpty
    <3> QED BY <3>1, <3>2
  <2> QED BY <2>4 DEF Holds, SameShares, IdleEmpty
<1> QED BY <1>2, <1>3 DEF Creates

LEMMA ReadHolds == ASSUME Typed, IdleEmpty, NEW id \in Ids, Read(id) PROVE Holds
<1>1. st \in [Ids -> StreamObjects]
  BY DEF Typed
<1>2. PICK c : c = IF InMap(id) THEN st[id].body ELSE 0
  OBVIOUS
<1>3. PICK a : a = st[id].read + c
  OBVIOUS
<1>4. st' = [st EXCEPT ![id] = [st[id] EXCEPT !.body = 0, !.read = a]] /\ st[id].body > 0
  BY <1>2, <1>3 DEF Read
<1>5. PICK r : r = [st[id] EXCEPT !.body = 0, !.read = a]
  OBVIOUS
<1>6. st[id] \in StreamObjects /\ st'[id] = r /\ \A i \in Ids : i # id => st'[i] = st[i]
  BY <1>1, <1>4, <1>5
<1>7. r.body = 0 /\ r.read = a /\ r.state = st[id].state
  BY <1>5, <1>6 DEF StreamObjects
<1>8. a \in Nat
  BY <1>2, <1>3, <1>6 DEF StreamObjects
<1>9. Share(id)' = Share(id)
  BY <1>2, <1>3, <1>6, <1>7, <1>8 DEF Share, InMap
<1>10. st[id].state # "idle"
  BY <1>4 DEF IdleEmpty
<1> QED BY <1>6, <1>7, <1>9, <1>10 DEF Holds, SameShares, IdleEmpty, Share, InMap

LEMMA OthersHold ==
    ASSUME Typed, Discipline, IdleEmpty, [Next]_vars,
           ~closeStream, ~processData, ~sendWindowUpdate
    PROVE  Holds /\ sc'.inflow = sc.inflow
<1>1. CASE ~Moves
  BY <1>1, BytesKept, BytesHold DEF BytesSame
<1>2. CASE createStream \/ (processHeaders /\ HeadersOpenStream)
  BY <1>2, createStreamCreates, HeadersCreate, CreatesHold DEF Creates
<1>3. ASSUME NEW id \in Ids, Read(id) PROVE Holds /\ sc'.inflow = sc.inflow
  BY <1>3, ReadHolds DEF Read, AppUnchanged
<1> QED BY <1>1, <1>2, <1>3 DEF Moves

-------------------------------------------------------------------------------
(* sendWindowUpdate and processData.                                        *)

(* What sendWindowUpdate does: nothing, or it credits one window.          *)
Credits ==
    \/ /\ ~addOK(IF Top.id = 0 THEN sc.inflow ELSE st[Top.id].inflow, Top.n)
       /\ sc' = sc /\ st' = st /\ pend' = pend
    \/ /\ panic' = panic
       /\ \E c : Free(c) /\ pend' = c \o Rest
       /\ \/ Top.n = 0 /\ sc' = sc /\ st' = st
          \/ /\ Top.id = 0 /\ addOK(sc.inflow, Top.n)
             /\ sc'.inflow = added(sc.inflow, Top.n) /\ st' = st
          \/ /\ Top.id \in Ids /\ addOK(st[Top.id].inflow, Top.n)
             /\ sc'.inflow = sc.inflow
             /\ st' = [st EXCEPT ![Top.id] = [st[Top.id] EXCEPT !.inflow = added(st[Top.id].inflow, Top.n)]]

LEMMA sendWindowUpdateCredits ==
    ASSUME Typed, sendWindowUpdate
    PROVE  Credits /\ pend # <<>> /\ Top.op = "sendWindowUpdate" /\ Top.n \in Nat
           /\ Top.id \in Ids \union {0} /\ Rest = Tail(pend)
<1>1. Running("sendWindowUpdate")
  BY DEF sendWindowUpdate
<1>2. pend # <<>> /\ Top.op = "sendWindowUpdate" /\ Rest = Tail(pend)
  BY <1>1, RunningTop, RunningRest
<1>3. Top.n \in Nat /\ Top.id \in Ids \union {0} /\ sc \in Sessions
  BY <1>2, TopTyped DEF Stackable, Pending, Known, Typed
<1>4. PICK id, n, w : id = Top.id /\ n = Top.n /\ w = IF id = 0 THEN sc.inflow ELSE st[id].inflow
  OBVIOUS
<1>5. CASE n = 0
  <2>1. pend' = Tail(pend) /\ sc' = sc /\ st' = st /\ panic' = panic
    BY <1>4, <1>5 DEF sendWindowUpdate
  <2>2. pend' = <<>> \o Rest
    BY <1>2, <2>1, RestWhole
  <2> QED BY <1>2, <1>3, <1>4, <1>5, <2>1, <2>2, FreeNone DEF Credits
<1>6. CASE n # 0 /\ ~addOK(w, n)
  <2>1. sc' = sc /\ st' = st /\ pend' = pend
    BY <1>4, <1>6 DEF sendWindowUpdate
  <2> QED BY <1>2, <1>3, <1>4, <1>6, <2>1 DEF Credits
<1>7. CASE n # 0 /\ addOK(w, n)
  <2>1. PICK a : a = added(w, n)
    OBVIOUS
  <2>2. PICK s : s = IF id = 0 THEN [sc EXCEPT !.inflow = a] ELSE sc
    OBVIOUS
  <2>3. PICK r : r = [st[id] EXCEPT !.inflow = a]
    OBVIOUS
  <2>4. /\ st' = IF id = 0 THEN st ELSE [st EXCEPT ![id].inflow = added(@, n)]
        /\ ScheduleFrameWrite(IF id = 0 THEN [sc EXCEPT !.inflow = added(@, n)] ELSE sc, Tail(pend))
        /\ panic' = panic
    BY <1>4, <1>7, Zenon DEF sendWindowUpdate
  <2>5. ScheduleFrameWrite(s, Tail(pend))
    BY <1>4, <2>1, <2>2, <2>4
  <2>6. st' = IF id = 0 THEN st ELSE [st EXCEPT ![id] = r]
    BY <1>4, <2>1, <2>3, <2>4
  <2>7. s \in Sessions /\ s.inflow = IF id = 0 THEN a ELSE sc.inflow
    <3>1. a \in Int
      <4>1. w \in Int /\ n \in Int
        BY <1>3, <1>4 DEF Typed, Sessions, StreamObjects
      <4> QED BY <2>1, <4>1, AddedInt, Zenon
    <3> QED BY <1>3, <2>2, <3>1 DEF Sessions
  <2>8. sc'.inflow = IF id = 0 THEN a ELSE sc.inflow
    BY <2>5, <2>7, ScheduleInflow
  <2>9. \E c : Free(c) /\ pend' = c \o Rest
    <3>1. PICK p : p = Op("loop", 0, 0)
      OBVIOUS
    <3>2. pend' = Rest \/ pend' = <<p>> \o Rest
      BY <1>2, <2>5, <3>1 DEF ScheduleFrameWrite
    <3>3. Free(<<p>>)
      BY <3>1, OpFields, FreeOne DEF PlainOp
    <3> QED BY <3>2, <3>3, RestWhole, FreeNone
  <2>10. CASE id = 0
    BY <1>2, <1>3, <1>4, <1>7, <2>1, <2>4, <2>6, <2>8, <2>9, <2>10 DEF Credits
  <2>11. CASE id # 0
    BY <1>2, <1>3, <1>4, <1>7, <2>1, <2>3, <2>4, <2>6, <2>8, <2>9, <2>11 DEF Credits
  <2> QED BY <2>10, <2>11
<1> QED BY <1>5, <1>6, <1>7

-------------------------------------------------------------------------------
(* What processData does: nothing to the windows, a discarded frame is     *)
(* charged and given back, or it is accepted.                              *)
Ignored == sc' = sc /\ st' = st /\ \E c : Free(c) /\ pend' = c

Discarded ==
    \E length \in Nat : \E c :
        /\ length <= sc.inflow /\ sc'.inflow = sc.inflow - length /\ st' = st
        /\ Free(c) /\ pend' = <<Op("sendWindowUpdate", 0, length)>> \o c

Charges(id, n, pad, c) ==
        /\ InMap(id) /\ n + pad <= sc.inflow /\ n + pad <= st[id].inflow
        /\ sc'.inflow = sc.inflow - (n + pad)
        /\ st' = [st EXCEPT ![id] = [st[id] EXCEPT !.inflow = st[id].inflow - (n + pad),
                                                  !.body = st[id].body + n]]
        /\ Free(c) /\ pend' = RefundPadding(id, pad) \o c

Accepted == \E id \in Ids, n \in Nat, pad \in Nat : \E c : Charges(id, n, pad, c)

Afterwards == <<Op("readMore", 0, 0), Op("iter", 0, 0)>>

LEMMA AfterwardsFree == Free(Afterwards)
<1>1. PICK p, r : p = Op("readMore", 0, 0) /\ r = Op("iter", 0, 0)
  OBVIOUS
<1> QED BY <1>1, OpFields, FreeTwo DEF PlainOp, Afterwards

LEMMA FreeThen == ASSUME NEW c, Free(c), Then(c) PROVE Free(pend')
<1>1. pend' = c \o Afterwards
  BY DEF Then, Afterwards
<1> QED BY <1>1, AfterwardsFree, FreeJoined

LEMMA JoinedThen ==
    ASSUME NEW a, NEW A, a \in Seq(A), NEW c, Free(c), Then(a \o c)
    PROVE  \E d : Free(d) /\ pend' = a \o d
<1>1. pend' = (a \o c) \o Afterwards
  BY DEF Then, Afterwards
<1>2. Free(c \o Afterwards)
  BY AfterwardsFree, FreeJoined
<1>3. PICK B : c \in Seq(B)
  BY DEF Free
<1>4. PICK C : Afterwards \in Seq(C)
  BY AfterwardsFree DEF Free
<1>5. (a \o c) \o Afterwards = a \o (c \o Afterwards)
  <2>1. PICK D : D = A \union B \union C
    OBVIOUS
  <2>2. a \in Seq(D) /\ c \in Seq(D) /\ Afterwards \in Seq(D)
    BY <1>3, <1>4, <2>1
  <2> QED BY <2>2
<1> QED BY <1>1, <1>2, <1>5

LEMMA DataMoves ==
    ASSUME Typed, processData
    PROVE  pend = <<>> /\ (Ignored \/ Discarded \/ Accepted)
<1>1. Receive("data") /\ pend = <<>>
  BY DEF processData, Handled, Receive, Parked
<1>2. PICK id, n, pad, length :
        id = frame.id /\ n = frame.n /\ pad = frame.pad /\ length = frame.n + frame.pad
  OBVIOUS
<1>3. id \in Ids \union {0} /\ n \in Nat /\ pad \in Nat /\ length \in Nat /\ length = n + pad
  BY <1>1, <1>2, ReceiveTyped
<1>4. sc \in Sessions /\ sc.inflow \in Int /\ st \in [Ids -> StreamObjects]
  BY DEF Typed, Sessions
<1>5. ASSUME sc' = sc, st' = st, NEW c, Free(c), Then(c) PROVE Ignored
  BY <1>5, FreeThen DEF Ignored
<1>6. CASE DiscardData
  <2>1. CASE sc.inflow < length
    <3>1. sc' = sc /\ st' = st /\ Then(resetStream(id))
      BY <1>2, <1>6, <2>1 DEF DiscardData
    <3> QED BY <1>1, <1>5, <3>1, FreeCalls
  <2>2. CASE ~(sc.inflow < length)
    <3>1. PICK a : a = sc.inflow - length
      OBVIOUS
    <3>2. PICK c : c = IF InMap(id) /\ st[id].resetQueued THEN <<>> ELSE resetStream(id)
      OBVIOUS
    <3>3. PICK p : p = Op("sendWindowUpdate", 0, length)
      OBVIOUS
    <3>4. sc' = [sc EXCEPT !.inflow = a] /\ st' = st /\ Then(<<p>> \o c)
      BY <1>2, <1>6, <2>2, <3>1, <3>2, <3>3 DEF DiscardData
    <3>5. sc'.inflow = a
      BY <1>4, <3>4 DEF Sessions
    <3>6. Free(c)
      BY <3>2, FreeCalls, FreeNone
    <3>7. PICK d : Free(d) /\ pend' = <<p>> \o d
      <4>1. PICK u : u = <<p>>
        OBVIOUS
      <4>2. u \in Seq({p})
        BY <4>1
      <4>3. \E d : Free(d) /\ pend' = u \o d
        BY <3>4, <3>6, <4>1, <4>2, JoinedThen
      <4> QED BY <4>1, <4>3
    <3>8. length <= sc.inflow
      BY <1>3, <1>4, <2>2
    <3> QED BY <1>1, <1>3, <3>1, <3>3, <3>4, <3>5, <3>7, <3>8 DEF Discarded
  <2> QED BY <2>1, <2>2
<1>7. CASE AcceptData
  <2>1. id \in Ids /\ InMap(id)
    BY <1>2, <1>3, <1>7 DEF AcceptData
  <2>2. PICK v : v = available(st[id].inflow, sc.inflow)
    OBVIOUS
  <2>3. st[id].inflow \in Int
    BY <1>4, <2>1 DEF StreamObjects
  <2>4. CASE v < length
    <3>1. sc' = sc /\ st' = st /\ Then(resetStream(id))
      BY <1>2, <1>7, <2>2, <2>4 DEF AcceptData
    <3> QED BY <1>1, <1>5, <3>1, FreeCalls
  <2>5. CASE ~(v < length)
    <3>1. length <= sc.inflow /\ length <= st[id].inflow
      BY <1>3, <1>4, <2>2, <2>3, <2>5 DEF available
    <3>2. PICK a, b, e : a = sc.inflow - length /\ b = st[id].inflow - length /\ e = st[id].body + n
      OBVIOUS
    <3>3. PICK c : c = IF frame.end THEN <<Op("endStream", id, 0)>> ELSE <<>>
      OBVIOUS
    <3>4. PICK u : u = RefundPadding(id, pad)
      OBVIOUS
    <3>5. /\ sc' = [sc EXCEPT !.inflow = a]
          /\ st' = [st EXCEPT ![id] = [@ EXCEPT !.inflow = b, !.body = e]]
          /\ Then(u \o c)
      BY <1>2, <1>7, <2>2, <2>5, <3>2, <3>3, <3>4 DEF AcceptData
    <3>6. sc'.inflow = a
      BY <1>4, <3>5 DEF Sessions
    <3>7. Free(c)
      <4>1. Free(<<Op("endStream", id, 0)>>)
        BY FreeCalls DEF PlainOp
      <4> QED BY <3>3, <4>1, FreeNone
    <3>8. PICK d : Free(d) /\ pend' = u \o d
      <4>1. PICK p, r : p = Op("sendWindowUpdate", 0, pad) /\ r = Op("sendWindowUpdate", id, pad)
        OBVIOUS
      <4>2. u = <<>> \/ u = <<p, r>>
        BY <3>4, <4>1 DEF RefundPadding
      <4>3. u \in Seq({p, r})
        <5>1. CASE u = <<>>
          BY <5>1
        <5>2. CASE u = <<p, r>>
          BY <5>2
        <5> QED BY <4>2, <5>1, <5>2
      <4> QED BY <3>5, <3>7, <4>3, JoinedThen
    <3>9. st' = [st EXCEPT ![id] = [st[id] EXCEPT !.inflow = b, !.body = e]]
      BY <3>5
    <3> QED BY <1>1, <1>3, <2>1, <3>1, <3>2, <3>4, <3>6, <3>8, <3>9 DEF Accepted, Charges
  <2> QED BY <2>4, <2>5
<1>8. CASE ~DiscardData /\ ~AcceptData
  <2>1. sc' = sc /\ st' = st /\ (Then(<<>>) \/ Then(ConnError))
    BY <1>8 DEF processData, RefuseData
  <2> QED BY <1>1, <1>5, <2>1, FreeCalls, FreeNone
<1> QED BY <1>6, <1>7, <1>8

-------------------------------------------------------------------------------
(* How a step moves credit.                                                 *)

(* The connection's window, and what the streams hold of it.               *)
Credit == sc.inflow + AllHeld

(* What the window, the streams and the stack have together: everything,   *)
(* or all but the surplus if the handshake failed.                         *)
Balanced ==
    \/ Credit + Owing(pend) = InitialSessionWindow + Surplus
    \/ /\ Credit + Owing(pend) = InitialSessionWindow
       /\ OnTop("exit") \/ life.doneServing

Account ==
    /\ Lone(Rest)
    /\ OnTop("handshake") => sc.inflow = InitialSessionWindow /\ ~life.doneServing
    /\ IdleEmpty
    /\ sc.inflow \in 0 .. MaxInt32
    /\ Balanced

PlainCalls(c) == Plain(c) /\ \E A : c \in Seq(A)

(* How a step moves credit: not at all, from the top of the stack into the *)
(* window or the streams, or from there to a new call that gives it back.  *)
Moved ==
    \/ pend' = pend /\ Credit' = Credit
    \/ /\ \E c : PlainCalls(c) /\ pend' = c \o Rest
       /\ Credit' = Credit + NowDue
    \/ \E c, p : /\ PlainCalls(c) /\ ConnRefund(p) /\ p.n \in Nat
                 /\ pend' = <<p>> \o (c \o Rest)
                 /\ Credit' + p.n = Credit + NowDue

LEMMA OnePlusOne == ASSUME NEW p, NEW r PROVE <<p, r>> = <<p>> \o <<r>>
<1>1. PICK T, u, v : T = {p, r} /\ u = <<p>> /\ v = <<p, r>>
  OBVIOUS
<1>2. u \in Seq(T) /\ r \in T
  BY <1>1
<1>3. Append(u, r) = u \o <<r>>
  BY <1>2, AppendIsConcat
<1>4. v = Append(u, r)
  <2>1. /\ v \in Seq(T) /\ Len(v) = 2 /\ v[1] = p /\ v[2] = r
    BY <1>1
  <2>2. Append(u, r) \in Seq(T) /\ Len(Append(u, r)) = 2 /\ Append(u, r)[1] = p /\ Append(u, r)[2] = r
    BY <1>1, <1>2
  <2>3. \A k \in 1 .. Len(v) : v[k] = Append(u, r)[k]
    BY <2>1, <2>2
  <2> QED BY <2>1, <2>2, <2>3, SeqEqual
<1> QED BY <1>1, <1>3, <1>4

LEMMA Regrouped ==
    ASSUME NEW p, NEW r, NEW A, NEW c \in Seq(A)
    PROVE  <<p, r>> \o c = <<p>> \o (<<r>> \o c) /\ <<r>> \in Seq({r})
<1>1. PICK T : T = A \union {p, r}
  OBVIOUS
<1>2. PICK u, v : u = <<p>> /\ v = <<r>>
  OBVIOUS
<1>3. u \in Seq(T) /\ v \in Seq(T) /\ c \in Seq(T) /\ v \in Seq({r})
  BY <1>1, <1>2
<1>4. (u \o v) \o c = u \o (v \o c)
  BY <1>3
<1> QED BY <1>2, <1>3, <1>4, OnePlusOne

LEMMA FreeIsPlain == ASSUME NEW c, Free(c) PROVE PlainCalls(c)
BY FreePlain DEF Free, PlainCalls

LEMMA CreditNat ==
    ASSUME Typed PROVE AllHeld \in Nat /\ sc.inflow \in Int /\ Credit \in Int
<1>1. sc.inflow \in Int
  BY DEF Typed, Sessions
<1> QED BY <1>1, HeldNat DEF Credit

LEMMA sendWindowUpdateMoves ==
    ASSUME Typed, Typed', IdleEmpty, sc.inflow \in 0 .. MaxInt32, sendWindowUpdate
    PROVE  Moved /\ IdleEmpty' /\ sc'.inflow \in 0 .. MaxInt32
<1>1. /\ Credits /\ pend # <<>> /\ Top.op = "sendWindowUpdate" /\ Top.n \in Nat
      /\ Top.id \in Ids \union {0}
  BY sendWindowUpdateCredits
<1>2. NowDue = IF Top.id = 0 THEN Top.n ELSE 0
  BY <1>1 DEF NowDue, Due, ConnRefund
<1>3. st \in [Ids -> StreamObjects] /\ AllHeld \in Nat /\ 0 \notin Ids
  BY HeldNat, IdsFacts DEF Typed
<1>4. CASE st' = st
  <2>1. AllHeld' = AllHeld
    BY <1>4, HeldSame DEF Share, InMap
  <2>2. IdleEmpty'
    BY <1>4 DEF IdleEmpty
  <2>3. CASE sc' = sc /\ pend' = pend
    BY <2>1, <2>2, <2>3 DEF Moved, Credit
  <2>4. ASSUME NEW c, Free(c), pend' = c \o Rest, sc'.inflow = sc.inflow + NowDue,
               sc'.inflow \in 0 .. MaxInt32
        PROVE  Moved /\ IdleEmpty' /\ sc'.inflow \in 0 .. MaxInt32
    <3>1. NowDue \in Nat
      BY <1>1, <1>2
    <3>2. Credit' = Credit + NowDue
      BY <1>3, <2>1, <2>4, <3>1 DEF Credit
    <3> QED BY <2>2, <2>4, <3>2, FreeIsPlain DEF Moved
  <2>5. CASE Top.n = 0 /\ sc' = sc
    BY <1>1, <1>2, <2>3, <2>4, <2>5 DEF Credits
  <2>6. CASE Top.id = 0 /\ addOK(sc.inflow, Top.n) /\ sc'.inflow = added(sc.inflow, Top.n)
    <3>1. sc'.inflow = sc.inflow + Top.n /\ sc'.inflow \in 0 .. MaxInt32
      BY <1>1, <2>6, MaxInt32Assumption DEF addOK, added, Wrap32, MinInt32
    <3>2. CASE \E c : Free(c) /\ pend' = c \o Rest
      BY <1>2, <2>4, <2>6, <3>1, <3>2
    <3>3. CASE ~(\E c : Free(c) /\ pend' = c \o Rest)
      BY <1>1, <2>3, <3>3 DEF Credits
    <3> QED BY <3>2, <3>3
  <2>7. CASE Top.id \in Ids /\ sc'.inflow = sc.inflow
    <3>1. NowDue = 0 /\ sc.inflow \in Int
      BY <1>2, <1>3, <2>7, MaxInt32Assumption
    <3>2. sc'.inflow = sc.inflow + NowDue /\ sc'.inflow \in 0 .. MaxInt32
      BY <2>7, <3>1
    <3>3. CASE \E c : Free(c) /\ pend' = c \o Rest
      BY <2>4, <3>2, <3>3
    <3>4. CASE ~(\E c : Free(c) /\ pend' = c \o Rest)
      BY <1>1, <2>3, <3>4 DEF Credits
    <3> QED BY <3>3, <3>4
  <2> QED BY <1>1, <2>3, <2>5, <2>6, <2>7 DEF Credits
<1>5. CASE st' # st
  <2>1. PICK a : a = added(st[Top.id].inflow, Top.n)
    OBVIOUS
  <2>2. PICK r : r = [st[Top.id] EXCEPT !.inflow = a]
    OBVIOUS
  <2>3. /\ Top.id \in Ids /\ sc'.inflow = sc.inflow /\ st' = [st EXCEPT ![Top.id] = r]
        /\ \E c : Free(c) /\ pend' = c \o Rest
    BY <1>1, <1>5, <2>1, <2>2 DEF Credits
  <2>4. /\ r.state = st[Top.id].state /\ r.body = st[Top.id].body /\ r.read = st[Top.id].read
    BY <1>3, <2>2, <2>3 DEF StreamObjects
  <2>5. \A i \in Ids : /\ st'[i].state = st[i].state /\ st'[i].body = st[i].body
                       /\ st'[i].read = st[i].read
    BY <1>3, <2>3, <2>4
  <2>6. IdleEmpty' /\ AllHeld' = AllHeld
    BY <2>5, HeldSame DEF IdleEmpty, Share, InMap
  <2>7. Credit' = Credit + NowDue
    BY <1>2, <1>3, <2>3, <2>6 DEF Credit
  <2> QED BY <2>3, <2>6, <2>7, FreeIsPlain DEF Moved
<1> QED BY <1>4, <1>5

LEMMA closeStreamMoves ==
    ASSUME Typed, Typed', IdleEmpty, sc.inflow \in 0 .. MaxInt32, closeStream, Discipline
    PROVE  Moved /\ IdleEmpty' /\ sc'.inflow \in 0 .. MaxInt32
<1>1. pend # <<>> /\ Top.op = "closeStream" /\ InMap(Top.id) /\ Rest = Tail(pend) /\ NowDue = 0
  BY RunningRest DEF closeStream, Running, Discipline, OnTop, Top, PlainOp
<1>2. sc \in Sessions /\ st \in [Ids -> StreamObjects] /\ Top.id \in Ids
  BY <1>1, TopTyped DEF Typed, Stackable, Known
<1>3. CASE ClosePanic(Top.id) # "none"
  <2>1. sc' = sc /\ st' = st /\ pend' = pend
    BY <1>3 DEF closeStream, Panic
  <2>2. AllHeld' = AllHeld
    BY <2>1, HeldSame DEF Share, InMap
  <2> QED BY <2>1, <2>2 DEF Moved, Credit, IdleEmpty
<1>4. CASE ClosePanic(Top.id) = "none"
  <2>1. PICK id \in Ids : id = Top.id
    BY <1>2
  <2>2. PICK r : r = [st[id] EXCEPT !.state = "closed"]
    OBVIOUS
  <2>3. PICK p, c : p = Op("sendWindowUpdate", 0, st[id].body) /\ c = Op("closeRest", id, 0)
    OBVIOUS
  <2>4. st' = [st EXCEPT ![id] = r] /\ pend' = <<p, c>> \o Rest
    BY <1>1, <1>4, <2>1, <2>2, <2>3 DEF closeStream
  <2>5. sc'.inflow = sc.inflow
    <3>1. \/ sc' = [sc EXCEPT !.curPushedStreams = @ - 1] \/ sc' = [sc EXCEPT !.curClientStreams = @ - 1]
      BY <1>4 DEF closeStream
    <3> QED BY <1>2, <3>1 DEF Sessions
  <2>6. st[id] \in StreamObjects
    BY <1>2
  <2>7. r.state = "closed" /\ r.body = st[id].body /\ r.read = st[id].read
    BY <2>2, <2>6 DEF StreamObjects
  <2>8. st'[id] = r /\ \A i \in Ids : i # id => st'[i] = st[i]
    BY <1>2, <2>4
  <2>9. IdleEmpty'
    BY <2>7, <2>8 DEF IdleEmpty
  <2>10. st[id].body \in Nat /\ st[id].read \in Nat
    BY <2>6 DEF StreamObjects
  <2>11. Share(id)' = st[id].read /\ Share(id) = st[id].read + st[id].body
    <3>1. InMap(id) /\ st'[id].state = "closed" /\ st'[id].read = st[id].read
      BY <1>1, <2>1, <2>7, <2>8
    <3>2. Share(id) = st[id].read + st[id].body
      BY <3>1 DEF Share
    <3>3. ~(InMap(id)')
      BY <3>1 DEF InMap, Live
    <3>4. Share(id)' = st[id].read
      BY <2>10, <3>1, <3>3 DEF Share
    <3> QED BY <3>2, <3>4
  <2>12. AllHeld' = AllHeld + Share(id)' - Share(id)
    BY <2>8, HeldChange DEF Share, InMap
  <2>13. p.op = "sendWindowUpdate" /\ p.id = 0 /\ p.n = st[id].body /\ c.op = "closeRest"
    BY <2>3, OpFields
  <2>14. Credit' + p.n = Credit + NowDue
    BY <1>1, <2>5, <2>10, <2>11, <2>12, <2>13, CreditNat DEF Credit
  <2>15. PlainCalls(<<c>>)
    BY <2>13, FreeOne, FreeIsPlain DEF PlainOp
  <2>16. pend' = <<p>> \o (<<c>> \o Rest)
    <3>1. Rest \in Seq(Stackable(Known, Closed))
      BY RestTyped
    <3> QED BY <2>4, <3>1, Regrouped
  <2> QED BY <2>5, <2>9, <2>10, <2>13, <2>14, <2>15, <2>16 DEF Moved, ConnRefund
<1> QED BY <1>3, <1>4

LEMMA FreeRest == ASSUME NEW c, Free(c), pend = <<>> PROVE c \o Rest = c
BY DEF Free, Rest

LEMMA processDataMoves ==
    ASSUME Typed, Typed', IdleEmpty, sc.inflow \in 0 .. MaxInt32, processData
    PROVE  Moved /\ IdleEmpty' /\ sc'.inflow \in 0 .. MaxInt32
<1>1. pend = <<>> /\ (Ignored \/ Discarded \/ Accepted)
  BY DataMoves
<1>2. NowDue = 0 /\ st \in [Ids -> StreamObjects] /\ AllHeld \in Nat
  BY <1>1, HeldNat DEF NowDue, Typed
<1>3. ASSUME st' = st PROVE AllHeld' = AllHeld /\ IdleEmpty'
  BY <1>3, HeldSame DEF IdleEmpty, Share, InMap
<1>4. CASE Ignored
  <2>1. PICK c : Free(c) /\ pend' = c
    BY <1>4 DEF Ignored
  <2>2. sc' = sc /\ st' = st /\ Credit' = Credit + NowDue
    BY <1>2, <1>3, <1>4 DEF Ignored, Credit
  <2> QED BY <1>1, <1>3, <2>1, <2>2, FreeRest, FreeIsPlain DEF Moved
<1>5. CASE Discarded
  <2>1. PICK length, c :
          /\ length \in Nat /\ length <= sc.inflow /\ sc'.inflow = sc.inflow - length /\ st' = st
          /\ Free(c) /\ pend' = <<Op("sendWindowUpdate", 0, length)>> \o c
    BY <1>5 DEF Discarded
  <2>2. PICK p : p = Op("sendWindowUpdate", 0, length)
    OBVIOUS
  <2>3. p.op = "sendWindowUpdate" /\ p.id = 0 /\ p.n = length
    BY <2>2, OpFields
  <2>4. Credit' + p.n = Credit + NowDue
    BY <1>2, <1>3, <2>1, <2>3 DEF Credit
  <2>5. sc'.inflow \in 0 .. MaxInt32
    BY <2>1, MaxInt32Assumption
  <2>6. pend' = <<p>> \o (c \o Rest)
    BY <1>1, <2>1, <2>2, FreeRest
  <2> QED BY <1>3, <2>1, <2>3, <2>4, <2>5, <2>6, FreeIsPlain DEF Moved, ConnRefund
<1>6. CASE Accepted
  <2>0. PICK id \in Ids, n \in Nat, pad \in Nat : \E e : Charges(id, n, pad, e)
    BY <1>6 DEF Accepted
  <2>1. PICK c :
          /\ InMap(id) /\ n + pad <= sc.inflow /\ n + pad <= st[id].inflow
          /\ sc'.inflow = sc.inflow - (n + pad)
          /\ st' = [st EXCEPT ![id] = [st[id] EXCEPT !.inflow = st[id].inflow - (n + pad),
                                                    !.body = st[id].body + n]]
          /\ Free(c) /\ pend' = RefundPadding(id, pad) \o c
    BY <2>0, Zenon DEF Charges
  <2>2. PICK a, b : a = st[id].inflow - (n + pad) /\ b = st[id].body + n
    OBVIOUS
  <2>3. PICK r : r = [st[id] EXCEPT !.inflow = a, !.body = b]
    OBVIOUS
  <2>4. st' = [st EXCEPT ![id] = r]
    BY <2>1, <2>2, <2>3
  <2>5. st[id] \in StreamObjects
    BY <1>2, <2>1
  <2>6. r.body = b /\ r.read = st[id].read /\ r.state = st[id].state
    BY <2>3, <2>5 DEF StreamObjects
  <2>7. st'[id] = r /\ \A i \in Ids : i # id => st'[i] = st[i]
    BY <1>2, <2>1, <2>4
  <2>8. IdleEmpty'
    BY <2>1, <2>6, <2>7 DEF IdleEmpty, InMap, Live
  <2>9. st[id].body \in Nat /\ st[id].read \in Nat
    BY <2>5 DEF StreamObjects
  <2>10. Share(id)' = Share(id) + n
    BY <2>1, <2>2, <2>6, <2>7, <2>9 DEF Share, InMap
  <2>11. AllHeld' = AllHeld + Share(id)' - Share(id)
    <3>1. \A i \in Ids : i # id => Share(i)' = Share(i)
      BY <2>7 DEF Share, InMap
    <3> QED BY <3>1, HeldChange
  <2>12. Share(id) \in Nat
    BY <1>2, <2>1, ShareNat
  <2>13. AllHeld' = AllHeld + n
    BY <1>2, <2>1, <2>10, <2>11, <2>12
  <2>14. Credit' + pad = Credit + NowDue
    BY <1>2, <2>1, <2>13 DEF Credit
  <2>15. sc'.inflow \in 0 .. MaxInt32
    BY <2>1, MaxInt32Assumption
  <2>16. CASE pad = 0
    <3>1. pend' = c
      <4>1. <<>> \o c = c
        BY <2>1 DEF Free
      <4> QED BY <2>1, <2>16, <4>1 DEF RefundPadding
    <3>2. Credit' = Credit + NowDue
      <4>1. Credit' \in Int
        BY <1>2, <2>13, <2>15, MaxInt32Assumption DEF Credit
      <4> QED BY <2>14, <2>16, <4>1
    <3> QED BY <1>1, <2>1, <2>8, <2>15, <3>1, <3>2, FreeRest, FreeIsPlain DEF Moved
  <2>17. CASE pad # 0
    <3>1. PICK p, u : p = Op("sendWindowUpdate", 0, pad) /\ u = Op("sendWindowUpdate", id, pad)
      OBVIOUS
    <3>2. p.op = "sendWindowUpdate" /\ p.id = 0 /\ p.n = pad /\ u.op = "sendWindowUpdate" /\ u.id = id
      BY <3>1, OpFields
    <3>3. pend' = <<p, u>> \o c
      BY <2>1, <2>17, <3>1 DEF RefundPadding
    <3>4. PICK d : d = <<u>> \o c
      OBVIOUS
    <3>5. PlainCalls(d) /\ d \o Rest = d /\ pend' = <<p>> \o d
      <4>1. PICK A : c \in Seq(A)
        BY <2>1 DEF Free
      <4>2. PICK v : v = <<u>>
        OBVIOUS
      <4>3. v \in Seq({u}) /\ v[1] = u /\ Len(v) = 1
        BY <4>2
      <4>4. \A k \in 1 .. Len(d) : \/ k \in 1 .. Len(v) /\ d[k] = v[k]
                                   \/ k - Len(v) \in 1 .. Len(c) /\ d[k] = c[k - Len(v)]
        BY <3>4, <4>1, <4>2, <4>3, Placed
      <4>5. u.id # 0 /\ Plain(c)
        BY <2>1, <3>2, FreePlain, IdsFacts
      <4>6. Plain(d)
        <5>1. \A k \in 1 .. Len(v) : v[k] = u
          BY <4>3
        <5> QED BY <3>2, <4>4, <4>5, <5>1 DEF Plain, ConnRefund
      <4>7. d \in Seq({u} \union A)
        BY <3>4, <4>1, <4>2, <4>3, Placed
      <4>8. d \o <<>> = d
        BY <4>7
      <4>9. <<p, u>> \o c = <<p>> \o d
        BY <3>4, <4>1, Regrouped
      <4> QED BY <1>1, <3>3, <4>6, <4>7, <4>8, <4>9 DEF PlainCalls, Rest
    <3> QED BY <2>8, <2>14, <2>15, <3>2, <3>5 DEF Moved, ConnRefund
  <2> QED BY <2>16, <2>17
<1> QED BY <1>1, <1>4, <1>5, <1>6

-------------------------------------------------------------------------------
(* The account of the connection's window.                                  *)

LEMMA NowDueNat == ASSUME Typed PROVE NowDue \in Nat
<1>1. CASE pend = <<>>
  BY <1>1 DEF NowDue
<1>2. CASE pend # <<>>
  BY <1>2, TopTyped, SurplusNat DEF NowDue, Due, Pending
<1> QED BY <1>1, <1>2

LEMMA OwingSplits ==
    ASSUME Typed PROVE Owing(pend) = NowDue + Backlog(Rest) /\ Backlog(Rest) \in Nat
<1>1. CASE pend = <<>>
  BY <1>1 DEF Owing, NowDue, Rest, Backlog
<1>2. CASE pend # <<>>
  BY <1>2, SurplusNat DEF Owing, NowDue, Rest, Top, Backlog
<1> QED BY <1>1, <1>2

LEMMA OwingTop ==
    ASSUME NEW t, NEW p, NEW r, t # <<>>, Head(t) = p, Tail(t) = r
    PROVE  Owing(t) = Due(p) + Backlog(r)
BY Zenon DEF Owing

LEMMA CreditInt == Typed => Credit \in Int
BY CreditNat

LEMMA CreditIntNext == (Typed => Credit \in Int)'
BY CreditInt, PTL

(* Credit that moves is not lost.                                          *)
LEMMA MovedAccount ==
    ASSUME Typed, Typed', Discipline, Account, [Next]_vars, ~handshake, Moved, IdleEmpty',
           sc'.inflow \in 0 .. MaxInt32, OnTop("handshake") => sc'.inflow = sc.inflow
    PROVE  Account'
<1>1. PICK S, s : S = Stackable(Known, Closed) /\ s = Rest
  OBVIOUS
<1>2. s \in Seq(S) /\ Lone(s)
  BY <1>1, RestTyped DEF Account
<1>3. NowDue \in Nat /\ Owing(pend) = NowDue + Backlog(s) /\ Backlog(s) \in Nat /\ Credit \in Int
  BY <1>1, NowDueNat, OwingSplits, CreditNat
<1>4. Credit' \in Int
  BY CreditIntNext
<1>5. CASE pend' = pend /\ Credit' = Credit
  <2>1. Rest' = Rest /\ Owing(pend)' = Owing(pend) /\ \A op \in {"exit", "handshake"} : OnTop(op)' <=> OnTop(op)
    BY <1>5 DEF Rest, Owing, OnTop, Top
  <2>2. exit => OnTop("exit") /\ life'.doneServing
    BY DEF exit, Running, OnTop, Top, Typed, Lives
  <2>3. OnTop("handshake") => life'.doneServing = life.doneServing
    BY <2>2, ServingKept DEF OnTop
  <2>4. life.doneServing => life'.doneServing
    BY <2>2, ServingKept
  <2>5. Lone(Rest)'
    BY <2>1 DEF Account, Lone
  <2>6. Balanced'
    BY <1>5, <2>1, <2>4 DEF Balanced, Account
  <2> QED BY <2>1, <2>3, <2>5, <2>6 DEF Account
<1>6. ASSUME Owing(pend') = Owing(pend) + (Credit - Credit'),
             pend' # <<>> => Lone(Tail(pend')) /\ Head(pend').op # "handshake"
      PROVE  Account'
  <2> SUFFICES ASSUME pend' # pend PROVE Account'
    <3>1. CASE pend' = pend
      <4>1. Owing(pend') = Owing(pend) /\ Owing(pend) \in Int
        BY <1>3, <3>1
      <4>2. Credit' = Credit
        BY <1>3, <1>4, <1>6, <4>1
      <4> QED BY <1>5, <3>1, <4>2
    <3> QED BY <3>1
  <2>1. Lone(Rest')
    BY <1>6 DEF Rest, Lone
  <2>2. ~OnTop("handshake")'
    BY <1>6 DEF OnTop, Top
  <2>3. exit => life'.doneServing
    BY DEF exit, Typed, Lives
  <2>4. OnTop("exit") => life'.doneServing
    BY <1>6, <2>3, TopFirst DEF OnTop
  <2>5. life.doneServing => life'.doneServing
    BY <2>3, ServingKept
  <2>6. Credit' + Owing(pend') = Credit + Owing(pend)
    BY <1>3, <1>4, <1>6
  <2>7. Balanced'
    BY <2>4, <2>5, <2>6 DEF Balanced, Account
  <2> QED BY <2>1, <2>2, <2>7 DEF Account
<1>7. CASE \E c : /\ PlainCalls(c) /\ pend' = c \o Rest
                                  /\ Credit' = Credit + NowDue
  <2>1. PICK c : PlainCalls(c) /\ pend' = c \o s /\ Credit' = Credit + NowDue
    BY <1>1, <1>7
  <2>2. PICK A : c \in Seq(A)
    BY <2>1 DEF PlainCalls
  <2>3. PICK t : t = pend'
    OBVIOUS
  <2>4. Owing(t) = Backlog(s) /\ (t # <<>> => Lone(Tail(t)) /\ Head(t).op # "handshake")
    BY <1>2, <2>1, <2>2, <2>3, PlainOwing DEF PlainCalls
  <2>5. Owing(pend') = Owing(pend) + (Credit - Credit')
    BY <1>3, <1>4, <2>1, <2>3, <2>4
  <2> QED BY <1>6, <1>7, <2>3, <2>4, <2>5
<1>8. CASE \E c, p : /\ PlainCalls(c) /\ ConnRefund(p) /\ p.n \in Nat
                                     /\ pend' = <<p>> \o (c \o Rest)
                                     /\ Credit' + p.n = Credit + NowDue
  <2>1. PICK c, p : /\ PlainCalls(c) /\ ConnRefund(p) /\ p.n \in Nat
                    /\ pend' = <<p>> \o (c \o s) /\ Credit' + p.n = Credit + NowDue
    BY <1>1, <1>8
  <2>2. PICK A : c \in Seq(A)
    BY <2>1 DEF PlainCalls
  <2>3. PICK t : t = pend'
    OBVIOUS
  <2>4. Owing(t) = Due(p) + Backlog(s) /\ t # <<>> /\ Lone(Tail(t)) /\ Head(t) = p
    BY <1>2, <2>1, <2>2, <2>3, RefundOwing DEF PlainCalls
  <2>5. Due(p) = p.n /\ p.op # "handshake"
    BY <2>1 DEF Due, ConnRefund
  <2>6. Owing(pend') = p.n + Backlog(s)
    BY <2>3, <2>4, <2>5
  <2>7. p.n \in Nat /\ Credit' + p.n = Credit + NowDue
    BY <2>1
  <2>8. Owing(pend') = Owing(pend) + (Credit - Credit')
    <3>1. PICK a, b, d, n, x, y :
            /\ a = Owing(pend') /\ b = Owing(pend) /\ d = NowDue
            /\ n = p.n /\ x = Backlog(s) /\ y = Credit'
      OBVIOUS
    <3> QED BY <1>3, <1>4, <2>6, <2>7, <3>1
  <2> QED BY <1>6, <2>3, <2>4, <2>5, <2>8
<1> QED BY <1>5, <1>7, <1>8 DEF Moved

LEMMA handshakeKeepsAccount ==
    ASSUME Typed, Typed', Discipline, Account, handshake
    PROVE  Account'
<1>1. /\ OnTop("handshake") /\ pend # <<>> /\ Top.op = "handshake" /\ Tail(pend) = <<>> /\ Rest = <<>>
      /\ sc.inflow = InitialSessionWindow /\ ~life.doneServing
  <2>1. OnTop("handshake") /\ pend # <<>> /\ Top.op = "handshake"
    BY DEF handshake, Running, OnTop, Top
  <2> QED BY <2>1 DEF Discipline, Below, Tops, Rest, Account
<1>2. st' = st /\ life' = life /\ sc'.inflow = sc.inflow
  BY DEF handshake, Typed, Sessions
<1>3. AllHeld' = AllHeld /\ IdleEmpty'
  BY <1>2, HeldSame DEF Account, IdleEmpty, Share, InMap
<1>4. Credit' = Credit /\ Credit \in Int
  BY <1>2, <1>3, CreditNat DEF Credit
<1>5. Owing(pend) = Surplus /\ Surplus \in Nat
  <2>1. ~ConnRefund(Top)
    BY <1>1 DEF ConnRefund
  <2>2. Due(Top) = Surplus
    BY <1>1, <2>1 DEF Due
  <2>3. Backlog(<<>>) = 0
    BY DEF Backlog
  <2>4. Backlog(Tail(pend)) = 0
    BY <1>1, <2>3
  <2>5. Owing(pend) = Due(Top) + Backlog(Tail(pend))
    BY <1>1 DEF Owing, Top
  <2> QED BY <2>2, <2>4, <2>5, SurplusNat
<1>6. Credit + Owing(pend) = InitialSessionWindow + Surplus /\ Credit = InitialSessionWindow
  <2>1. Credit + Owing(pend) = InitialSessionWindow + Surplus
    BY <1>1 DEF Account, Balanced, OnTop
  <2> QED BY <1>4, <1>5, <2>1, SessionAssumption, MaxInt32Assumption
<1>7. ASSUME NEW t, t = pend', t # <<>>, Lone(Tail(t)), Head(t).op # "handshake",
             \/ Owing(t) = Surplus
             \/ Owing(t) = 0 /\ Head(t).op = "exit"
      PROVE  Account'
  <2>1. Lone(Rest') /\ ~OnTop("handshake")'
    BY <1>7 DEF Rest, OnTop, Top
  <2>2. sc'.inflow \in 0 .. MaxInt32
    BY <1>2 DEF Account
  <2>3. Balanced'
    <3>1. CASE Owing(pend') = Surplus
      BY <1>4, <1>5, <1>6, <3>1 DEF Balanced
    <3>2. CASE Owing(pend') = 0 /\ OnTop("exit")'
      BY <1>4, <1>5, <1>6, <3>2 DEF Balanced
    <3> QED BY <1>7, <3>1, <3>2 DEF OnTop, Top
  <2> QED BY <1>3, <2>1, <2>2, <2>3 DEF Account
<1>8. CASE pend' = <<Op("exit", 0, 0)>>
  <2>1. PICK p, t : p = Op("exit", 0, 0) /\ t = <<p>>
    OBVIOUS
  <2>2. p.op = "exit" /\ t # <<>> /\ Head(t) = p /\ Tail(t) = <<>>
    BY <2>1, OpFields
  <2>3. Due(p) = 0
    BY <2>2 DEF Due, ConnRefund
  <2>4. Backlog(<<>>) = 0 /\ Lone(<<>>)
    BY DEF Backlog, Lone
  <2>5. Owing(t) = 0 /\ Lone(Tail(t))
    <3>1. Owing(t) = Due(p) + Backlog(<<>>)
      BY <2>2, OwingTop
    <3>2. Lone(Tail(t))
      BY <2>2, <2>4, Zenon
    <3> QED BY <2>3, <2>4, <3>1, <3>2
  <2> QED BY <1>7, <1>8, <2>1, <2>2, <2>5
<1>9. CASE pend' # <<Op("exit", 0, 0)>>
  <2>1. PICK p, u, v : /\ p = OpOn("writeFrame", Control("settings"))
                       /\ u = Op("sendWindowUpdate", 0, sc.inflow - DefaultWindow)
                       /\ v = Op("startReader", 0, 0)
    OBVIOUS
  <2>2. p.op = "writeFrame" /\ v.op = "startReader"
        /\ u.op = "sendWindowUpdate" /\ u.id = 0 /\ u.n = sc.inflow - DefaultWindow
    BY <2>1, OpFields
  <2>3. pend' = <<p>> \o (IF sc.inflow > DefaultWindow THEN <<u>> ELSE <<>>) \o <<v>>
    BY <1>9, <2>1 DEF handshake
  <2>4. CASE sc.inflow > DefaultWindow
    <3>1. PICK t : t = <<p, u>> \o <<v>>
      OBVIOUS
    <3>2. PICK r : r = <<u>> \o <<v>>
      OBVIOUS
    <3>3. t = <<p>> \o r /\ r = <<u, v>>
      <4>1. PICK e : e = <<v>>
        OBVIOUS
      <4>2. e \in Seq({v})
        BY <4>1
      <4>3. <<p, u>> \o e = <<p>> \o (<<u>> \o e)
        BY <4>2, Regrouped
      <4>4. <<u>> \o <<v>> = <<u, v>>
        BY OnePlusOne
      <4> QED BY <3>1, <3>2, <4>1, <4>3, <4>4
    <3>4. r \in Seq({u, v}) /\ Len(r) = 2 /\ r[1] = u /\ r[2] = v
      BY <3>3
    <3>5. t # <<>> /\ Head(t) = p /\ Tail(t) = r
      BY <3>3, <3>4, OneOnTop
    <3>6. u.n = Surplus
      BY <1>1, <2>2, <2>4 DEF Surplus
    <3>7. Lone(r)
      <4> SUFFICES ASSUME NEW k \in 1 .. Len(r)
                   PROVE  /\ r[k].op # "handshake"
                          /\ ConnRefund(r[k]) => r[k].n = Surplus
                               /\ \A j \in 1 .. Len(r) : ConnRefund(r[j]) => j = k
        BY DEF Lone
      <4>1. \A j \in 1 .. Len(r) : (j = 1 /\ r[j] = u) \/ (j = 2 /\ r[j] = v)
        BY <3>4
      <4> QED BY <2>2, <3>6, <4>1 DEF ConnRefund
    <3>8. Backlog(r) = Surplus
      <4>1. 1 \in 1 .. Len(r) /\ ConnRefund(r[1])
        BY <2>2, <3>4 DEF ConnRefund
      <4> QED BY <4>1 DEF Backlog
    <3>9. Owing(t) = Surplus
      <4>1. Due(p) = 0
        BY <2>2 DEF Due, ConnRefund
      <4>2. Owing(t) = Due(p) + Backlog(r)
        BY <3>5, OwingTop
      <4> QED BY <1>5, <3>8, <4>1, <4>2
    <3>10. t = pend'
      BY <2>3, <2>4, <3>1, OnePlusOne
    <3> QED BY <1>7, <2>2, <3>5, <3>7, <3>9, <3>10
  <2>5. CASE ~(sc.inflow > DefaultWindow)
    <3>1. PICK t : t = <<p, v>>
      OBVIOUS
    <3>2. t = pend'
      <4>1. PICK e : e = <<p>>
        OBVIOUS
      <4>2. e \in Seq({p})
        BY <4>1
      <4>3. e \o <<>> = e
        BY <4>2
      <4> QED BY <2>3, <2>5, <3>1, <4>1, <4>3, OnePlusOne
    <3>3. t # <<>> /\ Head(t) = p /\ Tail(t) = <<v>>
      BY <3>1
    <3>4. PICK r : r = <<v>>
      OBVIOUS
    <3>5. Len(r) = 1 /\ r[1] = v
      BY <3>4
    <3>6. \A k \in 1 .. Len(r) : r[k] = v
      BY <3>5
    <3>7. Lone(r) /\ Backlog(r) = 0
      BY <2>2, <3>6 DEF Lone, Backlog, ConnRefund
    <3>8. Surplus = 0
      BY <1>1, <2>5 DEF Surplus
    <3>9. Owing(t) = Surplus
      <4>1. Due(p) = 0
        BY <2>2 DEF Due, ConnRefund
      <4>2. Owing(t) = Due(p) + Backlog(r)
        BY <3>3, <3>4, OwingTop
      <4> QED BY <3>7, <3>8, <4>1, <4>2
    <3> QED BY <1>7, <2>2, <3>2, <3>3, <3>4, <3>7, <3>9
  <2> QED BY <2>4, <2>5
<1> QED BY <1>8, <1>9

LEMMA AccountKept ==
    ASSUME Typed, Typed', Discipline, Account, [Next]_vars
    PROVE  Account'
<1>1. IdleEmpty /\ sc.inflow \in 0 .. MaxInt32 /\ AllHeld \in Nat
  BY HeldNat DEF Account
<1>2. CASE handshake
  BY <1>2, handshakeKeepsAccount
<1>3. CASE sendWindowUpdate \/ closeStream \/ processData
  <2>1. Moved /\ IdleEmpty' /\ sc'.inflow \in 0 .. MaxInt32
    BY <1>1, <1>3, sendWindowUpdateMoves, closeStreamMoves, processDataMoves
  <2>2. ~OnTop("handshake") /\ ~handshake
    <3>1. CASE sendWindowUpdate \/ closeStream
      BY <3>1 DEF sendWindowUpdate, closeStream, handshake, Running, OnTop, Top
    <3>2. CASE processData
      <4>1. pend = <<>>
        BY <3>2, DataMoves
      <4> QED BY <4>1 DEF handshake, Running, OnTop
    <3> QED BY <1>3, <3>1, <3>2
  <2> QED BY <2>1, <2>2, MovedAccount
<1>4. CASE ~(handshake \/ sendWindowUpdate \/ closeStream \/ processData)
  <2>1. PlainStep
    BY <1>4, PlainSteps DEF Refunds
  <2>2. Holds /\ sc'.inflow = sc.inflow
    BY <1>1, <1>4, OthersHold
  <2>3. AllHeld' = AllHeld
    BY <2>2, HeldSame DEF Holds, SameShares
  <2>4. Credit' = Credit /\ Credit \in Int
    BY <2>2, <2>3, CreditNat DEF Credit
  <2>5. Moved
    BY <2>1, <2>4, FreeIsPlain DEF PlainStep, Moved
  <2> QED BY <1>1, <1>4, <2>2, <2>5, MovedAccount DEF Holds
<1> QED BY <1>2, <1>3, <1>4

LEMMA InitAccount == Init => Account
<1> SUFFICES ASSUME Init PROVE Account
  OBVIOUS
<1>1. Typed
  BY InitTyped
<1>2. st = [id \in Ids |-> NoStream]
  BY DEF Init
<1>3. \A id \in Ids : st[id].body = 0 /\ st[id].read = 0 /\ Share(id) = 0
  BY <1>2 DEF NoStream, Share
<1>4. PICK m \in Nat : m = StreamIDLimit - 1
  BY SessionAssumption
<1>5. Ids = 1 .. m
  BY <1>4 DEF Ids
<1>6. PICK f, a : f = HeldBytes /\ a = Shares
  OBVIOUS
<1>7. SumsOf(f, a, m) /\ \A i \in 1 .. m : a[i] = 0
  BY <1>1, <1>3, <1>4, <1>5, <1>6, HeldSums DEF HeldAddsUp, Shares
<1> DEFINE S == {n \in Nat : n <= m => f[n] = 0}
<1>8. 0 \in S
  BY <1>7 DEF SumsOf
<1>9. ASSUME NEW n \in Nat, n \in S PROVE n + 1 \in S
  <2> SUFFICES ASSUME n + 1 <= m PROVE f[n + 1] = 0
    OBVIOUS
  <2>1. n + 1 \in 1 .. m /\ (n + 1) - 1 = n /\ n <= m
    OBVIOUS
  <2>2. f[n] = 0 /\ a[n + 1] = 0 /\ f[n + 1] = f[n] + a[n + 1]
    BY <1>7, <1>9, <2>1 DEF SumsOf
  <2> QED BY <2>2
<1>10. m \in S
  <2>1. Nat \subseteq S
    <3> HIDE DEF S
    <3> QED BY <1>8, <1>9, SetInduction
  <2> QED BY <2>1
<1>11. AllHeld = 0
  BY <1>4, <1>6, <1>10 DEF AllHeld
<1>12. sc.inflow = InitialSessionWindow /\ life.doneServing = FALSE
  BY DEF Init, NewSession
<1>13. PICK p, t : p = Op("handshake", 0, 0) /\ t = <<p>>
  OBVIOUS
<1>14. p.op = "handshake" /\ pend = t /\ t # <<>> /\ Head(t) = p /\ Tail(t) = <<>>
  BY <1>13, OpFields DEF Init
<1>15. Backlog(<<>>) = 0 /\ Lone(<<>>) /\ Due(p) = Surplus
  BY <1>14 DEF Backlog, Lone, Due, ConnRefund
<1>16. Owing(t) = Due(p) + Backlog(<<>>)
  BY <1>14, OwingTop
<1>17. Owing(pend) = Surplus
  BY <1>14, <1>15, <1>16, SurplusNat
<1>18. Lone(Rest)
  BY <1>14, <1>15, Zenon DEF Rest
<1>19. Balanced
  BY <1>11, <1>12, <1>17, SurplusNat, SessionAssumption, MaxInt32Assumption DEF Balanced, Credit
<1> QED BY <1>3, <1>12, <1>18, <1>19, SessionAssumption DEF Account, IdleEmpty

LEMMA AccountHolds == Spec => []Account
<1>1. Init => Account
  BY InitAccount
<1>2. Typed /\ Typed' /\ Discipline /\ Account /\ [Next]_vars => Account'
  BY AccountKept
<1> QED BY <1>1, <1>2, TypedHolds, DisciplineHolds, PTL DEF Spec

(* No byte of the connection's inbound window is lost or refunded twice,   *)
(* whatever the interleaving of DATA, padding, discards, reads, ends of    *)
(* streams and refused writes.                                             *)
THEOREM InflowAccounted == Spec => []InflowAccount
<1>1. Typed /\ Account => InflowAccount
  <2> SUFFICES ASSUME Typed, Account, Parked
               PROVE  sc.inflow + AllHeld = InitialSessionWindow + Surplus
    BY DEF InflowAccount, AllHeld, Surplus
  <2>1. pend = <<>> /\ ~life.doneServing /\ Owing(pend) = 0 /\ ~OnTop("exit")
    BY DEF Parked, Owing, OnTop
  <2>2. Credit + Owing(pend) = InitialSessionWindow + Surplus
    BY <2>1 DEF Account, Balanced
  <2> QED BY <2>1, <2>2, CreditNat DEF Credit
<1> QED BY <1>1, TypedHolds, AccountHolds, PTL

-------------------------------------------------------------------------------
(* The account of a stream's window.                                        *)

(* Only sendWindowUpdate fails with this panic.                            *)
TooMany == "too many window updates"

LEMMA PanicCause ==
    ASSUME [Next]_vars, ~sendWindowUpdate
    PROVE  panic' = panic \/ panic' # TooMany
<1>0. ASSUME NEW z, NEW wr, startFrameWrite(z, wr) PROVE panic' = panic \/ panic' # TooMany
  <2>1. panic' = panic \/ panic' = StartPanic(wr)
    BY <1>0 DEF startFrameWrite
  <2> QED BY <2>1 DEF StartPanic, TooMany
<1>1. CASE WriteStep \/ writeFrameAsync
  <2>1. CASE LoopGoAway \/ LoopSettingsAck \/ LoopFlush \/ \E i \in Ids \union {0} : LoopPop(i)
    <3>1. \E z, wr : startFrameWrite(z, wr)
      BY <2>1 DEF LoopGoAway, LoopSettingsAck, LoopFlush, LoopPop
    <3> QED BY <1>0, <3>1
  <2>2. CASE wroteFrame \/ closeStream
    BY <2>2 DEF wroteFrame, closeStream, Panic, ClosePanic, TooMany
  <2>3. CASE \/ writeFrame \/ LoopExit \/ markReset \/ reply \/ closeRest \/ writeFrameAsync
             \/ \E op, code : goAway(op, code)
    BY <2>3 DEF writeFrame, LoopExit, markReset, reply, closeRest, writeFrameAsync, goAway
  <2> QED BY <1>1, <2>1, <2>2, <2>3 DEF WriteStep
<1>2. CASE ReadStep
  BY <1>2 DEF ReadStep, readMore, TooEarly, Answer, processPing, processFatal, processStreamError,
     processIgnored, processPriority, processGoAway, processEOF, processResetStream,
     processWindowUpdate, processSettingsAck, receiveSettings, SettingsDone, processSetting,
     processSettingInitialWindowSize, processData, endStream, processHeaders, Panic, TooMany
<1>3. CASE ServeStep \/ onShutdownTimer
  BY <1>3 DEF ServeStep, handshake, exit, startReader, SelectWant, SelectWrote, SelectShutdown,
     SelectTimer, createStream, refuse, handOver, iter, closeAllStreamsOnConnClose, onShutdownTimer,
     Panic, TooMany
<1>4. CASE AppStep
  BY <1>4, AppFrame DEF TooMany
<1>5. CASE \/ (\E f \in PeerFrames : ReadFrame(f)) \/ ReadError \/ ReaderStops
           \/ Over \/ UNCHANGED vars
  BY <1>5 DEF ReadFrame, ReadError, ReaderStops, Over, vars
<1> QED BY <1>1, <1>2, <1>3, <1>4, <1>5 DEF Next

-------------------------------------------------------------------------------
(* Calls that give nothing back to a stream's window.                      *)
StreamRefund(p) == p.op = "sendWindowUpdate" /\ p.id # 0

Mute(c) == \A k \in 1 .. Len(c) : ~StreamRefund(c[k])

(* A stream's window, with what the stack gives back to it, is never above *)
(* its initial size; and the stack holds at most one such call.            *)
Bounded(s) == \A k \in 1 .. Len(s) :
    StreamRefund(s[k]) =>
        /\ st[s[k].id].inflow + s[k].n <= InitialStreamWindow
        /\ \A j \in 1 .. Len(s) : StreamRefund(s[j]) => j = k

StreamWindows == \A id \in Ids : st[id].inflow \in 0 .. InitialStreamWindow

StreamAccount == StreamWindows /\ Bounded(pend)

LEMMA MuteJoined ==
    ASSUME NEW A, NEW c \in Seq(A), NEW S, NEW s \in Seq(S), Mute(c), NEW t, t = c \o s
    PROVE  t \in Seq(A \union S) /\ (Mute(s) => Mute(t))
<1>1. /\ Len(c) \in Nat /\ Len(s) \in Nat /\ t \in Seq(A \union S)
      /\ \A k \in 1 .. Len(t) :
           \/ k \in 1 .. Len(c) /\ t[k] = c[k]
           \/ k - Len(c) \in 1 .. Len(s) /\ t[k] = s[k - Len(c)]
  BY Placed
<1> QED BY <1>1 DEF Mute

LEMMA MuteOne == ASSUME NEW p, ~StreamRefund(p) PROVE <<p>> \in Seq({p}) /\ Mute(<<p>>)
<1>1. PICK c : c = <<p>>
  OBVIOUS
<1>2. c \in Seq({p}) /\ \A k \in 1 .. Len(c) : c[k] = p
  BY <1>1
<1> QED BY <1>1, <1>2 DEF Mute

LEMMA FreeMute == ASSUME NEW c, Free(c) PROVE Mute(c) /\ \E A : c \in Seq(A)
BY DEF Free, Mute, PlainOp, StreamRefund

SameInflows == \A id \in Ids : st'[id].inflow = st[id].inflow

(* What is left of the stack below its top.                                *)
LEMMA RestPlaced ==
    ASSUME Typed
    PROVE  /\ Len(Rest) \in Nat /\ Len(pend) \in Nat
           /\ \A k \in 1 .. Len(Rest) : k + 1 \in 1 .. Len(pend) /\ Rest[k] = pend[k + 1]
<1>1. PICK s : s = pend
  OBVIOUS
<1>2. s \in Seq(Stackable(Known, Closed))
  BY <1>1 DEF Typed
<1>3. CASE s = <<>>
  BY <1>1, <1>3 DEF Rest
<1>4. CASE s # <<>>
  <2>1. PICK t : t = Tail(s)
    OBVIOUS
  <2>2. /\ Len(t) \in Nat /\ Len(s) \in Nat
        /\ \A k \in 1 .. Len(t) : k + 1 \in 1 .. Len(s) /\ t[k] = s[k + 1]
    BY <1>2, <1>4, <2>1
  <2> QED BY <1>1, <1>4, <2>1, <2>2 DEF Rest
<1> QED BY <1>3, <1>4

LEMMA MuteEnd == ASSUME Mute(pend'), StreamWindows' PROVE StreamAccount'
BY DEF StreamAccount, Bounded, Mute

LEMMA WindowsSame == ASSUME StreamAccount, SameInflows PROVE StreamWindows'
BY DEF StreamAccount, StreamWindows, SameInflows

(* A step whose new calls are mute.                                        *)
LEMMA MuteStep ==
    ASSUME Typed, Typed', StreamAccount, SameInflows,
           NEW A, NEW c \in Seq(A), Mute(c), pend' = c \o Rest
    PROVE  StreamAccount'
<1>1. PICK s, t : s = Rest /\ t = pend'
  OBVIOUS
<1>2. s \in Seq(Stackable(Known, Closed)) /\ t = c \o s
  BY <1>1, RestTyped
<1>3. /\ Len(c) \in Nat /\ Len(s) \in Nat
      /\ \A k \in 1 .. Len(t) :
           \/ k \in 1 .. Len(c) /\ t[k] = c[k]
           \/ k - Len(c) \in 1 .. Len(s) /\ t[k] = s[k - Len(c)]
  BY <1>2, Placed
<1>4. \A k \in 1 .. Len(s) : k + 1 \in 1 .. Len(pend) /\ s[k] = pend[k + 1]
  BY <1>1, RestPlaced
<1>5. ASSUME NEW k \in 1 .. Len(t), StreamRefund(t[k])
      PROVE  \E i \in Int : i = k - Len(c) + 1 /\ i \in 1 .. Len(pend) /\ t[k] = pend[i]
  <2>1. k - Len(c) \in 1 .. Len(s) /\ t[k] = s[k - Len(c)]
    BY <1>3, <1>5 DEF Mute
  <2>2. PICK h : h = k - Len(c)
    OBVIOUS
  <2>3. h + 1 \in 1 .. Len(pend) /\ s[h] = pend[h + 1]
    BY <1>4, <2>1, <2>2
  <2> QED BY <1>3, <2>1, <2>2, <2>3
<1>6. ASSUME NEW k \in 1 .. Len(t), StreamRefund(t[k])
      PROVE  /\ st'[t[k].id].inflow + t[k].n <= InitialStreamWindow
             /\ \A j \in 1 .. Len(t) : StreamRefund(t[j]) => j = k
  <2>1. PICK i \in Int : i = k - Len(c) + 1 /\ i \in 1 .. Len(pend) /\ t[k] = pend[i]
    BY <1>5, <1>6
  <2>2. PICK p : p = pend[i]
    OBVIOUS
  <2>3. st[p.id].inflow + p.n <= InitialStreamWindow
    BY <1>6, <2>1, <2>2 DEF StreamAccount, Bounded
  <2>4. p.id \in Ids
    <3>1. pend \in Seq(Stackable(Known, Closed))
      BY DEF Typed
    <3>2. p \in Stackable(Known, Closed)
      BY <2>1, <2>2, <3>1
    <3> QED BY <1>6, <2>1, <2>2, <3>2 DEF Stackable, StreamRefund, Known
  <2>5. st'[p.id].inflow = st[p.id].inflow
    BY <2>4 DEF SameInflows
  <2>6. ASSUME NEW j \in 1 .. Len(t), StreamRefund(t[j]) PROVE j = k
    <3>1. PICK h \in Int : h = j - Len(c) + 1 /\ h \in 1 .. Len(pend) /\ t[j] = pend[h]
      BY <1>5, <2>6
    <3>2. h = i
      BY <1>6, <2>1, <2>6, <3>1 DEF StreamAccount, Bounded
    <3> QED BY <1>3, <2>1, <3>1, <3>2
  <2> QED BY <2>1, <2>2, <2>3, <2>5, <2>6
<1>7. Bounded(pend)'
  BY <1>1, <1>6 DEF Bounded
<1> QED BY <1>7, WindowsSame DEF StreamAccount

(* A step that leaves the stack alone.                                     *)
LEMMA StillStep ==
    ASSUME Typed, StreamAccount, SameInflows, pend' = pend PROVE StreamAccount'
<1>1. ASSUME NEW k \in 1 .. Len(pend), StreamRefund(pend[k]) PROVE pend[k].id \in Ids
  <2>1. pend \in Seq(Stackable(Known, Closed))
    BY DEF Typed
  <2>2. pend[k] \in Stackable(Known, Closed)
    BY <2>1
  <2> QED BY <1>1, <2>2 DEF Stackable, StreamRefund, Known
<1>2. Bounded(pend)'
  BY <1>1 DEF Bounded, StreamAccount, SameInflows
<1> QED BY <1>2, WindowsSame DEF StreamAccount

LEMMA sendWindowUpdateBounds ==
    ASSUME Typed, Typed', StreamAccount, sendWindowUpdate
    PROVE  StreamAccount'
<1>1. /\ Credits /\ pend # <<>> /\ Top.op = "sendWindowUpdate" /\ Top.n \in Nat
      /\ Top.id \in Ids \union {0} /\ Rest = Tail(pend)
  BY sendWindowUpdateCredits
<1>2. st \in [Ids -> StreamObjects] /\ 0 \notin Ids
  BY IdsFacts DEF Typed
<1>3. CASE st' = st
  <2>1. SameInflows
    BY <1>3 DEF SameInflows
  <2>2. pend' = pend \/ \E c : Free(c) /\ pend' = c \o Rest
    BY <1>1 DEF Credits
  <2>3. CASE \E c : Free(c) /\ pend' = c \o Rest
    <3>1. PICK c : Free(c) /\ pend' = c \o Rest
      BY <2>3
    <3>2. PICK A : c \in Seq(A) /\ Mute(c)
      BY <3>1, FreeMute
    <3> QED BY <2>1, <3>1, <3>2, MuteStep
  <2> QED BY <2>1, <2>2, <2>3, StillStep
<1>4. CASE st' # st
  <2>1. PICK a : a = added(st[Top.id].inflow, Top.n)
    OBVIOUS
  <2>2. PICK id \in Ids : id = Top.id
    BY <1>1, <1>4 DEF Credits
  <2>3. PICK r : r = [st[id] EXCEPT !.inflow = a]
    OBVIOUS
  <2>4. /\ addOK(st[id].inflow, Top.n) /\ st' = [st EXCEPT ![id] = r]
        /\ \E c : Free(c) /\ pend' = c \o Rest
    BY <1>1, <1>4, <2>1, <2>2, <2>3 DEF Credits
  <2>5. PICK s : s = pend
    OBVIOUS
  <2>6. s \in Seq(Stackable(Known, Closed)) /\ s # <<>> /\ s[1] = Top /\ 1 \in 1 .. Len(s)
    <3>1. s \in Seq(Stackable(Known, Closed)) /\ s # <<>>
      BY <1>1, <2>5 DEF Typed
    <3> QED BY <2>5, <3>1 DEF Top
  <2>7. StreamRefund(s[1])
    BY <1>1, <1>2, <2>2, <2>6 DEF StreamRefund
  <2>8. st[id].inflow + Top.n <= InitialStreamWindow /\ \A j \in 1 .. Len(s) : StreamRefund(s[j]) => j = 1
    <3>1. Bounded(s)
      BY <2>5 DEF StreamAccount
    <3> QED BY <2>2, <2>6, <2>7, <3>1 DEF Bounded
  <2>9. st[id].inflow \in 0 .. InitialStreamWindow
    BY DEF StreamAccount, StreamWindows
  <2>10. a = st[id].inflow + Top.n /\ a \in 0 .. InitialStreamWindow
    <3>1. a = st[id].inflow + Top.n
      <4>1. PICK x, n : x = st[id].inflow /\ n = Top.n
        OBVIOUS
      <4>2. x \in Nat /\ n \in Nat /\ x + n \in 0 .. MaxInt32 /\ addOK(x, n) /\ a = added(x, n)
        BY <1>1, <2>1, <2>2, <2>4, <2>8, <2>9, <4>1, MaxInt32Assumption, SessionAssumption
      <4>3. a = Wrap32(x + n)
        BY <4>2 DEF added
      <4> QED BY <4>1, <4>2, <4>3, MaxInt32Assumption DEF Wrap32, MinInt32
    <3> QED BY <1>1, <2>8, <2>9, <3>1, SessionAssumption
  <2>11. r.inflow = a
    <3>1. st[id] \in StreamObjects
      BY <1>2
    <3> QED BY <2>3, <3>1 DEF StreamObjects
  <2>12. st'[id] = r /\ \A i \in Ids : i # id => st'[i] = st[i]
    BY <1>2, <2>4
  <2>13. StreamWindows'
    BY <2>10, <2>11, <2>12 DEF StreamWindows, StreamAccount
  <2>14. Mute(Rest)
    <3>1. ASSUME NEW k \in 1 .. Len(Rest), StreamRefund(Rest[k]) PROVE FALSE
      <4>1. k + 1 \in 1 .. Len(s) /\ Rest[k] = s[k + 1]
        BY <2>5, RestPlaced
      <4>2. k + 1 = 1
        BY <2>8, <3>1, <4>1
      <4> QED BY <4>2
    <3> QED BY <3>1 DEF Mute
  <2>15. PICK c : Free(c) /\ pend' = c \o Rest
    BY <2>4
  <2>16. PICK A : c \in Seq(A) /\ Mute(c)
    BY <2>15, FreeMute
  <2>17. Mute(pend')
    <3>1. PICK t, e : t = pend' /\ e = Rest
      OBVIOUS
    <3>2. e \in Seq(Stackable(Known, Closed)) /\ Mute(e) /\ t = c \o e
      BY <2>14, <2>15, <3>1, RestTyped
    <3> QED BY <2>16, <3>1, <3>2, MuteJoined
  <2> QED BY <2>13, <2>17, MuteEnd
<1> QED BY <1>3, <1>4

LEMMA closeStreamBounds ==
    ASSUME Typed, Typed', Discipline, [Next]_vars, StreamAccount, closeStream
    PROVE  StreamAccount'
<1>1. SameInflows
  <2>1. st \in [Ids -> StreamObjects]
    BY DEF Typed
  <2>2. CASE st' = st
    BY <2>2 DEF SameInflows
  <2>3. CASE st' # st
    <3>1. st' = [st EXCEPT ![Top.id] = [st[Top.id] EXCEPT !.state = "closed"]] /\ Top.id \in Ids
      BY <2>3, TopTyped DEF closeStream, Panic, Running, Stackable, Known, Top
    <3>2. PICK r : r = [st[Top.id] EXCEPT !.state = "closed"]
      OBVIOUS
    <3>3. r.inflow = st[Top.id].inflow
      BY <2>1, <3>1, <3>2 DEF StreamObjects
    <3> QED BY <2>1, <3>1, <3>2, <3>3 DEF SameInflows
  <2> QED BY <2>2, <2>3
<1>2. CASE pend' = pend
  BY <1>1, <1>2, StillStep
<1>3. CASE pend' # pend
  <2>1. PICK p, c : p = Op("sendWindowUpdate", 0, st[Top.id].body) /\ c = Op("closeRest", Top.id, 0)
    OBVIOUS
  <2>2. pend' = <<p, c>> \o Rest
    <3>1. pend' = <<p, c>> \o Tail(pend)
      BY <1>3, <2>1 DEF closeStream, Panic
    <3>2. Rest = Tail(pend)
      BY RunningRest DEF closeStream
    <3> QED BY <3>1, <3>2
  <2>3. ~StreamRefund(p) /\ ~StreamRefund(c)
    BY <2>1, OpFields DEF StreamRefund
  <2>4. PICK d : d = <<p, c>>
    OBVIOUS
  <2>5. d \in Seq({p, c}) /\ \A k \in 1 .. Len(d) : d[k] = p \/ d[k] = c
    BY <2>4
  <2>6. Mute(d)
    BY <2>3, <2>5 DEF Mute
  <2> QED BY <1>1, <2>2, <2>4, <2>5, <2>6, MuteStep
<1> QED BY <1>2, <1>3

LEMMA processDataBounds ==
    ASSUME Typed, Typed', StreamAccount, processData
    PROVE  StreamAccount'
<1>1. pend = <<>> /\ (Ignored \/ Discarded \/ Accepted)
  BY DataMoves
<1>2. st \in [Ids -> StreamObjects] /\ 0 \notin Ids
  BY IdsFacts DEF Typed
<1>3. ASSUME st' = st PROVE StreamWindows'
  BY <1>3 DEF StreamAccount, StreamWindows
<1>4. CASE Ignored
  <2>1. PICK c : Free(c) /\ pend' = c /\ st' = st
    BY <1>4 DEF Ignored
  <2> QED BY <1>3, <2>1, FreeMute, MuteEnd
<1>5. CASE Discarded
  <2>1. PICK length, c : st' = st /\ Free(c) /\ pend' = <<Op("sendWindowUpdate", 0, length)>> \o c
    BY <1>5 DEF Discarded
  <2>2. PICK p, d : p = Op("sendWindowUpdate", 0, length) /\ d = <<p>>
    OBVIOUS
  <2>3. ~StreamRefund(p)
    BY <2>2, OpFields DEF StreamRefund
  <2>4. d \in Seq({p}) /\ Mute(d)
    BY <2>2, <2>3, MuteOne
  <2>5. PICK A : c \in Seq(A) /\ Mute(c)
    BY <2>1, FreeMute
  <2>6. PICK t : t = pend' /\ t = d \o c
    BY <2>1, <2>2
  <2>7. Mute(t)
    BY <2>4, <2>5, <2>6, MuteJoined
  <2> QED BY <1>3, <2>1, <2>6, <2>7, MuteEnd
<1>6. CASE Accepted
  <2>0. PICK id \in Ids, n \in Nat, pad \in Nat : \E e : Charges(id, n, pad, e)
    BY <1>6 DEF Accepted
  <2>1. PICK c :
          /\ n + pad <= st[id].inflow
          /\ st' = [st EXCEPT ![id] = [st[id] EXCEPT !.inflow = st[id].inflow - (n + pad),
                                                    !.body = st[id].body + n]]
          /\ Free(c) /\ pend' = RefundPadding(id, pad) \o c
    BY <2>0, Zenon DEF Charges
  <2>2. PICK a, b : a = st[id].inflow - (n + pad) /\ b = st[id].body + n
    OBVIOUS
  <2>3. PICK r : r = [st[id] EXCEPT !.inflow = a, !.body = b]
    OBVIOUS
  <2>4. st' = [st EXCEPT ![id] = r]
    BY <2>1, <2>2, <2>3
  <2>5. st[id] \in StreamObjects
    BY <1>2
  <2>6. r.inflow = a
    BY <2>3, <2>5 DEF StreamObjects
  <2>7. st'[id] = r /\ \A i \in Ids : i # id => st'[i] = st[i]
    BY <1>2, <2>4
  <2>8. st[id].inflow \in 0 .. InitialStreamWindow
    BY DEF StreamAccount, StreamWindows
  <2>9. a \in 0 .. InitialStreamWindow /\ a + pad <= InitialStreamWindow
    BY <2>1, <2>2, <2>8, SessionAssumption, MaxInt32Assumption
  <2>10. StreamWindows'
    BY <2>6, <2>7, <2>9 DEF StreamWindows, StreamAccount
  <2>11. PICK A : c \in Seq(A) /\ Mute(c)
    BY <2>1, FreeMute
  <2>12. CASE pad = 0
    <3>1. <<>> \o c = c
      BY <2>11
    <3>2. pend' = c
      BY <2>1, <2>12, <3>1 DEF RefundPadding
    <3> QED BY <2>10, <2>11, <3>2, MuteEnd
  <2>13. CASE pad # 0
    <3>1. PICK p, u : p = Op("sendWindowUpdate", 0, pad) /\ u = Op("sendWindowUpdate", id, pad)
      OBVIOUS
    <3>2. /\ ~StreamRefund(p) /\ u.id = id /\ u.n = pad
      BY <3>1, OpFields DEF StreamRefund
    <3>3. PICK d, t : d = <<p, u>> /\ t = pend'
      OBVIOUS
    <3>4. t = d \o c
      BY <2>1, <2>13, <3>1, <3>3 DEF RefundPadding
    <3>5. d \in Seq({p, u}) /\ Len(d) = 2 /\ d[1] = p /\ d[2] = u
      BY <3>3
    <3>a. d \in Seq({p, u})
      BY <3>5
    <3>6. \A k \in 1 .. Len(t) :
            \/ k \in 1 .. Len(d) /\ t[k] = d[k]
            \/ k - Len(d) \in 1 .. Len(c) /\ t[k] = c[k - Len(d)]
      BY <2>11, <3>4, <3>a, Placed
    <3>7. \A k \in 1 .. Len(t) : StreamRefund(t[k]) => k = 2 /\ t[k] = u
      BY <2>11, <3>2, <3>5, <3>6 DEF Mute
    <3>8. st'[u.id].inflow + u.n <= InitialStreamWindow
      BY <2>6, <2>7, <2>9, <3>2
    <3>9. Bounded(pend)'
      BY <3>3, <3>7, <3>8 DEF Bounded
    <3> QED BY <2>10, <3>9 DEF StreamAccount
  <2> QED BY <2>12, <2>13
<1> QED BY <1>1, <1>4, <1>5, <1>6

LEMMA handshakeMute == ASSUME Typed, handshake PROVE Mute(pend') /\ st' = st
<1>0. st' = st
  BY DEF handshake
<1>1. ASSUME NEW op, NEW n PROVE ~StreamRefund(Op(op, 0, n))
  BY OpFields DEF StreamRefund
<1>2. PICK p, u, v, x : /\ p = OpOn("writeFrame", Control("settings"))
                        /\ u = Op("sendWindowUpdate", 0, sc.inflow - DefaultWindow)
                        /\ v = Op("startReader", 0, 0) /\ x = Op("exit", 0, 0)
  OBVIOUS
<1>3. ~StreamRefund(p) /\ ~StreamRefund(u) /\ ~StreamRefund(v) /\ ~StreamRefund(x)
  <2>1. p.op = "writeFrame"
    BY <1>2, OpFields
  <2> QED BY <1>1, <1>2, <2>1 DEF StreamRefund
<1>4. \/ pend' = <<p>> \o (IF sc.inflow > DefaultWindow THEN <<u>> ELSE <<>>) \o <<v>>
      \/ pend' = <<x>>
  BY <1>2 DEF handshake
<1>5. CASE pend' = <<x>>
  <2>1. Mute(<<x>>)
    BY <1>3, MuteOne
  <2> QED BY <1>0, <1>5, <2>1, Zenon
<1>6. CASE pend' = <<p>> \o (IF sc.inflow > DefaultWindow THEN <<u>> ELSE <<>>) \o <<v>>
  <2>1. PICK a, b, d, e, t :
          /\ a = <<p>> /\ b = (IF sc.inflow > DefaultWindow THEN <<u>> ELSE <<>>) /\ d = <<v>>
          /\ e = a \o b /\ t = e \o d
    OBVIOUS
  <2>2. a \in Seq({p}) /\ Mute(a) /\ d \in Seq({v}) /\ Mute(d)
    BY <1>3, <2>1, MuteOne
  <2>3. b \in Seq({u}) /\ Mute(b)
    <3>1. CASE b = <<u>>
      BY <1>3, <3>1, MuteOne
    <3>2. CASE b = <<>>
      BY <3>2 DEF Mute
    <3> QED BY <2>1, <3>1, <3>2
  <2>4. e \in Seq({p} \union {u}) /\ Mute(e)
    BY <2>1, <2>2, <2>3, MuteJoined
  <2>5. Mute(t)
    BY <2>1, <2>2, <2>4, MuteJoined
  <2>6. t = pend'
    BY <1>6, <2>1
  <2> QED BY <1>0, <2>5, <2>6, Zenon
<1> QED BY <1>0, <1>4, <1>5, <1>6

LEMMA CreatesBound == ASSUME Typed, StreamAccount, Creates PROVE StreamWindows'
<1>1. CASE st' = st
  BY <1>1 DEF StreamAccount, StreamWindows
<1>2. ASSUME NEW id \in Ids, NEW state, NEW held, st' = [st EXCEPT ![id] = NewStream(state, held)]
      PROVE  StreamWindows'
  <2>1. PICK r : r = NewStream(state, held)
    OBVIOUS
  <2>2. r.inflow = InitialStreamWindow
    BY <2>1, NewStreamEmpty
  <2>3. st'[id] = r /\ \A i \in Ids : i # id => st'[i] = st[i]
    BY <1>2, <2>1 DEF Typed
  <2> QED BY <2>2, <2>3, SessionAssumption DEF StreamAccount, StreamWindows
<1> QED BY <1>1, <1>2 DEF Creates

LEMMA PlainStepMute == ASSUME PlainStep, Typed, pend = <<>> PROVE Mute(pend')
<1>1. CASE pend' = pend
  BY <1>1 DEF Mute
<1>2. ASSUME NEW c, Free(c), pend' = c \o Rest PROVE Mute(pend')
  <2>1. pend' = c
    BY <1>2, FreeRest
  <2> QED BY <1>2, <2>1, FreeMute
<1> QED BY <1>1, <1>2 DEF PlainStep

LEMMA PlainStepBounds ==
    ASSUME Typed, Typed', StreamAccount, SameInflows, PlainStep PROVE StreamAccount'
<1>1. ASSUME NEW c, Free(c), pend' = c \o Rest PROVE StreamAccount'
  <2>1. PICK A : c \in Seq(A) /\ Mute(c)
    BY <1>1, FreeMute
  <2> QED BY <1>1, <2>1, MuteStep
<1> QED BY <1>1, StillStep DEF PlainStep

LEMMA StreamAccountKept ==
    ASSUME Typed, Typed', Discipline, StreamAccount, [Next]_vars
    PROVE  StreamAccount'
<1>1. CASE handshake
  <2>1. StreamWindows'
    BY <1>1, handshakeMute DEF StreamAccount, StreamWindows
  <2> QED BY <1>1, <2>1, handshakeMute, MuteEnd
<1>2. CASE sendWindowUpdate \/ closeStream \/ processData
  BY <1>2, sendWindowUpdateBounds, closeStreamBounds, processDataBounds
<1>3. CASE ~Refunds
  <2>1. PlainStep
    BY <1>3, PlainSteps
  <2>2. CASE createStream \/ (processHeaders /\ HeadersOpenStream)
    <3>1. pend = <<>> /\ Creates
      BY <2>2, createStreamCreates, HeadersCreate
         DEF createStream, SelectMsg, Parked, processHeaders, Handled, Receive
    <3> QED BY <2>1, <3>1, CreatesBound, PlainStepMute, MuteEnd
  <2>3. ASSUME NEW id \in Ids, Read(id) PROVE StreamAccount'
    <3>1. PICK a : a = st[id].read + (IF InMap(id) THEN st[id].body ELSE 0)
      OBVIOUS
    <3>2. st' = [st EXCEPT ![id] = [st[id] EXCEPT !.body = 0, !.read = a]]
      BY <2>3, <3>1 DEF Read
    <3>3. PICK r : r = [st[id] EXCEPT !.body = 0, !.read = a]
      OBVIOUS
    <3>4. st[id] \in StreamObjects
      BY DEF Typed
    <3>5. r.inflow = st[id].inflow
      BY <3>3, <3>4 DEF StreamObjects
    <3>6. SameInflows
      BY <3>2, <3>3, <3>5 DEF SameInflows, Typed
    <3> QED BY <2>1, <3>6, PlainStepBounds
  <2>4. CASE ~Moves
    <3>1. SameInflows
      BY <2>4, BytesKept DEF BytesSame, SameHeld, SameBytes, SameInflows
    <3> QED BY <2>1, <3>1, PlainStepBounds
  <2> QED BY <1>3, <2>2, <2>3, <2>4 DEF Moves, Refunds
<1> QED BY <1>1, <1>2, <1>3 DEF Refunds

LEMMA InitStreamAccount == Init => StreamAccount
<1> SUFFICES ASSUME Init PROVE StreamAccount
  OBVIOUS
<1>1. \A id \in Ids : st[id].inflow = 0
  BY DEF Init, NoStream
<1>2. PICK p : p = Op("handshake", 0, 0)
  OBVIOUS
<1>3. pend = <<p>> /\ ~StreamRefund(p)
  BY <1>2, OpFields DEF Init, StreamRefund
<1>4. Mute(pend)
  BY <1>3, MuteOne
<1> QED BY <1>1, <1>4, SessionAssumption DEF StreamAccount, StreamWindows, Bounded, Mute

LEMMA StreamAccountHolds == Spec => []StreamAccount
<1>1. Init => StreamAccount
  BY InitStreamAccount
<1>2. Typed /\ Typed' /\ Discipline /\ StreamAccount /\ [Next]_vars => StreamAccount'
  BY StreamAccountKept
<1> QED BY <1>1, <1>2, TypedHolds, DisciplineHolds, PTL DEF Spec

-------------------------------------------------------------------------------
(* The connection's window leaves room for the surplus.                    *)
RoomForSurplus == InitialSessionWindow + Surplus <= MaxInt32

(* What is credited to a window fits it.                                   *)
LEMMA CreditFits ==
    ASSUME Typed, Account, StreamAccount, OnTop("sendWindowUpdate"),
           RoomForSurplus
    PROVE  addOK(IF Top.id = 0 THEN sc.inflow ELSE st[Top.id].inflow, Top.n)
<1>1. pend # <<>> /\ Top.op = "sendWindowUpdate"
  BY DEF OnTop
<1>2. Top.n \in Nat /\ Top.id \in Ids \union {0} /\ 0 \notin Ids
  BY <1>1, TopTyped, IdsFacts DEF Stackable, Pending, Known
<1>3. ASSUME NEW x \in Nat, NEW n \in Nat, x + n <= MaxInt32 PROVE addOK(x, n)
  BY <1>3, MaxInt32Assumption DEF addOK, Wrap32, MinInt32
<1>4. CASE Top.id = 0
  <2>1. NowDue = Top.n
    BY <1>1, <1>4 DEF NowDue, Due, ConnRefund
  <2>2. Owing(pend) = NowDue + Backlog(Rest) /\ Backlog(Rest) \in Nat
    BY OwingSplits
  <2>3. sc.inflow \in Nat /\ AllHeld \in Nat /\ Credit = sc.inflow + AllHeld
    BY HeldNat DEF Account, Credit
  <2>4. Credit + Owing(pend) <= InitialSessionWindow + Surplus
    BY SurplusNat, SessionAssumption, MaxInt32Assumption DEF Account, Balanced
  <2>5. sc.inflow + Top.n <= MaxInt32
    <3>1. PICK x, h, n, b : x = sc.inflow /\ h = AllHeld /\ n = Top.n /\ b = Backlog(Rest)
      OBVIOUS
    <3>2. x \in Nat /\ h \in Nat /\ n \in Nat /\ b \in Nat /\ (x + h) + (n + b) <= MaxInt32
      BY <1>2, <2>1, <2>2, <2>3, <2>4, <3>1, SurplusNat, SessionAssumption, MaxInt32Assumption DEF RoomForSurplus
    <3> QED BY <3>1, <3>2, MaxInt32Assumption
  <2> QED BY <1>2, <1>3, <1>4, <2>3, <2>5
<1>5. CASE Top.id \in Ids
  <2>1. PICK s : s = pend
    OBVIOUS
  <2>2. s \in Seq(Stackable(Known, Closed)) /\ s # <<>> /\ s[1] = Top /\ 1 \in 1 .. Len(s)
    <3>1. s \in Seq(Stackable(Known, Closed)) /\ s # <<>>
      BY <1>1, <2>1 DEF Typed
    <3> QED BY <2>1, <3>1 DEF Top
  <2>3. StreamRefund(s[1]) /\ Bounded(s)
    BY <1>1, <1>2, <1>5, <2>1, <2>2 DEF StreamRefund, StreamAccount
  <2>4. st[Top.id].inflow + Top.n <= InitialStreamWindow
    BY <2>2, <2>3 DEF Bounded
  <2>5. st[Top.id].inflow \in Nat
    BY <1>5, SessionAssumption, MaxInt32Assumption DEF StreamAccount, StreamWindows
  <2> QED BY <1>2, <1>3, <1>5, <2>4, <2>5, SessionAssumption, MaxInt32Assumption
<1> QED BY <1>2, <1>4, <1>5

(* The assertions that guard the write loop, closeStream and the inbound   *)
(* windows never fail, if the connection's window leaves room for what     *)
(* serve grants it on top when it starts.                                  *)
THEOREM AssertionsHold ==
    Spec /\ RoomForSurplus => []NoInternalError
<1>1. Init => panic # TooMany
  BY DEF Init, TooMany
<1>2. RoomForSurplus => RoomForSurplus'
  BY DEF RoomForSurplus, Surplus
<1>3. /\ Typed /\ Account /\ StreamAccount /\ RoomForSurplus /\ [Next]_vars /\ panic # TooMany
      => (panic # TooMany)'
  <2> SUFFICES ASSUME Typed, Account, StreamAccount, RoomForSurplus, [Next]_vars, panic # TooMany
               PROVE  panic' # TooMany
    BY DEF TooMany
  <2>1. CASE sendWindowUpdate
    <3>1. OnTop("sendWindowUpdate")
      BY <2>1 DEF sendWindowUpdate, Running, OnTop, Top
    <3>2. addOK(IF Top.id = 0 THEN sc.inflow ELSE st[Top.id].inflow, Top.n)
      BY <3>1, CreditFits
    <3>3. panic' = panic
      BY <2>1, <3>2 DEF sendWindowUpdate
    <3> QED BY <3>3
  <2>2. CASE ~sendWindowUpdate
    BY <2>2, PanicCause
  <2> QED BY <2>1, <2>2
<1>4. Discipline /\ panic # TooMany => NoInternalError
  BY DEF Discipline, NoInternalError, TooMany
<1> QED BY <1>1, <1>2, <1>3, <1>4, TypedHolds, AccountHolds, StreamAccountHolds,
           DisciplineHolds, PTL DEF Spec

-------------------------------------------------------------------------------
(* The ledger of what this side may send.                                  *)

Ledger == INSTANCE SendWindowProofs WITH
    Streams      <- Ids,
    MaxFrameSize <- MaxInt32,
    MaxGrant     <- PeerBudget * MaxInt32,
    open         <- {id \in Ids : InMap(id)},
    used         <- {id \in Ids : st[id].state # "idle"},
    win          <- [id \in Ids |-> st[id].flow],
    conn         <- sc.flow,
    initWin      <- sc.initialStreamSendWindowSize,
    failed       <- sc.misgrown,
    inc          <- [id \in Ids |-> st[id].inc],
    sent         <- [id \in Ids |-> st[id].spent],
    connInc      <- sc.connInc,
    connSent     <- sc.connSent

(* WINDOW_UPDATE frames that the reader has and serve has not.             *)
Unread == IF reader.stage = "offer" /\ reader.f.t = "windowUpdate" THEN 1 ELSE 0

(* The most that the frames which serve has handled can have granted.      *)
Granted == (PeerBudget - peerLeft - Unread) * MaxInt32

Budget ==
    /\ peerLeft + Unread <= PeerBudget
    /\ sc.connInc <= Granted
    /\ \A id \in Ids : st[id].inc <= Granted

LedgerInv == Ledger!Inv /\ Budget

-------------------------------------------------------------------------------
(* SendWindow's arithmetic is that of the session.                         *)
LEMMA SameArithmetic ==
    /\ \A n, d : (Ledger!addOK(n, d) <=> addOK(n, d)) /\ Ledger!added(n, d) = added(n, d)
    /\ \A n, c : Ledger!available(n, c) = available(n, c)
    /\ Ledger!Int32 = Int32
BY DEF Ledger!addOK, Ledger!added, Ledger!Wrap32, Ledger!MinInt32, Ledger!Int32,
       Ledger!available, addOK, added, Wrap32, MinInt32, Int32, available

LEMMA LedgerFields ==
    ASSUME Ledger!Inv
    PROVE  /\ sc.flow \in Int32
           /\ \A id \in Ids : /\ st[id].flow \in Int32
                              /\ st[id].state = "idle" => st[id].inc = 0 /\ st[id].spent = 0
<1>1. Ledger!TypeOK /\ Ledger!Debt
  BY DEF Ledger!Inv
<1>2. sc.flow \in Int32 /\ [id \in Ids |-> st[id].flow] \in [Ids -> Int32]
  BY <1>1, SameArithmetic DEF Ledger!TypeOK
<1>3. \A s \in Ids : s \notin {id \in Ids : st[id].state # "idle"} =>
         [id \in Ids |-> st[id].inc][s] = 0 /\ [id \in Ids |-> st[id].spent][s] = 0
  BY <1>1 DEF Ledger!Debt
<1> QED BY <1>2, <1>3

(* What a step leaves alone of the session's windows.                      *)
SameWindows(s, t) ==
    /\ s.flow = t.flow /\ s.connInc = t.connInc /\ s.connSent = t.connSent
    /\ s.initialStreamSendWindowSize = t.initialStreamSendWindowSize
    /\ s.misgrown = t.misgrown

(* The ledger's variables, from those of the session.                      *)
SameLedger ==
    /\ \A id \in Ids : /\ InMap(id)' <=> InMap(id)
                       /\ st'[id].state = "idle" <=> st[id].state = "idle"
                       /\ st'[id].flow = st[id].flow /\ st'[id].inc = st[id].inc
                       /\ st'[id].spent = st[id].spent
    /\ sc'.flow = sc.flow /\ sc'.connInc = sc.connInc /\ sc'.connSent = sc.connSent
    /\ sc'.initialStreamSendWindowSize = sc.initialStreamSendWindowSize
    /\ sc'.misgrown = sc.misgrown

LEMMA LedgerUnchanged == ASSUME SameLedger PROVE UNCHANGED Ledger!vars
<1>1. {id \in Ids : InMap(id)'} = {id \in Ids : InMap(id)}
  BY DEF SameLedger
<1>2. {id \in Ids : st'[id].state # "idle"} = {id \in Ids : st[id].state # "idle"}
  BY DEF SameLedger
<1>3. /\ [id \in Ids |-> st'[id].flow] = [id \in Ids |-> st[id].flow]
      /\ [id \in Ids |-> st'[id].inc] = [id \in Ids |-> st[id].inc]
      /\ [id \in Ids |-> st'[id].spent] = [id \in Ids |-> st[id].spent]
  BY DEF SameLedger
<1> QED BY <1>1, <1>2, <1>3 DEF SameLedger, Ledger!vars

(* A function of the streams that changes at one of them.                  *)
LEMMA Updated ==
    ASSUME NEW f, f = [i \in Ids |-> f[i]], NEW g, g = [i \in Ids |-> g[i]],
           NEW s \in Ids, NEW a, \A i \in Ids : g[i] = IF i = s THEN a ELSE f[i]
    PROVE  g = [f EXCEPT ![s] = a]
OBVIOUS

LEMMA QuietLedger == ASSUME Quiet PROVE SameLedger
BY DEF Quiet, SameStreams, SameOn, SameSums, SameLedger, InMap

-------------------------------------------------------------------------------
(* Actions that change the state of a stream, and nothing of the ledger.   *)
LEMMA EndsLedger ==
    ASSUME Typed, Discipline, wroteFrame \/ closeRest \/ endStream
    PROVE  SameLedger
<1>1. sc \in Sessions /\ st \in [Ids -> StreamObjects] /\ pend # <<>>
  BY DEF Typed, wroteFrame, closeRest, endStream, Running
<1>2. CASE wroteFrame
  <2>1. PICK wr : wr = Top.wr
    OBVIOUS
  <2>2. sc.writingFrame
    BY <1>1, <1>2 DEF wroteFrame, Running, Discipline, OnTop, Top
  <2>3. /\ sc' = [sc EXCEPT !.writingFrame = FALSE, !.writingFrameAsync = FALSE]
        /\ st' = IF writeEndsStream(wr) THEN [st EXCEPT ![wr.id].state = AfterEndStream(@)] ELSE st
    BY <1>2, <2>1, <2>2 DEF wroteFrame
  <2>4. writeEndsStream(wr) => wr.id \in Ids
    <3>1. wr \in Requests(Known)
      BY <1>1, <2>1, TopTyped
    <3> QED BY <3>1 DEF Requests, HasStream, Known, writeEndsStream
  <2>5. CASE ~writeEndsStream(wr)
    BY <1>1, <2>3, <2>5 DEF SameLedger, Sessions, InMap
  <2>6. CASE writeEndsStream(wr)
    <3>1. PICK x : x = AfterEndStream(st[wr.id].state)
      OBVIOUS
    <3>2. st' = [st EXCEPT ![wr.id] = [st[wr.id] EXCEPT !.state = x]]
      BY <2>3, <2>6, <3>1
    <3>3. (x \in Live <=> st[wr.id].state \in Live) /\ (x = "idle" <=> st[wr.id].state = "idle")
      BY <3>1 DEF AfterEndStream, Live
    <3>4. \A i \in Ids :
            /\ st'[i].state = IF i = wr.id THEN x ELSE st[i].state
            /\ st'[i].flow = st[i].flow /\ st'[i].inc = st[i].inc /\ st'[i].spent = st[i].spent
      BY <1>1, <2>4, <2>6, <3>2 DEF StreamObjects
    <3>5. SameWindows(sc', sc)
      BY <1>1, <2>3 DEF SameWindows, Sessions
    <3> QED BY <3>3, <3>4, <3>5 DEF SameLedger, SameWindows, InMap
  <2> QED BY <2>5, <2>6
<1>3. CASE closeRest
  <2>1. /\ st' = [st EXCEPT ![Top.id] = [st[Top.id] EXCEPT !.bodyErr = TRUE, !.cw = TRUE]]
        /\ sc' = sc
    BY <1>3 DEF closeRest
  <2> QED BY <1>1, <2>1 DEF SameLedger, StreamObjects, InMap
<1>4. CASE endStream
  <2>1. PICK b, x : /\ b = ~InMap(Top.id)
                    /\ x = IF InMap(Top.id) THEN "halfClosedRemote" ELSE st[Top.id].state
    OBVIOUS
  <2>2. /\ st' = [st EXCEPT ![Top.id] = [st[Top.id] EXCEPT !.bodyErr = TRUE, !.stale = b, !.state = x]]
        /\ sc' = sc
    BY <1>4, <2>1 DEF endStream
  <2>3. (x \in Live <=> st[Top.id].state \in Live) /\ (x = "idle" <=> st[Top.id].state = "idle")
    BY <2>1 DEF InMap, Live
  <2> QED BY <1>1, <2>2, <2>3 DEF SameLedger, StreamObjects, InMap
<1> QED BY <1>2, <1>3, <1>4

(* What a step leaves alone of the credit that the peer has given.         *)
SameCredit == sc'.connInc = sc.connInc /\ \A id \in Ids : st'[id].inc = st[id].inc

LEMMA closeStreamLedger ==
    ASSUME Typed, Discipline, closeStream
    PROVE  SameCredit /\ (UNCHANGED Ledger!vars \/ \E s \in Ids : Ledger!CloseStream(s))
<1>1. pend # <<>> /\ Top.op = "closeStream" /\ InMap(Top.id)
  BY DEF closeStream, Running, Discipline, OnTop, Top
<1>2. sc \in Sessions /\ st \in [Ids -> StreamObjects] /\ Top.id \in Ids
  BY <1>1, TopTyped DEF Typed, Stackable, Known
<1>3. CASE ClosePanic(Top.id) # "none"
  <2>1. sc' = sc /\ st' = st
    BY <1>3 DEF closeStream, Panic
  <2>2. SameLedger
    BY <2>1 DEF SameLedger, InMap
  <2> QED BY <2>1, <2>2, LedgerUnchanged DEF SameCredit
<1>4. CASE ClosePanic(Top.id) = "none"
  <2>1. PICK id \in Ids : id = Top.id
    BY <1>2
  <2>2. PICK a, b : a = sc.curPushedStreams - 1 /\ b = sc.curClientStreams - 1
    OBVIOUS
  <2>3. /\ st' = [st EXCEPT ![id] = [st[id] EXCEPT !.state = "closed"]]
        /\ sc' = [sc EXCEPT !.curPushedStreams = a] \/ sc' = [sc EXCEPT !.curClientStreams = b]
    BY <1>4, <2>1, <2>2 DEF closeStream
  <2>4. /\ sc'.flow = sc.flow /\ sc'.connInc = sc.connInc /\ sc'.connSent = sc.connSent
        /\ sc'.initialStreamSendWindowSize = sc.initialStreamSendWindowSize
        /\ sc'.misgrown = sc.misgrown
    BY <1>2, <2>3 DEF Sessions
  <2>5. /\ \A i \in Ids : /\ st'[i].flow = st[i].flow /\ st'[i].inc = st[i].inc
                          /\ st'[i].spent = st[i].spent
                          /\ st'[i].state = IF i = id THEN "closed" ELSE st[i].state
    BY <1>2, <2>3 DEF StreamObjects
  <2>6. {i \in Ids : InMap(i)'} = {i \in Ids : InMap(i)} \ {id}
    BY <2>5 DEF InMap, Live
  <2>7. {i \in Ids : st'[i].state # "idle"} = {i \in Ids : st[i].state # "idle"}
    BY <1>1, <2>1, <2>5 DEF InMap, Live
  <2>8. /\ [i \in Ids |-> st'[i].flow] = [i \in Ids |-> st[i].flow]
        /\ [i \in Ids |-> st'[i].inc] = [i \in Ids |-> st[i].inc]
        /\ [i \in Ids |-> st'[i].spent] = [i \in Ids |-> st[i].spent]
    BY <2>5
  <2>9. Ledger!CloseStream(id)
    BY <1>1, <2>1, <2>4, <2>6, <2>7, <2>8 DEF Ledger!CloseStream
  <2> QED BY <2>4, <2>5, <2>9 DEF SameCredit
<1> QED BY <1>3, <1>4

(* newStream: HEADERS or OpenStream create a stream.                       *)
LEMMA CreatedLedger ==
    ASSUME Typed, Ledger!Inv, NEW id \in Ids, id > MaxStreamID(id),
           NEW state \in {"open", "halfClosedRemote"}, NEW held \in BOOLEAN,
           st' = [st EXCEPT ![id] = NewStream(state, held)],
           sc' = Counted(SetMaxStreamID(sc, id), id)
    PROVE  SameCredit /\ Ledger!NewStream(id)
<1>1. sc \in Sessions /\ st \in [Ids -> StreamObjects]
  BY DEF Typed
<1>2. PICK s : s = SetMaxStreamID(sc, id)
  OBVIOUS
<1>3. s \in Sessions
  BY <1>1, <1>2, SetMaxStreamIDTyped
<1>4. SameWindows(s, sc)
  BY <1>1, <1>2 DEF SetMaxStreamID, SameWindows, Sessions
<1>5. PICK a, b : a = s.curPushedStreams + 1 /\ b = s.curClientStreams + 1
  OBVIOUS
<1>6. sc' = [s EXCEPT !.curPushedStreams = a] \/ sc' = [s EXCEPT !.curClientStreams = b]
  BY <1>2, <1>5 DEF Counted
<1>7. SameWindows(sc', sc)
  BY <1>3, <1>4, <1>6 DEF SameWindows, Sessions
<1>8. st[id].state = "idle"
  <2>1. id \in Nat /\ MaxStreamID(id) \in Nat
    BY <1>1, MaxStreamIDNat DEF Ids, MaxStreamID
  <2>2. id \notin Known
    BY <2>1 DEF Typed, StreamsOK
  <2> QED BY <2>2 DEF Known
<1>9. st[id].inc = 0 /\ st[id].spent = 0
  BY <1>8, LedgerFields
<1>10. PICK w : w = sc.initialStreamSendWindowSize
  OBVIOUS
<1>11. PICK r : r = NewStream(state, held)
  OBVIOUS
<1>12. r.state = state /\ r.flow = w /\ r.inc = 0 /\ r.spent = 0
  BY <1>10, <1>11 DEF NewStream, NoStream
<1>13. /\ \A i \in Ids : i # id => st'[i] = st[i]
       /\ st'[id] = r
  BY <1>1, <1>11
<1>14. {i \in Ids : InMap(i)'} = {i \in Ids : InMap(i)} \union {id}
  BY <1>12, <1>13 DEF InMap, Live
<1>15. {i \in Ids : st'[i].state # "idle"} = {i \in Ids : st[i].state # "idle"} \union {id}
  BY <1>12, <1>13
<1>16. [i \in Ids |-> st'[i].flow] = [[i \in Ids |-> st[i].flow] EXCEPT ![id] = w]
  <2>1. PICK f, g : f = [i \in Ids |-> st[i].flow] /\ g = [i \in Ids |-> st'[i].flow]
    OBVIOUS
  <2>2. \A i \in Ids : g[i] = IF i = id THEN w ELSE f[i]
    BY <1>12, <1>13, <2>1
  <2>3. g = [f EXCEPT ![id] = w]
    BY <2>1, <2>2, Updated
  <2> QED BY <2>1, <2>3
<1>17. /\ [i \in Ids |-> st'[i].inc] = [i \in Ids |-> st[i].inc]
       /\ [i \in Ids |-> st'[i].spent] = [i \in Ids |-> st[i].spent]
  BY <1>9, <1>12, <1>13
<1>18. Ledger!NewStream(id)
  BY <1>7, <1>8, <1>10, <1>14, <1>15, <1>16, <1>17 DEF Ledger!NewStream, SameWindows
<1>19. SameCredit
  BY <1>7, <1>9, <1>12, <1>13 DEF SameCredit, SameWindows
<1> QED BY <1>18, <1>19

-------------------------------------------------------------------------------
(* Consume takes no more than the windows hold.                            *)
LEMMA PoppedFits ==
    ASSUME Typed, Ledger!Inv, NEW i \in Ids, i \in ReadyQueues,
           Consumed(Head(q[i])).kind = "data", Consumed(Head(q[i])).n # 0
    PROVE  /\ Consumed(Head(q[i])).n \in 1 .. MaxInt32
           /\ Consumed(Head(q[i])).n <= available(st[i].flow, sc.flow)
<1>1. PICK h : h = Head(q[i])
  OBVIOUS
<1>2. /\ h \in Requests(Known) /\ h.kind = "data" /\ h.id = i
      /\ Consumed(h) \in Requests(Known)
  BY <1>1, PoppedTyped DEF Queueable
<1>3. st[i].flow \in Int32 /\ sc.flow \in Int32 /\ sc.maxFrameSize \in Nat
  BY LedgerFields DEF Typed, Sessions
<1>4. Allowed(i) \in Int
  BY AllowedInt
<1>5. Allowed(i) <= available(st[i].flow, sc.flow) /\ available(st[i].flow, sc.flow) \in Int32
  BY <1>3, MaxInt32Assumption DEF Allowed, available, Int32, MinInt32
<1>6. h.n \in Nat /\ h \in WriteRequests
  BY <1>2 DEF Requests, WriteRequests
<1>7. Consumed(h).n <= Allowed(i) /\ Consumed(h).n \in Nat
  <2>1. CASE Splits(h)
    <3>1. PICK a : a = Allowed(i)
      OBVIOUS
    <3>2. Consumed(h) = [h EXCEPT !.n = a, !.end = FALSE, !.by = Nobody]
      BY <1>2, <2>1, <3>1 DEF Consumed
    <3>3. Consumed(h).n = a
      BY <1>6, <3>2 DEF WriteRequests
    <3> QED BY <1>2, <1>4, <3>1, <3>3 DEF Requests, WriteRequests
  <2>2. CASE ~Splits(h)
    <3>1. Consumed(h) = h
      BY <2>2 DEF Consumed
    <3>2. ~(h.n > Allowed(i))
      BY <1>1, <1>2, <1>6, <2>2, <3>1 DEF Splits
    <3> QED BY <1>4, <1>6, <3>1, <3>2
  <2> QED BY <2>1, <2>2
<1>8. Consumed(h).n <= available(st[i].flow, sc.flow)
  <2>1. PICK c, a, b \in Int : /\ c = Consumed(h).n /\ a = Allowed(i)
                               /\ b = available(st[i].flow, sc.flow)
    BY <1>4, <1>5, <1>7 DEF Int32, MinInt32
  <2> QED BY <1>5, <1>7, <2>1
<1> QED BY <1>1, <1>5, <1>7, <1>8, MaxInt32Assumption DEF Int32, MinInt32

(* Taking n from a window and adding it to what was sent.                  *)
LEMMA Charged ==
    ASSUME NEW w \in Int, NEW c \in Nat, NEW n \in Nat
    PROVE  w - n \in Int /\ c + n \in Nat /\ (n = 0 => w - n = w /\ c + n = c)
OBVIOUS

(* What Consume may take, of the ledger and of the session.                *)
LEMMA LedgerAllowed ==
    ASSUME NEW s \in Ids, NEW x \in Int, x = available(st[s].flow, sc.flow)
    PROVE  Ledger!Allowed(s) = IF MaxInt32 < x THEN MaxInt32 ELSE x
<1>1. [id \in Ids |-> st[id].flow][s] = st[s].flow
  OBVIOUS
<1>2. Ledger!available([id \in Ids |-> st[id].flow][s], sc.flow) = x
  BY <1>1, SameArithmetic
<1> QED BY <1>2, Zenon DEF Ledger!Allowed

(* The smaller of a window and the frame size, as Consume computes it.     *)
LEMMA Smaller ==
    /\ \A x \in Int32 : x \in Int
    /\ \A k \in 1 .. MaxInt32, x \in Int : k <= x =>
          /\ (IF MaxInt32 < x THEN MaxInt32 ELSE x) \in Int
          /\ k <= IF MaxInt32 < x THEN MaxInt32 ELSE x
    /\ \A k \in 1 .. MaxInt32, m \in Int : k <= m => m > 0 /\ k = IF k > m THEN m ELSE k
BY MaxInt32Assumption DEF Int32, MinInt32

LEMMA LoopPopLedger ==
    ASSUME Typed, Discipline, Ledger!Inv, NEW i \in Ids \union {0}, LoopPop(i),
           panic' # "frame on closed stream"
    PROVE  /\ SameCredit
           /\ \/ SameLedger
              \/ \E s \in Ids, len \in 1 .. MaxInt32 : Ledger!Consume(s, len)
<1>1. PICK wr : wr = Consumed(Head(q[i]))
  OBVIOUS
<1>2. PICK n : n = IF wr.kind = "data" THEN wr.n ELSE 0
  OBVIOUS
<1>3. PICK s : s = [sc EXCEPT !.flow = @ - n, !.connSent = @ + n]
  OBVIOUS
<1>4. /\ startFrameWrite(s, wr) /\ i \in ReadyQueues /\ Running("loop")
      /\ st' = IF n = 0 THEN st
               ELSE [st EXCEPT ![i] = [@ EXCEPT !.flow = st[i].flow - n, !.spent = st[i].spent + n]]
  BY <1>1, <1>2, <1>3 DEF LoopPop
<1>5. wr \in Requests(Known) /\ (wr.kind = "data" => i \in Ids /\ i \in Known)
  <2>1. wr.kind = "data" => i \in Known
    BY <1>1, <1>4, PoppedTyped
  <2> QED BY <1>1, <1>4, <2>1, PoppedTyped DEF Known
<1>6. sc \in Sessions /\ n \in Nat /\ st \in [Ids -> StreamObjects]
  BY <1>2, <1>5 DEF Typed, Requests, WriteRequests
<1>7. PICK a, b : a = sc.flow - n /\ b = sc.connSent + n /\ a \in Int /\ b \in Nat
  <2>1. sc.flow \in Int /\ sc.connSent \in Nat
    BY <1>6 DEF Sessions
  <2>2. sc.flow - n \in Int /\ sc.connSent + n \in Nat
    BY <1>6, <2>1, Charged
  <2> QED BY <2>2
<1>8. s = [sc EXCEPT !.flow = a, !.connSent = b] /\ s \in Sessions
  BY <1>3, <1>6, <1>7, ChargeTyped
<1>9. SameSums(sc', s)
  BY <1>4, <1>8, StartQuiet
<1>10. /\ sc'.flow = a /\ sc'.connSent = b /\ sc'.connInc = sc.connInc
       /\ sc'.initialStreamSendWindowSize = sc.initialStreamSendWindowSize
       /\ sc'.misgrown = sc.misgrown
  BY <1>6, <1>8, <1>9 DEF SameSums, Sessions
<1>11. CASE n = 0
  <2>1. a = sc.flow /\ b = sc.connSent
    <3>1. sc.flow \in Int /\ sc.connSent \in Nat
      BY <1>6 DEF Sessions
    <3> QED BY <1>6, <1>7, <1>11, <3>1, Charged
  <2> QED BY <1>4, <1>10, <1>11, <2>1 DEF SameLedger, SameCredit, InMap
<1>12. CASE n # 0
  <2>1. wr.kind = "data" /\ n = wr.n /\ i \in Ids /\ i \in Known
    BY <1>2, <1>5, <1>12
  <2>2. n \in 1 .. MaxInt32 /\ n <= available(st[i].flow, sc.flow)
    BY <1>1, <1>4, <1>12, <2>1, PoppedFits
  <2>3. InMap(i)
    <3>1. ASSUME ~InMap(i) PROVE FALSE
      <4>1. st[i].state = "closed"
        BY <1>6, <2>1, <3>1 DEF Known, InMap, Live, StreamObjects, StreamStates
      <4>2. ~sc.writingFrame
        BY <1>4, RunningInner
      <4>3. wr.id = i
        <5>1. Head(q[i]).id = i /\ Head(q[i]) \in WriteRequests
          BY <1>1, <1>4, <2>1, PoppedTyped DEF Queueable, Requests
        <5>2. wr = Head(q[i]) \/ \E x : wr = [Head(q[i]) EXCEPT !.n = x, !.end = FALSE, !.by = Nobody]
          BY <1>1 DEF Consumed
        <5> QED BY <5>1, <5>2 DEF WriteRequests
      <4>4. StartPanic(wr) = "frame on closed stream"
        BY <2>1, <4>1, <4>2, <4>3, IdsFacts DEF StartPanic, HasStream
      <4> QED BY <1>4, <4>4 DEF startFrameWrite
    <3> QED BY <3>1
  <2>4. PICK c, d : c = st[i].flow - n /\ d = st[i].spent + n
    OBVIOUS
  <2>5. st' = [st EXCEPT ![i] = [st[i] EXCEPT !.flow = c, !.spent = d]]
    BY <1>4, <1>12, <2>4
  <2>6. \A k \in Ids : /\ st'[k].flow = IF k = i THEN c ELSE st[k].flow
                       /\ st'[k].spent = IF k = i THEN d ELSE st[k].spent
                       /\ st'[k].state = st[k].state /\ st'[k].inc = st[k].inc
    BY <1>6, <2>1, <2>5 DEF StreamObjects
  <2>7. PICK f, g : f = [k \in Ids |-> st[k].flow] /\ g = [k \in Ids |-> st'[k].flow]
    OBVIOUS
  <2>8. g = [f EXCEPT ![i] = c]
    BY <2>1, <2>6, <2>7, Updated
  <2>9. PICK u, v : u = [k \in Ids |-> st[k].spent] /\ v = [k \in Ids |-> st'[k].spent]
    OBVIOUS
  <2>10. v = [u EXCEPT ![i] = d]
    BY <2>1, <2>6, <2>9, Updated
  <2>11. /\ {k \in Ids : InMap(k)'} = {k \in Ids : InMap(k)}
         /\ {k \in Ids : st'[k].state # "idle"} = {k \in Ids : st[k].state # "idle"}
         /\ [k \in Ids |-> st'[k].inc] = [k \in Ids |-> st[k].inc]
    BY <2>6 DEF InMap
  <2>12. f[i] = st[i].flow /\ u[i] = st[i].spent
    BY <2>1, <2>7, <2>9
  <2>13. Ledger!Allowed(i) \in Int /\ n <= Ledger!Allowed(i)
    <3>1. PICK x \in Int32 : x = available(st[i].flow, sc.flow)
      BY <2>1, LedgerFields DEF available
    <3>2. Ledger!Allowed(i) = IF MaxInt32 < x THEN MaxInt32 ELSE x
      <4>1. x \in Int
        BY Smaller, Zenon
      <4> QED BY <2>1, <3>1, <4>1, LedgerAllowed, Zenon
    <3>3. PICK z : z = Ledger!Allowed(i)
      OBVIOUS
    <3>4. z \in Int /\ n <= z
      <4>1. n \in 1 .. MaxInt32 /\ n <= x /\ z = IF MaxInt32 < x THEN MaxInt32 ELSE x
        BY <2>2, <3>1, <3>2, <3>3, Zenon
      <4>2. x \in Int
        BY Smaller, Zenon
      <4> QED BY <4>1, <4>2, Smaller, Zenon
    <3> QED BY <3>3, <3>4, Zenon
  <2>14. PICK m \in Int : m = Ledger!Allowed(i)
    BY <2>13
  <2>15. m > 0 /\ n = IF n > m THEN m ELSE n
    <3>1. n <= m
      BY <2>13, <2>14, Zenon
    <3>2. n \in 1 .. MaxInt32
      BY <2>2, Zenon
    <3> QED BY <3>1, <3>2, Smaller, Zenon
  <2>16. Ledger!Consume(i, n)
    <3>1. i \in {k \in Ids : InMap(k)}
      BY <2>1, <2>3
    <3>2. g = [f EXCEPT ![i] = f[i] - n] /\ v = [u EXCEPT ![i] = u[i] + n]
      BY <2>4, <2>8, <2>10, <2>12
    <3> QED BY <1>7, <1>10, <2>7, <2>9, <2>11, <2>14, <2>15, <3>1, <3>2
            DEF Ledger!Consume, Ledger!TakenFromConn
  <2> QED BY <1>10, <2>1, <2>2, <2>6, <2>16 DEF SameCredit
<1> QED BY <1>11, <1>12

-------------------------------------------------------------------------------
(* What k frames can grant.                                                *)
LEMMA GrantsGrow ==
    /\ \A a, b \in Nat : a <= b => a * MaxInt32 <= b * MaxInt32
    /\ \A a \in Nat : a * MaxInt32 \in Nat /\ (a + 1) * MaxInt32 = a * MaxInt32 + MaxInt32
BY MaxInt32Assumption

LEMMA GrantedNat ==
    ASSUME Typed, Budget
    PROVE  /\ PeerBudget - peerLeft - Unread \in Nat /\ Granted \in Nat
           /\ Granted <= PeerBudget * MaxInt32 /\ PeerBudget * MaxInt32 \in Nat
           /\ Unread = 1 => Granted + MaxInt32 <= PeerBudget * MaxInt32
<1>1. peerLeft \in Nat /\ PeerBudget \in Nat
  BY SessionAssumption DEF Typed
<1>2. Unread \in {0, 1}
  BY DEF Unread
<1>3. PICK k : k = PeerBudget - peerLeft - Unread
  OBVIOUS
<1>4. k \in Nat /\ k <= PeerBudget /\ (Unread = 1 => k + 1 <= PeerBudget)
  BY <1>1, <1>2, <1>3 DEF Budget
<1>5. k + 1 \in Nat
  BY <1>4
<1>6. /\ k * MaxInt32 \in Nat /\ k * MaxInt32 <= PeerBudget * MaxInt32
      /\ PeerBudget * MaxInt32 \in Nat
      /\ Unread = 1 => (k + 1) * MaxInt32 <= PeerBudget * MaxInt32
      /\ (k + 1) * MaxInt32 = k * MaxInt32 + MaxInt32
  BY <1>1, <1>4, <1>5, GrantsGrow, Zenon
<1>7. Granted = k * MaxInt32
  BY <1>3 DEF Granted
<1> QED BY <1>3, <1>4, <1>6, <1>7

(* What the handler of a WINDOW_UPDATE frame leaves of the session.        *)
LEMMA ScheduledWindows ==
    ASSUME NEW s \in Sessions, ThenSchedule(s)
    PROVE  SameWindows(sc', s)
BY DEF ThenSchedule, ScheduleFrameWrite, SameWindows, Sessions

LEMMA ConnWindowUpdateLedger ==
    ASSUME Typed, Budget, Unread = 1, NEW n \in 1 .. MaxInt32, addOK(sc.flow, n), st' = st,
           ThenSchedule([sc EXCEPT !.flow = added(sc.flow, n), !.connInc = sc.connInc + n])
    PROVE  /\ sc'.connInc = sc.connInc + n
           /\ Ledger!ConnWindowUpdate(n)
<1>1. sc \in Sessions
  BY DEF Typed
<1>2. sc.flow \in Int /\ sc.connInc \in Nat /\ n \in Int /\ n \in Nat
  BY <1>1, MaxInt32Assumption DEF Sessions
<1>3. PICK a \in Int : a = added(sc.flow, n)
  BY <1>2, AddedInt, Zenon
<1>4. PICK b \in Nat : b = sc.connInc + n
  BY <1>2
<1>5. PICK s : s = [sc EXCEPT !.flow = a, !.connInc = b]
  OBVIOUS
<1>6. s \in Sessions
  BY <1>1, <1>5 DEF Sessions
<1>7. SameWindows(sc', s)
  BY <1>3, <1>4, <1>5, <1>6, ScheduledWindows
<1>8. /\ sc'.flow = a /\ sc'.connInc = b /\ sc'.connSent = sc.connSent
      /\ sc'.initialStreamSendWindowSize = sc.initialStreamSendWindowSize
      /\ sc'.misgrown = sc.misgrown
  BY <1>1, <1>5, <1>7 DEF SameWindows, Sessions
<1>9. b <= PeerBudget * MaxInt32
  <2>1. sc.connInc <= Granted /\ Granted \in Nat /\ PeerBudget * MaxInt32 \in Nat
        /\ Granted + MaxInt32 <= PeerBudget * MaxInt32
    BY GrantedNat DEF Budget
  <2>2. PICK g, h \in Nat : g = Granted /\ h = PeerBudget * MaxInt32
    BY <2>1
  <2> QED BY <1>2, <1>4, <2>1, <2>2, MaxInt32Assumption
<1>10. Ledger!addOK(sc.flow, n) /\ Ledger!added(sc.flow, n) = a
  BY <1>3, SameArithmetic
<1>11. /\ {k \in Ids : InMap(k)'} = {k \in Ids : InMap(k)}
       /\ {k \in Ids : st'[k].state # "idle"} = {k \in Ids : st[k].state # "idle"}
       /\ [k \in Ids |-> st'[k].flow] = [k \in Ids |-> st[k].flow]
       /\ [k \in Ids |-> st'[k].inc] = [k \in Ids |-> st[k].inc]
       /\ [k \in Ids |-> st'[k].spent] = [k \in Ids |-> st[k].spent]
  BY DEF InMap
<1>12. Ledger!ConnWindowUpdate(n)
  BY <1>4, <1>8, <1>9, <1>10, <1>11 DEF Ledger!ConnWindowUpdate
<1> QED BY <1>4, <1>8, <1>12

(* The increment n, on a stream.                                           *)
Credited(id, n) ==
    st' = [st EXCEPT ![id] = [st[id] EXCEPT !.flow = added(st[id].flow, n),
                                            !.inc = st[id].inc + n]]

LEMMA StreamWindowUpdateLedger ==
    ASSUME Typed, Budget, Unread = 1, NEW n \in 1 .. MaxInt32, NEW id \in Ids, InMap(id),
           addOK(st[id].flow, n), ThenSchedule(sc), Credited(id, n)
    PROVE  /\ \A k \in Ids : st'[k].inc <= st[k].inc + MaxInt32
           /\ SameWindows(sc', sc)
           /\ Ledger!WindowUpdate(id, n)
<1>1. sc \in Sessions /\ st \in [Ids -> StreamObjects]
  BY DEF Typed
<1>2. st[id].flow \in Int /\ st[id].inc \in Nat /\ n \in Int /\ n \in Nat
  BY <1>1, MaxInt32Assumption DEF StreamObjects
<1>3. PICK a, b : a = added(st[id].flow, n) /\ b = st[id].inc + n
  OBVIOUS
<1>4. st' = [st EXCEPT ![id] = [st[id] EXCEPT !.flow = a, !.inc = b]]
  BY <1>3 DEF Credited
<1>5. \A k \in Ids : /\ st'[k].flow = IF k = id THEN a ELSE st[k].flow
                     /\ st'[k].inc = IF k = id THEN b ELSE st[k].inc
                     /\ st'[k].state = st[k].state /\ st'[k].spent = st[k].spent
  BY <1>1, <1>4 DEF StreamObjects
<1>6. SameWindows(sc', sc)
  BY <1>1, ScheduledWindows
<1>7. b \in Nat /\ b <= PeerBudget * MaxInt32
  <2>1. st[id].inc <= Granted /\ Granted \in Nat /\ PeerBudget * MaxInt32 \in Nat
        /\ Granted + MaxInt32 <= PeerBudget * MaxInt32
    BY GrantedNat DEF Budget
  <2>2. PICK g, h, i \in Nat : g = Granted /\ h = PeerBudget * MaxInt32 /\ i = st[id].inc
    BY <1>2, <2>1
  <2> QED BY <1>2, <1>3, <2>1, <2>2, MaxInt32Assumption
<1>8. Ledger!addOK(st[id].flow, n) /\ Ledger!added(st[id].flow, n) = a
  BY <1>3, SameArithmetic
<1>9. PICK f, g : f = [k \in Ids |-> st[k].flow] /\ g = [k \in Ids |-> st'[k].flow]
  OBVIOUS
<1>10. g = [f EXCEPT ![id] = a] /\ f[id] = st[id].flow
  BY <1>5, <1>9, Updated
<1>11. PICK u, v : u = [k \in Ids |-> st[k].inc] /\ v = [k \in Ids |-> st'[k].inc]
  OBVIOUS
<1>12. v = [u EXCEPT ![id] = b] /\ u[id] = st[id].inc
  BY <1>5, <1>11, Updated
<1>13. /\ {k \in Ids : InMap(k)'} = {k \in Ids : InMap(k)}
       /\ {k \in Ids : st'[k].state # "idle"} = {k \in Ids : st[k].state # "idle"}
       /\ [k \in Ids |-> st'[k].spent] = [k \in Ids |-> st[k].spent]
       /\ id \in {k \in Ids : InMap(k)}
  BY <1>5 DEF InMap
<1>14. Ledger!WindowUpdate(id, n)
  <2>1. Ledger!addOK(f[id], n)
    BY <1>8, <1>10
  <2>2. u[id] + n <= PeerBudget * MaxInt32
    BY <1>3, <1>7, <1>12
  <2>3. g = [f EXCEPT ![id] = Ledger!added(f[id], n)]
    BY <1>8, <1>10
  <2>4. v = [u EXCEPT ![id] = IF Ledger!addOK(f[id], n) THEN u[id] + n ELSE u[id]]
    BY <1>3, <1>12, <2>1
  <2> QED BY <1>6, <1>9, <1>11, <1>13, <2>2, <2>3, <2>4 DEF Ledger!WindowUpdate, SameWindows
<1>15. \A k \in Ids : st'[k].inc <= st[k].inc + MaxInt32
  <2>1. \A k \in Ids : st[k].inc \in Nat
    BY <1>1 DEF StreamObjects
  <2>2. \A x \in Nat : x <= x + MaxInt32 /\ x + n <= x + MaxInt32
    BY <1>2, MaxInt32Assumption
  <2>3. \A k \in Ids : st'[k].inc = st[k].inc \/ st'[k].inc = st[k].inc + n
    BY <1>3, <1>5
  <2> QED BY <2>1, <2>2, <2>3
<1> QED BY <1>6, <1>14, <1>15

LEMMA processWindowUpdateLedger ==
    ASSUME Typed, Budget, processWindowUpdate
    PROVE  /\ Unread = 1 /\ Unread' = 0 /\ peerLeft' = peerLeft
           /\ \/ SameLedger
              \/ /\ sc'.connInc <= sc.connInc + MaxInt32
                 /\ \A k \in Ids : st'[k].inc <= st[k].inc + MaxInt32
                 /\ \/ \E n \in 1 .. MaxInt32 : Ledger!ConnWindowUpdate(n)
                    \/ \E id \in Ids, n \in 1 .. MaxInt32 : Ledger!WindowUpdate(id, n)
<1>1. sc \in Sessions /\ st \in [Ids -> StreamObjects] /\ reader \in FrameReaders
  BY DEF Typed
<1>2. Receive("windowUpdate")
  BY DEF processWindowUpdate, Handled
<1>3. Unread = 1 /\ Unread' = 0 /\ peerLeft' = peerLeft
  <2>1. reader.stage = "offer" /\ reader.f.t = "windowUpdate" /\ reader'.stage = "gate"
    BY <1>1, <1>2 DEF Receive, FrameReaders
  <2> QED BY <2>1 DEF Unread, processWindowUpdate
<1>4. PICK id \in Ids \union {0}, n \in 1 .. MaxInt32 : id = frame.id /\ n = frame.n
  <2>1. frame.id \in Ids \union {0} /\ frame \in Frames /\ frame.t = "windowUpdate"
    BY <1>2, ReceiveTyped
  <2> QED BY <2>1 DEF Frames
<1>5. \/ /\ id = 0 /\ addOK(sc.flow, n) /\ st' = st
         /\ ThenSchedule([sc EXCEPT !.flow = added(sc.flow, n), !.connInc = sc.connInc + n])
      \/ /\ id # 0 /\ InMap(id) /\ addOK(st[id].flow, n) /\ ThenSchedule(sc)
         /\ st' = [st EXCEPT ![id] = [st[id] EXCEPT !.flow = added(st[id].flow, n),
                                                    !.inc = st[id].inc + n]]
      \/ sc' = sc /\ st' = st
  BY <1>4, Zenon DEF processWindowUpdate
<1>6. /\ sc.connInc \in Nat /\ n \in Nat /\ n <= MaxInt32 /\ MaxInt32 \in Nat
      /\ \A k \in Ids : st[k].inc \in Nat
  BY <1>1, MaxInt32Assumption DEF Sessions, StreamObjects
<1>7. CASE sc' = sc /\ st' = st
  BY <1>3, <1>7 DEF SameLedger, InMap
<1>8. CASE /\ id = 0 /\ addOK(sc.flow, n) /\ st' = st
           /\ ThenSchedule([sc EXCEPT !.flow = added(sc.flow, n), !.connInc = sc.connInc + n])
  <2>1. sc'.connInc = sc.connInc + n /\ Ledger!ConnWindowUpdate(n)
    BY <1>3, <1>8, ConnWindowUpdateLedger
  <2>2. sc'.connInc <= sc.connInc + MaxInt32 /\ \A k \in Ids : st'[k].inc <= st[k].inc + MaxInt32
    BY <1>6, <1>8, <2>1
  <2> QED BY <1>3, <2>1, <2>2
<1>9. CASE /\ id # 0 /\ InMap(id) /\ addOK(st[id].flow, n) /\ ThenSchedule(sc)
           /\ st' = [st EXCEPT ![id] = [st[id] EXCEPT !.flow = added(st[id].flow, n),
                                                      !.inc = st[id].inc + n]]
  <2>1. id \in Ids
    BY <1>9
  <2>2. /\ \A k \in Ids : st'[k].inc <= st[k].inc + MaxInt32
        /\ SameWindows(sc', sc)
        /\ Ledger!WindowUpdate(id, n)
    BY <1>3, <1>9, <2>1, StreamWindowUpdateLedger DEF Credited
  <2>4. sc'.connInc <= sc.connInc + MaxInt32
    BY <1>6, <2>2 DEF SameWindows
  <2> QED BY <1>3, <2>1, <2>2, <2>4
<1> QED BY <1>5, <1>7, <1>8, <1>9

LEMMA InitialWindowSizeLedger ==
    ASSUME Typed, processSettingInitialWindowSize
    PROVE  SameCredit /\ \E v \in 0 .. MaxInt32 : Ledger!InitialWindowSize(v)
<1>1. sc \in Sessions /\ st \in [Ids -> StreamObjects]
  BY DEF Typed
<1>2. PICK v \in 0 .. MaxInt32 : v = Head(Top.set).v
  <2>1. Head(Top.set) \in Settings /\ Head(Top.set).k = "initWin"
    BY NextSettingTyped DEF processSettingInitialWindowSize
  <2> QED BY <2>1, MaxInt32Assumption DEF Settings
<1>3. PICK d : d = v - sc.initialStreamSendWindowSize
  OBVIOUS
<1>4. PICK refusing : refusing = {id \in Ids : InMap(id) /\ ~addOK(st[id].flow, d)}
  OBVIOUS
<1>5. PICK accepting : accepting = {id \in Ids : InMap(id)} \ refusing
  OBVIOUS
<1>6. PICK b \in BOOLEAN : b = (sc.misgrown \/ refusing # {})
  BY <1>1 DEF Sessions
<1>7. sc' = [sc EXCEPT !.initialStreamSendWindowSize = v, !.misgrown = b]
  BY <1>2, <1>3, <1>4, <1>6 DEF processSettingInitialWindowSize
<1>8. PICK grown \in SUBSET accepting :
        /\ refusing = {} => grown = accepting
        /\ st' = [id \in Ids |-> IF id \in grown
                                 THEN [st[id] EXCEPT !.flow = added(st[id].flow, d)]
                                 ELSE st[id]]
  <2>1. \E grown \in SUBSET ({id \in Ids : InMap(id)} \
                            {id \in Ids : InMap(id) /\ ~addOK(st[id].flow, Head(Top.set).v
                                                       - sc.initialStreamSendWindowSize)}) :
          /\ {id \in Ids : InMap(id) /\ ~addOK(st[id].flow, Head(Top.set).v
                                            - sc.initialStreamSendWindowSize)} = {} =>
             grown = {id \in Ids : InMap(id)} \
                     {id \in Ids : InMap(id) /\ ~addOK(st[id].flow, Head(Top.set).v
                                                - sc.initialStreamSendWindowSize)}
          /\ st' = [id \in Ids |-> IF id \in grown
                                   THEN [st[id] EXCEPT !.flow = added(@,
                                          Head(Top.set).v - sc.initialStreamSendWindowSize)]
                                   ELSE st[id]]
    BY Zenon DEF processSettingInitialWindowSize
  <2> QED BY <1>2, <1>3, <1>4, <1>5, <2>1
<1>9. \A id \in Ids :
        /\ st'[id].flow = IF id \in grown THEN added(st[id].flow, d) ELSE st[id].flow
        /\ st'[id].state = st[id].state /\ st'[id].inc = st[id].inc /\ st'[id].spent = st[id].spent
  <2> TAKE id \in Ids
  <2>1. PICK a : a = added(st[id].flow, d)
    OBVIOUS
  <2>2. PICK r : r = [st[id] EXCEPT !.flow = a]
    OBVIOUS
  <2>3. r.flow = a /\ r.inc = st[id].inc /\ r.state = st[id].state /\ r.spent = st[id].spent
    BY <1>1, <2>2 DEF StreamObjects
  <2>4. st'[id] = IF id \in grown THEN r ELSE st[id]
    BY <1>8, <2>1, <2>2
  <2> QED BY <2>1, <2>3, <2>4
<1>10. /\ sc'.flow = sc.flow /\ sc'.connInc = sc.connInc /\ sc'.connSent = sc.connSent
       /\ sc'.initialStreamSendWindowSize = v /\ sc'.misgrown = b
  BY <1>1, <1>7 DEF Sessions
<1>12. /\ {k \in Ids : InMap(k)'} = {k \in Ids : InMap(k)}
       /\ {k \in Ids : st'[k].state # "idle"} = {k \in Ids : st[k].state # "idle"}
       /\ [k \in Ids |-> st'[k].inc] = [k \in Ids |-> st[k].inc]
       /\ [k \in Ids |-> st'[k].spent] = [k \in Ids |-> st[k].spent]
  BY <1>9 DEF InMap
<1>13. Ledger!Growth(v) = d
  BY <1>3 DEF Ledger!Growth
<1>14. refusing = {s \in {id \in Ids : InMap(id)} :
                     ~Ledger!addOK([id \in Ids |-> st[id].flow][s], Ledger!Growth(v))}
  BY <1>4, <1>13, SameArithmetic
<1>15. [id \in Ids |-> st'[id].flow] =
         [s \in Ids |-> IF s \in grown
                       THEN Ledger!added([id \in Ids |-> st[id].flow][s], Ledger!Growth(v))
                       ELSE [id \in Ids |-> st[id].flow][s]]
  BY <1>9, <1>13, SameArithmetic
<1>16. \E done \in SUBSET ({id \in Ids : InMap(id)} \ refusing) :
         /\ refusing = {} => done = {id \in Ids : InMap(id)}
         /\ [id \in Ids |-> st'[id].flow] =
              [s \in Ids |-> IF s \in done
                            THEN Ledger!added([id \in Ids |-> st[id].flow][s], Ledger!Growth(v))
                            ELSE [id \in Ids |-> st[id].flow][s]]
  <2>1. grown \in SUBSET ({id \in Ids : InMap(id)} \ refusing)
    BY <1>5
  <2>2. refusing = {} => grown = {id \in Ids : InMap(id)}
    BY <1>5, <1>8
  <2> QED BY <1>15, <2>1, <2>2, Zenon
<1>17. sc'.misgrown = (sc.misgrown \/ refusing # {})
  BY <1>6, <1>10
<1>18. Ledger!InitialWindowSize(v)
  BY <1>10, <1>12, <1>14, <1>16, <1>17, Zenon DEF Ledger!InitialWindowSize
<1> QED BY <1>9, <1>10, <1>18 DEF SameCredit

-------------------------------------------------------------------------------
(* HEADERS and createStream open a stream, or leave the ledger alone.      *)
LEMMA HeadersLedger ==
    ASSUME Typed, Ledger!Inv, processHeaders, HeadersOpenStream
    PROVE  SameLedger \/ (SameCredit /\ \E id \in Ids : Ledger!NewStream(id))
<1>1. PICK id \in Ids : id = frame.id
  BY FrameIdTyped DEF processHeaders, Handled
<1>2. CASE Local(id) \/ id <= MaxStreamID(id)
  <2>1. sc' = sc /\ st' = st
    BY <1>1, <1>2 DEF HeadersOpenStream
  <2> QED BY <2>1 DEF SameLedger, InMap
<1>3. CASE ~(Local(id) \/ id <= MaxStreamID(id)) /\ ~HasHandler
  <2>1. sc' = SetMaxStreamID(sc, id) /\ st' = st
    BY <1>1, <1>3 DEF HeadersOpenStream
  <2>2. SameWindows(sc', sc)
    BY <2>1 DEF SetMaxStreamID, SameWindows, Typed, Sessions
  <2> QED BY <2>1, <2>2 DEF SameLedger, SameWindows, InMap
<1>4. CASE ~(Local(id) \/ id <= MaxStreamID(id)) /\ HasHandler
  <2>1. PICK state, held : /\ state = IF frame.end THEN "halfClosedRemote" ELSE "open"
                           /\ held = (frame.x # "selfDep")
    OBVIOUS
  <2>2. /\ sc' = Counted(SetMaxStreamID(sc, id), id)
        /\ st' = [st EXCEPT ![id] = NewStream(state, held)]
    BY <1>1, <1>4, <2>1 DEF HeadersOpenStream
  <2>3. id > MaxStreamID(id)
    <3>1. id \in Nat /\ MaxStreamID(id) \in Nat
      BY MaxStreamIDNat DEF Ids, MaxStreamID, Typed
    <3> QED BY <1>4, <3>1
  <2>4. state \in {"open", "halfClosedRemote"} /\ held \in BOOLEAN
    BY <2>1
  <2>5. SameCredit /\ Ledger!NewStream(id)
    BY <2>2, <2>3, <2>4, CreatedLedger
  <2> QED BY <2>5
<1> QED BY <1>2, <1>3, <1>4

LEMMA createStreamLedger ==
    ASSUME Typed, Ledger!Inv, createStream
    PROVE  SameLedger \/ (SameCredit /\ \E id \in Ids : Ledger!NewStream(id))
<1>1. CASE curLocalStreams + 1 > sc.peerMaxStreams \/ LastLocalID + 2 >= StreamIDLimit
  <2>1. sc' = sc /\ st' = st
    BY <1>1 DEF createStream
  <2> QED BY <2>1 DEF SameLedger, InMap
<1>2. CASE ~(curLocalStreams + 1 > sc.peerMaxStreams \/ LastLocalID + 2 >= StreamIDLimit)
  <2>1. sc \in Sessions
    BY DEF Typed
  <2>2. LastLocalID \in Nat /\ StreamIDLimit \in Nat
    BY <2>1, MaxStreamIDNat, SessionAssumption DEF LastLocalID
  <2>3. NextLocalID \in Ids /\ NextLocalID > MaxStreamID(NextLocalID)
    BY <1>2, <2>1, <2>2, NextLocalIDFresh
  <2>4. PICK id \in Ids : id = NextLocalID
    BY <2>3
  <2>5. PICK state : state = IF Script[Head(msgs).c].end THEN "halfClosedRemote" ELSE "open"
    OBVIOUS
  <2>6. /\ sc' = Counted(SetMaxStreamID(sc, id), id)
        /\ st' = [st EXCEPT ![id] = NewStream(state, FALSE)]
    BY <1>2, <2>4, <2>5 DEF createStream
  <2>7. SameCredit /\ Ledger!NewStream(id)
    BY <2>3, <2>4, <2>5, <2>6, CreatedLedger
  <2> QED BY <2>7
<1> QED BY <1>1, <1>2

(* Every step of the session is one of the ledger, or leaves it alone,     *)
(* and only a WINDOW_UPDATE frame brings credit.                           *)
LEMMA LedgerSteps ==
    ASSUME Typed, Discipline, LedgerInv, [Next]_vars, panic' # "frame on closed stream"
    PROVE  /\ [Ledger!Next]_Ledger!vars
           /\ SameCredit \/ processWindowUpdate
<1>1. Typed /\ Discipline /\ Ledger!Inv /\ Budget
  BY DEF LedgerInv
<1>2. SameLedger => UNCHANGED Ledger!vars /\ SameCredit
  BY LedgerUnchanged DEF SameLedger, SameCredit
<1>3. Quiet \/ Loud
  BY QuietOrLoud
<1>4. CASE Quiet
  BY <1>2, <1>4, QuietLedger
<1>5. ASSUME NEW i \in Ids \union {0}, LoopPop(i)
      PROVE  [Ledger!Next]_Ledger!vars /\ SameCredit
  BY <1>1, <1>2, <1>5, LoopPopLedger DEF Ledger!Next
<1>6. CASE wroteFrame \/ closeRest \/ endStream
  BY <1>2, <1>6, EndsLedger
<1>7. CASE closeStream
  BY <1>7, closeStreamLedger DEF Ledger!Next
<1>8. CASE processWindowUpdate
  BY <1>1, <1>2, <1>8, processWindowUpdateLedger DEF Ledger!Next
<1>9. CASE processSettingInitialWindowSize
  BY <1>9, InitialWindowSizeLedger DEF Ledger!Next
<1>10. CASE processHeaders /\ HeadersOpenStream
  BY <1>1, <1>2, <1>10, HeadersLedger DEF Ledger!Next
<1>11. CASE createStream
  BY <1>1, <1>2, <1>11, createStreamLedger DEF Ledger!Next
<1>12. CASE processSetting
  <2>1. st' = st /\ \E v : \/ sc' = sc \/ sc' = [sc EXCEPT !.peerMaxStreams = v]
                           \/ sc' = [sc EXCEPT !.maxFrameSize = v]
    BY <1>12 DEF processSetting
  <2>2. SameLedger
    BY <2>1 DEF Typed, Sessions, SameLedger, InMap
  <2> QED BY <1>2, <2>2
<1> QED BY <1>3, <1>4, <1>5, <1>6, <1>7, <1>8, <1>9, <1>10, <1>11, <1>12 DEF Loud

-------------------------------------------------------------------------------
(* Only readFrames takes a frame of the peer, and only serve handles a     *)
(* WINDOW_UPDATE that readFrames has.                                      *)
SameReader == reader' = reader /\ peerLeft' = peerLeft

LEMMA WriterReads ==
    ASSUME WriteStep \/ writeFrameAsync \/ ServeStep \/ onShutdownTimer
    PROVE  SameReader \/ startReader
<1>1. CASE \/ writeFrame \/ reply \/ markReset \/ goAway("goAwayNo", "No")
           \/ goAway("goAwayErr", "Err") \/ writeFrameAsync \/ sendWindowUpdate
  BY <1>1 DEF writeFrame, reply, markReset, goAway, writeFrameAsync, sendWindowUpdate, Panic,
              SameReader
<1>2. CASE LoopGoAway \/ LoopSettingsAck \/ LoopFlush \/ LoopExit
  BY <1>2 DEF LoopGoAway, LoopSettingsAck, LoopFlush, LoopExit, SameReader
<1>3. ASSUME NEW i \in Ids \union {0}, LoopPop(i) PROVE SameReader
  BY <1>3 DEF LoopPop, SameReader
<1>4. CASE wroteFrame \/ closeStream \/ closeRest
  BY <1>4 DEF wroteFrame, closeStream, closeRest, Panic, SameReader
<1>5. CASE ServeStep \/ onShutdownTimer
  BY <1>5 DEF ServeStep, handshake, SelectWant, SelectWrote, SelectShutdown, SelectTimer,
              createStream, refuse, handOver, iter, exit, closeAllStreamsOnConnClose,
              onShutdownTimer, SameReader
<1> QED BY <1>1, <1>2, <1>3, <1>4, <1>5 DEF WriteStep

LEMMA ReaderSteps ==
    ASSUME Typed, [Next]_vars
    PROVE  \/ SameReader
           \/ /\ peerLeft' = peerLeft /\ Unread' = 0
           \/ \E f \in PeerFrames : ReadFrame(f)
<1>1. reader \in FrameReaders
  BY DEF Typed
<1>2. CASE WriteStep \/ writeFrameAsync \/ ServeStep \/ onShutdownTimer
  <2>1. CASE startReader
    <3>1. reader'.stage = "reading" /\ peerLeft' = peerLeft
      BY <1>1, <2>1 DEF startReader, FrameReaders
    <3> QED BY <3>1 DEF Unread
  <2> QED BY <1>2, <2>1, WriterReads
<1>3. CASE ReadError \/ ReaderStops \/ readMore
  <2>1. reader'.f.t = "eof" /\ peerLeft' = peerLeft
    BY <1>3 DEF ReadError, ReaderStops, readMore, Frame
  <2> QED BY <2>1 DEF Unread
<1>4. ASSUME NEW t, Receive(t), peerLeft' = peerLeft PROVE Unread' = 0
  <2>1. reader'.stage = "gate"
    BY <1>1, <1>4 DEF Receive, FrameReaders
  <2> QED BY <2>1 DEF Unread
<1>5. CASE \/ \E t : TooEarly(t)
           \/ processPing \/ processFatal \/ processStreamError \/ processIgnored
           \/ processPriority \/ processGoAway \/ processEOF \/ processResetStream
           \/ processWindowUpdate \/ processSettingsAck \/ receiveSettings
           \/ processData \/ processHeaders
  <2>1. peerLeft' = peerLeft /\ \E t : Receive(t)
    BY <1>5 DEF TooEarly, Handled, Answer, processPing, processFatal, processStreamError,
                processIgnored, processPriority, processGoAway, processEOF, processResetStream,
                processWindowUpdate, processSettingsAck, receiveSettings, processData,
                processHeaders
  <2> QED BY <1>4, <2>1
<1>6. CASE SettingsDone \/ processSetting \/ processSettingInitialWindowSize \/ endStream
  BY <1>6 DEF SettingsDone, processSetting, processSettingInitialWindowSize, endStream, SameReader
<1>7. CASE AppStep
  BY <1>7, AppFrame DEF SameReader
<1>8. CASE Over \/ UNCHANGED vars
  BY <1>8 DEF Over, vars, SameReader
<1> QED BY <1>2, <1>3, <1>5, <1>6, <1>7, <1>8 DEF Next, ReadStep

LEMMA BudgetKept ==
    ASSUME Typed, Typed', Budget, [Next]_vars, SameCredit \/ processWindowUpdate
    PROVE  Budget'
<1>1. peerLeft \in Nat /\ peerLeft' \in Nat /\ PeerBudget \in Nat /\ MaxInt32 \in Nat
  BY SessionAssumption, MaxInt32Assumption DEF Typed
<1>2. Unread \in {0, 1} /\ Unread' \in {0, 1}
  BY DEF Unread
<1>3. PICK k, l : k = PeerBudget - peerLeft - Unread /\ l = PeerBudget - peerLeft' - Unread'
  OBVIOUS
<1>4. k \in Nat /\ peerLeft + Unread <= PeerBudget
  BY <1>3, GrantedNat DEF Budget
<1>11. PICK p, pp \in Nat, u, uu \in {0, 1} :
         p = peerLeft /\ pp = peerLeft' /\ u = Unread /\ uu = Unread'
  BY <1>1, <1>2
<1>12. k = PeerBudget - p - u /\ l = PeerBudget - pp - uu /\ p + u <= PeerBudget
  BY <1>3, <1>4, <1>11
<1>5. peerLeft' + Unread' <= PeerBudget /\ l \in Nat /\ k <= l
  <2>1. CASE peerLeft' = peerLeft /\ (Unread' = Unread \/ Unread' = 0)
    <3>1. pp = p /\ (uu = u \/ uu = 0)
      BY <1>11, <2>1
    <3>2. pp + uu <= PeerBudget /\ l \in Nat /\ k <= l
      BY <1>1, <1>12, <3>1
    <3> QED BY <1>11, <3>2
  <2>2. ASSUME NEW f \in PeerFrames, ReadFrame(f)
        PROVE  peerLeft' + Unread' <= PeerBudget /\ l \in Nat /\ k <= l
    <3>1. peerLeft' = peerLeft - 1 /\ Unread = 0
      BY <2>2 DEF ReadFrame, Unread
    <3>2. pp = p - 1 /\ u = 0
      BY <1>11, <3>1
    <3>3. pp + uu <= PeerBudget /\ l \in Nat /\ k <= l
      BY <1>1, <1>12, <3>2
    <3> QED BY <1>11, <3>3
  <2>3. SameReader => peerLeft' = peerLeft /\ Unread' = Unread
    BY DEF SameReader, Unread
  <2> QED BY <2>1, <2>2, <2>3, ReaderSteps
<1>6. Granted = k * MaxInt32 /\ Granted' = l * MaxInt32
  BY <1>3 DEF Granted
<1>7. k * MaxInt32 \in Nat /\ l * MaxInt32 \in Nat /\ k * MaxInt32 <= l * MaxInt32
  BY <1>4, <1>5, GrantsGrow, Zenon
<1>8. PICK g, h \in Nat : g = Granted /\ h = Granted' /\ g <= h
  BY <1>6, <1>7
<1>9. /\ sc.connInc \in Nat /\ sc.connInc <= g /\ \A id \in Ids : st[id].inc \in Nat /\ st[id].inc <= g
      /\ sc'.connInc \in Nat /\ \A id \in Ids : st'[id].inc \in Nat
  BY <1>8 DEF Budget, Typed, Sessions, StreamObjects
<1>10. sc'.connInc <= h /\ \A id \in Ids : st'[id].inc <= h
  <2>1. CASE SameCredit
    BY <1>8, <1>9, <2>1 DEF SameCredit
  <2>2. CASE processWindowUpdate
    <3>1. Unread = 1 /\ Unread' = 0 /\ peerLeft' = peerLeft
      BY <2>2, processWindowUpdateLedger
    <3>2. l = k + 1
      BY <1>1, <1>3, <3>1
    <3>3. h = g + MaxInt32
      BY <1>4, <1>6, <1>8, <3>2, GrantsGrow, Zenon
    <3>4. \/ sc'.connInc = sc.connInc /\ \A id \in Ids : st'[id].inc = st[id].inc
          \/ sc'.connInc <= sc.connInc + MaxInt32 /\ \A id \in Ids : st'[id].inc <= st[id].inc + MaxInt32
      BY <2>2, processWindowUpdateLedger DEF SameLedger
    <3> QED BY <1>1, <1>8, <1>9, <3>3, <3>4
  <2> QED BY <2>1, <2>2
<1> QED BY <1>5, <1>8, <1>10 DEF Budget

-------------------------------------------------------------------------------
(* The constants of the ledger meet its assumptions.                       *)
LEMMA LedgerAssumption ==
    /\ InitialStreamWindow \in 0 .. MaxInt32 /\ InitialSessionWindow \in 0 .. MaxInt32
    /\ MaxInt32 \in Nat \ {0} /\ PeerBudget * MaxInt32 \in Nat
BY MaxInt32Assumption, SessionAssumption

LEMMA InitLedger == Init => Ledger!Init /\ LedgerInv
<1> SUFFICES ASSUME Init PROVE Ledger!Init /\ LedgerInv
  OBVIOUS
<1>1. /\ sc.flow = InitialSessionWindow /\ sc.initialStreamSendWindowSize = InitialStreamWindow
      /\ sc.misgrown = FALSE /\ sc.connInc = 0 /\ sc.connSent = 0
  BY DEF Init, NewSession
<1>2. \A id \in Ids : /\ st[id].state = "idle" /\ ~InMap(id)
                      /\ st[id].flow = 0 /\ st[id].inc = 0 /\ st[id].spent = 0
  BY DEF Init, NoStream, InMap, Live
<1>3. Ledger!Init
  <2>1. /\ {id \in Ids : InMap(id)} = {} /\ {id \in Ids : st[id].state # "idle"} = {}
        /\ [id \in Ids |-> st[id].flow] = [id \in Ids |-> 0]
        /\ [id \in Ids |-> st[id].inc] = [id \in Ids |-> 0]
        /\ [id \in Ids |-> st[id].spent] = [id \in Ids |-> 0]
    BY <1>2
  <2> QED BY <1>1, <2>1 DEF Ledger!Init
<1>4. Ledger!Inv
  BY <1>3, Ledger!InitInv, LedgerAssumption
<1>5. Budget
  <2>1. peerLeft = PeerBudget /\ Unread = 0 /\ PeerBudget \in Nat
    BY SessionAssumption DEF Init, Unread
  <2>2. PeerBudget - peerLeft - Unread = 0 /\ peerLeft + Unread <= PeerBudget
    BY <2>1
  <2>3. Granted = 0
    BY <2>2, MaxInt32Assumption DEF Granted
  <2> QED BY <1>1, <1>2, <2>2, <2>3 DEF Budget
<1> QED BY <1>3, <1>4, <1>5 DEF LedgerInv

LEMMA LedgerKept ==
    ASSUME Typed, Typed', Discipline, LedgerInv, [Next]_vars, panic' # "frame on closed stream"
    PROVE  [Ledger!Next]_Ledger!vars /\ LedgerInv'
<1>1. [Ledger!Next]_Ledger!vars /\ (SameCredit \/ processWindowUpdate)
  BY LedgerSteps
<1>2. Ledger!Inv /\ Budget
  BY DEF LedgerInv
<1>3. Ledger!Inv'
  BY <1>1, <1>2, Ledger!NextInv, LedgerAssumption
<1>4. Budget'
  BY <1>1, <1>2, BudgetKept
<1> QED BY <1>1, <1>3, <1>4 DEF LedgerInv

-------------------------------------------------------------------------------
(* SendWindow is the same module under both names.                         *)
LEMMA SameLedgerSpec ==
    /\ Ledger!Init => SendLedger!Init
    /\ [Ledger!Next]_Ledger!vars => [SendLedger!Next]_SendLedger!vars
<1>2. \A n, d : /\ Ledger!addOK(n, d) <=> SendLedger!addOK(n, d)
                /\ Ledger!added(n, d) = SendLedger!added(n, d)
                /\ Ledger!available(n, d) = SendLedger!available(n, d)
  BY DEF Ledger!addOK, Ledger!added, Ledger!Wrap32, Ledger!MinInt32, Ledger!available,
         SendLedger!addOK, SendLedger!added, SendLedger!Wrap32, SendLedger!MinInt32,
         SendLedger!available
<1>3. UNCHANGED Ledger!vars => UNCHANGED SendLedger!vars
  BY DEF Ledger!vars, SendLedger!vars
<1>4. ASSUME NEW s \in Ids
      PROVE  /\ Ledger!NewStream(s) => SendLedger!NewStream(s)
             /\ Ledger!CloseStream(s) => SendLedger!CloseStream(s)
  BY DEF Ledger!NewStream, SendLedger!NewStream, Ledger!CloseStream, SendLedger!CloseStream
<1>5. ASSUME NEW s \in Ids, NEW len, Ledger!Consume(s, len) PROVE SendLedger!Consume(s, len)
  <2>1. Ledger!Allowed(s) = SendLedger!Allowed(s)
    BY <1>2, Zenon DEF Ledger!Allowed, SendLedger!Allowed
  <2> QED BY <1>5, <2>1, Zenon DEF Ledger!Consume, SendLedger!Consume, Ledger!TakenFromConn,
                                   SendLedger!TakenFromConn
<1>6. ASSUME NEW s \in Ids, NEW d, Ledger!WindowUpdate(s, d) PROVE SendLedger!WindowUpdate(s, d)
  BY <1>2, <1>6, Zenon DEF Ledger!WindowUpdate, SendLedger!WindowUpdate
<1>7. ASSUME NEW d, Ledger!ConnWindowUpdate(d) PROVE SendLedger!ConnWindowUpdate(d)
  BY <1>2, <1>7 DEF Ledger!ConnWindowUpdate, SendLedger!ConnWindowUpdate
<1>8. ASSUME NEW v, Ledger!InitialWindowSize(v) PROVE SendLedger!InitialWindowSize(v)
  BY <1>8, Zenon
     DEF Ledger!InitialWindowSize, SendLedger!InitialWindowSize, Ledger!Growth, SendLedger!Growth,
         Ledger!addOK, Ledger!added, Ledger!Wrap32, Ledger!MinInt32,
         SendLedger!addOK, SendLedger!added, SendLedger!Wrap32, SendLedger!MinInt32
<1>9. Ledger!Next => SendLedger!Next
  BY <1>4, <1>5, <1>6, <1>7, <1>8 DEF Ledger!Next, SendLedger!Next
<1>10. Ledger!Init => SendLedger!Init
  BY DEF Ledger!Init, SendLedger!Init
<1> QED BY <1>3, <1>9, <1>10

(* The session implements the ledger, unless startFrameWrite dies of its   *)
(* assertion on closed streams: that step has already charged the windows. *)
THEOREM KeepsLedger == Spec /\ []NoFrameOnClosedStream => ImplementsSendWindow
<1>1. Init => SendLedger!Init /\ LedgerInv
  BY InitLedger, SameLedgerSpec
<1>2. Typed /\ Typed' /\ Discipline /\ LedgerInv /\ [Next]_vars /\ NoFrameOnClosedStream' =>
        [SendLedger!Next]_SendLedger!vars /\ LedgerInv'
  BY LedgerKept, SameLedgerSpec DEF NoFrameOnClosedStream
<1> QED BY <1>1, <1>2, TypedHolds, DisciplineHolds, PTL
        DEF Spec, ImplementsSendWindow, SendLedger!Spec

(* As long as that has not happened, every window of session.go is the     *)
(* exact sum that SendWindow states: what was granted minus what was sent. *)
THEOREM WindowsAreExact ==
    Spec => [](NoFrameOnClosedStream => SendLedger!StreamLedger /\ SendLedger!ConnLedger)
<1> DEFINE Alive == NoFrameOnClosedStream => LedgerInv
<1>1. Init => Alive
  BY InitLedger
<1>2. Typed /\ Typed' /\ Discipline /\ Alive /\ [Next]_vars => Alive'
  <2> SUFFICES ASSUME Typed, Typed', Discipline, Alive, [Next]_vars, NoFrameOnClosedStream'
               PROVE  LedgerInv'
    OBVIOUS
  <2>1. NoFrameOnClosedStream
    BY DeadStops DEF NoFrameOnClosedStream, vars
  <2> QED BY <2>1, LedgerKept DEF NoFrameOnClosedStream
<1>3. Alive => (NoFrameOnClosedStream => SendLedger!StreamLedger /\ SendLedger!ConnLedger)
  <2> SUFFICES ASSUME LedgerInv PROVE SendLedger!StreamLedger /\ SendLedger!ConnLedger
    OBVIOUS
  <2>1. Ledger!StreamLedger /\ Ledger!ConnLedger
    BY DEF LedgerInv, Ledger!Inv
  <2> QED BY <2>1 DEF Ledger!StreamLedger, Ledger!ConnLedger, SendLedger!StreamLedger,
                      SendLedger!ConnLedger
<1> HIDE DEF Alive
<1> QED BY <1>1, <1>2, <1>3, TypedHolds, DisciplineHolds, PTL DEF Spec

(* So no DATA byte goes out that the peer has not granted on the session   *)
(* and, unless a new initial size was refused, on the stream: whatever     *)
(* serve was doing when Consume split the frame.                           *)
THEOREM NothingBeyondCredit == Spec /\ []NoFrameOnClosedStream => Ledger!NeverOverruns
<1>1. Init => Ledger!Init /\ LedgerInv
  BY InitLedger
<1>2. Typed /\ Typed' /\ Discipline /\ LedgerInv /\ [Next]_vars /\ NoFrameOnClosedStream' =>
        [Ledger!Next]_Ledger!vars /\ LedgerInv'
  BY LedgerKept DEF NoFrameOnClosedStream
<1>3. Ledger!Spec => Ledger!NeverOverruns
  BY Ledger!NoOverrun, LedgerAssumption
<1> QED BY <1>1, <1>2, <1>3, TypedHolds, DisciplineHolds, PTL DEF Spec, Ledger!Spec

===============================================================================
