------------------------- MODULE PrioritySchedulerProofs -----------------------
(***************************************************************************)
(* What holds of the priority tree for any set of streams, any limits and  *)
(* any PRIORITY frames, part by part: the bookkeeping of ws.nodes and its  *)
(* two lists, the states of open streams, the links of the tree, the types *)
(* with what Pop does, the tree as a WriteScheduler, and the reach of the  *)
(* walk.                                                                   *)
(*                                                                         *)
(* The parts build on one another: Bookkeeping and Sound are inductive     *)
(* together, Typed adds the fields and the queues, Careful the streams     *)
(* that are open, Hanging where each node hangs.                           *)
(***************************************************************************)
EXTENDS PriorityScheduler, FiniteSetTheorems, WellFoundedInduction, TLAPS

(* addClosedOrIdleNode: a list that is full gives up its oldest node, and  *)
(* every other node stays on it.                                           *)
LEMMA Retained ==
    ASSUME NEW list \in Seq(Ids), NEW max \in Nat, NEW n \in Ids, Len(list) <= max
    PROVE  /\ Retain(list, max, n) \in Seq(Ids) /\ Len(Retain(list, max, n)) <= max
           /\ ToSet(list) \ Evicted(list, max) \subseteq ToSet(Retain(list, max, n))
           /\ ToSet(Retain(list, max, n)) \subseteq ToSet(list) \union {n}
           /\ max > 0 => n \in ToSet(Retain(list, max, n))
           /\ Evicted(list, max) \subseteq ToSet(list)
<1>1. CASE max = 0
  BY <1>1 DEF Retain, Evicted
<1>2. CASE max > 0 /\ Len(list) = max
  <2>1. PICK t : t = Tail(list)
    OBVIOUS
  <2>2. /\ list # <<>> /\ t \in Seq(Ids) /\ Len(t) = Len(list) - 1 /\ Len(list) \in Nat
        /\ \A i \in 1 .. Len(t) : t[i] = list[i + 1]
        /\ Head(list) = list[1] /\ 1 \in 1 .. Len(list)
    BY <1>2, <2>1
  <2>3. PICK a : a = Append(t, n)
    OBVIOUS
  <2>4. /\ a \in Seq(Ids) /\ Len(a) = Len(t) + 1 /\ a[Len(t) + 1] = n
        /\ \A i \in 1 .. Len(t) : a[i] = t[i]
    BY <2>2, <2>3
  <2>5. Retain(list, max, n) = a /\ Evicted(list, max) = {list[1]}
    BY <1>2, <2>1, <2>2, <2>3 DEF Retain, Evicted
  <2>6. DOMAIN list = 1 .. Len(list) /\ DOMAIN a = 1 .. Len(list) /\ Len(a) = Len(list)
    BY <2>2, <2>4
  <2>7. ASSUME NEW i \in 1 .. Len(list), list[i] # list[1]
        PROVE  \E j \in 1 .. Len(list) : a[j] = list[i]
    <3>1. i - 1 \in 1 .. Len(t) /\ (i - 1) + 1 = i /\ i - 1 \in 1 .. Len(list)
      BY <2>2, <2>7
    <3>2. a[i - 1] = list[i]
      BY <2>2, <2>4, <3>1, Zenon
    <3> QED BY <3>1, <3>2
  <2>8. ASSUME NEW j \in 1 .. Len(list)
        PROVE  a[j] = n \/ \E i \in 1 .. Len(list) : a[j] = list[i]
    <3>1. CASE j = Len(t) + 1
      BY <2>4, <3>1
    <3>2. CASE j # Len(t) + 1
      <4>1. j \in 1 .. Len(t) /\ j + 1 \in 1 .. Len(list)
        BY <2>2, <3>2
      <4> QED BY <2>2, <2>4, <4>1
    <3> QED BY <3>1, <3>2
  <2>9. Len(list) \in 1 .. Len(list) /\ a[Len(list)] = n
    BY <2>2, <2>4
  <2>10. /\ ToSet(list) \ {list[1]} \subseteq ToSet(a)
         /\ ToSet(a) \subseteq ToSet(list) \union {n}
         /\ n \in ToSet(a) /\ {list[1]} \subseteq ToSet(list)
    <3>1. ToSet(list) = {list[i] : i \in 1 .. Len(list)} /\ ToSet(a) = {a[i] : i \in 1 .. Len(list)}
      BY <2>6, Zenon DEF ToSet
    <3>2. ToSet(list) \ {list[1]} \subseteq ToSet(a)
      <4> SUFFICES ASSUME NEW i \in 1 .. Len(list), list[i] # list[1] PROVE list[i] \in ToSet(a)
        BY <3>1
      <4>1. PICK j \in 1 .. Len(list) : a[j] = list[i]
        BY <2>7
      <4> QED BY <3>1, <4>1
    <3>3. ToSet(a) \subseteq ToSet(list) \union {n}
      BY <2>8, <3>1
    <3>4. n \in ToSet(a) /\ {list[1]} \subseteq ToSet(list)
      BY <2>2, <2>9, <3>1
    <3> QED BY <3>2, <3>3, <3>4
  <2>11. Len(a) <= max
    BY <1>2, <2>6
  <2> QED BY <2>4, <2>5, <2>10, <2>11
<1>3. CASE max > 0 /\ Len(list) # max
  <2>1. PICK a : a = Append(list, n)
    OBVIOUS
  <2>2. /\ a \in Seq(Ids) /\ Len(a) = Len(list) + 1 /\ a[Len(list) + 1] = n
        /\ \A i \in 1 .. Len(list) : a[i] = list[i]
        /\ DOMAIN list = 1 .. Len(list) /\ DOMAIN a = 1 .. Len(list) + 1 /\ Len(list) \in Nat
    BY <2>1
  <2>3. Retain(list, max, n) = a /\ Evicted(list, max) = {}
    BY <1>3, <2>1 DEF Retain, Evicted
  <2>4. Len(a) <= max
    <3>1. PICK m \in Nat : m = Len(list)
      BY <2>2
    <3>2. m + 1 <= max
      BY <1>3, <3>1
    <3> QED BY <2>2, <3>1, <3>2
  <2>5. ToSet(a) = ToSet(list) \union {n}
    <3>1. \A i \in 1 .. Len(list) + 1 : i \in 1 .. Len(list) \/ i = Len(list) + 1
      BY <2>2
    <3>2. \A i \in 1 .. Len(list) : i \in 1 .. Len(list) + 1
      BY <2>2
    <3>3. Len(list) + 1 \in 1 .. Len(list) + 1
      BY <2>2
    <3> QED BY <2>2, <3>1, <3>2, <3>3 DEF ToSet
  <2> QED BY <2>2, <2>3, <2>4, <2>5
<1> QED BY <1>1, <1>2, <1>3

(* What RetentionBound and KnowsOpen rest on: the closed nodes on the list *)
(* are of streams that were opened before and never will be again.         *)
Bookkeeping ==
    /\ known \subseteq Ids /\ open \subseteq used /\ used \subseteq Ids
    /\ closedNodes \in Seq(Ids) /\ idleNodes \in Seq(Ids)
    /\ ToSet(closedNodes) \subseteq used \ open
    /\ RetentionBound

LEMMA BookkeepingKept ==
    ASSUME Bookkeeping, [Next]_vars
    PROVE  Bookkeeping'
<1> USE DEF Bookkeeping, RetentionBound
<1>1. ASSUME NEW id \in Ids, NEW pusher, OpenStream(id, pusher) PROVE Bookkeeping'
  <2>1. /\ known' \subseteq known \union {id} /\ open' = open \union {id}
        /\ used' = used \union {id} /\ closedNodes' = closedNodes /\ idleNodes' = idleNodes
    BY <1>1 DEF OpenStream
  <2>2. id \notin used
    <3>1. \A u \in used : u % 2 = id % 2 => u < id
      BY <1>1 DEF OpenStream
    <3>2. id \in Nat /\ id % 2 = id % 2 /\ ~(id < id)
      BY PriorityAssumption
    <3> QED BY <3>1, <3>2, Zenon
  <2> QED BY <2>1, <2>2
<1>2. ASSUME NEW id \in Ids, CloseStream(id) PROVE Bookkeeping'
  <2>1. PICK gone : gone = IF MaxClosed = 0 THEN {id} ELSE Evicted(closedNodes, MaxClosed)
    OBVIOUS
  <2>2. /\ id \in open /\ known' = known \ gone /\ open' = open \ {id} /\ used' = used
        /\ idleNodes' = idleNodes /\ closedNodes' = Retain(closedNodes, MaxClosed, id)
    BY <1>2, <2>1 DEF CloseStream
  <2>3. PICK list, max : list = closedNodes /\ max = MaxClosed
    OBVIOUS
  <2>4. list \in Seq(Ids) /\ max \in Nat /\ Len(list) <= max
    BY <2>3, PriorityAssumption
  <2>5. /\ Retain(list, max, id) \in Seq(Ids) /\ Len(Retain(list, max, id)) <= max
        /\ ToSet(list) \ Evicted(list, max) \subseteq ToSet(Retain(list, max, id))
        /\ ToSet(Retain(list, max, id)) \subseteq ToSet(list) \union {id}
        /\ max > 0 => id \in ToSet(Retain(list, max, id))
    BY <2>4, Retained
  <2>6. known \ gone \subseteq (open \ {id}) \union ToSet(Retain(list, max, id)) \union ToSet(idleNodes)
    <3>1. CASE max = 0
      <4>1. gone = {id} /\ Retain(list, max, id) = list
        BY <2>1, <2>3, <3>1 DEF Retain
      <4> QED BY <2>3, <4>1
    <3>2. CASE max # 0
      <4>1. max > 0 /\ gone = Evicted(list, max)
        BY <2>1, <2>3, <2>4, <3>2
      <4> QED BY <2>3, <2>5, <4>1
    <3> QED BY <3>1, <3>2
  <2> QED BY <2>2, <2>3, <2>5, <2>6
<1>3. ASSUME NEW id \in Ids, NEW dep, NEW w, NEW x, AdjustStream(id, dep, w, x)
      PROVE  Bookkeeping'
  <2>1. PICK list, max : list = idleNodes /\ max = MaxIdle
    OBVIOUS
  <2>2. list \in Seq(Ids) /\ max \in Nat /\ Len(list) <= max
    BY <2>1, PriorityAssumption
  <2>3. /\ Retain(list, max, id) \in Seq(Ids) /\ Len(Retain(list, max, id)) <= max
        /\ ToSet(list) \ Evicted(list, max) \subseteq ToSet(Retain(list, max, id))
        /\ max > 0 => id \in ToSet(Retain(list, max, id))
    BY <2>2, Retained
  <2>4. UNCHANGED <<closedNodes, open, used>>
    BY <1>3 DEF AdjustStream
  <2>5. CASE id \in known
    <3>1. known' = known /\ idleNodes' = idleNodes
      BY <1>3, <2>5 DEF AdjustStream
    <3> QED BY <2>4, <3>1
  <2>6. CASE id \notin known
    <3>1. /\ max > 0 /\ known' = (known \union {id}) \ Evicted(list, max)
          /\ idleNodes' = Retain(list, max, id)
      BY <1>3, <2>1, <2>6 DEF AdjustStream
    <3> QED BY <2>1, <2>3, <2>4, <3>1
  <2> QED BY <2>5, <2>6
<1>4. CASE PushAny \/ PopAny \/ UNCHANGED vars
  <2>1. UNCHANGED <<known, open, used, closedNodes, idleNodes>>
    <3>1. CASE PushAny
      BY <3>1 DEF PushAny, Push
    <3>2. CASE PopAny
      BY <3>2 DEF PopAny, PopNothing, Pop
    <3>3. CASE UNCHANGED vars
      BY <3>3 DEF vars
    <3> QED BY <1>4, <3>1, <3>2, <3>3
  <2> QED BY <2>1
<1> QED BY <1>1, <1>2, <1>3, <1>4 DEF Next

(* closedNodes and idleNodes keep to maxClosedNodesInTree and              *)
(* maxIdleNodesInTree, and ws.nodes holds no stream that is neither open   *)
(* nor on one of them: for every limit, 0 included, and however the peer   *)
(* mixes PRIORITY with opening and closing.                                *)
THEOREM TreeIsBounded == Spec => []RetentionBound
<1>1. Init => Bookkeeping
  BY PriorityAssumption DEF Init, Bookkeeping, RetentionBound, ToSet
<1>2. Bookkeeping /\ [Next]_vars => Bookkeeping'
  BY BookkeepingKept
<1>3. Bookkeeping => RetentionBound
  BY DEF Bookkeeping
<1> QED BY <1>1, <1>2, <1>3, PTL DEF Spec

-------------------------------------------------------------------------------
Fielded ==
    node = [i \in Ids |-> [weight |-> node[i].weight, state |-> node[i].state,
                           bytes |-> node[i].bytes, subtreeBytes |-> node[i].subtreeBytes]]

LEMMA BytesKeepState ==
    ASSUME Fielded, NEW n, NEW c
    PROVE  \A i \in Ids :
             /\ addBytes(node, n, c)[i].state = node[i].state
             /\ addBytes(node, n, c)[i] =
                  [weight |-> addBytes(node, n, c)[i].weight,
                   state |-> addBytes(node, n, c)[i].state,
                   bytes |-> addBytes(node, n, c)[i].bytes,
                   subtreeBytes |-> addBytes(node, n, c)[i].subtreeBytes]
<1> SUFFICES ASSUME NEW i \in Ids
             PROVE  /\ addBytes(node, n, c)[i].state = node[i].state
                    /\ addBytes(node, n, c)[i] =
                         [weight |-> addBytes(node, n, c)[i].weight,
                          state |-> addBytes(node, n, c)[i].state,
                          bytes |-> addBytes(node, n, c)[i].bytes,
                          subtreeBytes |-> addBytes(node, n, c)[i].subtreeBytes]
  OBVIOUS
<1>1. PICK m : m = node[i]
  OBVIOUS
<1>2. m = [weight |-> m.weight, state |-> m.state, bytes |-> m.bytes,
           subtreeBytes |-> m.subtreeBytes]
  BY <1>1 DEF Fielded
<1>3. PICK x, y : x = (IF i = n THEN m.bytes + c ELSE m.bytes)
                  /\ y = IF i = n \/ i \in Above(tree, n) THEN m.subtreeBytes + c
                         ELSE m.subtreeBytes
  OBVIOUS
<1>4. addBytes(node, n, c)[i] = [m EXCEPT !.bytes = x, !.subtreeBytes = y]
  BY <1>1, <1>3 DEF addBytes
<1> QED BY <1>1, <1>2, <1>4

LEMMA KnowsOpenKept ==
    ASSUME Bookkeeping, Fielded, KnowsOpen, [Next /\ ~EvictsOpen]_vars
    PROVE  Fielded' /\ KnowsOpen'
<1>1. ASSUME NEW id \in Ids, NEW pusher, OpenStream(id, pusher) PROVE Fielded' /\ KnowsOpen'
  <2>1. known \union {id} \subseteq known' /\ open' = open \union {id}
    BY <1>1 DEF OpenStream
  <2>2. node' = [node EXCEPT ![id] = [node[id] EXCEPT !.state = "open"]]
        \/ node' = [node EXCEPT ![id] = NewFields("open")]
    BY <1>1 DEF OpenStream, openIdle
  <2>3. Fielded' /\ node'[id].state = "open" /\ \A i \in Ids : i # id => node'[i] = node[i]
    <3>1. CASE node' = [node EXCEPT ![id] = [node[id] EXCEPT !.state = "open"]]
      BY <3>1 DEF Fielded
    <3>2. CASE node' = [node EXCEPT ![id] = NewFields("open")]
      BY <3>2 DEF Fielded, NewFields
    <3> QED BY <2>2, <3>1, <3>2
  <2> QED BY <2>1, <2>3 DEF KnowsOpen, Bookkeeping
<1>2. ASSUME NEW id \in Ids, CloseStream(id) PROVE Fielded' /\ KnowsOpen'
  <2>0. PICK c : c = -node[id].bytes
    OBVIOUS
  <2>1. PICK nd : nd = addBytes(node, id, c)
    OBVIOUS
  <2>2. node' = [nd EXCEPT ![id].state = "closed"] /\ open' = open \ {id}
    BY <1>2, <2>0, <2>1 DEF CloseStream
  <2>3. /\ \A i \in Ids : nd[i].state = node[i].state
        /\ \A i \in Ids : nd[i] = [weight |-> nd[i].weight, state |-> nd[i].state,
                                   bytes |-> nd[i].bytes, subtreeBytes |-> nd[i].subtreeBytes]
        /\ nd = [i \in Ids |-> nd[i]]
    <3>1. nd = [i \in Ids |-> nd[i]]
      BY <2>1 DEF addBytes
    <3>2. ASSUME NEW i \in Ids
          PROVE  /\ nd[i].state = node[i].state
                 /\ nd[i] = [weight |-> nd[i].weight, state |-> nd[i].state,
                             bytes |-> nd[i].bytes, subtreeBytes |-> nd[i].subtreeBytes]
      BY <2>1, BytesKeepState, Zenon
    <3> QED BY <3>1, <3>2
  <2>4. Fielded' /\ \A i \in Ids : i # id => node'[i].state = node[i].state
    BY <2>2, <2>3 DEF Fielded
  <2>5. known \ ({id} \union ToSet(closedNodes)) \subseteq known'
    <3>1. PICK gone : gone = IF MaxClosed = 0 THEN {id} ELSE Evicted(closedNodes, MaxClosed)
      OBVIOUS
    <3>2. known' = known \ gone
      BY <1>2, <3>1 DEF CloseStream
    <3>3. Evicted(closedNodes, MaxClosed) \subseteq ToSet(closedNodes)
      <4>1. closedNodes \in Seq(Ids) /\ MaxClosed \in Nat /\ Len(closedNodes) <= MaxClosed
        BY PriorityAssumption DEF Bookkeeping, RetentionBound
      <4> QED BY <4>1, Retained
    <3> QED BY <3>1, <3>2, <3>3
  <2>6. ASSUME NEW i \in open' PROVE i \in known' /\ node'[i].state = "open"
    <3>1. i \in open /\ i # id /\ i \in Ids /\ i \notin ToSet(closedNodes)
      BY <2>2 DEF Bookkeeping
    <3> QED BY <2>4, <2>5, <3>1 DEF KnowsOpen
  <2> QED BY <2>4, <2>6 DEF KnowsOpen
<1>3. ASSUME NEW id \in Ids, NEW dep, NEW w, NEW x, AdjustStream(id, dep, w, x), ~EvictsOpen
      PROVE  Fielded' /\ KnowsOpen'
  <2>1. open' = open
    BY <1>3 DEF AdjustStream
  <2>2. PICK fields : fields = IF id \notin known THEN NewFields("idle") ELSE node[id]
    OBVIOUS
  <2>3. \/ node' = [node EXCEPT ![id] = [fields EXCEPT !.weight = DefaultWeight]]
        \/ node' = [node EXCEPT ![id] = fields]
        \/ node' = [node EXCEPT ![id] = [fields EXCEPT !.weight = w]]
    BY <1>3, <2>2 DEF AdjustStream
  <2>4. fields = [weight |-> fields.weight, state |-> fields.state, bytes |-> fields.bytes,
                  subtreeBytes |-> fields.subtreeBytes]
        /\ (id \in known => fields.state = node[id].state)
    BY <2>2 DEF NewFields, Fielded
  <2>5. /\ Fielded' /\ \A i \in Ids : i # id => node'[i] = node[i]
        /\ node'[id].state = fields.state
    BY <2>3, <2>4 DEF Fielded
  <2>6. ASSUME NEW i \in open PROVE i \in known' /\ node'[i].state = "open"
    <3>1. i \in known /\ node[i].state = "open" /\ i \in Ids
      BY DEF KnowsOpen, Bookkeeping
    <3>2. i \in known'
      BY <1>3, <2>1, <3>1 DEF EvictsOpen
    <3> QED BY <2>4, <2>5, <3>1, <3>2
  <2> QED BY <2>1, <2>5, <2>6 DEF KnowsOpen
<1>4. CASE PushAny \/ UNCHANGED vars
  <2>1. UNCHANGED <<known, open, node>>
    BY <1>4 DEF PushAny, Push, vars
  <2> QED BY <2>1 DEF KnowsOpen, Fielded
<1>5. CASE PopAny
  <2>1. known' = known /\ open' = open
    BY <1>5 DEF PopAny, PopNothing, Pop
  <2>2. node' = node \/ \E i, c : node' = addBytes(node, i, c)
    BY <1>5 DEF PopAny, PopNothing, Pop
  <2>3. CASE node' = node
    BY <2>1, <2>3 DEF KnowsOpen, Fielded
  <2>4. CASE \E i, c : node' = addBytes(node, i, c)
    <3>1. PICK i, c : node' = addBytes(node, i, c)
      BY <2>4
    <3>2. \A k \in Ids : node'[k].state = node[k].state
      BY <3>1, BytesKeepState
    <3>3. Fielded'
      <4>1. node' = [k \in Ids |-> node'[k]]
        BY <3>1 DEF addBytes
      <4>2. \A k \in Ids : node'[k] = [weight |-> node'[k].weight, state |-> node'[k].state,
                                       bytes |-> node'[k].bytes,
                                       subtreeBytes |-> node'[k].subtreeBytes]
        BY <3>1, BytesKeepState
      <4> QED BY <4>1, <4>2 DEF Fielded
    <3> QED BY <2>1, <3>2, <3>3 DEF KnowsOpen, Bookkeeping
  <2> QED BY <2>2, <2>3, <2>4
<1> QED BY <1>1, <1>2, <1>3, <1>4, <1>5 DEF Next

(* CloseStream and Push find the node of every open stream, as long as no  *)
(* PRIORITY frame makes the tree evict the idle node of a stream that has  *)
(* since been opened: closing a stream never forgets one that is open.     *)
THEOREM FindsOpenStreams == CarefulSpec => []KnowsOpen
<1> DEFINE I == Bookkeeping /\ Fielded /\ KnowsOpen
<1>1. Init => I
  BY PriorityAssumption DEF Init, Bookkeeping, RetentionBound, ToSet, Fielded, KnowsOpen
<1>2. I /\ [Next /\ ~EvictsOpen]_vars => I'
  BY BookkeepingKept, KnowsOpenKept
<1>3. I => KnowsOpen
  OBVIOUS
<1> QED BY <1>1, <1>2, <1>3, PTL DEF CarefulSpec

LEMMA SetInduction ==
    ASSUME NEW S, 0 \in S, \A n \in Nat : n \in S => n + 1 \in S
    PROVE  Nat \subseteq S
<1> SUFFICES ASSUME NEW m \in Nat, m \notin S PROVE FALSE
  OBVIOUS
<1> DEFINE R == StrictSubsetOrdering(0 .. m)
           F == FiniteSubsetsOf(0 .. m)
           T == {0 .. k : k \in {j \in 0 .. m : j \notin S}}
<1>1. IsWellFoundedOn(R, F)
  BY FS_StrictSubsetOrderingWellFounded
<1>2. T \subseteq F /\ T # {}
  <2>1. \A k \in 0 .. m : 0 .. k \in SUBSET (0 .. m) /\ IsFiniteSet(0 .. k)
    BY FS_Interval
  <2> QED BY <2>1 DEF FiniteSubsetsOf
<1>3. PICK x \in T : \A y \in T : <<y, x>> \notin R
  <2> HIDE DEF R, F, T
  <2> QED BY <1>1, <1>2, WFMin
<1>4. PICK k \in 0 .. m : k \notin S /\ x = 0 .. k
  OBVIOUS
<1>5. k - 1 \in 0 .. m /\ k - 1 \notin S
  <2>1. k # 0
    BY <1>4
  <2>2. k - 1 \in Nat /\ (k - 1) + 1 = k
    BY <2>1
  <2> QED BY <1>4, <2>2
<1>6. 0 .. (k - 1) \in T
  BY <1>5
<1>7. <<0 .. (k - 1), x>> \in R
  <2>1. /\ 0 .. (k - 1) \subseteq 0 .. k /\ 0 .. (k - 1) # 0 .. k
        /\ 0 .. (k - 1) \subseteq 0 .. m /\ 0 .. k \subseteq 0 .. m
    BY <1>4, <1>5
  <2> QED BY <1>4, <2>1 DEF StrictSubsetOrdering
<1> QED BY <1>3, <1>6, <1>7

(* f begins with b and goes on with the steps of g.                        *)
Solves(f, m, V, b, g) ==
    f \in [0 .. m -> V] /\ f[0] = b /\ \A i \in 1 .. m : f[i] = g[i][f[i - 1]]

(* Every recursion over 0 .. m has a solution.                             *)
LEMMA Recursion ==
    ASSUME NEW m \in Nat, NEW V, NEW b \in V, NEW g \in [1 .. m -> [V -> V]]
    PROVE  \E f : Solves(f, m, V, b, g)
<1> USE DEF Solves
<1> DEFINE S == {n \in Nat : n <= m => \E f : Solves(f, n, V, b, g)}
<1>1. 0 \in S
  <2>1. PICK f : f = [i \in 0 .. 0 |-> b]
    OBVIOUS
  <2>2. f \in [0 .. 0 -> V] /\ f[0] = b
    BY <2>1
  <2> QED BY <2>2
<1>2. ASSUME NEW n \in Nat, n \in S PROVE n + 1 \in S
  <2> SUFFICES ASSUME n + 1 <= m PROVE \E f : Solves(f, n + 1, V, b, g)
    OBVIOUS
  <2>1. PICK f : Solves(f, n, V, b, g)
    BY <1>2
  <2>2. PICK h : h = [i \in 0 .. n + 1 |-> IF i = n + 1 THEN g[n + 1][f[n]] ELSE f[i]]
    OBVIOUS
  <2>3. g[n + 1][f[n]] \in V
    <3>1. n + 1 \in 1 .. m /\ f[n] \in V
      BY <2>1
    <3> QED BY <3>1
  <2>4. h \in [0 .. n + 1 -> V] /\ h[0] = b
    BY <2>1, <2>2, <2>3
  <2>5. ASSUME NEW i \in 1 .. n + 1 PROVE h[i] = g[i][h[i - 1]]
    <3>1. CASE i = n + 1
      <4>1. n \in 0 .. n + 1 /\ n # n + 1 /\ i - 1 = n /\ n + 1 \in 0 .. n + 1
        BY <3>1
      <4>2. h[n] = f[n] /\ h[n + 1] = g[n + 1][f[n]]
        BY <2>2, <4>1
      <4> QED BY <3>1, <4>1, <4>2, Zenon
    <3>2. CASE i # n + 1
      <4>1. i \in 1 .. n /\ i \in 0 .. n + 1 /\ i - 1 \in 0 .. n + 1 /\ i - 1 # n + 1
        BY <3>2
      <4>2. h[i] = f[i] /\ h[i - 1] = f[i - 1]
        BY <2>2, <3>2, <4>1
      <4>3. f[i] = g[i][f[i - 1]]
        BY <2>1, <4>1, Zenon
      <4> QED BY <4>2, <4>3, Zenon
    <3> QED BY <3>1, <3>2
  <2> QED BY <2>4, <2>5
<1>3. Nat \subseteq S
  <2> HIDE DEF S
  <2> QED BY <1>1, <1>2, SetInduction
<1>4. m \in S
  BY <1>3
<1> QED BY <1>4

(* Sets that stop growing as soon as a step adds nothing of U: after c     *)
(* steps they are complete (in K) or hold more than c elements of U.       *)
LEMMA Grows ==
    ASSUME NEW U, IsFiniteSet(U), NEW c \in Nat, NEW f, NEW K,
           f[0] \intersect U = {} => f[0] \in K,
           \A d \in 0 .. c - 1 :
             /\ f[d] \subseteq f[d + 1]
             /\ f[d] \in K => f[d + 1] \in K
             /\ f[d + 1] \intersect U = f[d] \intersect U => f[d + 1] \in K
    PROVE  f[c] \in K \/ Cardinality(f[c] \intersect U) >= c + 1
<1> DEFINE Size(d) == Cardinality(f[d] \intersect U)
           S == {d \in Nat : d <= c => f[d] \in K \/ Size(d) >= d + 1}
<1>1. \A d : IsFiniteSet(f[d] \intersect U) /\ Size(d) \in Nat
  <2> TAKE d
  <2>1. IsFiniteSet(f[d] \intersect U)
    BY FS_Intersection
  <2> QED BY <2>1, FS_CardinalityType
<1>2. 0 \in S
  <2>1. CASE f[0] \intersect U = {}
    BY <2>1
  <2>2. CASE f[0] \intersect U # {}
    <3>1. Size(0) # 0
      BY <1>1, <2>2, FS_EmptySet
    <3>2. PICK x : x = Size(0)
      OBVIOUS
    <3>3. x \in Nat /\ x # 0
      BY <1>1, <3>1, <3>2
    <3>4. Size(0) >= 0 + 1
      BY <3>2, <3>3
    <3> QED BY <3>4
  <2> QED BY <2>1, <2>2
<1>3. ASSUME NEW d \in Nat, d \in S PROVE d + 1 \in S
  <2> SUFFICES ASSUME d + 1 <= c, f[d + 1] \notin K PROVE Size(d + 1) >= (d + 1) + 1
    OBVIOUS
  <2>1. d \in 0 .. c - 1 /\ d <= c
    OBVIOUS
  <2>2. f[d] \notin K /\ f[d] \subseteq f[d + 1] /\ f[d + 1] \intersect U # f[d] \intersect U
    BY <2>1
  <2>3. Size(d) >= d + 1
    BY <1>3, <2>1, <2>2
  <2>4. f[d] \intersect U \in SUBSET (f[d + 1] \intersect U)
    BY <2>2
  <2>5. Size(d) <= Size(d + 1) /\ Size(d + 1) # Size(d)
    BY <1>1, <2>2, <2>4, FS_Subset
  <2>6. PICK x, y : x = Size(d) /\ y = Size(d + 1)
    OBVIOUS
  <2>7. x \in Nat /\ y \in Nat /\ x >= d + 1 /\ x <= y /\ x # y
    BY <1>1, <2>3, <2>5, <2>6
  <2> QED BY <2>6, <2>7
<1>4. Nat \subseteq S
  <2> HIDE DEF S
  <2> QED BY <1>2, <1>3, SetInduction
<1> QED BY <1>4

-------------------------------------------------------------------------------
(* What a parent link may point to.                                        *)
Anchors == Nodes \union {Nil, Discarded}

Parented(t) == t.parent \in [Ids -> Anchors]

LEMMA Constants ==
    /\ Ids \subseteq Nat /\ 0 \notin Ids /\ Nil \notin Nodes /\ Discarded \notin Nodes
    /\ Ids \subseteq Nodes /\ 0 \in Nodes /\ Nodes \subseteq Anchors
    /\ IsFiniteSet(Ids) /\ Cardinality(Ids) \in Nat
BY PriorityAssumption, FS_CardinalityType DEF Nodes, Nil, Discarded, Anchors

(* Above is the least set that holds the parent of n and the parents of    *)
(* its members.                                                            *)
ClosedUp(t, A) == \A i \in A \intersect Ids : t.parent[i] \in A

LEMMA AboveIsLeast ==
    ASSUME NEW t, Parented(t), NEW n \in Ids
    PROVE  /\ Above(t, n) \subseteq Anchors /\ t.parent[n] \in Above(t, n)
           /\ ClosedUp(t, Above(t, n))
           /\ \A A : t.parent[n] \in A /\ ClosedUp(t, A) => Above(t, n) \subseteq A
<1>1. PICK c \in Nat : c = Cardinality(Ids)
  BY Constants
<1>2. PICK p \in [Ids -> Anchors] : p = t.parent
  BY DEF Parented
<1> DEFINE Up(A) == A \union {p[i] : i \in A \intersect Ids}
           F(up) == [d \in 0 .. c |-> IF d = 0 THEN {p[n]}
                       ELSE up[d - 1] \union {p[i] : i \in up[d - 1] \intersect Ids}]
<1>3. \A A \in SUBSET Anchors : Up(A) \in SUBSET Anchors
  OBVIOUS
<1>4. PICK g : g = [i \in 1 .. c |-> [A \in SUBSET Anchors |-> Up(A)]]
  OBVIOUS
<1>5. g \in [1 .. c -> [SUBSET Anchors -> SUBSET Anchors]]
      /\ \A i \in 1 .. c, A \in SUBSET Anchors : g[i][A] = Up(A)
  <2> HIDE DEF Up
  <2> QED BY <1>3, <1>4
<1>6. PICK f \in [0 .. c -> SUBSET Anchors] :
        f[0] = {p[n]} /\ \A i \in 1 .. c : f[i] = g[i][f[i - 1]]
  <2>1. PICK V, b : V = SUBSET Anchors /\ b = {p[n]}
    OBVIOUS
  <2>2. b \in V /\ c \in Nat
    BY <2>1
  <2>3. g \in [1 .. c -> [V -> V]]
    BY <1>5, <2>1
  <2>4. PICK f : Solves(f, c, V, b, g)
    BY <2>2, <2>3, Recursion
  <2> QED BY <2>1, <2>4 DEF Solves
<1>7. \A i \in 1 .. c : f[i] = Up(f[i - 1])
  <2> HIDE DEF Up
  <2>1. \A i \in 1 .. c : f[i - 1] \in SUBSET Anchors
    OBVIOUS
  <2> QED BY <1>5, <1>6, <2>1
<1>8. f = F(f)
  BY <1>6, <1>7
<1>9. PICK u : u = CHOOSE up : up = F(up)
  OBVIOUS
<1>10. Above(t, n) = u[c] /\ u = F(u)
  <2>1. Above(t, n) = (CHOOSE up : up = F(up))[c]
    BY <1>1, <1>2 DEF Above
  <2> HIDE DEF F
  <2> QED BY <1>8, <1>9, <2>1
<1>11. u[0] = {p[n]} /\ \A d \in 0 .. c - 1 : u[d + 1] = Up(u[d])
  <2>1. u[0] = {p[n]}
    BY <1>10
  <2>2. ASSUME NEW d \in 0 .. c - 1 PROVE u[d + 1] = Up(u[d])
    <3>1. d + 1 \in 0 .. c /\ d + 1 # 0 /\ (d + 1) - 1 = d
      OBVIOUS
    <3>2. u[d + 1] = F(u)[d + 1]
      BY <1>10
    <3>3. F(u)[d + 1] = u[(d + 1) - 1] \union {p[i] : i \in u[(d + 1) - 1] \intersect Ids}
      BY <3>1
    <3> QED BY <3>1, <3>2, <3>3
  <2> QED BY <2>1, <2>2
<1>12. ASSUME NEW A, p[n] \in A, ClosedUp(t, A) PROVE u[c] \subseteq A
  <2> DEFINE S == {d \in Nat : d <= c => u[d] \subseteq A}
  <2>1. 0 \in S
    BY <1>11, <1>12
  <2>2. ASSUME NEW d \in Nat, d \in S PROVE d + 1 \in S
    <3> SUFFICES ASSUME d + 1 <= c PROVE u[d + 1] \subseteq A
      OBVIOUS
    <3>1. d \in 0 .. c - 1 /\ u[d] \subseteq A
      BY <2>2
    <3> QED BY <1>2, <1>11, <1>12, <3>1 DEF ClosedUp
  <2>3. Nat \subseteq S
    <3> HIDE DEF S
    <3> QED BY <2>1, <2>2, SetInduction
  <2> QED BY <2>3
<1>13. u[c] \subseteq Anchors
  <2>1. p[n] \in Anchors /\ ClosedUp(t, Anchors)
    BY <1>2 DEF ClosedUp
  <2> QED BY <1>12, <2>1
<1>14. ClosedUp(t, u[c])
  <2> DEFINE K == {A \in SUBSET Anchors : \A i \in A \intersect Ids : p[i] \in A}
  <2>1. \A d \in 0 .. c : u[d] \in SUBSET Anchors
    <3> DEFINE S == {d \in Nat : d <= c => u[d] \in SUBSET Anchors}
    <3>1. 0 \in S
      BY <1>11
    <3>2. ASSUME NEW d \in Nat, d \in S PROVE d + 1 \in S
      <4> SUFFICES ASSUME d + 1 <= c PROVE u[d + 1] \in SUBSET Anchors
        OBVIOUS
      <4>1. d \in 0 .. c - 1 /\ u[d] \in SUBSET Anchors
        BY <3>2
      <4> QED BY <1>3, <1>11, <4>1, Zenon
    <3>3. Nat \subseteq S
      <4> HIDE DEF S
      <4> QED BY <3>1, <3>2, SetInduction
    <3> QED BY <3>3
  <2>2. u[0] \intersect Ids = {} => u[0] \in K
    BY <1>11, <2>1
  <2>3. ASSUME NEW d \in 0 .. c - 1
        PROVE  /\ u[d] \subseteq u[d + 1]
               /\ u[d] \in K => u[d + 1] \in K
               /\ u[d + 1] \intersect Ids = u[d] \intersect Ids => u[d + 1] \in K
    <3>1. d \in 0 .. c - 1 /\ d + 1 \in 0 .. c
      BY <1>1
    <3>2. u[d + 1] = Up(u[d]) /\ u[d + 1] \in SUBSET Anchors
      BY <1>11, <2>1, <3>1
    <3> HIDE DEF Anchors
    <3>3. PICK a, b : a = u[d] /\ b = u[d + 1]
      OBVIOUS
    <3>4. b = Up(a) /\ b \in SUBSET Anchors
      BY <3>2, <3>3
    <3> QED BY <3>3, <3>4
  <2>4. u[c] \in K
    <3> HIDE DEF K
    <3>1. u[c] \in K \/ Cardinality(u[c] \intersect Ids) >= c + 1
      BY <2>2, <2>3, Grows, Constants
    <3>2. PICK x : x = Cardinality(u[c] \intersect Ids)
      OBVIOUS
    <3>3. x \in Nat /\ x <= c
      BY <1>1, <3>2, Constants, FS_Intersection, FS_CardinalityType
    <3> QED BY <3>1, <3>2, <3>3
  <2> QED BY <1>1, <1>2, <2>4 DEF ClosedUp
<1>15. p[n] \in u[c]
  <2> DEFINE S == {d \in Nat : d <= c => p[n] \in u[d]}
  <2>1. 0 \in S
    BY <1>11
  <2>2. ASSUME NEW d \in Nat, d \in S PROVE d + 1 \in S
    <3> SUFFICES ASSUME d + 1 <= c PROVE p[n] \in u[d + 1]
      OBVIOUS
    <3>1. d \in 0 .. c - 1 /\ p[n] \in u[d]
      BY <2>2
    <3> QED BY <1>11, <3>1
  <2>3. Nat \subseteq S
    <3> HIDE DEF S
    <3> QED BY <2>1, <2>2, SetInduction
  <2> QED BY <2>3
<1> QED BY <1>2, <1>10, <1>12, <1>13, <1>14, <1>15

-------------------------------------------------------------------------------
(* A list of kids: every member of X once and nothing else.                *)
Lists(s, X) ==
    /\ s \in Seq(X)
    /\ \A x \in X : \E j \in 1 .. Len(s) : s[j] = x
    /\ \A j, k \in 1 .. Len(s) : s[j] = s[k] => j = k

LEMMA ListsFacts ==
    ASSUME NEW X, NEW s, Lists(s, X)
    PROVE  /\ Len(s) \in Nat /\ DOMAIN s = 1 .. Len(s) /\ ToSet(s) = X
           /\ \A j \in 1 .. Len(s) : s[j] \in X
           /\ s = <<>> <=> X = {}
           /\ s # <<>> => Head(s) \in X
<1>1. s \in Seq(X)
  BY DEF Lists
<1>2. Len(s) \in Nat /\ DOMAIN s = 1 .. Len(s) /\ \A j \in 1 .. Len(s) : s[j] \in X
  BY <1>1
<1>3. ToSet(s) = X
  BY <1>2 DEF ToSet, Lists
<1>4. s # <<>> => Head(s) = s[1] /\ 1 \in 1 .. Len(s)
  BY <1>1
<1>5. s = <<>> => X = {}
  BY DEF Lists
<1> QED BY <1>2, <1>3, <1>4, <1>5

LEMMA ListsNothing == Lists(<<>>, {})
BY DEF Lists

LEMMA ListsOne == ASSUME NEW x PROVE Lists(<<x>>, {x})
<1>1. <<x>> \in Seq({x}) /\ Len(<<x>>) = 1 /\ <<x>>[1] = x
  OBVIOUS
<1> QED BY <1>1 DEF Lists

LEMMA Concatenates ==
    ASSUME NEW D, NEW s \in Seq(D), NEW u \in Seq(D)
    PROVE  /\ s \o u \in Seq(D) /\ Len(s \o u) = Len(s) + Len(u)
           /\ \A j \in 1 .. Len(s) : (s \o u)[j] = s[j]
           /\ \A j \in 1 .. Len(u) : (s \o u)[Len(s) + j] = u[j]
OBVIOUS

LEMMA ListsJoined ==
    ASSUME NEW X, NEW Y, NEW s, NEW u, Lists(s, X), Lists(u, Y), X \intersect Y = {}
    PROVE  Lists(s \o u, X \union Y)
<1>1. /\ s \in Seq(X) /\ Len(s) \in Nat /\ u \in Seq(Y) /\ Len(u) \in Nat
      /\ \A j \in 1 .. Len(s) : s[j] \in X
      /\ \A j \in 1 .. Len(u) : u[j] \in Y
  BY DEF Lists
<1>2. PICK Z, r : Z = X \union Y /\ r = s \o u
  OBVIOUS
<1>3. s \in Seq(Z) /\ u \in Seq(Z)
  BY <1>1, <1>2
<1>4. r \in Seq(Z) /\ Len(r) = Len(s) + Len(u) /\ Len(r) \in Nat
  BY <1>1, <1>2, <1>3
<1>5. \A j \in 1 .. Len(s) : r[j] = s[j] /\ j \in 1 .. Len(r)
  BY <1>1, <1>2, <1>3, <1>4
<1>6. \A j \in 1 .. Len(u) : r[Len(s) + j] = u[j] /\ Len(s) + j \in 1 .. Len(r)
  BY <1>1, <1>2, <1>3, <1>4
<1>7. ASSUME NEW j \in 1 .. Len(r)
      PROVE  \/ j \in 1 .. Len(s) /\ r[j] = s[j] /\ r[j] \in X
             \/ /\ j - Len(s) \in 1 .. Len(u) /\ r[j] = u[j - Len(s)] /\ r[j] \in Y
                /\ ~(j <= Len(s))
  <2>1. CASE j <= Len(s)
    <3>1. j \in 1 .. Len(s)
      BY <1>1, <2>1
    <3> QED BY <1>1, <1>5, <3>1
  <2>2. CASE ~(j <= Len(s))
    <3>1. j - Len(s) \in 1 .. Len(u) /\ Len(s) + (j - Len(s)) = j
      BY <1>1, <1>4, <2>2
    <3> QED BY <1>1, <1>6, <2>2, <3>1
  <2> QED BY <2>1, <2>2
<1>8. \A x \in Z : \E j \in 1 .. Len(r) : r[j] = x
  <2>1. \A x \in X : \E j \in 1 .. Len(r) : r[j] = x
    BY <1>5 DEF Lists
  <2>2. \A x \in Y : \E j \in 1 .. Len(r) : r[j] = x
    BY <1>6 DEF Lists
  <2> QED BY <1>2, <2>1, <2>2
<1>9. ASSUME NEW j \in 1 .. Len(r), NEW k \in 1 .. Len(r), r[j] = r[k] PROVE j = k
  <2>1. CASE j \in 1 .. Len(s) /\ r[j] = s[j] /\ r[j] \in X
    <3>1. k \in 1 .. Len(s) /\ r[k] = s[k]
      BY <1>7, <1>9, <2>1
    <3> QED BY <1>9, <2>1, <3>1 DEF Lists
  <2>2. CASE j - Len(s) \in 1 .. Len(u) /\ r[j] = u[j - Len(s)] /\ r[j] \in Y
    <3>1. k - Len(s) \in 1 .. Len(u) /\ r[k] = u[k - Len(s)]
      BY <1>7, <1>9, <2>2
    <3>2. j - Len(s) = k - Len(s)
      BY <1>9, <2>2, <3>1 DEF Lists
    <3> QED BY <1>1, <3>2
  <2> QED BY <1>7, <2>1, <2>2
<1> QED BY <1>2, <1>4, <1>8, <1>9 DEF Lists

(* The members of s from a to b.                                           *)
LEMMA ListsPart ==
    ASSUME NEW X, NEW s, Lists(s, X), NEW a \in 1 .. Len(s) + 1, NEW b \in a - 1 .. Len(s)
    PROVE  Lists(SubSeq(s, a, b), {s[j] : j \in a .. b})
<1>1. s \in Seq(X) /\ Len(s) \in Nat /\ \A j \in 1 .. Len(s) : s[j] \in X
  BY DEF Lists
<1>2. PICK Y, r : Y = {s[j] : j \in a .. b} /\ r = SubSeq(s, a, b)
  OBVIOUS
<1>3. r \in Seq(X) /\ Len(r) = (b - a) + 1
  BY <1>1, <1>2
<1>4. ASSUME NEW j \in 1 .. Len(r)
      PROVE  (a - 1) + j \in a .. b /\ (a - 1) + j \in 1 .. Len(s) /\ r[j] = s[(a - 1) + j]
  BY <1>1, <1>2, <1>3
<1>5. r \in Seq(Y)
  <2>1. \A j \in 1 .. Len(r) : r[j] \in Y
    BY <1>2, <1>4
  <2> QED BY <1>3, <2>1
<1>6. ASSUME NEW x \in Y PROVE \E i \in 1 .. Len(r) : r[i] = x
  <2>1. PICK j \in a .. b : x = s[j]
    BY <1>2
  <2>2. PICK i : i = j - (a - 1)
    OBVIOUS
  <2>3. i \in 1 .. Len(r) /\ (a - 1) + i = j
    BY <1>1, <1>3, <2>2
  <2> QED BY <1>4, <2>1, <2>3
<1>7. ASSUME NEW i \in 1 .. Len(r), NEW j \in 1 .. Len(r), r[i] = r[j] PROVE i = j
  <2>1. PICK k, l : k = (a - 1) + i /\ l = (a - 1) + j
    OBVIOUS
  <2>2. k \in 1 .. Len(s) /\ l \in 1 .. Len(s) /\ s[k] = s[l]
    BY <1>4, <1>7, <2>1
  <2>3. k = l
    BY <2>2 DEF Lists
  <2> QED BY <1>3, <2>1, <2>3
<1> QED BY <1>2, <1>5, <1>6, <1>7 DEF Lists

(* RemoveFirst unlinks n.                                                  *)
LEMMA ListsRemoved ==
    ASSUME NEW X, NEW s, Lists(s, X), NEW n
    PROVE  Lists(RemoveFirst(s, n), X \ {n})
<1>0. s \in Seq(X) /\ Len(s) \in Nat /\ \A j \in 1 .. Len(s) : s[j] \in X
  BY DEF Lists
<1>1. CASE ~ \E i \in 1 .. Len(s) : s[i] = n
  <2>1. RemoveFirst(s, n) = s
    BY <1>1 DEF RemoveFirst
  <2>2. X \ {n} = X
    BY <1>1 DEF Lists
  <2> QED BY <2>1, <2>2
<1>2. CASE \E i \in 1 .. Len(s) : s[i] = n
  <2>1. PICK i \in 1 .. Len(s) : s[i] = n
    BY <1>2
  <2>2. {k \in 1 .. Len(s) : s[k] = n} = {i}
    BY <2>1 DEF Lists
  <2>3. Min({i}) = i
    BY DEF Min
  <2>4. RemoveFirst(s, n) = SubSeq(s, 1, i - 1) \o SubSeq(s, i + 1, Len(s))
    <3>1. SelectInSeq(s, LAMBDA v : v = n) = i
      BY <2>2, <2>3 DEF SelectInSeq
    <3> QED BY <1>2, <3>1 DEF RemoveFirst, RemoveAt
  <2>5. PICK A, B : A = {s[j] : j \in 1 .. i - 1} /\ B = {s[j] : j \in i + 1 .. Len(s)}
    OBVIOUS
  <2>6. PICK l, a, b, c : l = Len(s) /\ a = i - 1 /\ b = i + 1 /\ c = 1
    OBVIOUS
  <2>7. /\ c \in 1 .. Len(s) + 1 /\ a \in c - 1 .. Len(s)
        /\ b \in 1 .. Len(s) + 1 /\ l \in b - 1 .. Len(s)
    BY <1>0, <2>6
  <2>8. Lists(SubSeq(s, c, a), {s[j] : j \in c .. a}) /\ Lists(SubSeq(s, b, l), {s[j] : j \in b .. l})
    BY <2>7, ListsPart
  <2>9. Lists(SubSeq(s, 1, i - 1), A) /\ Lists(SubSeq(s, i + 1, Len(s)), B)
    BY <2>5, <2>6, <2>8
  <2>10. A \intersect B = {} /\ A \union B = X \ {n}
    <3>1. ASSUME NEW x \in X \ {n} PROVE x \in A \union B
      <4>1. PICK k \in 1 .. Len(s) : s[k] = x
        BY DEF Lists
      <4>2. k # i
        BY <2>1, <4>1
      <4>3. k \in 1 .. i - 1 \/ k \in i + 1 .. Len(s)
        BY <1>0, <4>2
      <4> QED BY <2>5, <4>1, <4>3
    <3>2. ASSUME NEW j \in 1 .. Len(s), j # i PROVE s[j] \in X \ {n}
      BY <1>0, <2>1, <3>2 DEF Lists
    <3>3. A \union B \subseteq X \ {n}
      <4>1. \A j \in 1 .. i - 1 : j \in 1 .. Len(s) /\ j # i
        BY <1>0
      <4>2. \A j \in i + 1 .. Len(s) : j \in 1 .. Len(s) /\ j # i
        BY <1>0
      <4> QED BY <2>5, <3>2, <4>1, <4>2
    <3>4. A \intersect B = {}
      <4> SUFFICES ASSUME NEW j \in 1 .. i - 1, NEW k \in i + 1 .. Len(s), s[j] = s[k]
                   PROVE  FALSE
        BY <2>5
      <4>1. j \in 1 .. Len(s) /\ k \in 1 .. Len(s) /\ j # k
        BY <1>0
      <4> QED BY <4>1 DEF Lists
    <3> QED BY <3>1, <3>3, <3>4
  <2> QED BY <2>4, <2>9, <2>10, ListsJoined
<1> QED BY <1>1, <1>2

LEMMA ListsReversed ==
    ASSUME NEW X, NEW s, Lists(s, X)
    PROVE  Lists(Reverse(s), X)
<1>1. s \in Seq(X) /\ Len(s) \in Nat /\ \A j \in 1 .. Len(s) : s[j] \in X
  BY DEF Lists
<1>2. PICK r : r = [i \in 1 .. Len(s) |-> s[(Len(s) - i) + 1]]
  OBVIOUS
<1>3. \A i \in 1 .. Len(s) : /\ (Len(s) - i) + 1 \in 1 .. Len(s)
                             /\ (Len(s) - ((Len(s) - i) + 1)) + 1 = i
                             /\ r[i] = s[(Len(s) - i) + 1]
  BY <1>1, <1>2
<1>4. r \in Seq(X) /\ Len(r) = Len(s)
  <2>1. r \in [1 .. Len(s) -> X]
    BY <1>1, <1>2, <1>3
  <2> QED BY <1>1, <2>1
<1>5. ASSUME NEW x \in X PROVE \E j \in 1 .. Len(r) : r[j] = x
  <2>1. PICK j \in 1 .. Len(s) : s[j] = x
    BY DEF Lists
  <2>2. PICK k : k = (Len(s) - j) + 1
    OBVIOUS
  <2>3. k \in 1 .. Len(r) /\ r[k] = s[j]
    BY <1>1, <1>2, <1>3, <1>4, <2>2
  <2> QED BY <2>1, <2>3
<1>6. ASSUME NEW j \in 1 .. Len(r), NEW k \in 1 .. Len(r), r[j] = r[k] PROVE j = k
  <2>1. PICK a, b : a = (Len(s) - j) + 1 /\ b = (Len(s) - k) + 1
    OBVIOUS
  <2>2. /\ a \in 1 .. Len(s) /\ r[j] = s[a]
        /\ b \in 1 .. Len(s) /\ r[k] = s[b]
    BY <1>3, <1>4, <2>1
  <2>3. a = b
    BY <1>6, <2>2 DEF Lists
  <2>4. j \in Int /\ k \in Int
    BY <1>1, <1>4
  <2> QED BY <1>1, <2>1, <2>3, <2>4
<1>7. Reverse(s) = r
  BY <1>2 DEF Reverse
<1> QED BY <1>4, <1>5, <1>6, <1>7 DEF Lists

(* Such a list is as long as X is large.                                   *)
LEMMA ListsLength ==
    ASSUME NEW X, NEW s, Lists(s, X)
    PROVE  IsFiniteSet(X) /\ Len(s) = Cardinality(X)
<1>1. /\ s \in Seq(X) /\ Len(s) \in Nat /\ \A j \in 1 .. Len(s) : s[j] \in X
      /\ \A x \in X : \E j \in 1 .. Len(s) : s[j] = x
      /\ \A j, k \in 1 .. Len(s) : s[j] = s[k] => j = k
  BY DEF Lists
<1>2. PICK n, f : n \in Nat /\ n = Len(s) /\ f = [j \in 1 .. n |-> s[j]]
  BY <1>1
<1>3. f \in [1 .. n -> X] /\ \A j \in 1 .. n : f[j] = s[j]
  BY <1>1, <1>2
<1>4. f \in Bijection(1 .. n, X)
  BY <1>1, <1>2, <1>3 DEF Bijection, Injection, Surjection, IsInjective
<1>5. ExistsBijection(1 .. n, X)
  BY <1>4 DEF ExistsBijection
<1>6. IsFiniteSet(X) /\ Cardinality(X) = n
  BY <1>2, <1>5, FS_NatBijection, FS_CountingElements
<1> QED BY <1>2, <1>6

-------------------------------------------------------------------------------
(* The links of a tree: parent and kids say the same.                      *)
Trees == [parent : [Ids -> Anchors], kids : [Nodes -> Seq(Ids)]]

Kids(t, p) == {i \in Ids : t.parent[i] = p}

Linked(t) == t \in Trees /\ \A p \in Nodes : Lists(t.kids[p], Kids(t, p))

(* No set of nodes has all its parents in itself.                          *)
Acyclic(t) == \A S \in SUBSET Ids : S # {} => \E i \in S : t.parent[i] \notin S

Sound(t) == Linked(t) /\ Acyclic(t)

LEMMA LinkedIsParented == ASSUME NEW t, Linked(t) PROVE Parented(t)
BY DEF Linked, Trees, Parented

(* In such a tree no node is above itself.                                 *)
LEMMA NotAboveItself ==
    ASSUME NEW t, Parented(t), Acyclic(t), NEW n \in Ids
    PROVE  n \notin Above(t, n)
<1> SUFFICES ASSUME n \in Above(t, n) PROVE FALSE
  OBVIOUS
<1>1. PICK S : S = {j \in Ids : n \in Above(t, j)}
  OBVIOUS
<1>2. S \in SUBSET Ids /\ S # {}
  BY <1>1
<1>3. ASSUME NEW j \in S PROVE t.parent[j] \in S
  <2>1. PICK k : k = t.parent[j]
    OBVIOUS
  <2>2. j \in Ids /\ n \in Above(t, j)
    BY <1>1
  <2>3. CASE k \in Ids
    <3>1. PICK A : A = {k} \union Above(t, k)
      OBVIOUS
    <3>2. k \in A /\ ClosedUp(t, A)
      BY <2>3, <3>1, AboveIsLeast DEF ClosedUp
    <3>3. Above(t, j) \subseteq A
      BY <2>1, <2>2, <3>2, AboveIsLeast
    <3>4. n = k \/ n \in Above(t, k)
      BY <2>2, <3>1, <3>3
    <3>5. n \in Above(t, k)
      BY <3>4
    <3> QED BY <1>1, <2>1, <2>3, <3>5
  <2>4. CASE k \notin Ids
    <3>1. k \in {k} /\ ClosedUp(t, {k})
      BY <2>4 DEF ClosedUp
    <3>2. Above(t, j) \subseteq {k}
      BY <2>1, <2>2, <3>1, AboveIsLeast
    <3> QED BY <2>2, <2>4, <3>2
  <2> QED BY <2>3, <2>4
<1> QED BY <1>2, <1>3 DEF Acyclic

(* What is above something above n is above n.                             *)
LEMMA AboveAbove ==
    ASSUME NEW t, Parented(t), NEW n \in Ids, NEW k \in Ids, k \in Above(t, n)
    PROVE  Above(t, k) \subseteq Above(t, n)
<1>1. t.parent[k] \in Above(t, n) /\ ClosedUp(t, Above(t, n))
  BY AboveIsLeast DEF ClosedUp
<1> QED BY <1>1, AboveIsLeast

LEMMA AboveParent ==
    ASSUME NEW t, Parented(t), NEW n \in Ids
    PROVE  /\ t.parent[n] \in Above(t, n)
           /\ t.parent[n] \in Ids => Above(t, t.parent[n]) \subseteq Above(t, n)
<1>1. t.parent[n] \in Above(t, n)
  BY AboveIsLeast
<1>2. PICK k : k = t.parent[n]
  OBVIOUS
<1>3. k \in Ids => Above(t, k) \subseteq Above(t, n)
  BY <1>1, <1>2, AboveAbove
<1> QED BY <1>1, <1>2, <1>3

(* n moves to p, which is not below it; others may follow from p to n, or  *)
(* leave the tree: no cycle arises.                                        *)
LEMMA MovesKeepAcyclic ==
    ASSUME NEW t, Parented(t), Acyclic(t), NEW u, NEW n \in Ids, NEW p,
           p \in Ids => p # n /\ n \notin Above(t, p),
           u.parent[n] = p,
           \A i \in Ids \ {n} : \/ u.parent[i] = t.parent[i]
                                \/ u.parent[i] = n /\ t.parent[i] = p
                                \/ u.parent[i] \notin Ids
    PROVE  Acyclic(u)
<1> SUFFICES ASSUME NEW S \in SUBSET Ids, S # {}, \A i \in S : u.parent[i] \in S
             PROVE  FALSE
  BY DEF Acyclic
<1>1. CASE n \notin S
  <2>1. \A i \in S : t.parent[i] \in S
    BY <1>1
  <2> QED BY <2>1 DEF Acyclic
<1>2. CASE n \in S
  <2>1. p \in S /\ p \in Ids
    BY <1>2
  <2>2. PICK R : R = S \intersect ({p} \union Above(t, p))
    OBVIOUS
  <2>3. R \in SUBSET Ids /\ p \in R /\ n \notin R
    BY <2>1, <2>2
  <2>4. \A i \in {p} \union Above(t, p) : i \in Ids => t.parent[i] \in Above(t, p)
    BY <2>1, AboveIsLeast DEF ClosedUp
  <2>5. ASSUME NEW i \in R PROVE t.parent[i] \in R
    <3>1. i \in Ids \ {n} /\ i \in S /\ i \in {p} \union Above(t, p)
      BY <2>2, <2>3
    <3>2. u.parent[i] \in S
      BY <3>1
    <3>3. CASE u.parent[i] = t.parent[i]
      BY <2>2, <2>4, <3>1, <3>2, <3>3
    <3>4. CASE u.parent[i] = n /\ t.parent[i] = p
      BY <2>3, <3>4
    <3>5. CASE u.parent[i] \notin Ids
      BY <3>2, <3>5
    <3> QED BY <3>1, <3>3, <3>4, <3>5
  <2> QED BY <2>3, <2>5 DEF Acyclic
<1> QED BY <1>1, <1>2

-------------------------------------------------------------------------------
(* setParent keeps the two directions together, wherever n goes.           *)
LEMMA SetParentLinks ==
    ASSUME NEW t, Linked(t), NEW n \in Ids, NEW p \in Anchors
    PROVE  /\ Linked(setParent(t, n, p))
           /\ \A i \in Ids : setParent(t, n, p).parent[i] = IF i = n THEN p ELSE t.parent[i]
<1>1. CASE t.parent[n] = p
  BY <1>1 DEF setParent
<1>2. CASE t.parent[n] # p
  <2>1. PICK a : a = t.parent[n]
    OBVIOUS
  <2>2. PICK par : par = [i \in Ids |-> IF i = n THEN p ELSE t.parent[i]]
    OBVIOUS
  <2>3. PICK kid : kid = [i \in Nodes |->
                            (IF i = p THEN <<n>> ELSE <<>>) \o
                            (IF i = a THEN RemoveFirst(t.kids[i], n) ELSE t.kids[i])]
    OBVIOUS
  <2>4. PICK u : u = [parent |-> par, kids |-> kid]
    OBVIOUS
  <2>5. setParent(t, n, p) = u
    BY <1>2, <2>1, <2>2, <2>3, <2>4 DEF setParent
  <2>6. t.parent \in [Ids -> Anchors] /\ t.kids \in [Nodes -> Seq(Ids)]
    BY DEF Linked, Trees
  <2>7. par \in [Ids -> Anchors] /\ \A i \in Ids : par[i] = IF i = n THEN p ELSE t.parent[i]
    BY <2>2, <2>6
  <2>8. ASSUME NEW i \in Nodes PROVE Lists(kid[i], {k \in Ids : par[k] = i})
    <3>1. PICK X, s : X = Kids(t, i) /\ s = t.kids[i]
      OBVIOUS
    <3>2. Lists(s, X)
      BY <3>1 DEF Linked
    <3>3. PICK r : r = IF i = a THEN RemoveFirst(s, n) ELSE s
      OBVIOUS
    <3>4. Lists(r, X \ {n})
      <4>1. CASE i = a
        BY <3>2, <3>3, <4>1, ListsRemoved
      <4>2. CASE i # a
        <5>1. X \ {n} = X
          BY <2>1, <3>1, <4>2 DEF Kids
        <5> QED BY <3>2, <3>3, <4>2, <5>1
      <4> QED BY <4>1, <4>2
    <3>5. kid[i] = (IF i = p THEN <<n>> ELSE <<>>) \o r
      BY <2>3, <3>1, <3>3
    <3>6. CASE i = p
      <4>1. Lists(<<n>> \o r, {n} \union (X \ {n}))
        <5>1. Lists(<<n>>, {n}) /\ {n} \intersect (X \ {n}) = {}
          BY ListsOne
        <5> QED BY <3>4, <5>1, ListsJoined
      <4>2. {k \in Ids : par[k] = i} = {n} \union (X \ {n})
        BY <2>7, <3>1, <3>6 DEF Kids
      <4> QED BY <3>5, <3>6, <4>1, <4>2
    <3>7. CASE i # p
      <4>1. Lists(<<>> \o r, {} \union (X \ {n}))
        <5>1. Lists(<<>>, {}) /\ {} \intersect (X \ {n}) = {}
          BY ListsNothing
        <5> QED BY <3>4, <5>1, ListsJoined
      <4>2. {k \in Ids : par[k] = i} = {} \union (X \ {n})
        BY <2>7, <3>1, <3>7 DEF Kids
      <4> QED BY <3>5, <3>7, <4>1, <4>2
    <3> QED BY <3>6, <3>7
  <2>9. kid \in [Nodes -> Seq(Ids)]
    <3>1. \A i \in Nodes : kid[i] \in Seq(Ids)
      <4> TAKE i \in Nodes
      <4>1. PICK X : X = {k \in Ids : par[k] = i}
        OBVIOUS
      <4>2. kid[i] \in Seq(X) /\ X \subseteq Ids
        BY <2>8, <4>1 DEF Lists
      <4> QED BY <4>2
    <3>2. kid = [i \in Nodes |-> kid[i]]
      BY <2>3
    <3> QED BY <3>1, <3>2
  <2>10. u \in Trees /\ u.parent = par /\ u.kids = kid
    BY <2>4, <2>7, <2>9 DEF Trees
  <2>11. Linked(u)
    BY <2>8, <2>10 DEF Linked, Kids
  <2> QED BY <2>5, <2>7, <2>10, <2>11
<1> QED BY <1>1, <1>2

LEMMA SetParentSound ==
    ASSUME NEW t, Sound(t), NEW n \in Ids, NEW p \in Anchors,
           p \in Ids => p # n /\ n \notin Above(t, p)
    PROVE  /\ Sound(setParent(t, n, p))
           /\ \A i \in Ids : setParent(t, n, p).parent[i] = IF i = n THEN p ELSE t.parent[i]
<1>1. Linked(t) /\ Parented(t) /\ Acyclic(t)
  BY LinkedIsParented DEF Sound
<1>2. PICK u : u = setParent(t, n, p)
  OBVIOUS
<1>3. Linked(u) /\ \A i \in Ids : u.parent[i] = IF i = n THEN p ELSE t.parent[i]
  BY <1>1, <1>2, SetParentLinks
<1>4. Acyclic(u)
  <2>1. u.parent[n] = p
    BY <1>3
  <2>2. \A i \in Ids \ {n} : \/ u.parent[i] = t.parent[i]
                             \/ u.parent[i] = n /\ t.parent[i] = p
                             \/ u.parent[i] \notin Ids
    BY <1>3
  <2> QED BY <1>1, <2>1, <2>2, MovesKeepAcyclic
<1> QED BY <1>2, <1>3, <1>4 DEF Sound

(* removeNode: the first kid takes the place of n, which leaves the tree.  *)
LEMMA RemoveNodeSound ==
    ASSUME NEW t, Sound(t), NEW n \in Ids
    PROVE  /\ Sound(removeNode(t, n)) /\ removeNode(t, n).parent[n] = Nil
           /\ \A i \in Ids \ {n} :
                \/ removeNode(t, n).parent[i] = t.parent[i]
                \/ t.parent[i] = n /\ removeNode(t, n).parent[i] = t.parent[n]
           /\ ~(Len(t.kids[n]) > 1) =>
                \A i \in Ids \ {n} :
                  t.parent[i] = n => removeNode(t, n).parent[i] = t.parent[n]
<1>0. Linked(t) /\ Parented(t) /\ Acyclic(t)
  BY LinkedIsParented DEF Sound
<1>1. PICK a : a = t.parent[n]
  OBVIOUS
<1>2. PICK moved : moved = IF t.kids[n] = <<>> THEN t ELSE setParent(t, Head(t.kids[n]), a)
  OBVIOUS
<1>3. /\ Sound(moved)
      /\ \A i \in Ids : \/ moved.parent[i] = t.parent[i]
                        \/ t.parent[i] = n /\ moved.parent[i] = a
      /\ ~(Len(t.kids[n]) > 1) => \A i \in Ids : t.parent[i] = n => moved.parent[i] = a
  <2>0. n \in Nodes /\ Lists(t.kids[n], Kids(t, n))
    BY <1>0, Constants DEF Linked
  <2>1. CASE t.kids[n] = <<>>
    <3>1. Kids(t, n) = {}
      BY <2>0, <2>1, ListsFacts
    <3> QED BY <1>2, <2>1, <3>1 DEF Kids
  <2>2. CASE t.kids[n] # <<>>
    <3>1. PICK k : k = Head(t.kids[n])
      OBVIOUS
    <3>2. k \in Ids /\ t.parent[k] = n
      <4>1. n \in Nodes
        BY Constants
      <4>2. PICK s, X : s = t.kids[n] /\ X = Kids(t, n)
        OBVIOUS
      <4>3. Lists(s, X)
        BY <1>0, <4>1, <4>2 DEF Linked
      <4>4. Head(s) \in X
        BY <2>2, <4>2, <4>3, ListsFacts
      <4> QED BY <3>1, <4>2, <4>4 DEF Kids
    <3>3. k \notin Above(t, k)
      BY <1>0, <3>2, NotAboveItself
    <3>4. n \in Above(t, k) /\ Above(t, n) \subseteq Above(t, k)
      BY <1>0, <3>2, AboveParent
    <3>5. a \in Above(t, n) /\ (a \in Ids => Above(t, a) \subseteq Above(t, n))
      BY <1>0, <1>1, AboveParent
    <3>6. a \in Ids => a # k /\ k \notin Above(t, a)
      BY <3>3, <3>4, <3>5
    <3>7. a \in Anchors
      BY <1>0, <1>1 DEF Parented
    <3>8. /\ Sound(setParent(t, k, a))
          /\ \A i \in Ids : setParent(t, k, a).parent[i] = IF i = k THEN a ELSE t.parent[i]
      BY <3>2, <3>6, <3>7, SetParentSound
    <3>9. ASSUME ~(Len(t.kids[n]) > 1), NEW i \in Ids, t.parent[i] = n PROVE i = k
      <4>1. PICK s, X : s = t.kids[n] /\ X = Kids(t, n)
        OBVIOUS
      <4>2. Lists(s, X) /\ i \in X /\ k \in X
        BY <2>0, <3>2, <3>9, <4>1 DEF Kids
      <4>3. PICK j \in 1 .. Len(s), l \in 1 .. Len(s) : s[j] = i /\ s[l] = k
        BY <4>2 DEF Lists
      <4>4. j = l
        BY <3>9, <4>1, <4>2, ListsFacts
      <4> QED BY <4>3, <4>4
    <3> QED BY <1>2, <2>2, <3>1, <3>2, <3>8, <3>9
  <2> QED BY <2>1, <2>2
<1>4. Nil \in Anchors /\ Nil \notin Ids
  BY Constants DEF Anchors
<1>5. PICK u : u = setParent(moved, n, Nil)
  OBVIOUS
<1>6. Sound(u) /\ \A i \in Ids : u.parent[i] = IF i = n THEN Nil ELSE moved.parent[i]
  BY <1>3, <1>4, <1>5, SetParentSound
<1>7. removeNode(t, n) = u
  BY <1>1, <1>2, <1>5 DEF removeNode
<1> QED BY <1>1, <1>3, <1>6, <1>7

LEMMA WithoutSound ==
    ASSUME NEW t, Sound(t), NEW gone \in SUBSET Ids
    PROVE  Sound(Without(t, gone))
<1>1. CASE gone = {}
  BY <1>1 DEF Without
<1>2. CASE gone # {}
  <2>1. PICK n : n = CHOOSE i \in gone : TRUE
    OBVIOUS
  <2>2. n \in Ids
    BY <1>2, <2>1
  <2>3. Without(t, gone) = removeNode(t, n)
    BY <1>2, <2>1 DEF Without
  <2> QED BY <2>2, <2>3, RemoveNodeSound
<1> QED BY <1>1, <1>2

(* A new node: nothing points to it any more.                              *)
LEMMA NewNodeSound ==
    ASSUME NEW t, Sound(t), NEW n \in Ids, NEW p \in Nodes, p # n
    PROVE  /\ Sound(NewNode(t, n, p))
           /\ \A i \in Ids : NewNode(t, n, p).parent[i] =
                IF i = n THEN p ELSE IF t.parent[i] = n THEN Discarded ELSE t.parent[i]
<1>0. Linked(t) /\ Parented(t) /\ Acyclic(t)
  BY LinkedIsParented DEF Sound
<1>1. PICK par : par = [i \in Ids |-> IF t.parent[i] = n THEN Discarded ELSE t.parent[i]]
  OBVIOUS
<1>2. PICK kid : kid = [t.kids EXCEPT ![n] = <<>>]
  OBVIOUS
<1>3. PICK u : u = [parent |-> par, kids |-> kid]
  OBVIOUS
<1>4. NewNode(t, n, p) = setParent(u, n, p)
  BY <1>1, <1>2, <1>3 DEF NewNode
<1>5. t.parent \in [Ids -> Anchors] /\ t.kids \in [Nodes -> Seq(Ids)]
  BY <1>0 DEF Linked, Trees
<1>6. /\ par \in [Ids -> Anchors]
      /\ \A i \in Ids : par[i] = IF t.parent[i] = n THEN Discarded ELSE t.parent[i]
  BY <1>1, <1>5 DEF Anchors
<1>7. /\ kid \in [Nodes -> Seq(Ids)]
      /\ \A i \in Nodes : kid[i] = IF i = n THEN <<>> ELSE t.kids[i]
  <2>1. <<>> \in Seq(Ids)
    OBVIOUS
  <2> QED BY <1>2, <1>5, <2>1
<1>8. Linked(u)
  <2>1. u \in Trees /\ u.parent = par /\ u.kids = kid
    BY <1>3, <1>6, <1>7 DEF Trees
  <2>2. ASSUME NEW i \in Nodes PROVE Lists(kid[i], {k \in Ids : par[k] = i})
    <3>1. CASE i = n
      <4>1. {k \in Ids : par[k] = i} = {}
        BY <1>6, <3>1, Constants
      <4> QED BY <1>7, <3>1, <4>1, ListsNothing
    <3>2. CASE i # n
      <4>1. {k \in Ids : par[k] = i} = Kids(t, i)
        BY <1>6, <3>2, Constants DEF Kids
      <4>2. kid[i] = t.kids[i] /\ Lists(t.kids[i], Kids(t, i))
        BY <1>0, <1>7, <3>2 DEF Linked
      <4> QED BY <4>1, <4>2
    <3> QED BY <3>1, <3>2
  <2> QED BY <2>1, <2>2 DEF Linked, Kids
<1>9. u.parent = par
  BY <1>3
<1>10. Discarded \notin Ids /\ Ids \subseteq Nodes /\ Nodes \subseteq Anchors
  BY Constants
<1>11. Acyclic(u)
  <2> SUFFICES ASSUME NEW S \in SUBSET Ids, S # {}, \A i \in S : par[i] \in S PROVE FALSE
    BY <1>9 DEF Acyclic
  <2>1. \A i \in S : t.parent[i] \in S
    BY <1>6, <1>10
  <2> QED BY <1>0, <2>1 DEF Acyclic
<1>12. p \in Ids => n \notin Above(u, p)
  <2> SUFFICES ASSUME p \in Ids PROVE n \notin Above(u, p)
    OBVIOUS
  <2>1. PICK A : A = Anchors \ {n}
    OBVIOUS
  <2>2. \A i \in Ids : par[i] \in A
    <3>1. \A i \in Ids : par[i] \in Anchors /\ par[i] # n
      BY <1>6, <1>10
    <3> QED BY <2>1, <3>1
  <2>3. u.parent[p] \in A /\ ClosedUp(u, A)
    BY <1>9, <2>2 DEF ClosedUp
  <2>4. Above(u, p) \subseteq A
    BY <1>8, <2>3, LinkedIsParented, AboveIsLeast
  <2> QED BY <2>1, <2>4
<1>13. p \in Anchors /\ Sound(u)
  BY <1>8, <1>10, <1>11 DEF Sound
<1>14. /\ Sound(setParent(u, n, p))
       /\ \A i \in Ids : setParent(u, n, p).parent[i] = IF i = n THEN p ELSE u.parent[i]
  BY <1>12, <1>13, SetParentSound
<1> QED BY <1>4, <1>6, <1>9, <1>14

(* "If a stream is made dependent on one of its own dependencies": after   *)
(* the move, n is not above its new parent.                                *)
LEMMA MoveFormerlySound ==
    ASSUME NEW t, Sound(t), NEW n \in Ids, NEW p \in Nodes, p # n
    PROVE  /\ Sound(MoveFormerly(t, n, p))
           /\ p \in Ids => n \notin Above(MoveFormerly(t, n, p), p)
           /\ \/ MoveFormerly(t, n, p) = t
              \/ p \in Ids /\ \A i \in Ids : MoveFormerly(t, n, p).parent[i] =
                                              IF i = p THEN t.parent[n] ELSE t.parent[i]
<1>0. Linked(t) /\ Parented(t) /\ Acyclic(t)
  BY LinkedIsParented DEF Sound
<1>1. CASE ~(p # 0 /\ n \in Above(t, p))
  <2>1. p \in Ids => p # 0
    BY Constants
  <2> QED BY <1>1, <2>1 DEF MoveFormerly
<1>2. CASE p # 0 /\ n \in Above(t, p)
  <2>0. p \in Ids
    BY <1>2 DEF Nodes
  <2>1. PICK a, u : a = t.parent[n] /\ u = setParent(t, p, a)
    OBVIOUS
  <2>2. MoveFormerly(t, n, p) = u
    BY <1>2, <2>1 DEF MoveFormerly
  <2>3. p \notin Above(t, p) /\ n \notin Above(t, n)
    BY <1>0, <2>0, NotAboveItself
  <2>4. Above(t, n) \subseteq Above(t, p)
    BY <1>0, <1>2, <2>0, AboveAbove
  <2>5. a \in Above(t, n) /\ (a \in Ids => Above(t, a) \subseteq Above(t, n))
    BY <1>0, <2>1, AboveParent
  <2>6. a \in Ids => a # p /\ p \notin Above(t, a)
    BY <2>3, <2>4, <2>5
  <2>7. a \in Anchors
    BY <1>0, <2>1 DEF Parented
  <2>8. Sound(u) /\ \A i \in Ids : u.parent[i] = IF i = p THEN a ELSE t.parent[i]
    BY <2>0, <2>1, <2>6, <2>7, SetParentSound
  <2>9. Above(u, p) \subseteq Above(t, n)
    <3>1. ClosedUp(t, Above(t, n))
      BY <1>0, AboveIsLeast
    <3>2. u.parent[p] \in Above(t, n) /\ ClosedUp(u, Above(t, n))
      BY <2>0, <2>5, <2>8, <3>1 DEF ClosedUp
    <3>3. Parented(u)
      BY <2>8, LinkedIsParented DEF Sound
    <3> QED BY <2>0, <3>2, <3>3, AboveIsLeast
  <2> QED BY <2>0, <2>1, <2>2, <2>3, <2>8, <2>9
<1> QED BY <1>1, <1>2

(* The exclusive flag, and the move of n that follows it at once: between  *)
(* the two the tree may have a cycle.                                      *)
LEMMA ExclusiveSound ==
    ASSUME NEW t, Sound(t), NEW n \in Ids, NEW p \in Nodes, p # n,
           p \in Ids => n \notin Above(t, p)
    PROVE  /\ Sound(setParent(MoveSiblings(t, n, p), n, p))
           /\ \A i \in Ids : setParent(MoveSiblings(t, n, p), n, p).parent[i] =
                IF i = n THEN p ELSE IF t.parent[i] = p THEN n ELSE t.parent[i]
<1>0. Linked(t) /\ Parented(t) /\ Acyclic(t) /\ n \in Nodes /\ p \in Anchors
  BY LinkedIsParented, Constants DEF Sound
<1>1. PICK s, X : s = t.kids[p] /\ X = Kids(t, p)
  OBVIOUS
<1>2. Lists(s, X) /\ Lists(t.kids[n], Kids(t, n))
  BY <1>0, <1>1 DEF Linked
<1>3. PICK others : others = RemoveFirst(s, n)
  OBVIOUS
<1>4. Lists(others, X \ {n})
  BY <1>2, <1>3, ListsRemoved
<1>5. PICK par : par = [i \in Ids |-> IF i \in ToSet(others) THEN n ELSE t.parent[i]]
  OBVIOUS
<1>6. PICK one, below : one = (IF Len(others) < Len(s) THEN <<n>> ELSE <<>>)
                        /\ below = Reverse(others) \o t.kids[n]
  OBVIOUS
<1>7. PICK kid : kid = [t.kids EXCEPT ![p] = one, ![n] = below]
  OBVIOUS
<1>8. PICK u : u = [parent |-> par, kids |-> kid]
  OBVIOUS
<1>9. t.parent \in [Ids -> Anchors] /\ t.kids \in [Nodes -> Seq(Ids)]
  BY <1>0 DEF Linked, Trees
<1>10. MoveSiblings(t, n, p) = u
  <2>1. kid = [t.kids EXCEPT ![p] = IF Len(others) < Len(@) THEN <<n>> ELSE <<>>,
                             ![n] = Reverse(others) \o @]
    BY <1>0, <1>1, <1>6, <1>7, <1>9
  <2> QED BY <1>1, <1>3, <1>5, <1>8, <2>1 DEF MoveSiblings
<1>11. /\ par \in [Ids -> Anchors]
       /\ \A i \in Ids : par[i] = IF i \in X \ {n} THEN n ELSE t.parent[i]
  <2>1. ToSet(others) = X \ {n}
    BY <1>4, ListsFacts
  <2>2. n \in Anchors
    BY <1>0, Constants
  <2> QED BY <1>5, <1>9, <2>1, <2>2
<1>12. Lists(one, X \intersect {n})
  <2>1. CASE n \in X
    <3>1. PICK j \in 1 .. Len(s) : s[j] = n
      BY <1>2, <2>1 DEF Lists
    <3>2. Len(others) < Len(s)
      <4>1. IsFiniteSet(X)
        BY <1>2, ListsLength
      <4>2. Cardinality(X \ {n}) = Cardinality(X) - 1
        BY <2>1, <4>1, FS_RemoveElement
      <4>3. Len(s) = Cardinality(X)
        BY <1>2, <4>1, ListsLength
      <4>4. Len(others) = Cardinality(X \ {n})
        BY <1>4, <4>1, FS_RemoveElement, ListsLength
      <4>5. Cardinality(X) \in Nat
        BY <4>1, FS_CardinalityType
      <4> QED BY <4>2, <4>3, <4>4, <4>5
    <3>3. one = <<n>> /\ X \intersect {n} = {n}
      BY <1>6, <2>1, <3>2
    <3> QED BY <3>3, ListsOne
  <2>2. CASE n \notin X
    <3>1. X \ {n} = X /\ X \intersect {n} = {}
      BY <2>2
    <3>2. IsFiniteSet(X)
      BY <1>2, ListsLength
    <3>3. Len(others) = Cardinality(X) /\ Len(s) = Cardinality(X) /\ Cardinality(X) \in Nat
      BY <1>2, <1>4, <3>1, <3>2, ListsLength, FS_CardinalityType
    <3>4. one = <<>>
      BY <1>6, <3>3
    <3> QED BY <3>1, <3>4, ListsNothing
  <2> QED BY <2>1, <2>2
<1>13. Lists(below, (X \ {n}) \union Kids(t, n))
  <2>1. (X \ {n}) \intersect Kids(t, n) = {}
    BY <1>1 DEF Kids
  <2>2. PICK r, w : r = Reverse(others) /\ w = t.kids[n]
    OBVIOUS
  <2>3. Lists(r, X \ {n}) /\ Lists(w, Kids(t, n))
    BY <1>2, <1>4, <2>2, ListsReversed
  <2> QED BY <1>6, <2>1, <2>2, <2>3, ListsJoined
<1>14. \A i \in Nodes : kid[i] = IF i = n THEN below ELSE IF i = p THEN one ELSE t.kids[i]
  BY <1>0, <1>7, <1>9
<1>15. u.parent = par /\ u.kids = kid
  BY <1>8
<1>16. ASSUME NEW i \in Nodes PROVE Lists(kid[i], Kids(u, i))
  <2>1. CASE i = n
    <3>1. Kids(u, n) = (X \ {n}) \union Kids(t, n)
      <4>1. \A k \in Ids : par[k] = n <=> k \in X \ {n} \/ t.parent[k] = n
        BY <1>11
      <4> QED BY <1>1, <1>15, <4>1 DEF Kids
    <3> QED BY <1>13, <1>14, <2>1, <3>1
  <2>2. CASE i = p
    <3>1. Kids(u, p) = X \intersect {n}
      <4>1. \A k \in Ids : par[k] = p <=> k \in X \intersect {n}
        BY <1>1, <1>11 DEF Kids
      <4> QED BY <1>1, <1>15, <4>1 DEF Kids
    <3> QED BY <1>12, <1>14, <2>2, <3>1
  <2>3. CASE i # n /\ i # p
    <3>1. Kids(u, i) = Kids(t, i)
      <4>1. \A k \in Ids : par[k] = i <=> t.parent[k] = i
        BY <1>1, <1>11, <2>3 DEF Kids
      <4> QED BY <1>15, <4>1 DEF Kids
    <3> QED BY <1>0, <1>14, <2>3, <3>1 DEF Linked
  <2> QED BY <2>1, <2>2, <2>3
<1>17. Linked(u)
  <2>1. kid \in [Nodes -> Seq(Ids)]
    <3>1. \A i \in Nodes : kid[i] \in Seq(Ids)
      <4> TAKE i \in Nodes
      <4>1. PICK Y : Y = Kids(u, i)
        OBVIOUS
      <4>2. kid[i] \in Seq(Y) /\ Y \subseteq Ids
        BY <1>16, <4>1 DEF Lists, Kids
      <4> QED BY <4>2
    <3>2. kid = [i \in Nodes |-> kid[i]]
      BY <1>7, <1>9
    <3> QED BY <3>1, <3>2
  <2>2. u \in Trees
    BY <1>8, <1>11, <2>1 DEF Trees
  <2> QED BY <1>15, <1>16, <2>2 DEF Linked
<1>18. PICK v : v = setParent(u, n, p)
  OBVIOUS
<1>19. Linked(v) /\ \A i \in Ids : v.parent[i] = IF i = n THEN p ELSE u.parent[i]
  BY <1>0, <1>17, <1>18, SetParentLinks
<1>20. Acyclic(v)
  <2>1. v.parent[n] = p
    BY <1>19
  <2>2. \A i \in Ids \ {n} : \/ v.parent[i] = t.parent[i]
                             \/ v.parent[i] = n /\ t.parent[i] = p
                             \/ v.parent[i] \notin Ids
    BY <1>1, <1>11, <1>15, <1>19 DEF Kids
  <2>3. p \in Ids => p # n /\ n \notin Above(t, p)
    OBVIOUS
  <2> QED BY <1>0, <2>1, <2>2, <2>3, MovesKeepAcyclic
<1>21. \A i \in Ids : v.parent[i] =
         IF i = n THEN p ELSE IF t.parent[i] = p THEN n ELSE t.parent[i]
  BY <1>1, <1>11, <1>15, <1>19 DEF Kids
<1> QED BY <1>10, <1>18, <1>19, <1>20, <1>21 DEF Sound

LEMMA DependSound ==
    ASSUME NEW t, Sound(t), NEW n \in Ids, NEW p \in Nodes, p # n, NEW exclusive
    PROVE  Sound(Depend(t, n, p, exclusive))
<1>1. PICK u : u = MoveFormerly(t, n, p)
  OBVIOUS
<1>2. Sound(u) /\ (p \in Ids => n \notin Above(u, p))
  BY <1>1, MoveFormerlySound
<1>3. Depend(t, n, p, exclusive) =
        setParent(IF exclusive THEN MoveSiblings(u, n, p) ELSE u, n, p)
  BY <1>1 DEF Depend
<1>4. CASE exclusive
  BY <1>2, <1>3, <1>4, ExclusiveSound
<1>5. CASE ~exclusive
  <2>1. Sound(setParent(u, n, p))
    BY <1>2, SetParentSound, Constants
  <2> QED BY <1>3, <1>5, <2>1
<1> QED BY <1>4, <1>5

-------------------------------------------------------------------------------
(* Sorting: each kid stays on the list once, whatever Less says.           *)
LEMMA MaxOf ==
    ASSUME NEW m \in Nat, NEW Z \in SUBSET (0 .. m), Z # {}
    PROVE  \E x \in Z : \A y \in Z : y <= x
<1> DEFINE S == {k \in Nat : \A T \in SUBSET (0 .. k) :
                   T # {} => \E x \in T : \A y \in T : y <= x}
<1>1. 0 \in S
  <2>1. \A x, y \in 0 .. 0 : x <= y
    OBVIOUS
  <2> QED BY <2>1
<1>2. ASSUME NEW k \in Nat, k \in S PROVE k + 1 \in S
  <2> SUFFICES ASSUME NEW T \in SUBSET (0 .. k + 1), T # {}
               PROVE  \E x \in T : \A y \in T : y <= x
    OBVIOUS
  <2>1. CASE k + 1 \in T
    BY <2>1
  <2>2. CASE k + 1 \notin T
    <3>1. T \in SUBSET (0 .. k)
      <4>1. \A y \in 0 .. k + 1 : y = k + 1 \/ y \in 0 .. k
        OBVIOUS
      <4> QED BY <2>2, <4>1
    <3> QED BY <1>2, <3>1
  <2> QED BY <2>1, <2>2
<1>3. Nat \subseteq S
  <2> HIDE DEF S
  <2> QED BY <1>1, <1>2, SetInduction
<1> QED BY <1>3

LEMMA MaxIsLast ==
    ASSUME NEW k \in Nat \ {0}, NEW Z \in SUBSET (1 .. k), Z # {}
    PROVE  Max(Z) \in Z /\ (k \in Z => Max(Z) = k)
<1>1. k \in Nat /\ Z \in SUBSET (0 .. k)
  OBVIOUS
<1>2. \E x \in Z : \A y \in Z : y <= x
  BY <1>1, MaxOf
<1>3. PICK x \in Z : \A y \in Z : x >= y
  BY <1>1, <1>2
<1>4. Max(Z) \in Z /\ \A y \in Z : Max(Z) >= y
  BY <1>3 DEF Max
<1>5. PICK m : m = Max(Z)
  OBVIOUS
<1>6. m \in 1 .. k /\ (k \in Z => m >= k)
  BY <1>4, <1>5
<1> QED BY <1>4, <1>5, <1>6

(* One element finds its place among those before it.                      *)
LEMMA ListsInserted ==
    ASSUME NEW X, NEW s, Lists(s, X), NEW n, n \notin X
    PROVE  Lists(Insert(s, n), X \union {n})
<1>0. s \in Seq(X) /\ Len(s) \in Nat /\ DOMAIN s = 1 .. Len(s)
      /\ \A j \in 1 .. Len(s) : s[j] \in X
  BY DEF Lists
<1>1. PICK stop : stop = {j \in DOMAIN s : ~Less(n, s[j])}
  OBVIOUS
<1>2. PICK at : at = CHOOSE j \in stop \union {0} : \A l \in stop : l <= j
  OBVIOUS
<1>3. at \in 0 .. Len(s)
  <2>1. PICK Z : Z = stop \union {0}
    OBVIOUS
  <2>2. Z \in SUBSET (0 .. Len(s)) /\ Z # {}
    BY <1>0, <1>1, <2>1
  <2>3. \E x \in Z : \A y \in Z : y <= x
    BY <1>0, <2>2, MaxOf
  <2>4. \E j \in stop \union {0} : \A l \in stop : l <= j
    BY <2>1, <2>3
  <2>5. at \in stop \union {0}
    BY <1>2, <2>4
  <2> QED BY <2>1, <2>2, <2>5
<1>4. Insert(s, n) = (SubSeq(s, 1, at) \o <<n>>) \o SubSeq(s, at + 1, Len(s))
  <2>1. Insert(s, n) = InsertAt(s, at + 1, n)
    BY <1>1, <1>2 DEF Insert
  <2>2. (at + 1) - 1 = at
    BY <1>3
  <2> QED BY <2>1, <2>2 DEF InsertAt
<1>5. PICK l, b, c, A, B : /\ l = Len(s) /\ b = at + 1 /\ c = 1
                           /\ A = {s[j] : j \in c .. at} /\ B = {s[j] : j \in b .. l}
  OBVIOUS
<1>6. /\ c \in 1 .. Len(s) + 1 /\ at \in c - 1 .. Len(s)
      /\ b \in 1 .. Len(s) + 1 /\ l \in b - 1 .. Len(s)
  BY <1>0, <1>3, <1>5
<1>7. PICK u, v : u = SubSeq(s, c, at) /\ v = SubSeq(s, b, l)
  OBVIOUS
<1>8. Lists(u, A) /\ Lists(v, B)
  BY <1>5, <1>6, <1>7, ListsPart
<1>9. /\ \A j \in c .. at : j \in 1 .. Len(s)
      /\ \A j \in b .. l : j \in 1 .. Len(s) /\ j \notin c .. at
      /\ \A j \in 1 .. Len(s) : j \in c .. at \/ j \in b .. l
  BY <1>0, <1>3, <1>5
<1>10. A \intersect B = {} /\ A \union B = X
  <2>1. A \intersect B = {}
    <3> SUFFICES ASSUME NEW j \in c .. at, NEW k \in b .. l, s[j] = s[k] PROVE FALSE
      BY <1>5
    <3>1. j \in 1 .. Len(s) /\ k \in 1 .. Len(s) /\ j # k
      BY <1>9
    <3> QED BY <3>1 DEF Lists
  <2>2. A \union B \subseteq X
    BY <1>0, <1>5, <1>9
  <2>3. X \subseteq A \union B
    <3> SUFFICES ASSUME NEW x \in X PROVE x \in A \union B
      OBVIOUS
    <3>1. PICK j \in 1 .. Len(s) : s[j] = x
      BY DEF Lists
    <3> QED BY <1>5, <1>9, <3>1
  <2> QED BY <2>1, <2>2, <2>3
<1>11. PICK w, C : w = u \o <<n>> /\ C = A \union {n}
  OBVIOUS
<1>12. Lists(w, C)
  <2>1. Lists(<<n>>, {n}) /\ A \intersect {n} = {}
    BY <1>10, ListsOne
  <2> QED BY <1>8, <1>11, <2>1, ListsJoined
<1>13. Lists(w \o v, C \union B)
  <2>1. C \intersect B = {}
    BY <1>10, <1>11
  <2> QED BY <1>8, <1>12, <2>1, ListsJoined
<1>14. C \union B = X \union {n}
  BY <1>10, <1>11
<1> QED BY <1>4, <1>5, <1>7, <1>11, <1>13, <1>14

(* How FoldLeft folds Insert over the first k members of s.                *)
Folding(f, k, s) ==
    f = [z \in SUBSET (1 .. k) |->
           IF z = {} THEN <<>> ELSE Insert(f[z \ {Max(z)}], s[Max(z)])]

LEMMA FoldsExist ==
    ASSUME NEW s, NEW m \in Nat
    PROVE  \E f : Folding(f, m, s)
<1> DEFINE S == {k \in Nat : \E f : Folding(f, k, s)}
<1>1. 0 \in S
  <2>1. PICK f : f = [z \in {{}} |-> <<>>]
    OBVIOUS
  <2>2. SUBSET (1 .. 0) = {{}}
    OBVIOUS
  <2>3. f = [z \in SUBSET (1 .. 0) |->
               IF z = {} THEN <<>> ELSE Insert(f[z \ {Max(z)}], s[Max(z)])]
    BY <2>1, <2>2
  <2> QED BY <2>3 DEF Folding
<1>2. ASSUME NEW k \in Nat, k \in S PROVE k + 1 \in S
  <2>1. PICK f : Folding(f, k, s)
    BY <1>2
  <2>2. PICK j : j = k + 1
    OBVIOUS
  <2>3. PICK g : g = [z \in SUBSET (1 .. j) |->
                        IF j \in z THEN Insert(f[z \ {j}], s[j]) ELSE f[z]]
    OBVIOUS
  <2>4. j \in Nat \ {0} /\ \A z \in SUBSET (1 .. j) : j \notin z => z \in SUBSET (1 .. k)
    BY <2>2
  <2>5. ASSUME NEW z \in SUBSET (1 .. j)
        PROVE  g[z] = IF z = {} THEN <<>> ELSE Insert(g[z \ {Max(z)}], s[Max(z)])
    <3>1. CASE j \in z
      <4>1. z # {} /\ Max(z) = j
        BY <2>4, <3>1, MaxIsLast
      <4>2. z \ {j} \in SUBSET (1 .. j) /\ j \notin z \ {j}
        OBVIOUS
      <4>3. g[z] = Insert(f[z \ {j}], s[j]) /\ g[z \ {j}] = f[z \ {j}]
        BY <2>3, <3>1, <4>2
      <4> QED BY <4>1, <4>3
    <3>2. CASE j \notin z
      <4>1. z \in SUBSET (1 .. k)
        BY <2>4, <3>2
      <4>2. g[z] = f[z]
        BY <2>3, <3>2
      <4>3. f[z] = IF z = {} THEN <<>> ELSE Insert(f[z \ {Max(z)}], s[Max(z)])
        BY <2>1, <4>1 DEF Folding
      <4>4. z \ {Max(z)} \in SUBSET (1 .. j) /\ j \notin z \ {Max(z)}
        BY <3>2
      <4>5. g[z \ {Max(z)}] = f[z \ {Max(z)}]
        BY <2>3, <4>4
      <4> QED BY <4>2, <4>3, <4>5
    <3> QED BY <3>1, <3>2
  <2>6. Folding(g, j, s)
    <3>1. g = [z \in SUBSET (1 .. j) |-> g[z]]
      BY <2>3
    <3> QED BY <2>5, <3>1 DEF Folding
  <2> QED BY <2>2, <2>6
<1>3. Nat \subseteq S
  <2> HIDE DEF S
  <2> QED BY <1>1, <1>2, SetInduction
<1> QED BY <1>3

LEMMA ListsSorted ==
    ASSUME NEW X, NEW s, Lists(s, X)
    PROVE  Lists(FoldLeft(Insert, <<>>, s), X)
<1>0. s \in Seq(X) /\ Len(s) \in Nat /\ DOMAIN s = 1 .. Len(s)
  BY DEF Lists
<1>1. PICK f : f = CHOOSE iter : iter = [z \in SUBSET DOMAIN s |->
                 IF z = {} THEN <<>> ELSE Insert(iter[z \ {Max(z)}], s[Max(z)])]
  OBVIOUS
<1>2. FoldLeft(Insert, <<>>, s) = f[DOMAIN s]
  BY <1>1 DEF FoldLeft, MapThenFoldSet
<1>3. Folding(f, Len(s), s)
  <2>1. PICK g : Folding(g, Len(s), s)
    BY <1>0, FoldsExist
  <2>2. f = CHOOSE iter : Folding(iter, Len(s), s)
    BY <1>0, <1>1 DEF Folding
  <2> QED BY <2>1, <2>2
<1> DEFINE S == {k \in Nat : k <= Len(s) => Lists(f[1 .. k], {s[j] : j \in 1 .. k})}
<1>4. 0 \in S
  <2>1. f[{}] = <<>>
    BY <1>3 DEF Folding
  <2>2. 1 .. 0 = {} /\ {s[j] : j \in 1 .. 0} = {}
    OBVIOUS
  <2> QED BY <2>1, <2>2, ListsNothing
<1>5. ASSUME NEW k \in Nat, k \in S PROVE k + 1 \in S
  <2> SUFFICES ASSUME k + 1 <= Len(s)
               PROVE  Lists(f[1 .. k + 1], {s[j] : j \in 1 .. k + 1})
    OBVIOUS
  <2>1. PICK i, Z, Y, r : i = k + 1 /\ Z = 1 .. i /\ Y = {s[j] : j \in 1 .. k} /\ r = f[1 .. k]
    OBVIOUS
  <2>2. Lists(r, Y)
    BY <1>0, <1>5, <2>1
  <2>3. i \in Nat \ {0} /\ i \in Z /\ Z \ {i} = 1 .. k /\ Z \in SUBSET (1 .. i)
        /\ Z \in SUBSET (1 .. Len(s)) /\ i \in 1 .. Len(s)
    BY <1>0, <2>1
  <2>4. Max(Z) = i
    BY <2>3, MaxIsLast
  <2>5. f[Z] = Insert(f[Z \ {Max(Z)}], s[Max(Z)])
    BY <1>3, <2>3 DEF Folding
  <2>6. f[Z] = Insert(r, s[i])
    BY <2>1, <2>3, <2>4, <2>5
  <2>7. s[i] \notin Y
    <3> SUFFICES ASSUME NEW j \in 1 .. k, s[i] = s[j] PROVE FALSE
      BY <2>1
    <3>1. j \in 1 .. Len(s) /\ j # i
      BY <1>0, <2>1
    <3> QED BY <2>3, <3>1 DEF Lists
  <2>8. Lists(Insert(r, s[i]), Y \union {s[i]})
    BY <2>2, <2>7, ListsInserted
  <2>9. {s[j] : j \in 1 .. k + 1} = Y \union {s[i]}
    <3>1. 1 .. k + 1 = (1 .. k) \union {i}
      BY <2>1
    <3> QED BY <2>1, <3>1
  <2> QED BY <2>1, <2>6, <2>8, <2>9
<1>6. Nat \subseteq S
  <2> HIDE DEF S
  <2> QED BY <1>4, <1>5, SetInduction
<1>7. {s[j] : j \in 1 .. Len(s)} = X
  BY <1>0, ListsFacts DEF ToSet
<1> QED BY <1>0, <1>2, <1>6, <1>7

LEMMA SortedSound ==
    ASSUME Sound(tree), NEW visited
    PROVE  Sound(SortKids(visited))
<1>0. Linked(tree) /\ Acyclic(tree)
  BY DEF Sound
<1>1. PICK kid : kid = [i \in Nodes |-> IF i \in visited THEN KidsInOrder(i) ELSE tree.kids[i]]
  OBVIOUS
<1>2. PICK u : u = [tree EXCEPT !.kids = kid]
  OBVIOUS
<1>3. SortKids(visited) = u
  BY <1>1, <1>2 DEF SortKids
<1>4. ASSUME NEW i \in Nodes PROVE Lists(kid[i], Kids(tree, i))
  <2>1. Lists(tree.kids[i], Kids(tree, i))
    BY <1>0 DEF Linked
  <2>2. CASE i \in visited
    <3>1. kid[i] = KidsInOrder(i)
      BY <1>1, <2>2
    <3>2. PICK s, X : s = tree.kids[i] /\ X = Kids(tree, i)
      OBVIOUS
    <3>3. kid[i] = s \/ kid[i] = FoldLeft(Insert, <<>>, s)
      BY <3>1, <3>2 DEF KidsInOrder
    <3>4. Lists(FoldLeft(Insert, <<>>, s), X)
      BY <2>1, <3>2, ListsSorted
    <3> QED BY <2>1, <3>2, <3>3, <3>4
  <2>3. CASE i \notin visited
    BY <1>1, <2>1, <2>3
  <2> QED BY <2>2, <2>3
<1>5. kid \in [Nodes -> Seq(Ids)]
  <2>1. \A i \in Nodes : kid[i] \in Seq(Ids)
    <3> TAKE i \in Nodes
    <3>1. PICK X : X = Kids(tree, i)
      OBVIOUS
    <3>2. kid[i] \in Seq(X) /\ X \subseteq Ids
      BY <1>4, <3>1 DEF Lists, Kids
    <3> QED BY <3>2
  <2>2. kid = [i \in Nodes |-> kid[i]]
    BY <1>1
  <2> QED BY <2>1, <2>2
<1>6. u \in Trees /\ u.parent = tree.parent /\ u.kids = kid
  BY <1>0, <1>2, <1>5 DEF Linked, Trees
<1>7. \A i \in Nodes : Kids(u, i) = Kids(tree, i)
  BY <1>6 DEF Kids
<1>8. Linked(u)
  BY <1>4, <1>6, <1>7 DEF Linked
<1>9. Acyclic(u)
  BY <1>0, <1>6 DEF Acyclic
<1> QED BY <1>3, <1>8, <1>9 DEF Sound

-------------------------------------------------------------------------------
LEMMA EmptyTreeSound == Init => Sound(tree)
<1> SUFFICES ASSUME Init PROVE Sound(tree)
  OBVIOUS
<1>1. Nil \in Anchors /\ Nil \notin Nodes /\ Nil \notin Ids
  BY Constants DEF Anchors
<1>2. tree.parent = [i \in Ids |-> Nil] /\ tree.kids = [i \in Nodes |-> <<>>]
      /\ tree = [parent |-> tree.parent, kids |-> tree.kids]
  BY DEF Init
<1>3. tree \in Trees
  <2>1. <<>> \in Seq(Ids)
    OBVIOUS
  <2> QED BY <1>1, <1>2, <2>1 DEF Trees
<1>4. \A p \in Nodes : tree.kids[p] = <<>> /\ Kids(tree, p) = {}
  BY <1>1, <1>2 DEF Kids
<1>5. Linked(tree)
  BY <1>3, <1>4, ListsNothing DEF Linked
<1>6. Acyclic(tree)
  BY <1>1, <1>2 DEF Acyclic
<1> QED BY <1>5, <1>6 DEF Sound

(* What is evicted comes from the list.                                    *)
LEMMA EvictedIsListed ==
    ASSUME NEW list \in Seq(Ids), NEW max \in Nat
    PROVE  Evicted(list, max) \subseteq ToSet(list) /\ ToSet(list) \subseteq Ids
<1>1. Len(list) \in Nat /\ DOMAIN list = 1 .. Len(list)
      /\ \A j \in 1 .. Len(list) : list[j] \in Ids
  OBVIOUS
<1>2. ToSet(list) \subseteq Ids
  BY <1>1 DEF ToSet
<1>3. CASE max > 0 /\ Len(list) = max
  <2>1. Head(list) = list[1] /\ 1 \in DOMAIN list
    BY <1>1, <1>3
  <2> QED BY <1>2, <1>3, <2>1 DEF Evicted, ToSet
<1>4. CASE ~(max > 0 /\ Len(list) = max)
  BY <1>2, <1>4 DEF Evicted
<1> QED BY <1>3, <1>4

LEMMA EvictedListed ==
    ASSUME Bookkeeping
    PROVE  /\ Evicted(closedNodes, MaxClosed) \subseteq ToSet(closedNodes)
           /\ Evicted(idleNodes, MaxIdle) \subseteq ToSet(idleNodes)
           /\ ToSet(closedNodes) \subseteq Ids /\ ToSet(idleNodes) \subseteq Ids
<1>1. MaxClosed \in Nat /\ MaxIdle \in Nat /\ closedNodes \in Seq(Ids) /\ idleNodes \in Seq(Ids)
  BY PriorityAssumption DEF Bookkeeping
<1> QED BY <1>1, EvictedIsListed

LEMMA SoundKept ==
    ASSUME Bookkeeping, Sound(tree), [Next]_vars
    PROVE  Sound(tree)'
<1>0. known \subseteq Ids /\ 0 \in Nodes /\ 0 \notin Ids /\ Ids \subseteq Nodes
  BY Constants DEF Bookkeeping
<1>1. ASSUME NEW id \in Ids, NEW pusher, OpenStream(id, pusher) PROVE Sound(tree')
  <2>1. CASE id \in known
    BY <1>1, <2>1 DEF OpenStream
  <2>2. CASE id \notin known
    <3>1. PICK p : p = IF pusher \in known THEN pusher ELSE 0
      OBVIOUS
    <3>2. p \in Nodes /\ p # id
      BY <1>0, <2>2, <3>1
    <3>3. tree' = NewNode(tree, id, p)
      BY <1>1, <2>2, <3>1 DEF OpenStream
    <3> QED BY <3>2, <3>3, NewNodeSound
  <2> QED BY <2>1, <2>2
<1>2. ASSUME NEW id \in Ids, CloseStream(id) PROVE Sound(tree')
  <2>1. PICK gone : gone = IF MaxClosed = 0 THEN {id} ELSE Evicted(closedNodes, MaxClosed)
    OBVIOUS
  <2>2. gone \in SUBSET Ids
    BY <2>1, EvictedListed
  <2>3. tree' = Without(tree, gone)
    BY <1>2, <2>1 DEF CloseStream
  <2> QED BY <2>2, <2>3, WithoutSound
<1>3. ASSUME NEW id \in Ids, NEW dep \in Nodes, NEW w, NEW x, AdjustStream(id, dep, w, x)
      PROVE  Sound(tree')
  <2>1. PICK gone, grown : /\ gone = IF id \notin known THEN Evicted(idleNodes, MaxIdle) ELSE {}
                           /\ grown = IF id \notin known THEN NewNode(tree, id, 0) ELSE tree
    OBVIOUS
  <2>2. PICK t : t = Without(grown, gone)
    OBVIOUS
  <2>3. Sound(grown)
    BY <1>0, <2>1, NewNodeSound
  <2>4. gone \in SUBSET Ids
    BY <2>1, EvictedListed
  <2>5. Sound(t)
    BY <2>2, <2>3, <2>4, WithoutSound
  <2>6. \/ tree' = setParent(t, id, 0)
        \/ tree' = t
        \/ id # dep /\ tree' = Depend(t, id, dep, x)
    BY <1>3, <2>1, <2>2 DEF AdjustStream
  <2>7. Sound(setParent(t, id, 0))
    BY <1>0, <2>5, SetParentSound, Constants
  <2>8. id # dep => Sound(Depend(t, id, dep, x))
    BY <2>5, DependSound
  <2> QED BY <2>5, <2>6, <2>7, <2>8
<1>4. CASE PushAny \/ UNCHANGED vars
  <2>1. tree' = tree
    BY <1>4 DEF PushAny, Push, vars
  <2> QED BY <2>1
<1>5. CASE PopAny
  <2>1. \E visited : tree' = SortKids(visited)
    BY <1>5 DEF PopAny, PopNothing, Pop
  <2> QED BY <2>1, SortedSound
<1>6. Sound(tree')
  BY <1>1, <1>2, <1>3, <1>4, <1>5 DEF Next
<1> QED BY <1>6

(* Whatever PRIORITY frames arrive, exclusive or not, whichever nodes are  *)
(* evicted and however Pop sorts: parent and kids of priorityNode agree,   *)
(* no kid is on a list twice, and addBytes and walkReadyInOrder meet no    *)
(* cycle.                                                                  *)
THEOREM TreeStaysSound == Spec => []TreeIsSound
<1>1. Init => Bookkeeping /\ Sound(tree)
  <2>1. Init => Bookkeeping
    BY PriorityAssumption DEF Init, Bookkeeping, RetentionBound, ToSet
  <2> QED BY <2>1, EmptyTreeSound
<1>2. Bookkeeping /\ Sound(tree) /\ [Next]_vars => Bookkeeping' /\ Sound(tree)'
  BY BookkeepingKept, SoundKept
<1>3. Bookkeeping /\ Sound(tree) => TreeIsSound
  <2> SUFFICES ASSUME Sound(tree) PROVE TreeIsSound
    OBVIOUS
  <2>0. Linked(tree) /\ Parented(tree) /\ Acyclic(tree)
    BY LinkedIsParented DEF Sound
  <2>1. \A i \in Ids : i \notin Above(tree, i)
    BY <2>0, NotAboveItself
  <2>2. ASSUME NEW i \in Ids, NEW p \in Nodes
        PROVE  Cardinality({j \in DOMAIN tree.kids[p] : tree.kids[p][j] = i}) =
                 (IF tree.parent[i] = p THEN 1 ELSE 0)
    <3>1. PICK s, X : s = tree.kids[p] /\ X = Kids(tree, p)
      OBVIOUS
    <3>2. Lists(s, X)
      BY <2>0, <3>1 DEF Linked
    <3>3. DOMAIN s = 1 .. Len(s) /\ \A j \in 1 .. Len(s) : s[j] \in X
      BY <3>2, ListsFacts
    <3>4. PICK J : J = {j \in DOMAIN s : s[j] = i}
      OBVIOUS
    <3>5. CASE tree.parent[i] = p
      <4>1. i \in X
        BY <3>1, <3>5 DEF Kids
      <4>2. PICK j \in 1 .. Len(s) : s[j] = i
        BY <3>2, <4>1 DEF Lists
      <4>3. J = {j}
        BY <3>2, <3>3, <3>4, <4>2 DEF Lists
      <4>4. Cardinality(J) = 1
        BY <4>3, FS_Singleton
      <4> QED BY <3>1, <3>4, <3>5, <4>4
    <3>6. CASE tree.parent[i] # p
      <4>1. i \notin X
        BY <3>1, <3>6 DEF Kids
      <4>2. J = {}
        BY <3>3, <3>4, <4>1
      <4>3. Cardinality(J) = 0
        BY <4>2, FS_EmptySet
      <4> QED BY <3>1, <3>4, <3>6, <4>3
    <3> QED BY <3>5, <3>6
  <2> QED BY <2>1, <2>2 DEF TreeIsSound
<1> QED BY <1>1, <1>2, <1>3, PTL DEF Spec

-------------------------------------------------------------------------------
(* The walk: which nodes it visits.                                        *)
LEMMA MembersJoined ==
    ASSUME NEW D, NEW s \in Seq(D), NEW u \in Seq(D)
    PROVE  ToSet(s \o u) = ToSet(s) \union ToSet(u)
<1>1. PICK r : r = s \o u
  OBVIOUS
<1>2. /\ r \in Seq(D) /\ Len(r) = Len(s) + Len(u)
      /\ \A j \in 1 .. Len(s) : r[j] = s[j]
      /\ \A j \in 1 .. Len(u) : r[Len(s) + j] = u[j]
  BY <1>1, Concatenates
<1>3. /\ Len(s) \in Nat /\ Len(u) \in Nat /\ DOMAIN s = 1 .. Len(s) /\ DOMAIN u = 1 .. Len(u)
      /\ DOMAIN r = 1 .. Len(r)
  BY <1>2
<1>4. ToSet(r) \subseteq ToSet(s) \union ToSet(u)
  <2> SUFFICES ASSUME NEW j \in 1 .. Len(r) PROVE r[j] \in ToSet(s) \union ToSet(u)
    BY <1>3 DEF ToSet
  <2>1. CASE j \in 1 .. Len(s)
    BY <1>2, <1>3, <2>1 DEF ToSet
  <2>2. CASE j \notin 1 .. Len(s)
    <3>1. PICK k : k = j - Len(s)
      OBVIOUS
    <3>2. k \in 1 .. Len(u) /\ Len(s) + k = j
      BY <1>2, <1>3, <2>2, <3>1
    <3>3. r[j] = u[k]
      BY <1>2, <3>2
    <3> QED BY <1>3, <3>2, <3>3 DEF ToSet
  <2> QED BY <2>1, <2>2
<1>5. ToSet(s) \subseteq ToSet(r)
  <2>1. \A j \in 1 .. Len(s) : j \in 1 .. Len(r)
    BY <1>2, <1>3
  <2> QED BY <1>2, <1>3, <2>1 DEF ToSet
<1>6. ToSet(u) \subseteq ToSet(r)
  <2> SUFFICES ASSUME NEW j \in 1 .. Len(u) PROVE u[j] \in ToSet(r)
    BY <1>3 DEF ToSet
  <2>1. PICK k : k = Len(s) + j
    OBVIOUS
  <2>2. k \in 1 .. Len(r) /\ r[k] = u[j]
    BY <1>2, <1>3, <2>1
  <2> QED BY <1>3, <2>2 DEF ToSet
<1> QED BY <1>1, <1>4, <1>5, <1>6

Flattening(f, seqs) ==
    f = [i \in 1 .. Len(seqs) |-> IF i = 1 THEN seqs[i] ELSE f[i - 1] \o seqs[i]]

(* FlattenSeq loses nothing and adds nothing.                              *)
LEMMA Flattened ==
    ASSUME NEW D, NEW seqs \in Seq(Seq(D))
    PROVE  /\ FlattenSeq(seqs) \in Seq(D)
           /\ \A x : x \in ToSet(FlattenSeq(seqs)) <=>
                       \E i \in 1 .. Len(seqs) : x \in ToSet(seqs[i])
<1>1. PICK m, S : m = Len(seqs) /\ S = Seq(D)
  OBVIOUS
<1>2. m \in Nat /\ \A i \in 1 .. m : seqs[i] \in S
  BY <1>1
<1>3. CASE m = 0
  <2>1. Len(seqs) = 0
    BY <1>1, <1>3
  <2>2. seqs = <<>>
    BY <2>1
  <2>3. FlattenSeq(seqs) = seqs
    BY <2>1, Zenon DEF FlattenSeq
  <2>4. ToSet(<<>>) = {} /\ <<>> \in Seq(D)
    BY DEF ToSet
  <2>5. \A i \in 1 .. Len(seqs) : FALSE
    BY <2>1
  <2> QED BY <2>2, <2>3, <2>4, <2>5
<1>4. CASE m # 0
  <2>1. PICK g : g = [i \in 1 .. m |-> [s \in S |-> s \o seqs[i]]]
    OBVIOUS
  <2>2. g \in [1 .. m -> [S -> S]] /\ \A i \in 1 .. m, s \in S : g[i][s] = s \o seqs[i]
    <3>1. \A i \in 1 .. m, s \in S : s \o seqs[i] \in S
      BY <1>1, <1>2, Concatenates
    <3> QED BY <2>1, <3>1
  <2>3. PICK e : e = <<>>
    OBVIOUS
  <2>4. e \in S
    BY <1>1, <2>3
  <2>5. PICK h : Solves(h, m, S, e, g)
    BY <1>2, <2>2, <2>4, Recursion
  <2>6. /\ h \in [0 .. m -> S] /\ h[0] = <<>>
        /\ \A i \in 1 .. m : h[i - 1] \in S /\ h[i] = h[i - 1] \o seqs[i]
    <3>1. h \in [0 .. m -> S] /\ h[0] = <<>> /\ \A i \in 1 .. m : h[i] = g[i][h[i - 1]]
      BY <2>3, <2>5 DEF Solves
    <3>2. \A i \in 1 .. m : i - 1 \in 0 .. m
      BY <1>2
    <3> QED BY <2>2, <3>1, <3>2
  <2>7. PICK f : f = [i \in 1 .. m |-> h[i]]
    OBVIOUS
  <2>8. Flattening(f, seqs)
    <3>1. ASSUME NEW i \in 1 .. m PROVE f[i] = IF i = 1 THEN seqs[i] ELSE f[i - 1] \o seqs[i]
      <4>1. CASE i = 1
        <5>1. h[1] = <<>> \o seqs[1]
          BY <1>2, <2>6, <4>1
        <5>2. seqs[1] \in Seq(D)
          BY <1>1, <1>2, <4>1
        <5>3. <<>> \o seqs[1] = seqs[1]
          BY <5>2
        <5> QED BY <2>7, <4>1, <5>1, <5>3
      <4>2. CASE i # 1
        <5>1. i - 1 \in 1 .. m
          BY <1>2, <4>2
        <5> QED BY <2>6, <2>7, <4>2, <5>1
      <4> QED BY <4>1, <4>2
    <3>2. f = [i \in 1 .. m |-> IF i = 1 THEN seqs[i] ELSE f[i - 1] \o seqs[i]]
      BY <2>7, <3>1
    <3> QED BY <1>1, <3>2 DEF Flattening
  <2>9. PICK u : u = CHOOSE f1 : Flattening(f1, seqs)
    OBVIOUS
  <2>10. FlattenSeq(seqs) = u[m]
    BY <1>1, <1>4, <2>9 DEF FlattenSeq, Flattening
  <2>11. u = [i \in 1 .. m |-> IF i = 1 THEN seqs[i] ELSE u[i - 1] \o seqs[i]]
    <3>1. Flattening(u, seqs)
      BY <2>8, <2>9
    <3> QED BY <1>1, <3>1 DEF Flattening
  <2> DEFINE T == {k \in Nat : k + 1 <= m =>
                     /\ u[k + 1] \in Seq(D)
                     /\ \A x : x \in ToSet(u[k + 1]) <=>
                                 \E i \in 1 .. k + 1 : x \in ToSet(seqs[i])}
  <2>12. 0 \in T
    <3>1. u[1] = seqs[1] /\ seqs[1] \in Seq(D)
      BY <1>1, <1>2, <1>4, <2>11
    <3>2. 1 .. 0 + 1 = {1} /\ 0 + 1 = 1
      OBVIOUS
    <3> QED BY <3>1, <3>2
  <2>13. ASSUME NEW k \in Nat, k \in T PROVE k + 1 \in T
    <3> SUFFICES ASSUME (k + 1) + 1 <= m
                 PROVE  /\ u[(k + 1) + 1] \in Seq(D)
                        /\ \A x : x \in ToSet(u[(k + 1) + 1]) <=>
                                    \E i \in 1 .. (k + 1) + 1 : x \in ToSet(seqs[i])
      OBVIOUS
    <3>1. PICK i, j : i = k + 1 /\ j = (k + 1) + 1
      OBVIOUS
    <3>2. i \in 1 .. m /\ j \in 1 .. m /\ j # 1 /\ j - 1 = i
      BY <1>2, <3>1
    <3>3. u[j] = u[i] \o seqs[j]
      BY <2>11, <3>2
    <3>4. u[i] \in Seq(D) /\ \A x : x \in ToSet(u[i]) <=> \E l \in 1 .. i : x \in ToSet(seqs[l])
      BY <1>2, <2>13, <3>1
    <3>5. seqs[j] \in Seq(D)
      BY <1>1, <1>2, <3>2
    <3>6. PICK a, b : a = u[i] /\ b = seqs[j]
      OBVIOUS
    <3>7. a \in Seq(D) /\ b \in Seq(D)
      BY <3>4, <3>5, <3>6
    <3>8. a \o b \in Seq(D) /\ ToSet(a \o b) = ToSet(a) \union ToSet(b)
      BY <3>7, Concatenates, MembersJoined
    <3>9. \A l : l \in 1 .. j <=> l \in 1 .. i \/ l = j
      BY <3>1, <3>2
    <3> QED BY <3>1, <3>3, <3>4, <3>6, <3>8, <3>9
  <2>14. Nat \subseteq T
    <3> HIDE DEF T
    <3> QED BY <2>12, <2>13, SetInduction
  <2>15. m - 1 \in Nat /\ (m - 1) + 1 = m
    BY <1>2, <1>4
  <2>16. m - 1 \in T
    BY <2>14, <2>15
  <2>17. /\ u[m] \in Seq(D)
         /\ \A x : x \in ToSet(u[m]) <=> \E i \in 1 .. m : x \in ToSet(seqs[i])
    BY <1>2, <2>15, <2>16
  <2> QED BY <1>1, <2>10, <2>17
<1> QED BY <1>3, <1>4

(* The kids of a node in the order of the walk are its kids.               *)
LEMMA SortedKids ==
    ASSUME Sound(tree), NEW i \in Nodes
    PROVE  Lists(KidsInOrder(i), Kids(tree, i))
<1>1. PICK s, X : s = tree.kids[i] /\ X = Kids(tree, i)
  OBVIOUS
<1>2. Lists(s, X)
  BY <1>1 DEF Sound, Linked
<1>3. KidsInOrder(i) = s \/ KidsInOrder(i) = FoldLeft(Insert, <<>>, s)
  BY <1>1 DEF KidsInOrder
<1>4. Lists(FoldLeft(Insert, <<>>, s), X)
  BY <1>2, ListsSorted
<1> QED BY <1>1, <1>2, <1>3, <1>4

(* The walk from i, when the walks from other nodes are as w has them.     *)
Visit(w, i) ==
    <<i>> \o FlattenSeq([j \in DOMAIN KidsInOrder(i) |-> w[KidsInOrder(i)[j]]])

LEMMA Visits ==
    ASSUME Sound(tree), NEW w \in [Nodes -> Seq(Nodes)], NEW i \in Nodes
    PROVE  /\ Visit(w, i) \in Seq(Nodes) /\ Len(Visit(w, i)) \in Nat \ {0} /\ Visit(w, i)[1] = i
           /\ \A x : x \in ToSet(Visit(w, i)) <=>
                       x = i \/ \E k \in Kids(tree, i) : x \in ToSet(w[k])
<1>1. PICK s, X : s = KidsInOrder(i) /\ X = Kids(tree, i)
  OBVIOUS
<1>2. Lists(s, X)
  BY <1>1, SortedKids
<1>3. X \subseteq Nodes /\ \A k \in X : w[k] \in Seq(Nodes)
  BY <1>1, Constants DEF Kids
<1>4. Len(s) \in Nat /\ DOMAIN s = 1 .. Len(s) /\ \A j \in 1 .. Len(s) : s[j] \in X
  BY <1>2, ListsFacts
<1>5. PICK m, r : m = Len(s) /\ r = [j \in 1 .. m |-> w[s[j]]]
  OBVIOUS
<1>6. r \in Seq(Seq(Nodes)) /\ Len(r) = m /\ \A j \in 1 .. m : r[j] = w[s[j]]
  <2>1. PICK D : D = Seq(Nodes)
    OBVIOUS
  <2>2. r \in [1 .. m -> D] /\ m \in Nat
    BY <1>3, <1>4, <1>5, <2>1
  <2>3. r \in Seq(D) /\ Len(r) = m
    BY <2>2
  <2> QED BY <1>5, <2>1, <2>3
<1>7. Visit(w, i) = <<i>> \o FlattenSeq(r)
  BY <1>1, <1>4, <1>5 DEF Visit
<1>8. PICK a, b : a = <<i>> /\ b = FlattenSeq(r)
  OBVIOUS
<1>9. /\ b \in Seq(Nodes)
      /\ \A x : x \in ToSet(b) <=> \E j \in 1 .. m : x \in ToSet(w[s[j]])
  <2>1. /\ FlattenSeq(r) \in Seq(Nodes)
        /\ \A x : x \in ToSet(FlattenSeq(r)) <=> \E j \in 1 .. Len(r) : x \in ToSet(r[j])
    BY <1>6, Flattened
  <2> QED BY <1>6, <1>8, <2>1
<1>10. a \in Seq(Nodes) /\ Len(a) = 1 /\ a[1] = i /\ ToSet(a) = {i}
  <2>1. a \in Seq(Nodes) /\ Len(a) = 1 /\ a[1] = i
    BY <1>8
  <2>2. DOMAIN a = {1}
    BY <1>8
  <2> QED BY <2>1, <2>2 DEF ToSet
<1>11. a \in Seq(Nodes) /\ b \in Seq(Nodes)
  BY <1>9, <1>10
<1>12. /\ a \o b \in Seq(Nodes) /\ Len(a \o b) = Len(a) + Len(b)
       /\ \A j \in 1 .. Len(a) : (a \o b)[j] = a[j]
       /\ ToSet(a \o b) = ToSet(a) \union ToSet(b)
  BY <1>11, Concatenates, MembersJoined
<1>13. ASSUME NEW x
       PROVE  x \in ToSet(b) <=> \E k \in X : x \in ToSet(w[k])
  <2>1. ASSUME NEW k \in X, x \in ToSet(w[k]) PROVE x \in ToSet(b)
    <3>1. PICK j \in 1 .. Len(s) : s[j] = k
      BY <1>2 DEF Lists
    <3> QED BY <1>5, <1>9, <2>1, <3>1
  <2>2. ASSUME x \in ToSet(b) PROVE \E k \in X : x \in ToSet(w[k])
    <3>1. PICK j \in 1 .. m : x \in ToSet(w[s[j]])
      BY <1>9, <2>2
    <3>2. s[j] \in X
      BY <1>4, <1>5
    <3> QED BY <3>1, <3>2
  <2> QED BY <2>1, <2>2
<1>14. PICK r2 : r2 = a \o b
  OBVIOUS
<1>15. r2 \in Seq(Nodes) /\ Len(r2) \in Nat \ {0} /\ r2[1] = i
  <2>1. Len(b) \in Nat
    BY <1>9
  <2> QED BY <1>10, <1>12, <1>14, <2>1
<1>16. ASSUME NEW x
       PROVE  x \in ToSet(r2) <=> x = i \/ \E k \in X : x \in ToSet(w[k])
  BY <1>10, <1>12, <1>13, <1>14
<1> QED BY <1>1, <1>7, <1>8, <1>14, <1>15, <1>16

(* What Walk computes: f[d] holds the walks that go at most d levels down. *)
Walks(f) ==
    /\ \A d \in 0 .. Cardinality(Ids) : f[d] \in [Nodes -> Seq(Nodes)]
    /\ \A i \in Nodes : f[0][i] = <<i>>
    /\ \A d \in 0 .. Cardinality(Ids) - 1, i \in Nodes : f[d + 1][i] = Visit(f[d], i)
    /\ Walk = f[Cardinality(Ids)][0]

Level(from, d) ==
    [i \in Nodes |->
       <<i>> \o (IF d = 0 THEN <<>>
                 ELSE LET s == KidsInOrder(i)
                      IN  FlattenSeq([j \in DOMAIN s |-> from[d - 1][s[j]]]))]

Walking(from) == from = [d \in 0 .. Cardinality(Ids) |-> Level(from, d)]

LEMMA Levels ==
    ASSUME NEW from, NEW d
    PROVE  Level(from, d) = IF d = 0 THEN [i \in Nodes |-> <<i>>]
                            ELSE [i \in Nodes |-> Visit(from[d - 1], i)]
<1>1. CASE d = 0
  <2>1. \A i : <<i>> \o <<>> = <<i>>
    <3> TAKE i
    <3>1. <<i>> \in Seq({i}) /\ <<>> \in Seq({i})
      OBVIOUS
    <3> QED BY <3>1
  <2> QED BY <1>1, <2>1 DEF Level
<1>2. CASE d # 0
  BY <1>2 DEF Level, Visit
<1> QED BY <1>1, <1>2

LEMMA WalkRecursion ==
    ASSUME Sound(tree)
    PROVE  \E f : Walks(f)
<1>1. PICK c : c = Cardinality(Ids)
  OBVIOUS
<1>2. c \in Nat
  BY <1>1, Constants
<1>3. PICK V : V = [Nodes -> Seq(Nodes)]
  OBVIOUS
<1>4. PICK e : e = [i \in Nodes |-> <<i>>]
  OBVIOUS
<1>5. e \in V
  BY <1>3, <1>4
<1>6. PICK g : g = [d \in 1 .. c |-> [w \in V |-> [i \in Nodes |-> Visit(w, i)]]]
  OBVIOUS
<1>7. /\ g \in [1 .. c -> [V -> V]]
      /\ \A d \in 1 .. c, w \in V : g[d][w] = [i \in Nodes |-> Visit(w, i)]
  <2>1. \A w \in V : [i \in Nodes |-> Visit(w, i)] \in V
    BY <1>3, Visits
  <2> QED BY <1>6, <2>1
<1>8. PICK h : Solves(h, c, V, e, g)
  BY <1>2, <1>5, <1>7, Recursion
<1>9. Walking(h)
  <2>1. ASSUME NEW d \in 0 .. c PROVE h[d] = Level(h, d)
    <3>1. CASE d = 0
      <4>1. h[d] = e
        BY <1>8, <3>1 DEF Solves
      <4> QED BY <1>4, <3>1, <4>1, Levels
    <3>2. CASE d # 0
      <4>1. d \in 1 .. c /\ d - 1 \in 0 .. c
        BY <1>2, <3>2
      <4>2. h[d] = g[d][h[d - 1]] /\ h[d - 1] \in V
        BY <1>8, <4>1 DEF Solves
      <4>3. h[d] = [i \in Nodes |-> Visit(h[d - 1], i)]
        BY <1>7, <4>1, <4>2
      <4> QED BY <3>2, <4>3, Levels
    <3> QED BY <3>1, <3>2
  <2>2. h = [d \in 0 .. c |-> h[d]]
    BY <1>8 DEF Solves
  <2>3. h = [d \in 0 .. c |-> Level(h, d)]
    BY <2>1, <2>2
  <2> QED BY <1>1, <2>3 DEF Walking
<1>10. PICK u : u = CHOOSE from : Walking(from)
  OBVIOUS
<1>11. Walking(u)
  BY <1>9, <1>10
<1>12. u = [d \in 0 .. c |-> Level(u, d)]
  BY <1>1, <1>11 DEF Walking
<1>13. Walk = u[c][0]
  BY <1>1, <1>10 DEF Walk, Walking, Level
<1>14. \A d \in 0 .. c : u[d] = Level(u, d)
  BY <1>12
<1>15. \A d \in 0 .. c : u[d] = IF d = 0 THEN e ELSE [i \in Nodes |-> Visit(u[d - 1], i)]
  BY <1>4, <1>14, Levels
<1> DEFINE S == {d \in Nat : d <= c => u[d] \in V}
<1>16. u[0] = e /\ 0 \in S
  <2>1. 0 \in 0 .. c
    BY <1>2
  <2>2. u[0] = e
    BY <1>15, <2>1
  <2> QED BY <1>5, <2>2
<1>17. ASSUME NEW d \in Nat, d \in S PROVE d + 1 \in S
  <2> SUFFICES ASSUME d + 1 <= c PROVE u[d + 1] \in V
    OBVIOUS
  <2>1. PICK k : k = d + 1
    OBVIOUS
  <2>2. k \in 0 .. c /\ k # 0 /\ k - 1 = d /\ d <= c
    BY <1>2, <2>1
  <2>3. u[k] = [i \in Nodes |-> Visit(u[d], i)] /\ u[d] \in V
    BY <1>15, <1>17, <2>2
  <2>4. u[k] \in V
    BY <1>3, <2>3, Visits
  <2> QED BY <2>1, <2>4
<1>18. Nat \subseteq S
  <2> HIDE DEF S
  <2> QED BY <1>16, <1>17, SetInduction
<1>19. \A d \in 0 .. c : u[d] \in V
  BY <1>18
<1>20. \A i \in Nodes : u[0][i] = <<i>>
  BY <1>4, <1>16
<1>21. ASSUME NEW d \in 0 .. c - 1, NEW i \in Nodes PROVE u[d + 1][i] = Visit(u[d], i)
  <2>1. d + 1 \in 0 .. c /\ d + 1 # 0 /\ (d + 1) - 1 = d
    BY <1>2
  <2>2. u[d + 1] = [k \in Nodes |-> Visit(u[(d + 1) - 1], k)]
    BY <1>15, <2>1
  <2> QED BY <2>1, <2>2
<1>22. Walks(u)
  BY <1>1, <1>3, <1>13, <1>19, <1>20, <1>21 DEF Walks
<1> QED BY <1>22

(* The walk begins at the root.                                            *)
LEMMA WalkFromRoot ==
    ASSUME Sound(tree)
    PROVE  Walk \in Seq(Nodes) /\ Len(Walk) \in Nat \ {0} /\ Walk[1] = 0
<1>1. PICK f : Walks(f)
  BY WalkRecursion
<1>2. PICK c : c = Cardinality(Ids)
  OBVIOUS
<1>3. c \in Nat /\ 0 \in Nodes
  BY <1>2, Constants
<1>4. /\ \A d \in 0 .. c : f[d] \in [Nodes -> Seq(Nodes)]
      /\ Walk = f[c][0] /\ f[0][0] = <<0>>
      /\ \A d \in 0 .. c - 1, i \in Nodes : f[d + 1][i] = Visit(f[d], i)
  BY <1>1, <1>2, <1>3 DEF Walks
<1>5. CASE c = 0
  <2>1. Walk = <<0>>
    BY <1>4, <1>5
  <2> QED BY <1>3, <2>1
<1>6. CASE c # 0
  <2>1. PICK d : d = c - 1
    OBVIOUS
  <2>2. d \in 0 .. c /\ d \in 0 .. c - 1 /\ d + 1 = c
    BY <1>3, <1>6, <2>1
  <2>3. PICK w : w = f[d]
    OBVIOUS
  <2>4. w \in [Nodes -> Seq(Nodes)] /\ Walk = Visit(w, 0)
    <3>1. f[d + 1][0] = Visit(f[d], 0)
      BY <1>3, <1>4, <2>2
    <3> QED BY <1>4, <2>2, <2>3, <3>1
  <2> QED BY <1>3, <2>4, Visits
<1> QED BY <1>5, <1>6

-------------------------------------------------------------------------------
(* Types.                                                                  *)
FieldRecords == [weight : 0 .. WeightModulus - 1, state : {"open", "closed", "idle"},
                 bytes : Int, subtreeBytes : Int]

(* RST_STREAM takes no window, so that consume never splits it.            *)
Frames == {f \in [kind : {"data", "rst"}, id : Ids, n : Nat] : f.kind = "rst" => f.n = 0}

Typed ==
    /\ Bookkeeping /\ Sound(tree)
    /\ node \in [Ids -> FieldRecords] /\ maxID \in Nodes
    /\ q \in [Nodes -> Seq(Frames)]
    /\ left \in 0 .. CallBudget /\ shed \in BOOLEAN

LEMMA BytesTyped ==
    ASSUME node \in [Ids -> FieldRecords], NEW n, NEW b \in Int
    PROVE  addBytes(node, n, b) \in [Ids -> FieldRecords]
<1>1. ASSUME NEW i \in Ids PROVE addBytes(node, n, b)[i] \in FieldRecords
  <2>1. PICK m : m = node[i]
    OBVIOUS
  <2>2. m \in FieldRecords
    BY <2>1
  <2>3. PICK x, y : x = (IF i = n THEN m.bytes + b ELSE m.bytes)
                    /\ y = IF i = n \/ i \in Above(tree, n) THEN m.subtreeBytes + b
                           ELSE m.subtreeBytes
    OBVIOUS
  <2>4. addBytes(node, n, b)[i] = [m EXCEPT !.bytes = x, !.subtreeBytes = y]
    BY <2>1, <2>3 DEF addBytes
  <2>5. x \in Int /\ y \in Int
    BY <2>2, <2>3 DEF FieldRecords
  <2> QED BY <2>2, <2>4, <2>5 DEF FieldRecords
<1>2. addBytes(node, n, b) = [i \in Ids |-> addBytes(node, n, b)[i]]
  BY DEF addBytes
<1> QED BY <1>1, <1>2

(* The first node of the walk that is ready.                               *)
LEMMA MinOf ==
    ASSUME NEW m \in Nat, NEW Z \in SUBSET (0 .. m), Z # {}
    PROVE  \E x \in Z : \A y \in Z : x <= y
<1>1. PICK R : R = {m - y : y \in Z}
  OBVIOUS
<1>2. R \in SUBSET (0 .. m) /\ R # {}
  <2>1. \A y \in 0 .. m : m - y \in 0 .. m
    OBVIOUS
  <2> QED BY <1>1, <2>1
<1>3. PICK r \in R : \A y \in R : y <= r
  BY <1>2, MaxOf
<1>4. PICK x \in Z : r = m - x
  BY <1>1
<1>5. ASSUME NEW y \in Z PROVE x <= y
  <2>1. m - y <= m - x
    BY <1>1, <1>3, <1>4
  <2> QED BY <2>1
<1> QED BY <1>5

FirstAt(walk, blocked) == SelectInSeq(walk, LAMBDA i : Ready(i, blocked))

LEMMA FirstReady ==
    ASSUME NEW walk \in Seq(Nodes), NEW blocked, NEW at,
           at = FirstAt(walk, blocked), at # 0
    PROVE  /\ at \in 1 .. Len(walk) /\ Ready(walk[at], blocked)
           /\ \A j \in 1 .. Len(walk) : Ready(walk[j], blocked) => at <= j
<1>1. PICK I : I = {j \in 1 .. Len(walk) : Ready(walk[j], blocked)}
  OBVIOUS
<1>2. at = IF I # {} THEN Min(I) ELSE 0
  BY <1>1 DEF FirstAt, SelectInSeq
<1>3. I # {} /\ at = Min(I)
  BY <1>2
<1>4. Len(walk) \in Nat /\ I \in SUBSET (0 .. Len(walk))
  BY <1>1
<1>5. \E x \in I : \A y \in I : x <= y
  BY <1>3, <1>4, MinOf
<1>6. at \in I /\ \A y \in I : at <= y
  BY <1>3, <1>5 DEF Min
<1> QED BY <1>1, <1>6

(* What consume leaves.                                                    *)
LEMMA ConsumeTyped ==
    ASSUME NEW s \in Seq(Frames), s # <<>>, NEW allowed \in Nat
    PROVE  /\ Head(s) \in Frames /\ Tail(s) \in Seq(Frames)
           /\ consume(s, allowed) \in Seq(Frames)
           /\ Head(s).n > allowed =>
                consume(s, allowed) = <<[Head(s) EXCEPT !.n = @ - allowed]>> \o Tail(s)
           /\ ~(Head(s).n > allowed) => consume(s, allowed) = Tail(s)
<1>1. Head(s) \in Frames /\ Tail(s) \in Seq(Frames)
  OBVIOUS
<1>2. PICK f, t : f = Head(s) /\ t = Tail(s)
  OBVIOUS
<1>3. f \in Frames /\ t \in Seq(Frames)
  BY <1>1, <1>2
<1>4. CASE f.n > allowed
  <2>1. PICK g : g = [f EXCEPT !.n = @ - allowed]
    OBVIOUS
  <2>2. f.n - allowed \in Nat /\ f.kind = "data" /\ f \in [kind : {"data", "rst"}, id : Ids, n : Nat]
    BY <1>3, <1>4 DEF Frames
  <2>3. g \in Frames
    <3>1. g \in [kind : {"data", "rst"}, id : Ids, n : Nat] /\ g.kind = "data"
      BY <2>1, <2>2
    <3> QED BY <3>1 DEF Frames
  <2>4. <<g>> \o t \in Seq(Frames)
    BY <1>3, <2>3
  <2>5. consume(s, allowed) = <<g>> \o t
    BY <1>2, <1>4, <2>1 DEF consume
  <2> QED BY <1>1, <1>2, <1>4, <2>1, <2>4, <2>5
<1>5. CASE ~(f.n > allowed)
  <2>1. consume(s, allowed) = <<>> \o t
    BY <1>2, <1>5 DEF consume
  <2>2. <<>> \o t = t
    BY <1>3
  <2> QED BY <1>1, <1>2, <1>3, <1>5, <2>1, <2>2
<1> QED BY <1>4, <1>5

(* A step of PopAny, with the node that it serves.                         *)
Serves(i, blocked, allowed) ==
    /\ i \in Nodes /\ Ready(i, blocked)
    /\ Ready(0, blocked) => i = 0
    /\ q' = [q EXCEPT ![i] = consume(@, allowed)]
    /\ node' = IF i = 0 THEN node
               ELSE addBytes(node, i, IF Head(q[i]).n > allowed THEN allowed ELSE Head(q[i]).n)

LEMMA PopServes ==
    ASSUME Sound(tree), PopAny
    PROVE  /\ UNCHANGED <<known, closedNodes, idleNodes, maxID, open, used, left, shed>>
           /\ \E visited : tree' = SortKids(visited)
           /\ \/ UNCHANGED <<node, q>>
              \/ \E blocked \in SUBSET WaitForWindow, allowed \in 1 .. DataSize, i \in Nodes :
                   Serves(i, blocked, allowed)
<1>1. PICK walk : walk = Walk
  OBVIOUS
<1>2. walk \in Seq(Nodes) /\ Len(walk) \in Nat \ {0} /\ walk[1] = 0
  BY <1>1, WalkFromRoot
<1>3. PICK blocked \in SUBSET WaitForWindow :
        LET at == FirstAt(walk, blocked)
        IN  \/ at = 0 /\ PopNothing(walk)
            \/ at # 0 /\ \E allowed \in 1 .. DataSize : Pop(walk, at, allowed)
  BY <1>1 DEF PopAny, FirstAt
<1>4. PICK at : at = FirstAt(walk, blocked)
  OBVIOUS
<1>5. \/ PopNothing(walk)
      \/ at # 0 /\ \E allowed \in 1 .. DataSize : Pop(walk, at, allowed)
  BY <1>3, <1>4
<1>6. CASE PopNothing(walk)
  BY <1>6 DEF PopNothing
<1>7. CASE at # 0 /\ \E allowed \in 1 .. DataSize : Pop(walk, at, allowed)
  <2>1. PICK allowed \in 1 .. DataSize : Pop(walk, at, allowed)
    BY <1>7
  <2>2. /\ at \in 1 .. Len(walk) /\ Ready(walk[at], blocked)
        /\ \A j \in 1 .. Len(walk) : Ready(walk[j], blocked) => at <= j
    BY <1>2, <1>4, <1>7, FirstReady
  <2>3. PICK i : i = walk[at]
    OBVIOUS
  <2>4. i \in Nodes /\ Ready(i, blocked)
    BY <1>2, <2>2, <2>3
  <2>5. Ready(0, blocked) => i = 0
    <3> SUFFICES ASSUME Ready(0, blocked) PROVE i = 0
      OBVIOUS
    <3>1. 1 \in 1 .. Len(walk) /\ Ready(walk[1], blocked)
      BY <1>2
    <3>2. at <= 1
      BY <2>2, <3>1
    <3>3. at = 1
      BY <1>2, <2>2, <3>2
    <3> QED BY <1>2, <2>3, <3>3
  <2>6. Serves(i, blocked, allowed)
    BY <2>1, <2>3, <2>4, <2>5 DEF Pop, Serves
  <2>7. UNCHANGED <<known, closedNodes, idleNodes, maxID, open, used, left, shed>>
        /\ \E visited : tree' = SortKids(visited)
    BY <2>1 DEF Pop
  <2> QED BY <2>4, <2>6, <2>7
<1> QED BY <1>5, <1>6, <1>7

LEMMA TypesKept ==
    ASSUME Typed, [Next]_vars
    PROVE  Typed'
<1>0. Bookkeeping' /\ Sound(tree)'
  BY BookkeepingKept, SoundKept DEF Typed
<1>1. /\ known \subseteq Ids /\ open \subseteq Ids /\ Ids \subseteq Nodes
      /\ Ids \subseteq Nat /\ MaxClosed \in Nat /\ MaxIdle \in Nat /\ DataSize \in Nat
      /\ DefaultWeight \in 0 .. WeightModulus - 1 /\ Weights \subseteq 0 .. WeightModulus - 1
      /\ CallBudget \in Nat
  BY Constants, PriorityAssumption DEF Typed, Bookkeeping
<1>2. /\ node \in [Ids -> FieldRecords] /\ maxID \in Nodes /\ q \in [Nodes -> Seq(Frames)]
      /\ left \in 0 .. CallBudget /\ shed \in BOOLEAN
  BY DEF Typed
<1>3. \A s \in {"open", "closed", "idle"} : NewFields(s) \in FieldRecords
  BY <1>1 DEF NewFields, FieldRecords
<1> SUFFICES /\ node' \in [Ids -> FieldRecords] /\ maxID' \in Nodes /\ q' \in [Nodes -> Seq(Frames)]
             /\ left' \in 0 .. CallBudget /\ shed' \in BOOLEAN
  BY <1>0 DEF Typed
<1>4. ASSUME NEW gone PROVE [i \in Nodes |-> IF i \in gone THEN <<>> ELSE q[i]] \in [Nodes -> Seq(Frames)]
  <2>1. <<>> \in Seq(Frames)
    OBVIOUS
  <2> QED BY <1>2, <2>1
<1>5. ASSUME NEW id \in Ids, NEW pusher, OpenStream(id, pusher)
      PROVE  /\ node' \in [Ids -> FieldRecords] /\ maxID' \in Nodes /\ q' = q
             /\ left' = left /\ shed' = shed
  <2>1. UNCHANGED <<q, left, shed>>
    BY <1>5 DEF OpenStream
  <2>2. maxID' = maxID \/ maxID' = id
    BY <1>5 DEF OpenStream
  <2>3. node' = openIdle(node, id) \/ node' = [node EXCEPT ![id] = NewFields("open")]
    BY <1>5 DEF OpenStream
  <2>4. openIdle(node, id) \in [Ids -> FieldRecords]
    <3>1. [node[id] EXCEPT !.state = "open"] \in FieldRecords
      BY <1>2 DEF FieldRecords
    <3>2. openIdle(node, id) = [node EXCEPT ![id] = [node[id] EXCEPT !.state = "open"]]
      BY DEF openIdle
    <3> QED BY <1>2, <3>1, <3>2
  <2>5. [node EXCEPT ![id] = NewFields("open")] \in [Ids -> FieldRecords]
    BY <1>2, <1>3
  <2> QED BY <1>1, <1>2, <2>1, <2>2, <2>3, <2>4, <2>5
<1>6. ASSUME NEW id \in Ids, CloseStream(id)
      PROVE  /\ node' \in [Ids -> FieldRecords] /\ maxID' = maxID /\ q' \in [Nodes -> Seq(Frames)]
             /\ left' = left /\ shed' \in BOOLEAN
  <2>1. maxID' = maxID /\ left' = left /\ shed' \in BOOLEAN
    BY <1>6 DEF CloseStream
  <2>2. \E gone : q' = [i \in Nodes |-> IF i \in gone THEN <<>> ELSE q[i]]
    <3>1. PICK gone : gone = IF MaxClosed = 0 THEN {id} ELSE Evicted(closedNodes, MaxClosed)
      OBVIOUS
    <3>2. q' = [i \in Nodes |-> IF i = id \/ i \in gone THEN <<>> ELSE q[i]]
      BY <1>6, <3>1 DEF CloseStream
    <3>3. q' = [i \in Nodes |-> IF i \in gone \union {id} THEN <<>> ELSE q[i]]
      BY <3>2
    <3> QED BY <3>3
  <2>3. PICK c, nd : c = -node[id].bytes /\ nd = addBytes(node, id, c)
    OBVIOUS
  <2>4. c \in Int
    <3>1. node[id] \in FieldRecords
      BY <1>2
    <3>2. node[id].bytes \in Int
      BY <3>1 DEF FieldRecords
    <3> QED BY <2>3, <3>2
  <2>5. nd \in [Ids -> FieldRecords]
    BY <1>2, <2>3, <2>4, BytesTyped
  <2>6. node' = [nd EXCEPT ![id] = [nd[id] EXCEPT !.state = "closed"]]
    BY <1>6, <2>3 DEF CloseStream
  <2>7. [nd[id] EXCEPT !.state = "closed"] \in FieldRecords
    BY <2>5 DEF FieldRecords
  <2> QED BY <1>4, <2>1, <2>2, <2>5, <2>6, <2>7
<1>7. ASSUME NEW id \in Ids, NEW dep \in Nodes, NEW w \in Weights, NEW x,
             AdjustStream(id, dep, w, x)
      PROVE  /\ node' \in [Ids -> FieldRecords] /\ maxID' \in Nodes /\ q' \in [Nodes -> Seq(Frames)]
             /\ left' \in 0 .. CallBudget /\ shed' \in BOOLEAN
  <2>1. /\ left > 0 /\ left' = left - 1 /\ shed' \in BOOLEAN /\ (maxID' = id \/ maxID' = maxID)
        /\ \E gone : q' = [i \in Nodes |-> IF i \in gone THEN <<>> ELSE q[i]]
    BY <1>7 DEF AdjustStream
  <2>2. PICK fields : fields = IF id \notin known THEN NewFields("idle") ELSE node[id]
    OBVIOUS
  <2>3. fields \in FieldRecords
    BY <1>2, <1>3, <2>2
  <2>4. \/ node' = [node EXCEPT ![id] = [fields EXCEPT !.weight = DefaultWeight]]
        \/ node' = [node EXCEPT ![id] = fields]
        \/ node' = [node EXCEPT ![id] = [fields EXCEPT !.weight = w]]
    BY <1>7, <2>2 DEF AdjustStream
  <2>5. \A v \in 0 .. WeightModulus - 1 : [fields EXCEPT !.weight = v] \in FieldRecords
    BY <2>3 DEF FieldRecords
  <2>6. node' \in [Ids -> FieldRecords]
    BY <1>1, <1>2, <2>3, <2>4, <2>5
  <2> QED BY <1>1, <1>2, <1>4, <2>1, <2>6
<1>8. ASSUME NEW f \in Frames, Push(f)
      PROVE  /\ node' = node /\ maxID' = maxID /\ q' \in [Nodes -> Seq(Frames)]
             /\ left' \in 0 .. CallBudget /\ shed' = shed
  <2>1. left > 0 /\ left' = left - 1 /\ UNCHANGED <<node, maxID, shed>>
    BY <1>8 DEF Push
  <2>2. PICK i : i = IF f.id \in known THEN f.id ELSE 0
    OBVIOUS
  <2>3. q' = [q EXCEPT ![i] = Append(q[i], f)] /\ i \in Nodes
    BY <1>1, <1>8, <2>2, Constants DEF Push
  <2>4. Append(q[i], f) \in Seq(Frames)
    BY <1>2, <2>3
  <2> QED BY <1>1, <1>2, <2>1, <2>3, <2>4
<1>9. CASE PushAny
  <2>1. PICK f \in Frames : Push(f)
    <3>1. \A id \in Ids : Frame("data", id, DataSize) \in Frames /\ Frame("rst", id, 0) \in Frames
      BY <1>1 DEF Frame, Frames
    <3> QED BY <1>1, <1>9, <3>1 DEF PushAny
  <2> QED BY <1>2, <1>8, <2>1
<1>10. CASE PopAny
  <2>1. Sound(tree)
    BY DEF Typed
  <2>2. CASE UNCHANGED <<node, q>>
    BY <1>2, <1>10, <2>1, <2>2, PopServes
  <2>3. CASE \E blocked \in SUBSET WaitForWindow, allowed \in 1 .. DataSize, i \in Nodes :
               Serves(i, blocked, allowed)
    <3>1. PICK blocked \in SUBSET WaitForWindow, allowed \in 1 .. DataSize, i \in Nodes :
                 Serves(i, blocked, allowed)
      BY <2>3
    <3>2. PICK s : s = q[i]
      OBVIOUS
    <3>3. s \in Seq(Frames) /\ s # <<>> /\ allowed \in Nat
      BY <1>1, <1>2, <3>1, <3>2 DEF Serves, Ready
    <3>4. Head(s) \in Frames /\ consume(s, allowed) \in Seq(Frames)
      BY <3>3, ConsumeTyped
    <3>5. q' \in [Nodes -> Seq(Frames)]
      BY <1>2, <3>1, <3>2, <3>4 DEF Serves
    <3>6. PICK b : b = IF Head(s).n > allowed THEN allowed ELSE Head(s).n
      OBVIOUS
    <3>7. b \in Int
      BY <3>3, <3>4, <3>6 DEF Frames
    <3>8. node' = node \/ node' = addBytes(node, i, b)
      BY <3>1, <3>2, <3>6 DEF Serves
    <3>9. node' \in [Ids -> FieldRecords]
      BY <1>2, <3>7, <3>8, BytesTyped
    <3> QED BY <1>2, <1>10, <2>1, <3>5, <3>9, PopServes
  <2> QED BY <1>10, <2>1, <2>2, <2>3, PopServes
<1>11. CASE UNCHANGED vars
  BY <1>2, <1>11 DEF vars
<1> QED BY <1>2, <1>5, <1>6, <1>7, <1>9, <1>10, <1>11 DEF Next

LEMMA TypedAtFirst == Init => Typed
<1> SUFFICES ASSUME Init PROVE Typed
  OBVIOUS
<1>1. Bookkeeping
  BY PriorityAssumption DEF Init, Bookkeeping, RetentionBound, ToSet
<1>2. node \in [Ids -> FieldRecords]
  BY PriorityAssumption DEF Init, FieldRecords
<1>3. q \in [Nodes -> Seq(Frames)]
  <2>1. <<>> \in Seq(Frames)
    OBVIOUS
  <2> QED BY <2>1 DEF Init
<1>4. maxID \in Nodes /\ left \in 0 .. CallBudget /\ shed \in BOOLEAN
  <2>1. CallBudget \in 0 .. CallBudget /\ 0 \in Nodes
    BY PriorityAssumption, Constants
  <2> QED BY <2>1 DEF Init
<1> QED BY <1>1, <1>2, <1>3, <1>4, EmptyTreeSound DEF Typed

(* Nodes, their fields, the lists and the queues keep their types: the     *)
(* walk, however deep and in whatever order, visits nodes only, and what   *)
(* Pop leaves of a frame is never less than nothing.                       *)
THEOREM TypeCorrect == Spec => []TypeOK
<1>1. Typed => TypeOK
  <2> SUFFICES ASSUME Typed PROVE TypeOK
    OBVIOUS
  <2>1. PICK R : R = [kind : {"data", "rst"}, id : Ids, n : Nat]
    OBVIOUS
  <2>2. Frames \subseteq R
    BY <2>1 DEF Frames
  <2>3. q \in [Nodes -> Seq(R)]
    <3>1. \A i \in Nodes : q[i] \in Seq(R)
      BY <2>2 DEF Typed
    <3> QED BY <3>1 DEF Typed
  <2> QED BY <2>1, <2>3 DEF Typed, TypeOK, Bookkeeping, Sound, Linked, Trees, Anchors, FieldRecords
<1> QED BY <1>1, TypedAtFirst, TypesKept, PTL DEF Spec

-------------------------------------------------------------------------------
(* The tree is a WriteScheduler.                                           *)
Careful == Typed /\ Fielded /\ KnowsOpen

LEMMA CarefulKept ==
    ASSUME Careful, [Next /\ ~EvictsOpen]_vars
    PROVE  Careful'
<1>1. [Next]_vars
  OBVIOUS
<1>2. Typed'
  BY <1>1, TypesKept DEF Careful
<1> QED BY <1>2, KnowsOpenKept DEF Careful, Typed

LEMMA StepImplements ==
    ASSUME Careful, [Next /\ ~EvictsOpen]_vars
    PROVE  [Scheduler!Next]_(Scheduler!vars)
<1>0. /\ Bookkeeping /\ Sound(tree) /\ q \in [Nodes -> Seq(Frames)] /\ KnowsOpen
      /\ open \subseteq known /\ known \subseteq Ids /\ open \subseteq used
      /\ Ids \subseteq Nodes /\ 0 \in Nodes /\ 0 \notin Ids
      /\ Nodes = Ids \union {0}
  BY Constants DEF Careful, Typed, Bookkeeping, KnowsOpen, Nodes
<1>1. ASSUME NEW id \in Ids, NEW pusher, OpenStream(id, pusher) PROVE Scheduler!Next
  <2>1. id \notin open
    <3>1. \A u \in used : u % 2 = id % 2 => u < id
      BY <1>1 DEF OpenStream
    <3>2. id \in Nat /\ id % 2 = id % 2 /\ ~(id < id)
      BY PriorityAssumption
    <3> QED BY <1>0, <3>1, <3>2, Zenon
  <2>2. open' = open \union {id} /\ q' = q
    BY <1>1 DEF OpenStream
  <2>3. Scheduler!OpenStream(id)
    BY <2>1, <2>2 DEF Scheduler!OpenStream
  <2> QED BY <2>3 DEF Scheduler!Next
<1>2. ASSUME NEW id \in Ids, CloseStream(id) PROVE Scheduler!Next
  <2>1. PICK gone : gone = IF MaxClosed = 0 THEN {id} ELSE Evicted(closedNodes, MaxClosed)
    OBVIOUS
  <2>2. /\ id \in open /\ open' = open \ {id}
        /\ q' = [i \in Nodes |-> IF i = id \/ i \in gone THEN <<>> ELSE q[i]]
    BY <1>2, <2>1 DEF CloseStream
  <2>3. \A i \in gone : i = id \/ i \notin open \union {0}
    <3>1. ToSet(closedNodes) \subseteq used \ open /\ used \subseteq Ids
      BY <1>0 DEF Bookkeeping
    <3>2. Evicted(closedNodes, MaxClosed) \subseteq ToSet(closedNodes)
      BY <1>0, EvictedListed
    <3> QED BY <1>0, <2>1, <3>1, <3>2
  <2>4. q'[id] = <<>>
    BY <1>0, <2>2
  <2>5. \A i \in (Ids \union {0}) \ {id} : q'[i] = q[i] \/ (i \notin open \union {0} /\ q'[i] = <<>>)
    BY <1>0, <2>2, <2>3
  <2>6. Scheduler!CloseStream(id)
    BY <2>2, <2>4, <2>5 DEF Scheduler!CloseStream
  <2> QED BY <2>6 DEF Scheduler!Next
<1>3. ASSUME NEW id \in Ids, NEW dep, NEW w, NEW x, AdjustStream(id, dep, w, x), ~EvictsOpen
      PROVE  Scheduler!Next
  <2>1. PICK gone : gone = IF id \notin known THEN Evicted(idleNodes, MaxIdle) ELSE {}
    OBVIOUS
  <2>2. /\ open' = open /\ known' = (known \union {id}) \ gone
        /\ q' = [i \in Nodes |-> IF i \in gone THEN <<>> ELSE q[i]]
    BY <1>3, <2>1 DEF AdjustStream
  <2>3. \A i \in gone : i \notin open \union {0}
    <3>1. gone \subseteq Ids
      BY <1>0, <2>1, EvictedListed
    <3>2. \A i \in open : i \notin known \ known'
      BY <1>3, <2>2 DEF EvictsOpen
    <3> QED BY <1>0, <2>2, <3>1, <3>2
  <2>4. \A i \in Ids \union {0} : q'[i] = q[i] \/ (i \notin open \union {0} /\ q'[i] = <<>>)
    BY <1>0, <2>2, <2>3
  <2>5. Scheduler!AdjustStream
    BY <2>2, <2>4 DEF Scheduler!AdjustStream
  <2> QED BY <2>5 DEF Scheduler!Next
<1>4. ASSUME NEW f \in Frames, Push(f), f.id \notin known => f.kind = "rst",
             f.kind = "data" => f.id \in open
      PROVE  Scheduler!Next
  <2>1. PICK i : i = IF f.id \in known THEN f.id ELSE 0
    OBVIOUS
  <2>2. i \in Nodes /\ q' = [q EXCEPT ![i] = Append(q[i], f)] /\ open' = open
    BY <1>0, <1>4, <2>1 DEF Push
  <2>3. PICK s, a : s = q[i] /\ a = Append(s, f)
    OBVIOUS
  <2>4. s \in Seq(Frames)
    BY <1>0, <2>2, <2>3
  <2>5. a \in Seq(Frames) /\ Len(a) = Len(s) + 1 /\ a[Len(a)] = f
    BY <2>3, <2>4
  <2>6. q'[i] = a /\ Scheduler!Last(q'[i]) = f
    BY <1>0, <2>2, <2>3, <2>5 DEF Scheduler!Last
  <2>7. f.id \in Ids /\ f.kind \in {"data", "rst"}
    BY <1>4 DEF Frames
  <2>8. i \in Scheduler!Targets(f)
    BY <1>0, <1>4, <2>1, <2>7 DEF Scheduler!Targets
  <2>9. Len(q'[i]) = Len(q[i]) + 1
    BY <2>3, <2>5, <2>6
  <2>10. q' = [q EXCEPT ![i] = Append(@, Scheduler!Last(q'[i]))]
    BY <1>0, <2>2, <2>6
  <2>11. Scheduler!Push(i)
    BY <2>2, <2>6, <2>8, <2>9, <2>10 DEF Scheduler!Push
  <2> QED BY <1>0, <2>2, <2>11 DEF Scheduler!Next
<1>5. CASE PushAny
  <2>1. CASE \E id \in open \intersect known : Push(Frame("data", id, DataSize))
    <3>1. PICK id \in open \intersect known : Push(Frame("data", id, DataSize))
      BY <2>1
    <3>2. PICK f : f = Frame("data", id, DataSize)
      OBVIOUS
    <3>3. f \in Frames /\ f.kind = "data" /\ f.id = id
      BY <1>0, <3>2, PriorityAssumption DEF Frame, Frames
    <3> QED BY <1>4, <3>1, <3>2, <3>3
  <2>2. CASE \E id \in Ids : Push(Frame("rst", id, 0))
    <3>1. PICK id \in Ids : Push(Frame("rst", id, 0))
      BY <2>2
    <3>2. PICK f : f = Frame("rst", id, 0)
      OBVIOUS
    <3>3. f \in Frames /\ f.kind = "rst"
      BY <3>2 DEF Frame, Frames
    <3> QED BY <1>4, <3>1, <3>2, <3>3
  <2> QED BY <1>5, <2>1, <2>2 DEF PushAny
<1>6. CASE PopAny
  <2>1. CASE UNCHANGED <<node, q>>
    BY <1>0, <1>6, <2>1, PopServes DEF Scheduler!vars
  <2>2. CASE \E blocked \in SUBSET WaitForWindow, allowed \in 1 .. DataSize, i \in Nodes :
               Serves(i, blocked, allowed)
    <3>1. PICK blocked \in SUBSET WaitForWindow, allowed \in 1 .. DataSize, i \in Nodes :
                 Serves(i, blocked, allowed)
      BY <2>2
    <3>2. PICK s : s = q[i]
      OBVIOUS
    <3>3. s \in Seq(Frames) /\ s # <<>> /\ allowed \in Nat /\ allowed >= 1
      BY <1>0, <3>1, <3>2, PriorityAssumption DEF Serves, Ready
    <3>4. 0 \notin blocked
      BY <1>0 DEF WaitForWindow
    <3>5. q[0] # <<>> => i = 0
      BY <3>1, <3>4 DEF Serves, Ready
    <3>6. open' = open
      BY <1>0, <1>6, PopServes
    <3>7. q' = [q EXCEPT ![i] = consume(s, allowed)]
      BY <1>0, <3>1, <3>2 DEF Serves
    <3>8. PICK f : f = Head(s)
      OBVIOUS
    <3>9. f \in Frames
      BY <3>3, <3>8
    <3>10. CASE f.n > allowed
      <4>1. PICK k : k = f.n - allowed
        OBVIOUS
      <4>2. f.n \in Nat /\ f.kind = "data"
        BY <3>3, <3>9, <3>10 DEF Frames
      <4>3. k \in 1 .. f.n - 1
        BY <3>3, <3>10, <4>1, <4>2
      <4>4. consume(s, allowed) = <<[f EXCEPT !.n = k]>> \o Tail(s)
        <5>1. consume(s, allowed) = <<[Head(s) EXCEPT !.n = @ - allowed]>> \o Tail(s)
          BY <3>3, <3>8, <3>10, ConsumeTyped
        <5>2. [f EXCEPT !.n = @ - allowed] = [f EXCEPT !.n = k]
          BY <3>9, <4>1 DEF Frames
        <5> QED BY <3>8, <5>1, <5>2
      <4>5. q' = [q EXCEPT ![i] = <<[Head(@) EXCEPT !.n = k]>> \o Tail(@)]
        BY <1>0, <3>2, <3>7, <3>8, <4>4
      <4>6. Head(q[i]).kind = "data" /\ k \in 1 .. Head(q[i]).n - 1 /\ q[i] # <<>>
        BY <3>2, <3>3, <3>8, <4>2, <4>3
      <4>7. Scheduler!Pop(i)
        BY <3>5, <3>6, <4>5, <4>6 DEF Scheduler!Pop
      <4> QED BY <1>0, <3>1, <4>7 DEF Scheduler!Next
    <3>11. CASE ~(f.n > allowed)
      <4>1. consume(s, allowed) = Tail(s)
        BY <3>3, <3>8, <3>11, ConsumeTyped
      <4>2. q' = [q EXCEPT ![i] = Tail(@)]
        BY <1>0, <3>2, <3>7, <4>1
      <4>3. Scheduler!Pop(i)
        BY <3>2, <3>3, <3>5, <3>6, <4>2 DEF Scheduler!Pop
      <4> QED BY <1>0, <3>1, <4>3 DEF Scheduler!Next
    <3> QED BY <3>10, <3>11
  <2> QED BY <1>0, <1>6, <2>1, <2>2, PopServes
<1>7. CASE UNCHANGED vars
  BY <1>7 DEF vars, Scheduler!vars
<1> QED BY <1>1, <1>2, <1>3, <1>5, <1>6, <1>7 DEF Next

(* Until PRIORITY evicts a stream that has been opened, the tree keeps the *)
(* promises of writesched.go: the frames of a stream leave in their order, *)
(* the root's first, and what is dropped is of streams that are closed.    *)
THEOREM TreeSchedules == CarefulSpec => Implements
<1>1. Init => Careful
  <2>1. Init => Fielded /\ KnowsOpen
    BY PriorityAssumption DEF Init, Fielded, KnowsOpen
  <2> QED BY <2>1, TypedAtFirst DEF Careful
<1>2. Init => Scheduler!Init
  BY DEF Init, Scheduler!Init, Nodes
<1>3. Careful /\ [Next /\ ~EvictsOpen]_vars => Careful'
  BY CarefulKept
<1>4. Careful /\ [Next /\ ~EvictsOpen]_vars => [Scheduler!Next]_(Scheduler!vars)
  BY StepImplements
<1> QED BY <1>1, <1>2, <1>3, <1>4, PTL DEF CarefulSpec, Implements, Scheduler!Spec

-------------------------------------------------------------------------------
(* The nodes of ws.nodes hang on one another or on the root, and the       *)
(* others on nothing that is in the tree.                                  *)
Rooted(t, K) ==
    \A i \in Ids : IF i \in K THEN t.parent[i] \in K \union {0} ELSE t.parent[i] \notin Nodes

LEMMA WithoutRooted ==
    ASSUME NEW t, Sound(t), NEW K \in SUBSET Ids, Rooted(t, K), NEW gone \in SUBSET Ids,
           \A i, j \in gone : i = j, ~Sheds(t, gone)
    PROVE  Rooted(Without(t, gone), K \ gone)
<1>1. CASE gone = {}
  BY <1>1 DEF Without
<1>2. CASE gone # {}
  <2>1. PICK n : n = CHOOSE i \in gone : TRUE
    OBVIOUS
  <2>2. n \in Ids /\ gone = {n}
    BY <1>2, <2>1
  <2>3. Without(t, gone) = removeNode(t, n) /\ ~(Len(t.kids[n]) > 1)
    BY <1>2, <2>1, <2>2 DEF Without, Sheds
  <2>4. PICK u : u = removeNode(t, n)
    OBVIOUS
  <2>5. u.parent[n] = Nil
        /\ \A i \in Ids \ {n} : u.parent[i] = IF t.parent[i] = n THEN t.parent[n] ELSE t.parent[i]
    BY <2>2, <2>3, <2>4, RemoveNodeSound
  <2>6. t.parent[n] # n
    <3>1. \E i \in {n} : t.parent[i] \notin {n}
      BY <2>2 DEF Sound, Acyclic
    <3> QED BY <3>1
  <2>7. n \in Nodes /\ Nil \notin Nodes /\ n # 0
    BY <2>2, Constants
  <2>8. ASSUME NEW i \in Ids
        PROVE  IF i \in K \ {n} THEN u.parent[i] \in (K \ {n}) \union {0} ELSE u.parent[i] \notin Nodes
    <3>1. CASE i = n
      BY <2>5, <2>7, <3>1
    <3>2. CASE i # n /\ i \in K
      <4>1. t.parent[i] \in K \union {0}
        BY <3>2 DEF Rooted
      <4>2. t.parent[i] = n => t.parent[n] \in K \union {0}
        BY <2>2, <2>7, <4>1 DEF Rooted
      <4> QED BY <2>5, <2>6, <3>2, <4>1, <4>2
    <3>3. CASE i # n /\ i \notin K
      <4>1. t.parent[i] \notin Nodes
        BY <3>3 DEF Rooted
      <4> QED BY <2>5, <2>7, <3>3, <4>1
    <3> QED BY <3>1, <3>2, <3>3
  <2> QED BY <2>2, <2>3, <2>4, <2>8 DEF Rooted
<1> QED BY <1>1, <1>2

LEMMA NewNodeRooted ==
    ASSUME NEW t, Sound(t), NEW K \in SUBSET Ids, Rooted(t, K),
           NEW n \in Ids, n \notin K, NEW p \in K \union {0}
    PROVE  Rooted(NewNode(t, n, p), K \union {n})
<1>1. n \in Nodes /\ n # 0 /\ p \in Nodes /\ p # n /\ Discarded \notin Nodes
  BY Constants
<1>2. PICK u : u = NewNode(t, n, p)
  OBVIOUS
<1>3. \A i \in Ids : u.parent[i] =
        IF i = n THEN p ELSE IF t.parent[i] = n THEN Discarded ELSE t.parent[i]
  BY <1>1, <1>2, NewNodeSound
<1>4. ASSUME NEW i \in Ids
      PROVE  IF i \in K \union {n} THEN u.parent[i] \in (K \union {n}) \union {0}
             ELSE u.parent[i] \notin Nodes
  <2>1. CASE i = n
    BY <1>3, <2>1
  <2>2. CASE i # n /\ i \in K
    <3>1. t.parent[i] \in K \union {0}
      BY <2>2 DEF Rooted
    <3> QED BY <1>1, <1>3, <2>2, <3>1
  <2>3. CASE i # n /\ i \notin K
    <3>1. t.parent[i] \notin Nodes
      BY <2>3 DEF Rooted
    <3> QED BY <1>1, <1>3, <2>3, <3>1
  <2> QED BY <2>1, <2>2, <2>3
<1> QED BY <1>2, <1>4 DEF Rooted

LEMMA DependRooted ==
    ASSUME NEW t, Sound(t), NEW K \in SUBSET Ids, Rooted(t, K), NEW n \in K,
           NEW p \in K \union {0}, p # n, NEW exclusive
    PROVE  Rooted(Depend(t, n, p, exclusive), K)
<1>1. n \in Ids /\ p \in Nodes /\ p \in Anchors /\ n \in Nodes /\ 0 \notin Ids /\ K \subseteq Nodes
      /\ 0 \in Nodes
  BY Constants
<1>2. PICK u : u = MoveFormerly(t, n, p)
  OBVIOUS
<1>3. /\ Sound(u) /\ (p \in Ids => n \notin Above(u, p))
      /\ \/ u = t
         \/ p \in Ids /\ \A i \in Ids : u.parent[i] = IF i = p THEN t.parent[n] ELSE t.parent[i]
  BY <1>1, <1>2, MoveFormerlySound
<1>4. Rooted(u, K)
  <2>1. p \in Ids => p \in K
    BY <1>1
  <2> QED BY <1>1, <1>3, <2>1 DEF Rooted
<1>5. PICK v : v = Depend(t, n, p, exclusive)
  OBVIOUS
<1>6. v = setParent(IF exclusive THEN MoveSiblings(u, n, p) ELSE u, n, p)
  BY <1>2, <1>5 DEF Depend
<1>7. \A i \in Ids : \/ i = n /\ v.parent[i] = p
                     \/ i # n /\ v.parent[i] = u.parent[i]
                     \/ i # n /\ u.parent[i] = p /\ v.parent[i] = n
  <2>1. CASE exclusive
    BY <1>1, <1>3, <1>6, <2>1, ExclusiveSound
  <2>2. CASE ~exclusive
    BY <1>1, <1>3, <1>6, <2>2, SetParentSound
  <2> QED BY <2>1, <2>2
<1>8. \A i \in Ids \ K : u.parent[i] # p
  BY <1>1, <1>4 DEF Rooted
<1> QED BY <1>1, <1>4, <1>5, <1>7, <1>8 DEF Rooted

(* Identifiers that PRIORITY names are above all of those on idleNodes, so *)
(* that the node it removes is never the one it makes.                     *)
Hanging ==
    /\ Typed
    /\ ~shed => Rooted(tree, known)
    /\ \A i \in ToSet(idleNodes) : i <= maxID

LEMMA IdleBelowMax ==
    ASSUME Hanging, [Next]_vars
    PROVE  \A i \in ToSet(idleNodes') : i <= maxID'
<1>1. /\ \A i \in ToSet(idleNodes) : i <= maxID
      /\ idleNodes \in Seq(Ids) /\ Len(idleNodes) <= MaxIdle /\ ToSet(idleNodes) \subseteq Ids
      /\ maxID \in Nat /\ Ids \subseteq Nat /\ MaxIdle \in Nat
  BY PriorityAssumption, EvictedListed, Constants DEF Hanging, Typed, Bookkeeping, RetentionBound, Nodes
<1>2. ASSUME NEW id \in Ids, NEW pusher, OpenStream(id, pusher)
      PROVE  idleNodes' = idleNodes /\ maxID' \in Nat /\ maxID' >= maxID
  <2>1. idleNodes' = idleNodes /\ (maxID' = maxID \/ maxID' = IF id > maxID THEN id ELSE maxID)
    BY <1>2 DEF OpenStream
  <2>2. id \in Nat /\ maxID \in Nat
    BY <1>1
  <2> QED BY <2>1, <2>2
<1>3. ASSUME NEW id \in Ids, NEW dep, NEW w, NEW x, AdjustStream(id, dep, w, x), id \notin known
      PROVE  \A i \in ToSet(idleNodes') : i <= maxID'
  <2>1. id > maxID /\ maxID' = id /\ idleNodes' = Retain(idleNodes, MaxIdle, id)
    BY <1>3 DEF AdjustStream
  <2>2. ToSet(idleNodes') \subseteq ToSet(idleNodes) \union {id}
    BY <1>1, <2>1, Retained
  <2>3. ASSUME NEW i \in ToSet(idleNodes) \union {id} PROVE i <= id
    <3>1. i \in Nat /\ id \in Nat /\ maxID \in Nat
      BY <1>1
    <3>2. i <= maxID \/ i = id
      BY <1>1
    <3> QED BY <2>1, <3>1, <3>2
  <2> QED BY <2>1, <2>2, <2>3
<1>4. ASSUME NEW id \in Ids, NEW dep, NEW w, NEW x, AdjustStream(id, dep, w, x), id \in known
      PROVE  UNCHANGED <<idleNodes, maxID>>
  BY <1>4 DEF AdjustStream
<1>5. ASSUME NEW id \in Ids, CloseStream(id) PROVE UNCHANGED <<idleNodes, maxID>>
  BY <1>5 DEF CloseStream
<1>6. CASE PushAny \/ UNCHANGED vars
  BY <1>1, <1>6 DEF PushAny, Push, vars
<1>7. CASE PopAny
  <2>1. UNCHANGED <<idleNodes, maxID>>
    BY <1>7, PopServes DEF Hanging, Typed
  <2> QED BY <1>1, <2>1
<1>8. CASE UNCHANGED <<idleNodes, maxID>>
  BY <1>1, <1>8
<1>9. ASSUME idleNodes' = idleNodes, maxID' \in Nat, maxID' >= maxID
      PROVE  \A i \in ToSet(idleNodes') : i <= maxID'
  <2> SUFFICES ASSUME NEW i \in ToSet(idleNodes) PROVE i <= maxID'
    BY <1>9
  <2>1. i \in Nat /\ maxID \in Nat /\ i <= maxID
    BY <1>1
  <2> QED BY <1>9, <2>1
<1> QED BY <1>2, <1>3, <1>4, <1>5, <1>6, <1>7, <1>8, <1>9 DEF Next

LEMMA HangingKept ==
    ASSUME Hanging, [Next]_vars
    PROVE  Hanging'
<1>1. /\ Bookkeeping /\ Sound(tree) /\ known \in SUBSET Ids /\ known \subseteq Nodes
      /\ 0 \in Nodes /\ 0 \notin Ids /\ shed \in BOOLEAN
  BY Constants DEF Hanging, Typed, Bookkeeping
<1> SUFFICES ASSUME ~shed' PROVE Rooted(tree', known')
  BY IdleBelowMax, TypesKept DEF Hanging, Rooted
<1>2. ASSUME ~shed PROVE Rooted(tree, known)
  BY <1>2 DEF Hanging
<1>3. ASSUME NEW id \in Ids, NEW pusher, OpenStream(id, pusher) PROVE Rooted(tree', known')
  <2>1. ~shed
    BY <1>3 DEF OpenStream
  <2>2. CASE id \in known
    <3>1. tree' = tree /\ known' = known
      BY <1>3, <2>2 DEF OpenStream
    <3> QED BY <1>2, <2>1, <3>1
  <2>3. CASE id \notin known
    <3>1. PICK p : p = IF pusher \in known THEN pusher ELSE 0
      OBVIOUS
    <3>2. p \in known \union {0}
      BY <3>1
    <3>3. tree' = NewNode(tree, id, p) /\ known' = known \union {id}
      BY <1>3, <2>3, <3>1 DEF OpenStream
    <3> QED BY <1>1, <1>2, <2>1, <2>3, <3>2, <3>3, NewNodeRooted
  <2> QED BY <2>2, <2>3
<1>4. ASSUME NEW id \in Ids, CloseStream(id) PROVE Rooted(tree', known')
  <2>1. PICK gone : gone = IF MaxClosed = 0 THEN {id} ELSE Evicted(closedNodes, MaxClosed)
    OBVIOUS
  <2>2. gone \in SUBSET Ids
    BY <1>1, <2>1, EvictedListed
  <2>3. \A i, j \in gone : i = j
    BY <2>1 DEF Evicted
  <2>4. tree' = Without(tree, gone) /\ known' = known \ gone /\ shed' = (shed \/ Sheds(tree, gone))
    BY <1>4, <2>1 DEF CloseStream
  <2> QED BY <1>1, <1>2, <2>2, <2>3, <2>4, WithoutRooted
<1>5. ASSUME NEW id \in Ids, NEW dep \in Nodes, NEW w, NEW x, AdjustStream(id, dep, w, x)
      PROVE  Rooted(tree', known')
  <2>1. PICK gone, grown, keys :
          /\ gone = IF id \notin known THEN Evicted(idleNodes, MaxIdle) ELSE {}
          /\ grown = IF id \notin known THEN NewNode(tree, id, 0) ELSE tree
          /\ keys = (known \union {id}) \ gone
    OBVIOUS
  <2>2. PICK t : t = Without(grown, gone)
    OBVIOUS
  <2>3. /\ shed' = (shed \/ Sheds(grown, gone)) /\ known' = keys
        /\ id \notin known => id > maxID
    BY <1>5, <2>1 DEF AdjustStream
  <2>4. \/ dep \notin keys \union {0} /\ tree' = setParent(t, id, 0)
        \/ tree' = t
        \/ id # dep /\ dep \in keys \union {0} /\ tree' = Depend(t, id, dep, x)
    BY <1>5, <2>1, <2>2 DEF AdjustStream
  <2>5. Sound(grown) /\ Rooted(grown, known \union {id})
    <3>1. CASE id \in known
      <4>1. known \union {id} = known
        BY <3>1
      <4> QED BY <1>1, <1>2, <2>1, <2>3, <3>1, <4>1
    <3>2. CASE id \notin known
      <4>1. 0 \in known \union {0} /\ 0 # id
        BY <1>1
      <4> QED BY <1>1, <1>2, <2>1, <2>3, <3>2, <4>1, NewNodeRooted, NewNodeSound
    <3> QED BY <3>1, <3>2
  <2>6. gone \in SUBSET Ids /\ \A i, j \in gone : i = j
    BY <1>1, <2>1, EvictedListed DEF Evicted
  <2>7. id \in keys /\ keys \in SUBSET Ids
    <3>1. id \notin known => id \notin ToSet(idleNodes)
      <4>1. \A i \in ToSet(idleNodes) : i <= maxID
        BY DEF Hanging
      <4>2. id \in Nat /\ maxID \in Nat
        BY Constants DEF Hanging, Typed, Nodes
      <4> QED BY <2>3, <4>1, <4>2
    <3>2. Evicted(idleNodes, MaxIdle) \subseteq ToSet(idleNodes)
      BY <1>1, EvictedListed
    <3> QED BY <1>1, <2>1, <3>1, <3>2
  <2>8. Sound(t) /\ Rooted(t, keys)
    <3>1. known \union {id} \in SUBSET Ids
      BY <1>1
    <3> QED BY <2>1, <2>2, <2>3, <2>5, <2>6, <3>1, WithoutRooted, WithoutSound
  <2>9. Rooted(setParent(t, id, 0), keys)
    <3>1. \A i \in Ids : setParent(t, id, 0).parent[i] = IF i = id THEN 0 ELSE t.parent[i]
      BY <1>1, <2>8, SetParentSound, Constants
    <3> QED BY <2>7, <2>8, <3>1 DEF Rooted
  <2>10. id # dep /\ dep \in keys \union {0} => Rooted(Depend(t, id, dep, x), keys)
    BY <2>7, <2>8, DependRooted
  <2> QED BY <2>3, <2>4, <2>8, <2>9, <2>10
<1>6. CASE PushAny \/ UNCHANGED vars
  <2>1. tree' = tree /\ known' = known /\ shed' = shed
    BY <1>6 DEF PushAny, Push, vars
  <2> QED BY <1>2, <2>1
<1>7. CASE PopAny
  <2>1. known' = known /\ shed' = shed /\ \E visited : tree' = SortKids(visited)
    BY <1>1, <1>7, PopServes
  <2>2. tree'.parent = tree.parent
    BY <1>1, <2>1 DEF SortKids, Sound, Linked, Trees
  <2> QED BY <1>2, <2>1, <2>2 DEF Rooted
<1> QED BY <1>3, <1>4, <1>5, <1>6, <1>7 DEF Next

-------------------------------------------------------------------------------
(* The walk visits whatever hangs on a node that it visits: after as many  *)
(* levels as there are nodes nothing is left out.                          *)
Downward == {A \in SUBSET Nodes : \A y \in A : Kids(tree, y) \subseteq A}

LEMMA WalkIsComplete ==
    ASSUME Sound(tree)
    PROVE  0 \in ToSet(Walk) /\ ToSet(Walk) \in Downward
<1>1. PICK c \in Nat : c = Cardinality(Ids)
  BY Constants
<1>2. PICK f : Walks(f)
  BY WalkRecursion
<1>3. /\ \A d \in 0 .. c : f[d] \in [Nodes -> Seq(Nodes)]
      /\ \A i \in Nodes : f[0][i] = <<i>>
      /\ \A d \in 0 .. c - 1, i \in Nodes : f[d + 1][i] = Visit(f[d], i)
      /\ Walk = f[c][0]
  BY <1>1, <1>2 DEF Walks
<1> DEFINE R(d, i) == ToSet(f[d][i])
<1>4. 0 \in Nodes /\ Ids \subseteq Nodes /\ \A i : Kids(tree, i) \subseteq Nodes
  BY Constants DEF Kids
<1>5. \A d \in 0 .. c, i \in Nodes : R(d, i) \subseteq Nodes
  <2> SUFFICES ASSUME NEW d \in 0 .. c, NEW i \in Nodes PROVE ToSet(f[d][i]) \subseteq Nodes
    OBVIOUS
  <2>1. f[d][i] \in Seq(Nodes)
    BY <1>3
  <2>2. \A s \in Seq(Nodes) : ToSet(s) \subseteq Nodes
    BY DEF ToSet
  <2> QED BY <2>1, <2>2
<1>6. ASSUME NEW i \in Nodes PROVE R(0, i) = {i}
  <2>1. <<i>> \in Seq(Nodes) /\ Len(<<i>>) = 1 /\ <<i>>[1] = i
    OBVIOUS
  <2>2. ToSet(<<i>>) = {i}
    BY <2>1 DEF ToSet
  <2> QED BY <1>3, <2>2
<1>7. ASSUME NEW d \in 0 .. c - 1, NEW i \in Nodes
      PROVE  \A x : x \in R(d + 1, i) <=> x = i \/ \E k \in Kids(tree, i) : x \in R(d, k)
  <2>1. d \in 0 .. c /\ f[d + 1][i] = Visit(f[d], i)
    BY <1>3
  <2>2. PICK w : w = f[d]
    OBVIOUS
  <2>3. w \in [Nodes -> Seq(Nodes)]
    BY <1>3, <2>1, <2>2
  <2>4. \A x : x \in ToSet(Visit(w, i)) <=> x = i \/ \E k \in Kids(tree, i) : x \in ToSet(w[k])
    BY <2>3, Visits
  <2> QED BY <2>1, <2>2, <2>4
<1> DEFINE Next1(d) == \A i \in Nodes : \A x :
               x \in R(d + 1, i) <=> x \in R(d, i) \/ \E y \in R(d, i) : x \in Kids(tree, y)
           S == {d \in Nat : d + 1 <= c => Next1(d)}
<1>8. 0 \in S
  <2> SUFFICES ASSUME 0 + 1 <= c, NEW i \in Nodes, NEW x
               PROVE  x \in R(0 + 1, i) <=> x \in R(0, i) \/ \E y \in R(0, i) : x \in Kids(tree, y)
    OBVIOUS
  <2>1. 0 \in 0 .. c - 1
    BY <1>1
  <2>2. x \in R(0 + 1, i) <=> x = i \/ \E k \in Kids(tree, i) : x \in R(0, k)
    BY <1>7, <2>1
  <2>3. R(0, i) = {i} /\ \A k \in Kids(tree, i) : R(0, k) = {k}
    BY <1>4, <1>6
  <2> HIDE DEF R
  <2> QED BY <2>2, <2>3
<1>9. ASSUME NEW d \in Nat, d \in S PROVE d + 1 \in S
  <2> SUFFICES ASSUME (d + 1) + 1 <= c PROVE Next1(d + 1)
    OBVIOUS
  <2>1. d + 1 <= c /\ d \in 0 .. c - 1 /\ d + 1 \in 0 .. c - 1
    BY <1>1
  <2>2. Next1(d)
    BY <1>9, <2>1
  <2>3. ASSUME NEW i \in Nodes, NEW x
        PROVE  x \in R((d + 1) + 1, i) <=>
                 x \in R(d + 1, i) \/ \E y \in R(d + 1, i) : x \in Kids(tree, y)
    <3>1. x \in R((d + 1) + 1, i) <=> x = i \/ \E k \in Kids(tree, i) : x \in R(d + 1, k)
      BY <1>7, <2>1
    <3>2. \A y : y \in R(d + 1, i) <=> y = i \/ \E k \in Kids(tree, i) : y \in R(d, k)
      BY <1>7, <2>1
    <3>3. \A k \in Kids(tree, i) : x \in R(d + 1, k) <=>
            x \in R(d, k) \/ \E y \in R(d, k) : x \in Kids(tree, y)
      BY <1>4, <2>2
    <3>4. \A k \in Kids(tree, i) : k \in R(d + 1, k)
      BY <1>4, <1>7, <2>1
    <3> HIDE DEF R
    <3> QED BY <3>1, <3>2, <3>3, <3>4
  <2> QED BY <2>3
<1>10. ASSUME NEW d \in 0 .. c - 1 PROVE Next1(d)
  <2>1. Nat \subseteq S
    <3> HIDE DEF S
    <3> QED BY <1>8, <1>9, SetInduction
  <2>2. d \in Nat /\ d + 1 <= c
    BY <1>1
  <2> QED BY <2>1, <2>2
<1>11. PICK g : g = [d \in 0 .. c |-> R(d, 0)]
  OBVIOUS
<1>12. ASSUME NEW d \in 0 .. c - 1
       PROVE  /\ g[d] \subseteq g[d + 1]
              /\ g[d] \in Downward => g[d + 1] \in Downward
              /\ g[d + 1] \intersect Nodes = g[d] \intersect Nodes => g[d + 1] \in Downward
  <2>1. d \in 0 .. c /\ d + 1 \in 0 .. c
    BY <1>1
  <2>2. PICK a, b : a = R(d, 0) /\ b = R(d + 1, 0)
    OBVIOUS
  <2>3. \A x : x \in b <=> x \in a \/ \E y \in a : x \in Kids(tree, y)
    BY <1>4, <1>10, <2>2
  <2>4. a \subseteq Nodes /\ b \subseteq Nodes
    BY <1>4, <1>5, <2>1, <2>2
  <2>5. g[d] = a /\ g[d + 1] = b
    BY <1>11, <2>1, <2>2
  <2>6. a \in Downward => b \in Downward
    BY <2>3, <2>4 DEF Downward
  <2>7. b = a => b \in Downward
    BY <2>3, <2>4 DEF Downward
  <2> QED BY <2>3, <2>4, <2>5, <2>6, <2>7
<1>13. g[0] = {0} /\ g[c] = ToSet(Walk)
  <2>1. R(0, 0) = {0} /\ R(c, 0) = ToSet(Walk)
    BY <1>3, <1>4, <1>6
  <2>2. 0 \in 0 .. c /\ c \in 0 .. c
    BY <1>1
  <2> HIDE DEF R
  <2> QED BY <1>11, <2>1, <2>2
<1>14. IsFiniteSet(Nodes) /\ Cardinality(Nodes) = c + 1
  BY <1>1, Constants, FS_AddElement DEF Nodes
<1>15. g[c] \in Downward \/ Cardinality(g[c] \intersect Nodes) >= c + 1
  <2>1. g[0] \intersect Nodes # {}
    BY <1>4, <1>13
  <2> HIDE DEF R, Next1
  <2> QED BY <1>1, <1>12, <1>14, <2>1, Grows
<1>16. g[c] \in Downward
  <2>1. CASE Cardinality(g[c] \intersect Nodes) >= c + 1
    <3>1. PICK A : A = g[c] \intersect Nodes
      OBVIOUS
    <3>2. A \in SUBSET Nodes /\ IsFiniteSet(A) /\ Cardinality(A) \in Nat
      BY <1>14, <3>1, FS_Subset, FS_CardinalityType
    <3>3. Cardinality(A) <= Cardinality(Nodes)
      BY <1>14, <3>2, FS_Subset
    <3>4. Cardinality(A) = Cardinality(Nodes)
      BY <1>1, <1>14, <2>1, <3>1, <3>2, <3>3
    <3>5. A = Nodes
      BY <1>14, <3>2, <3>4, FS_Subset
    <3>6. g[c] = Nodes
      <4>1. g[c] = R(c, 0) /\ R(c, 0) \subseteq Nodes
        <5>1. c \in 0 .. c
          BY <1>1
        <5> HIDE DEF R
        <5> QED BY <1>4, <1>5, <1>11, <5>1
      <4> QED BY <3>1, <3>5, <4>1
    <3> QED BY <1>4, <3>6 DEF Downward
  <2> QED BY <1>15, <2>1
<1>17. 0 \in R(c, 0)
  <2>1. \A d \in 0 .. c - 1 : 0 \in R(d + 1, 0)
    BY <1>4, <1>7
  <2>2. CASE c = 0
    BY <1>4, <1>6, <2>2
  <2>3. CASE c # 0
    <3>1. c - 1 \in 0 .. c - 1 /\ (c - 1) + 1 = c
      BY <1>1, <2>3
    <3> QED BY <2>1, <3>1
  <2> QED BY <2>2, <2>3
<1> QED BY <1>3, <1>13, <1>16, <1>17

(* Every node of ws.nodes is visited: one that is not, and the first of    *)
(* those above it that is visited, would contradict it.                    *)
LEMMA RootedIsAttached ==
    ASSUME Sound(tree), known \subseteq Ids, Rooted(tree, known)
    PROVE  Attached
<1>1. PICK W : W = ToSet(Walk)
  OBVIOUS
<1>2. 0 \in W /\ \A y \in W : Kids(tree, y) \subseteq W
  BY <1>1, WalkIsComplete DEF Downward
<1>3. PICK Lost : Lost = known \ W
  OBVIOUS
<1>4. ASSUME NEW i \in Lost PROVE tree.parent[i] \in Lost
  <2>1. i \in Ids /\ tree.parent[i] \in known \union {0} /\ i \notin W
    BY <1>3 DEF Rooted
  <2>2. tree.parent[i] \notin W
    BY <1>2, <2>1 DEF Kids
  <2> QED BY <1>2, <1>3, <2>1, <2>2
<1>5. Lost \in SUBSET Ids /\ Acyclic(tree)
  BY <1>3 DEF Sound
<1>6. Lost = {}
  BY <1>4, <1>5 DEF Acyclic
<1> QED BY <1>1, <1>3, <1>6 DEF Attached

(* Pop's walk reaches every node of ws.nodes, and with it every queue,     *)
(* until removeNode meets a node with two kids: neither PRIORITY frames,   *)
(* exclusive or not, nor removals of other nodes, nor a new node for a     *)
(* stream that had one, cut a subtree off.                                 *)
THEOREM NothingElseDetaches == Spec => []OnlyRemovalDetaches
<1>1. Init => Hanging
  <2>1. Init => Rooted(tree, known)
    BY Constants DEF Init, Rooted
  <2>2. Init => \A i \in ToSet(idleNodes) : i <= maxID
    BY DEF Init, ToSet
  <2> QED BY <2>1, <2>2, TypedAtFirst DEF Hanging
<1>2. Hanging /\ [Next]_vars => Hanging'
  BY HangingKept
<1>3. Hanging => OnlyRemovalDetaches
  BY RootedIsAttached DEF Hanging, Typed, Bookkeeping, OnlyRemovalDetaches
<1> QED BY <1>1, <1>2, <1>3, PTL DEF Spec

================================================================================
