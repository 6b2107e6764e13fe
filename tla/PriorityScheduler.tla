--------------------------- MODULE PriorityScheduler ---------------------------
(***************************************************************************)
(* The priority tree of writesched_priority.go: streams depend on streams, *)
(* closed and idle streams are retained for a while, PRIORITY moves        *)
(* subtrees, and Pop walks the tree in priority order.                     *)
(*                                                                         *)
(* A priorityNode is known by its stream.  A node that is no longer in     *)
(* ws.nodes keeps its record, since nodes below it may still point to it.  *)
(* Throttling is off, as NewPriorityWriteScheduler(nil) has it.  The       *)
(* windows are inputs of Pop.                                              *)
(***************************************************************************)
EXTENDS Integers, Sequences, FiniteSets, SequencesExt

CONSTANTS
    Ids,            \* stream identifiers
    MaxClosed,      \* maxClosedNodesInTree
    MaxIdle,        \* maxIdleNodesInTree
    WeightModulus,  \* 2^8 in the code: weights are uint8
    DefaultWeight,  \* priorityDefaultWeight
    Weights,        \* the weights that the peer sends
    DataSize,       \* the size of the DATA frames that are pushed
    CallBudget      \* how many calls of Push and AdjustStream may come

ASSUME PriorityAssumption ==
    /\ Ids \subseteq Nat \ {0} /\ IsFiniteSet(Ids)
    /\ MaxClosed \in Nat /\ MaxIdle \in Nat
    /\ CallBudget \in Nat /\ DataSize \in Nat \ {0}
    /\ WeightModulus \in Nat \ {0}
    /\ Weights \union {DefaultWeight} \subseteq 0 .. WeightModulus - 1

Nodes == Ids \union {0}     \* 0 is ws.root
Nil == -1                   \* a nil parent
Discarded == -2             \* a node whose stream has a newer node

VARIABLES
    tree,         \* the links: parent of each node, kids in list order
    node,         \* the other fields of each node
    known,        \* the keys of ws.nodes, without the root's
    closedNodes, idleNodes, maxID,
    q,            \* q[id]: the node's queue; q[0]: the root's
    open,         \* the caller's view: streams opened and not yet closed
    used,         \* the caller's view: streams ever opened
    left,         \* how many calls of Push and AdjustStream may still come
    shed          \* history: removeNode met a node with several kids

vars == <<tree, node, known, closedNodes, idleNodes, maxID, q, open, used, left, shed>>

Init ==
    /\ tree = [parent |-> [i \in Ids |-> Nil], kids |-> [i \in Nodes |-> <<>>]]
    /\ node = [i \in Ids |-> [weight |-> DefaultWeight, state |-> "idle",
                              bytes |-> 0, subtreeBytes |-> 0]]
    /\ known = {}
    /\ closedNodes = <<>> /\ idleNodes = <<>> /\ maxID = 0
    /\ q = [i \in Nodes |-> <<>>]
    /\ open = {} /\ used = {}
    /\ left = CallBudget
    /\ shed = FALSE

-------------------------------------------------------------------------------
(* setParent: unlink n, then link it at the head of the parent's kids.     *)
setParent(t, n, parent) ==
    LET linked(i) ==
          (IF i = parent THEN <<n>> ELSE <<>>) \o
          (IF i = t.parent[n] THEN RemoveFirst(t.kids[i], n) ELSE t.kids[i])
    IN  IF t.parent[n] = parent THEN t
        ELSE [parent |-> [i \in Ids |-> IF i = n THEN parent ELSE t.parent[i]],
              kids   |-> [i \in Nodes |-> linked(i)]]

(* The nodes above n, up to a nil parent.                                  *)
Above(t, n) ==
    LET up[d \in 0 .. Cardinality(Ids)] ==
          IF d = 0 THEN {t.parent[n]}
          ELSE up[d - 1] \union {t.parent[i] : i \in up[d - 1] \intersect Ids}
    IN  up[Cardinality(Ids)]

(* addBytes: n and everything above it in the tree as it is now.           *)
addBytes(nd, n, b) ==
    [i \in Ids |->
       [nd[i] EXCEPT !.bytes = IF i = n THEN @ + b ELSE @,
                     !.subtreeBytes = IF i = n \/ i \in Above(tree, n) THEN @ + b ELSE @]]

(* A new object: what still points to an older one of this stream keeps    *)
(* pointing to that one.                                                   *)
NewNode(t, n, parent) ==
    LET fresh == [parent |-> [i \in Ids |-> IF t.parent[i] = n THEN Discarded
                                            ELSE t.parent[i]],
                  kids   |-> [t.kids EXCEPT ![n] = <<>>]]
    IN  setParent(fresh, n, parent)

NewFields(state) ==
    [weight |-> DefaultWeight, state |-> state, bytes |-> 0, subtreeBytes |-> 0]

removeNodeOnly(t, n) == setParent(t, n, Nil)

(* removeNode: the loop reads k.next after setParent has linked k among    *)
(* the siblings of n, so only the first kid moves up.                      *)
removeNode(t, n) ==
    LET moved == IF t.kids[n] = <<>> THEN t
                 ELSE setParent(t, Head(t.kids[n]), t.parent[n])
    IN  setParent(moved, n, Nil)

EvictedNever(list, max) == {}

(* addClosedOrIdleNode: the oldest of a full list is removed.              *)
Evicted(list, max) == IF max > 0 /\ Len(list) = max THEN {Head(list)} ELSE {}

Retain(list, max, n) ==
    IF max = 0 THEN list
    ELSE IF Len(list) = max THEN Append(Tail(list), n) ELSE Append(list, n)

(* The tree once the nodes in gone, at most one, have been removed.        *)
Without(t, gone) == IF gone = {} THEN t ELSE removeNode(t, CHOOSE n \in gone : TRUE)

Sheds(t, gone) == \E n \in gone : Len(t.kids[n]) > 1

-------------------------------------------------------------------------------
openIdleUnmarked(nd, id) == nd

(* A stream that PRIORITY has named before keeps its place in the tree.    *)
openIdle(nd, id) == [nd EXCEPT ![id].state = "open"]

(* The identifiers of each side increase, as newStream's callers see to.   *)
OpenStream(id, pusher) ==
    /\ \A u \in used : u % 2 = id % 2 => u < id
    /\ IF id \in known
       THEN /\ node' = openIdle(node, id)
            /\ UNCHANGED <<tree, known, maxID>>
       ELSE /\ tree' = NewNode(tree, id, IF pusher \in known THEN pusher ELSE 0)
            /\ node' = [node EXCEPT ![id] = NewFields("open")]
            /\ known' = known \union {id}
            /\ maxID' = IF id > maxID THEN id ELSE maxID
    /\ open' = open \union {id}
    /\ used' = used \union {id}
    /\ UNCHANGED <<closedNodes, idleNodes, q, left, shed>>

(* CloseStream panics on a stream whose node is gone (KnowsOpen).          *)
CloseStream(id) ==
    /\ id \in open /\ id \in known
    /\ LET gone == IF MaxClosed = 0 THEN {id} ELSE Evicted(closedNodes, MaxClosed)
       IN  /\ tree' = Without(tree, gone)
           /\ known' = known \ gone
           /\ shed' = (shed \/ Sheds(tree, gone))
           /\ q' = [i \in Nodes |-> IF i = id \/ i \in gone THEN <<>> ELSE q[i]]
    /\ node' = [addBytes(node, id, -node[id].bytes) EXCEPT ![id].state = "closed"]
    /\ closedNodes' = Retain(closedNodes, MaxClosed, id)
    /\ open' = open \ {id}
    /\ UNCHANGED <<idleNodes, maxID, used, left>>

-------------------------------------------------------------------------------
MoveFormerlyNever(t, n, parent) == t

(* "If a stream is made dependent on one of its own dependencies, the      *)
(* formerly dependent stream is first moved".                              *)
MoveFormerly(t, n, parent) ==
    IF parent # 0 /\ n \in Above(t, parent) THEN setParent(t, parent, t.parent[n]) ELSE t

(* The exclusive flag: the other kids of the parent become kids of n.      *)
MoveSiblings(t, n, parent) ==
    LET others == RemoveFirst(t.kids[parent], n)
    IN  [parent |-> [i \in Ids |-> IF i \in ToSet(others) THEN n ELSE t.parent[i]],
         kids   |-> [t.kids EXCEPT ![parent] = IF Len(others) < Len(@) THEN <<n>> ELSE <<>>,
                                   ![n] = Reverse(others) \o @]]

Depend(t, n, parent, exclusive) ==
    LET moved == MoveFormerly(t, n, parent)
    IN  setParent(IF exclusive THEN MoveSiblings(moved, n, parent) ELSE moved, n, parent)

(* AdjustStream.  A stream without a node gets one if it is idle; if it    *)
(* was closed and forgotten, nothing happens.  A dependency on a stream    *)
(* that is not in the tree means the default priority.                     *)
AdjustStream(id, dep, weight, exclusive) ==
    /\ left > 0
    /\ id \in known \/ (id > maxID /\ MaxIdle > 0)
    /\ LET fresh == id \notin known
           gone == IF fresh THEN Evicted(idleNodes, MaxIdle) ELSE {}
           grown == IF fresh THEN NewNode(tree, id, 0) ELSE tree
           t == Without(grown, gone)
           fields == IF fresh THEN NewFields("idle") ELSE node[id]
           keys == (known \union {id}) \ gone
       IN  /\ known' = keys
           /\ maxID' = IF fresh THEN id ELSE maxID
           /\ idleNodes' = IF fresh THEN Retain(idleNodes, MaxIdle, id) ELSE idleNodes
           /\ shed' = (shed \/ Sheds(grown, gone))
           /\ q' = [i \in Nodes |-> IF i \in gone THEN <<>> ELSE q[i]]
           /\ IF dep # 0 /\ dep \notin keys
              THEN /\ tree' = setParent(t, id, 0)
                   /\ node' = [node EXCEPT ![id] = [fields EXCEPT !.weight = DefaultWeight]]
              ELSE IF id = dep
              THEN tree' = t /\ node' = [node EXCEPT ![id] = fields]
              ELSE /\ tree' = Depend(t, id, dep, exclusive)
                   /\ node' = [node EXCEPT ![id] = [fields EXCEPT !.weight = weight]]
    /\ left' = left - 1
    /\ UNCHANGED <<closedNodes, open, used>>

-------------------------------------------------------------------------------
Frame(kind, id, n) == [kind |-> kind, id |-> id, n |-> n]

(* Push: a frame of a stream without a node goes to the root.              *)
Push(f) ==
    /\ left > 0
    /\ LET i == IF f.id \in known THEN f.id ELSE 0
       IN  q' = [q EXCEPT ![i] = Append(@, f)]
    /\ left' = left - 1
    /\ UNCHANGED <<tree, node, known, closedNodes, idleNodes, maxID, open, used, shed>>

(* What the session pushes: DATA on open streams, and frames that take no  *)
(* window.  RST_STREAM stands for all of those: on a stream without a node *)
(* it goes where PING and SETTINGS go.  DATA on a stream without a node    *)
(* panics (KnowsOpen).                                                     *)
PushAny ==
    \/ \E id \in open \intersect known : Push(Frame("data", id, DataSize))
    \/ \E id \in Ids : Push(Frame("rst", id, 0))

-------------------------------------------------------------------------------
(* weight+1, which is computed in uint8.                                   *)
EffectiveWeight(i) == (node[i].weight + 1) % WeightModulus

(* sortPriorityNodeSiblings.Less, a comparison of float64 quotients: a     *)
(* positive number divided by 0 is +Inf, 0/0 is less than nothing.         *)
Less(i, k) ==
    LET wi == EffectiveWeight(i)
        wk == EffectiveWeight(k)
        bi == node[i].subtreeBytes
        bk == node[k].subtreeBytes
    IN  IF bi = 0 /\ bk = 0 THEN wi >= wk
        ELSE IF bk = 0 THEN FALSE
        ELSE IF wk = 0 THEN wi > 0
        ELSE IF bk > 0 THEN bi * wk <= wi * bk
        ELSE bi * wk >= wi * bk

(* sort.Sort is an insertion sort for lists of up to 12.                   *)
Insert(s, k) ==
    LET stop == {j \in DOMAIN s : ~Less(k, s[j])}
        at == CHOOSE j \in stop \union {0} : \A l \in stop : l <= j
    IN  InsertAt(s, at + 1, k)

(* The kids in the order of the walk: sorted if their weights differ.      *)
KidsInOrder(i) ==
    LET s == tree.kids[i]
    IN  IF \A j, k \in DOMAIN s : node[s[j]].weight = node[s[k]].weight THEN s
        ELSE FoldLeft(Insert, <<>>, s)

(* walkReadyInOrder: the nodes below the root, parents before kids.        *)
Walk ==
    LET from[d \in 0 .. Cardinality(Ids)] ==
          [i \in Nodes |->
             <<i>> \o (IF d = 0 THEN <<>>
                       ELSE LET s == KidsInOrder(i)
                            IN  FlattenSeq([j \in DOMAIN s |-> from[d - 1][s[j]]]))]
    IN  from[Cardinality(Ids)][0]

(* The streams whose windows matter, because DATA is next.                 *)
WaitForWindow == {id \in Ids : q[id] # <<>> /\ Head(q[id]).kind = "data"}

(* consume takes something from the node's queue: blocked are the streams  *)
(* whose windows are empty.                                                *)
Ready(i, blocked) == q[i] # <<>> /\ i \notin blocked

(* The kids of the visited nodes stay sorted.                              *)
SortKids(visited) ==
    [tree EXCEPT !.kids =
       [i \in Nodes |-> IF i \in visited THEN KidsInOrder(i) ELSE tree.kids[i]]]

consumeToBack(s, allowed) ==
    Tail(s) \o
    (IF Head(s).n > allowed THEN <<[Head(s) EXCEPT !.n = @ - allowed]>> ELSE <<>>)

consumeUnlimited(s, allowed) == <<[Head(s) EXCEPT !.n = @ - allowed]>> \o Tail(s)

(* writeQueue.consume: what stays in the queue.                            *)
consume(s, allowed) ==
    (IF Head(s).n > allowed THEN <<[Head(s) EXCEPT !.n = @ - allowed]>> ELSE <<>>)
    \o Tail(s)

(* Pop, when the first ready node of the walk is at position at: it gives  *)
(* its first frame, or as many of its bytes as are allowed.                *)
Pop(walk, at, allowed) ==
    LET i == walk[at]
        n == Head(q[i]).n
    IN  /\ q' = [q EXCEPT ![i] = consume(@, allowed)]
        /\ node' = IF i = 0 THEN node
                   ELSE addBytes(node, i, IF n > allowed THEN allowed ELSE n)
        /\ tree' = SortKids({walk[j] : j \in 1 .. at - 1})
        /\ UNCHANGED <<known, closedNodes, idleNodes, maxID, open, used, left, shed>>

(* Pop returns false.                                                      *)
PopNothing(walk) ==
    /\ tree' = SortKids(ToSet(walk))
    /\ UNCHANGED <<node, known, closedNodes, idleNodes, maxID, q, open, used, left, shed>>

PopAny ==
    LET walk == Walk
    IN  \E blocked \in SUBSET WaitForWindow :
          LET at == SelectInSeq(walk, LAMBDA i : Ready(i, blocked))
          IN  \/ at = 0 /\ PopNothing(walk)
              \/ at # 0 /\ \E allowed \in 1 .. DataSize : Pop(walk, at, allowed)

(* The application may name any stream that it knows as the parent of one  *)
(* that it opens; a stream of the peer, here an even one, has no parent.   *)
Parents(id) == IF id % 2 = 0 THEN {0} ELSE used \union {0}

Next ==
    \/ \E id \in Ids : \E pusher \in Parents(id) : OpenStream(id, pusher)
    \/ \E id \in Ids : CloseStream(id)
    \/ \E id \in Ids, dep \in Nodes, w \in Weights, x \in BOOLEAN : AdjustStream(id, dep, w, x)
    \/ PushAny
    \/ PopAny

Spec == Init /\ [][Next]_vars

(* An idle node that is opened stays in idleNodes, and PRIORITY for one    *)
(* more idle stream may remove it while its stream is open.  The promises  *)
(* below hold as long as the peer does not cause that.                     *)
EvictsOpen == UNCHANGED open /\ \E id \in open : id \in known \ known'

CarefulSpec == Init /\ [][Next /\ ~EvictsOpen]_vars

-------------------------------------------------------------------------------
TypeOK ==
    /\ tree \in [parent : [Ids -> Nodes \union {Nil, Discarded}], kids : [Nodes -> Seq(Ids)]]
    /\ node \in [Ids -> [weight : 0 .. WeightModulus - 1, state : {"open", "closed", "idle"},
                         bytes : Int, subtreeBytes : Int]]
    /\ known \subseteq Ids /\ open \subseteq used /\ used \subseteq Ids
    /\ closedNodes \in Seq(Ids) /\ idleNodes \in Seq(Ids) /\ maxID \in Nodes
    /\ q \in [Nodes -> Seq([kind : {"data", "rst"}, id : Ids, n : Nat])]
    /\ left \in 0 .. CallBudget /\ shed \in BOOLEAN

Scheduler == INSTANCE WriteScheduler

(* The tree is a WriteScheduler: whatever PRIORITY frames do to it and     *)
(* whichever nodes it forgets, the frames of one stream leave in the order *)
(* in which they came, the root's first, and no frame of an open stream is *)
(* dropped.                                                                *)
Implements == Scheduler!Spec

(* The two directions of the links agree, no node is its own ancestor, and *)
(* no kid is listed twice, after every inversion and exclusive move of     *)
(* AdjustStream and every removal.                                         *)
TreeIsSound ==
    /\ \A i \in Ids : i \notin Above(tree, i)
    /\ \A i \in Ids, p \in Nodes :
         Cardinality({j \in DOMAIN tree.kids[p] : tree.kids[p][j] = i}) =
             (IF tree.parent[i] = p THEN 1 ELSE 0)

(* CloseStream and Push find the node of every open stream: they panic     *)
(* otherwise.                                                              *)
KnowsOpen == \A id \in open : id \in known /\ node[id].state = "open"

(* A node of a stream that is not open is in one of the two lists, and the *)
(* lists keep to their limits: the tree does not grow with the streams     *)
(* that have come and gone.                                                *)
RetentionBound ==
    /\ known \subseteq open \union ToSet(closedNodes) \union ToSet(idleNodes)
    /\ Len(closedNodes) <= MaxClosed /\ Len(idleNodes) <= MaxIdle

Attached == known \subseteq ToSet(Walk)

(* Pop reaches every queue as long as no node with several kids has been   *)
(* removed: no PRIORITY frame and no other removal cuts a subtree off.     *)
OnlyRemovalDetaches == ~shed => Attached

(* "Returns false if no frames can be written": Pop finds the frames of    *)
(* every open stream.                                                      *)
PopFindsFrames == \A id \in open : q[id] # <<>> => id \in ToSet(Walk)

================================================================================
