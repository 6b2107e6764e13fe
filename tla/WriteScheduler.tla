----------------------------- MODULE WriteScheduler ----------------------------
(***************************************************************************)
(* What writesched.go asks of every WriteScheduler: one queue per stream,  *)
(* and one, under 0, for the frames that belong to no stream.              *)
(*                                                                         *)
(* Frames are records with the fields kind, id (StreamID) and n (DataSize).*)
(* The specification says nothing about which stream Pop prefers, except   *)
(* that the root comes first: that is where the two implementations of     *)
(* this project (Session's queues and PriorityScheduler's tree) differ.    *)
(***************************************************************************)
EXTENDS Naturals, Sequences, SequencesExt

CONSTANT Ids   \* stream identifiers; 0 is not one of them

VARIABLES
    open,  \* the streams between OpenStream and CloseStream
    q      \* q[id]: the frames queued for a stream; q[0]: for the root

vars == <<open, q>>

Init ==
    /\ open = {}
    /\ q = [i \in Ids \union {0} |-> <<>>]

(* "It is illegal to call this [...] with a streamID that is already open."*)
OpenStream(id) ==
    /\ id \notin open
    /\ open' = open \union {id}
    /\ UNCHANGED q

(* "Any frames queued on this stream should be discarded."  The scheduler  *)
(* may also forget what it retained of streams that were closed before.    *)
CloseStream(id) ==
    /\ id \in open
    /\ open' = open \ {id}
    /\ q'[id] = <<>>
    /\ \A i \in (Ids \union {0}) \ {id} :
         q'[i] = q[i] \/ (i \notin open \union {0} /\ q'[i] = <<>>)

(* The order of the streams changes, and retained nodes may be forgotten;  *)
(* no frame of an open stream is touched.                                  *)
AdjustStream ==
    /\ \A i \in Ids \union {0} :
         q'[i] = q[i] \/ (i \notin open \union {0} /\ q'[i] = <<>>)
    /\ UNCHANGED open

(* Where a frame may be queued: "this will not be called with              *)
(* wr.StreamID()!=0 unless that stream is currently open.  The one         *)
(* exception is RST_STREAM frames".                                        *)
Targets(f) ==
    IF f.id = 0 \/ f.id \in open THEN {f.id}
    ELSE IF f.kind = "rst" THEN {0, f.id} ELSE {}

(* A frame goes to the end of a queue.                                     *)
Push(i) ==
    /\ Len(q'[i]) = Len(q[i]) + 1
    /\ i \in Targets(Last(q'[i]))
    /\ q' = [q EXCEPT ![i] = Append(@, Last(q'[i]))]
    /\ UNCHANGED open

(* The first frame of a queue leaves it, or only some of its bytes do:     *)
(* "Frames with a given wr.StreamID() are Pop'd in the same order they are *)
(* Push'd."                                                                *)
Pop(i) ==
    /\ q[i] # <<>>
    /\ q[0] # <<>> => i = 0
    /\ \/ q' = [q EXCEPT ![i] = Tail(@)]
       \/ \E k \in 1 .. Head(q[i]).n - 1 :
            /\ Head(q[i]).kind = "data"
            /\ q' = [q EXCEPT ![i] = <<[Head(@) EXCEPT !.n = k]>> \o Tail(@)]
    /\ UNCHANGED open

Next ==
    \/ \E id \in Ids : OpenStream(id) \/ CloseStream(id)
    \/ AdjustStream
    \/ \E i \in Ids \union {0} : Push(i) \/ Pop(i)

Spec == Init /\ [][Next]_vars

================================================================================
