------------------------------- MODULE ByteStream ------------------------------
(***************************************************************************)
(* What the comments of pipe.go promise: a stream of bytes from one writer *)
(* to any number of readers, which may be closed, with an error after the  *)
(* last byte, or broken, with an error at once.  No locks, no buffers.     *)
(***************************************************************************)
EXTENDS Naturals, Sequences

CONSTANT Readers

VARIABLES
    unread,  \* bytes written and not yet read
    closed,  \* CloseWithError was called
    broken,  \* BreakWithError was called
    read     \* read[r]: whether r is in Read, and what its last Read returned

vars == <<unread, closed, broken, read>>

InRead == [busy |-> TRUE, bytes |-> <<>>, err |-> FALSE]
Returned(bytes, err) == [busy |-> FALSE, bytes |-> bytes, err |-> err]

Init ==
    /\ unread = <<>>
    /\ closed = FALSE /\ broken = FALSE
    /\ read = [r \in Readers |-> Returned(<<>>, FALSE)]

(* Write, of any bytes.                                                    *)
Write ==
    /\ ~closed /\ ~broken
    /\ Len(unread') > Len(unread) /\ SubSeq(unread', 1, Len(unread)) = unread
    /\ UNCHANGED <<closed, broken, read>>

CloseWithError == closed' = TRUE /\ UNCHANGED <<unread, broken, read>>

BreakWithError == broken' = TRUE /\ unread' = <<>> /\ UNCHANGED <<closed, read>>

Read(r) ==
    /\ ~read[r].busy
    /\ read' = [read EXCEPT ![r] = InRead]
    /\ UNCHANGED <<unread, closed, broken>>

(* Read returns the next bytes, at least one.                              *)
ReadBytes(r) ==
    /\ read[r].busy /\ ~broken
    /\ \E n \in 1 .. Len(unread) :
         /\ read' = [read EXCEPT ![r] = Returned(SubSeq(unread, 1, n), FALSE)]
         /\ unread' = SubSeq(unread, n + 1, Len(unread))
    /\ UNCHANGED <<closed, broken>>

(* Read returns the error: "after all data has been read", or "immediately,*)
(* without waiting for unread data".                                       *)
ReadError(r) ==
    /\ read[r].busy
    /\ broken \/ (closed /\ unread = <<>>)
    /\ read' = [read EXCEPT ![r] = Returned(<<>>, TRUE)]
    /\ UNCHANGED <<unread, closed, broken>>

Next ==
    \/ Write \/ CloseWithError \/ BreakWithError
    \/ \E r \in Readers : Read(r) \/ ReadBytes(r) \/ ReadError(r)

Spec == Init /\ [][Next]_vars

================================================================================
