---------------------------------- MODULE Pipe ---------------------------------
(***************************************************************************)
(* pipe.go: a stream's body, which serve writes and closes and any number  *)
(* of the application's goroutines read.  The pipe has a mutex and a       *)
(* condition variable; its buffer is a DataBuffer.                         *)
(*                                                                         *)
(* Taking the mutex and what follows up to the first loop is one step; an  *)
(* iteration of the buffer's loops is a step with the mutex held.          *)
(***************************************************************************)
EXTENDS DataBuffer, FiniteSets

CONSTANTS
    Readers,     \* goroutines that Read
    ReadSizes,   \* lengths of the slices they read into
    WriteSizes,  \* lengths of the DATA that serve writes
    MaxBytes     \* how many bytes serve writes in all

ASSUME PipeAssumption ==
    /\ ReadSizes \union WriteSizes \subseteq Nat \ {0}
    /\ MaxBytes \in Nat
    /\ IsFiniteSet(Readers)

VARIABLES
    b,         \* the buffer
    bNil,      \* p.b = nil
    err, breakErr, donec,
    mu,        \* who holds p.mu: "free", "serve" or "reader"
    waiters,   \* the condition variable: goroutines in Wait, oldest first
    rd,        \* rd[r]: where r is in Read, the room left in its slice, and
               \* the bytes and the error that it has so far
    todo,      \* the bytes of the Write in progress that are not copied yet
    written    \* how many bytes serve has written; byte i is the number i

vars == <<b, bNil, err, breakErr, donec, mu, waiters, rd, todo, written>>

Stages == {"idle", "lock", "copy", "wait"}

Init ==
    /\ b = Empty /\ bNil = FALSE
    /\ err = FALSE /\ breakErr = FALSE /\ donec = "nil"
    /\ mu = "free" /\ waiters = <<>>
    /\ rd = [r \in Readers |-> [at |-> "idle", room |-> 0, got |-> <<>>, err |-> FALSE]]
    /\ todo = <<>> /\ written = 0

-------------------------------------------------------------------------------
(* Read: take the mutex, at the start or after Wait, and look.             *)
Read(r) ==
    /\ rd[r].at = "idle"
    /\ \E n \in ReadSizes :
         rd' = [rd EXCEPT ![r] = [at |-> "lock", room |-> n, got |-> <<>>, err |-> FALSE]]
    /\ UNCHANGED <<b, bNil, err, breakErr, donec, mu, waiters, todo, written>>

Looks(r) == rd[r].at = "lock" /\ mu = "free"

HasData == ~bNil /\ b.size > 0

ReadBroken(r) ==
    /\ Looks(r) /\ breakErr
    /\ rd' = [rd EXCEPT ![r].at = "idle", ![r].err = TRUE]
    /\ UNCHANGED <<b, bNil, err, breakErr, donec, mu, waiters, todo, written>>

ReadDataFull(r) ==
    /\ Looks(r) /\ ~breakErr /\ HasData /\ b.size >= rd[r].room
    /\ rd' = [rd EXCEPT ![r].at = "copy"]
    /\ mu' = "reader"
    /\ UNCHANGED <<b, bNil, err, breakErr, donec, waiters, todo, written>>

ReadData(r) ==
    /\ Looks(r) /\ ~breakErr /\ HasData
    /\ rd' = [rd EXCEPT ![r].at = "copy"]
    /\ mu' = "reader"
    /\ UNCHANGED <<b, bNil, err, breakErr, donec, waiters, todo, written>>

ReadEndEarly(r) ==
    /\ Looks(r) /\ ~breakErr /\ err
    /\ rd' = [rd EXCEPT ![r].at = "idle", ![r].err = TRUE]
    /\ bNil' = TRUE /\ b' = Empty
    /\ UNCHANGED <<err, breakErr, donec, mu, waiters, todo, written>>

ReadEnd(r) ==
    /\ Looks(r) /\ ~breakErr /\ ~HasData /\ err
    /\ rd' = [rd EXCEPT ![r].at = "idle", ![r].err = TRUE]
    /\ bNil' = TRUE /\ b' = Empty
    /\ UNCHANGED <<err, breakErr, donec, mu, waiters, todo, written>>

ReadWait(r) ==
    /\ Looks(r) /\ ~breakErr /\ ~HasData /\ ~err
    /\ rd' = [rd EXCEPT ![r].at = "wait"]
    /\ waiters' = Append(waiters, r)
    /\ UNCHANGED <<b, bNil, err, breakErr, donec, mu, todo, written>>

(* dataBuffer.Read: while there are room and data.                         *)
ReadCopy(r) ==
    /\ rd[r].at = "copy" /\ rd[r].room > 0 /\ b.size > 0
    /\ LET k == Readable(b, rd[r].room)
       IN  rd' = [rd EXCEPT ![r].room = @ - k,
                            ![r].got = @ \o SubSeq(bytesFromFirstChunk(b), 1, k)]
    /\ b' = ReadChunk(b, rd[r].room)
    /\ UNCHANGED <<bNil, err, breakErr, donec, mu, waiters, todo, written>>

(* Read returns and gives the mutex back.                                  *)
ReadReturn(r) ==
    /\ rd[r].at = "copy" /\ (rd[r].room = 0 \/ b.size = 0)
    /\ rd' = [rd EXCEPT ![r].at = "idle"]
    /\ mu' = "free"
    /\ UNCHANGED <<b, bNil, err, breakErr, donec, waiters, todo, written>>

ReaderStep(r) ==
    \/ ReadBroken(r) \/ ReadData(r) \/ ReadEnd(r) \/ ReadWait(r)
    \/ ReadCopy(r) \/ ReadReturn(r)

-------------------------------------------------------------------------------
SignalNobody == UNCHANGED <<waiters, rd>>

(* p.c.Signal: one waiter wakes up and goes for the mutex.                 *)
Signal ==
    IF waiters = <<>> THEN UNCHANGED <<waiters, rd>>
    ELSE /\ rd' = [rd EXCEPT ![Head(waiters)].at = "lock"]
         /\ waiters' = Tail(waiters)

(* Write into a pipe that is closed fails, into one that is broken does    *)
(* nothing; both signal.                                                   *)
WriteRefused ==
    /\ mu = "free" /\ (err \/ breakErr)
    /\ Signal
    /\ UNCHANGED <<b, bNil, err, breakErr, donec, mu, todo, written>>

Write(n) ==
    /\ mu = "free" /\ ~err /\ ~breakErr
    /\ written + n <= MaxBytes
    /\ todo' = [i \in 1 .. n |-> written + i]
    /\ written' = written + n
    /\ mu' = "serve"
    /\ UNCHANGED <<b, bNil, err, breakErr, donec, waiters, rd>>

(* dataBuffer.Write: while there are bytes to copy.                        *)
WriteCopy ==
    /\ mu = "serve" /\ todo # <<>>
    /\ b' = WriteChunk(b, todo)
    /\ todo' = SubSeq(todo, Room(b, todo) + 1, Len(todo))
    /\ UNCHANGED <<bNil, err, breakErr, donec, mu, waiters, rd, written>>

WriteReturn ==
    /\ mu = "serve" /\ todo = <<>>
    /\ Signal
    /\ mu' = "free"
    /\ UNCHANGED <<b, bNil, err, breakErr, donec, todo, written>>

(* closeDoneLocked *)
ClosedDone == IF donec = "nil" THEN donec ELSE "closed"

(* closeWithError, on p.err.                                               *)
CloseWithError ==
    /\ mu = "free"
    /\ err' = TRUE
    /\ donec' = IF err THEN donec ELSE ClosedDone
    /\ Signal
    /\ UNCHANGED <<b, bNil, breakErr, mu, todo, written>>

(* closeWithError, on p.breakErr: what is unread is dropped.               *)
BreakWithError ==
    /\ mu = "free"
    /\ breakErr' = TRUE
    /\ IF breakErr THEN UNCHANGED <<b, bNil, donec>>
       ELSE bNil' = TRUE /\ b' = Empty /\ donec' = ClosedDone
    /\ Signal
    /\ UNCHANGED <<err, mu, todo, written>>

NewDone == "open"

(* The state in which Done hands out a new channel.                        *)
FirstDone == IF err \/ breakErr THEN "closed" ELSE "open"

Done ==
    /\ mu = "free" /\ donec = "nil"
    /\ donec' = FirstDone
    /\ UNCHANGED <<b, bNil, err, breakErr, mu, waiters, rd, todo, written>>

Next ==
    \/ \E r \in Readers : Read(r) \/ ReaderStep(r)
    \/ WriteRefused \/ (\E n \in WriteSizes : Write(n)) \/ WriteCopy \/ WriteReturn
    \/ CloseWithError \/ BreakWithError \/ Done

Spec == Init /\ [][Next]_vars

(* A goroutine that can run does run, and sync.Mutex starves nobody who    *)
(* asks for it again and again.                                            *)
Fairness ==
    /\ WF_vars(WriteCopy \/ WriteReturn)
    /\ \A r \in Readers : SF_vars(ReaderStep(r))

FairSpec == Spec /\ Fairness

-------------------------------------------------------------------------------
TypeOK ==
    /\ b \in [chunks : Seq(Seq(0 .. MaxBytes)), r : Nat, w : Nat, size : Nat]
    /\ bNil \in BOOLEAN /\ err \in BOOLEAN /\ breakErr \in BOOLEAN
    /\ donec \in {"nil", "open", "closed"}
    /\ mu \in {"free", "serve", "reader"}
    /\ waiters \in Seq(Readers)
    /\ rd \in [Readers -> [at : Stages, room : Nat, got : Seq(0 .. MaxBytes), err : BOOLEAN]]
    /\ todo \in Seq(1 .. MaxBytes) /\ written \in 0 .. MaxBytes

(* A Read in progress holds the bytes that it has copied; a Write in       *)
(* progress has, for everybody else, already happened.                     *)
InFlight == LET copying == {r \in Readers : rd[r].at = "copy"}
            IN  IF copying = {} THEN <<>> ELSE rd[CHOOSE r \in copying : TRUE].got

Stream == INSTANCE ByteStream WITH
            unread <- InFlight \o Contents(b) \o todo,
            closed <- err,
            broken <- breakErr,
            read   <- [r \in Readers |->
                         IF rd[r].at = "idle" THEN [busy |-> FALSE, bytes |-> rd[r].got,
                                                    err |-> rd[r].err]
                         ELSE [busy |-> TRUE, bytes |-> <<>>, err |-> FALSE]]

(* The pipe is a ByteStream: through chunks, locks and waits, every byte   *)
(* that was written is read once and in order, by whichever reader, and    *)
(* the error comes after the last byte, or at once if the pipe is broken.  *)
Implements == Stream!Spec

(* The counter by which pipe.Read decides whether there is data is the     *)
(* number of bytes between the read and the write position, and Write      *)
(* finds a buffer whenever it does not refuse.                             *)
BufferAccount ==
    /\ b.size = Len(Contents(b))
    /\ bNil => err \/ breakErr

(* "The maximum wasted space per dataBuffer is 2x the largest size class." *)
WasteBound == Capacity(b) - b.size <= 2 * Last(SizeClasses)

(* Something for a reader to return with.                                  *)
Returnable == HasData \/ err \/ breakErr

(* A signal is never lost: while there is something to return with, not    *)
(* everybody sleeps.  (One waiter is signalled at a time, so some may.)    *)
NotAllAsleep ==
    mu = "free" /\ Returnable /\ Readers # {} => \E r \in Readers : rd[r].at # "wait"

(* The channel of Done is closed when the pipe is, whichever came first.   *)
DoneTells == donec # "nil" => ((donec = "closed") <=> (err \/ breakErr))

(* When all readers are in Read and there is something to return with, one *)
(* of them returns.                                                        *)
SomeReadReturns ==
    (Returnable /\ \A r \in Readers : rd[r].at # "idle") ~> \E r \in Readers : rd[r].at = "idle"

================================================================================
