------------------------------- MODULE DataBuffer ------------------------------
(***************************************************************************)
(* databuffer.go: a first-in-first-out buffer of bytes in chunks of a few  *)
(* sizes.  Read and Write are loops; an operator here is one iteration.    *)
(*                                                                         *)
(* A chunk comes from a pool with whatever its last user left in it, which *)
(* is Junk here.  A stream's buffer is created with expected = -1, and     *)
(* expected only decreases: Write always asks for len(p) bytes.            *)
(***************************************************************************)
EXTENDS Integers, Sequences, SequencesExt

CONSTANT SizeClasses   \* dataChunkSizeClasses, scaled: an increasing sequence

ASSUME SizeClassesAssumption ==
    /\ SizeClasses \in Seq(Nat \ {0}) /\ SizeClasses # <<>>
    /\ \A i, j \in DOMAIN SizeClasses : i < j => SizeClasses[i] < SizeClasses[j]

Junk == 0

Empty == [chunks |-> <<>>, r |-> 0, w |-> 0, size |-> 0]

Least(m, n) == IF m < n THEN m ELSE n

getDataBufferChunkDoubled(n) == [i \in 1 .. 2 * n |-> Junk]

(* getDataBufferChunk: the smallest class that holds n bytes, or the       *)
(* largest there is.                                                       *)
getDataBufferChunk(n) ==
    LET fits == {c \in DOMAIN SizeClasses : n <= SizeClasses[c]}
        class == CHOOSE c \in fits \union {Len(SizeClasses)} : \A d \in fits : c <= d
    IN  [i \in 1 .. SizeClasses[class] |-> Junk]

(* lastChunkOrAlloc *)
lastChunkOrAlloc(b, want) ==
    IF b.chunks # <<>> /\ b.w < Len(Last(b.chunks)) THEN b
    ELSE [b EXCEPT !.chunks = Append(@, getDataBufferChunk(want)), !.w = 0]

(* How many of the bytes p one iteration of Write copies.                  *)
Room(b, p) ==
    LET a == lastChunkOrAlloc(b, Len(p))
    IN  Least(Len(Last(a.chunks)) - a.w, Len(p))

WriteChunk(b, p) ==
    LET a == lastChunkOrAlloc(b, Len(p))
        n == Room(b, p)
        filled == [i \in DOMAIN Last(a.chunks) |->
                     IF i \in a.w + 1 .. a.w + n THEN p[i - a.w] ELSE Last(a.chunks)[i]]
    IN  [a EXCEPT !.chunks = Append(Front(@), filled), !.w = @ + n, !.size = @ + n]

bytesFromFirstChunkUnbounded(b) == SubSeq(Head(b.chunks), b.r + 1, Len(Head(b.chunks)))

(* bytesFromFirstChunk: the last chunk ends at w.                          *)
bytesFromFirstChunk(b) ==
    SubSeq(Head(b.chunks), b.r + 1, IF Len(b.chunks) = 1 THEN b.w ELSE Len(Head(b.chunks)))

releaseKeepingR(b) ==
    IF b.r = Len(Head(b.chunks)) THEN [b EXCEPT !.chunks = Tail(@)] ELSE b

(* A first chunk that has been read to its end goes back to the pool.      *)
release(b) ==
    IF b.r = Len(Head(b.chunks)) THEN [b EXCEPT !.chunks = Tail(@), !.r = 0] ELSE b

(* One iteration of Read into a slice of length n.                         *)
Readable(b, n) == Least(n, Len(bytesFromFirstChunk(b)))

ReadChunk(b, n) ==
    LET k == Readable(b, n)
    IN  release([b EXCEPT !.r = @ + k, !.size = @ - k])

-------------------------------------------------------------------------------
(* The unread bytes.                                                       *)
Contents(b) ==
    IF b.chunks = <<>> THEN <<>>
    ELSE SubSeq(FlattenSeq(b.chunks), b.r + 1,
                Len(FlattenSeq(b.chunks)) - Len(Last(b.chunks)) + b.w)

Capacity(b) == Len(FlattenSeq(b.chunks))

================================================================================
