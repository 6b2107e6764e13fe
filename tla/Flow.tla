--------------------------------- MODULE Flow ---------------------------------
(***************************************************************************)
(* The flow control window of flow.go: a signed 32-bit counter, kept once  *)
(* per stream and once per connection.  MaxInt32 is 2^31 - 1 in the code;  *)
(* a model may scale the integer width down by choosing it smaller, and    *)
(* every bound that the code derives from the width scales with it.        *)
(***************************************************************************)
EXTENDS Integers

CONSTANT MaxInt32

ASSUME MaxInt32Assumption == MaxInt32 \in Nat \ {0}

MinInt32 == -MaxInt32 - 1

Int32 == MinInt32 .. MaxInt32

(* The value that the sum or the difference x of two int32 values leaves   *)
(* in an int32: such a result is out of range by at most one turn.         *)
Wrap32(x) ==
    IF x > MaxInt32 THEN x - 2 * (MaxInt32 + 1)
    ELSE IF x < MinInt32 THEN x + 2 * (MaxInt32 + 1)
    ELSE x

(* What a stream whose window is n may use when the connection's is c.     *)
available(n, c) == IF c < n THEN c ELSE n

(* flow.add: whether n + d is accepted.  `remain' is computed in int32.    *)
addOK(n, d) == d <= Wrap32(MaxInt32 - n)

AddedUnchecked(n, d) == n + d

(* flow.add: the window after it.                                          *)
added(n, d) == IF addOK(n, d) THEN Wrap32(n + d) ELSE n

================================================================================
