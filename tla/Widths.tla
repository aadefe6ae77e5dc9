-------------------------------- MODULE Widths --------------------------------
(* How many values the integer fields of the driver have.  The proofs and the  *)
(* models take any numbers in this order, so that TLC can wrap them.           *)
EXTENDS Integers

CONSTANTS Word8, Word16, Word21, Word32, Word64,  \* 2^8 .. 2^64
          UlongRange,                             \* 2^32 again, where bytes are counted
          NULL                                    \* the null pointer

ASSUME WidthAssumption ==
    /\ {Word8, Word16, Word21, Word32, Word64, UlongRange} \subseteq Nat \ {0}
    /\ Word8 <= Word16 /\ Word16 <= Word21 /\ Word21 <= Word32 /\ Word32 <= Word64
=============================================================================
