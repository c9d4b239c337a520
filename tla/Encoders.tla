------------------------------ MODULE Encoders -------------------------------
(* The two encoders that RangeVend builds an index with: RangeEncode, whose    *)
(* operators have no prefix here, and HybridEncode.                            *)
EXTENDS RangeEncode

CONSTANTS HybridBits,    \* PER_ENCODE_BIT_SIZE of HybridEncode
          HybridWord     \* 2^32 in the code

H == INSTANCE HybridEncode WITH PerBits <- HybridBits, Word <- HybridWord
=============================================================================
