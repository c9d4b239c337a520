------------------------- MODULE MCEncoderContract --------------------------
EXTENDS EncoderContract

(* The first entry of HASH_PARAM1 and the second of HASH_PARAM2. *)
MCParams == <<9191891, 6659501>>
=============================================================================
