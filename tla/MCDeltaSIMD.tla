---------------------------- MODULE MCDeltaSIMD -----------------------------
EXTENDS DeltaSIMDContract
=============================================================================
