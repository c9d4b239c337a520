---------------------------- MODULE MCGraphStore -----------------------------
EXTENDS GraphStore

MCVendTypes == {"Hybrid"}
=============================================================================
