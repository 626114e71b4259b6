--------------------------- MODULE MCLsnAllocator ---------------------------
(* Small instances of LsnAllocator for TLC.                                *)
EXTENDS LsnAllocator

=============================================================================
