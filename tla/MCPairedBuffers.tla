-------------------------- MODULE MCPairedBuffers ---------------------------
(* PairedBuffers on a small instance; the two drawing threads differ only   *)
(* in that the main one does not draw while it resizes.                     *)
EXTENDS PairedBuffers

=============================================================================
