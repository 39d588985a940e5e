----------------------------- MODULE MCRingBuf ------------------------------
(* RingBuf on small instances: see the cfg files. *)
EXTENDS RingBuf

=============================================================================
