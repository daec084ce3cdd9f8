---------------------------- MODULE MCThreadBlock ---------------------------
(***************************************************************************)
(* Instances of ThreadBlock for TLC: the attention kernels of the decode   *)
(* drivers, and the others.  Four threads make a tree of two steps.        *)
(***************************************************************************)
EXTENDS ThreadBlock

MCStrides == <<2, 1>>
MCKernels == DOMAIN Code \ AttentionKernels

=============================================================================
