------------------------------- MODULE MCDsV4 -------------------------------
(***************************************************************************)
(* Instances of DsV4Decode for TLC: a ring of three positions that wraps   *)
(* several times, a layer without compression, one of ratio 4 (indexed,    *)
(* with overlap) and one of another ratio: 5 stands for 128.               *)
(***************************************************************************)
EXTENDS DsV4Decode

MCRatios == <<0, 4, 5>>

\* The layers of tests/test_deepseek_v4.py.
MCTestRatios == <<4, 0>>

=============================================================================
