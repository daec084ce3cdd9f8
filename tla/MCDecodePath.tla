----------------------------- MODULE MCDecodePath -----------------------------
(***************************************************************************)
(* Instances of DecodePath for TLC: two sequences over a recurrent layer   *)
(* between two attention layers, in every configuration, or (for the run   *)
(* that looks at what a failed resident step leaves behind) in the default *)
(* configuration of the two architectures with recurrent layers.           *)
(***************************************************************************)
EXTENDS DecodePath

MCLayers == <<"attn", "gdn", "attn">>

MCConfs ==
    [arch : {"standard", "hybrid", "q4"}, placement : {"device", "um"},
     gpu : BOOLEAN, resident : BOOLEAN]

MCRecurrent ==
    [arch : {"hybrid", "q4"}, placement : {"device"},
     gpu : {TRUE}, resident : {TRUE}]

=============================================================================
