------------------------------ MODULE MCGenerate ------------------------------
(***************************************************************************)
(* Instances of Generate for TLC, on the models of MCSpecDecode: with no   *)
(* context limit, one the prompt fills and one it leaves room in, and with *)
(* tokens that are whole characters or two tokens that make up one.        *)
(***************************************************************************)
EXTENDS Generate, MCSpecDecode

MCContexts == {0, 1, 3}

MCBytes ==
    {[t \in MCTokens |-> IF t = b THEN <<"ascii", "ascii">> ELSE <<"ascii">>],
     [t \in MCTokens |-> CASE t = a -> <<"lead">> [] t = b -> <<"cont">>
                            [] t = s -> <<"ascii">>]}

\* The variables of SpecDecode that Generate does not use stay as they are.
MCGenSpec ==
    /\ SpecInit /\ GenInit
    /\ [][GenNext /\ UNCHANGED <<ids, n, draft, accepted, mismatch, pc>>]_<<specVars, genVars>>

=============================================================================
