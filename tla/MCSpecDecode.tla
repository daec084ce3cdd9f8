----------------------------- MODULE MCSpecDecode -----------------------------
(***************************************************************************)
(* Instance of SpecDecode for TLC.  A model is a table from the last token *)
(* and the parity of the length to a token: enough for a choice made for   *)
(* one prefix to be wrong for another that ends in the same token.         *)
(***************************************************************************)
EXTENDS SpecDecode

CONSTANTS a, b, s

MCTokens == {a, b, s}
MCStopIds == {s}
MCGreedy(m, p) == m[p[Len(p)], Len(p) % 2]

\* What a model would say after a stop id is the same in all of them.
MCModels ==
    {m \in [MCTokens \X {0, 1} -> MCTokens] : m[s, 0] = a /\ m[s, 1] = b}

MCCalls ==
    [model : MCModels, prompt : {<<a>>}, max_new : {0, 1, 4},
     num_draft : {1, 2, 3}, room : {0, 1}]

=============================================================================
