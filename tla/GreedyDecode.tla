----------------------------- MODULE GreedyDecode -----------------------------
(***************************************************************************)
(* What greedy generation promises: the main model's choice for what is    *)
(* there is appended, one token at a time, until max_new tokens are        *)
(* written or the choice is a stop id.                                     *)
(*                                                                         *)
(* The loop of generate() in serving/executor.py at temperature 0, where   *)
(* the context limit is not reached.                                       *)
(***************************************************************************)
EXTENDS Naturals, Sequences

CONSTANTS
    Calls,          \* calls: model, prompt, max_new (and what a caller adds)
    StopIds,        \* tokens that end a generation
    Greedy(_, _)    \* Greedy(model, seq): the model's argmax after seq

VARIABLES
    call,           \* the arguments, fixed
    ids,            \* the prompt and what is generated
    n               \* tokens generated

greedyVars == <<call, ids, n>>

GreedyInit ==
    /\ call \in Calls
    /\ ids = call.prompt
    /\ n = 0

Emit ==
    /\ n < call.max_new
    /\ Greedy(call.model, ids) \notin StopIds
    /\ ids' = Append(ids, Greedy(call.model, ids))
    /\ n' = n + 1
    /\ UNCHANGED call

GreedySpec == GreedyInit /\ [][Emit]_greedyVars

=============================================================================
