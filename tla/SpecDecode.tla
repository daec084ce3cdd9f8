------------------------------ MODULE SpecDecode ------------------------------
(***************************************************************************)
(* Speculative decoding: spec_decode_greedy and                            *)
(* spec_decode_greedy_deepseek of runtime/spec.py.                         *)
(*                                                                         *)
(* A drafter, which may propose anything, proposes a few tokens; the main  *)
(* model verifies them one by one, those it agrees with are kept, and one  *)
(* token of its own follows.  The two functions differ in the drafter and  *)
(* in the room a draft leaves for that last token.                         *)
(***************************************************************************)
EXTENDS Integers, Sequences

CONSTANTS
    Tokens,         \* token ids
    NoToken,        \* None
    StopIds,        \* stop_ids
    Calls,          \* arguments the function is called with
    MaxLen,         \* bound: longest prompt and generation together
    Greedy(_, _)    \* Greedy(model, seq): argmax of the main model after seq

IdSeqs == UNION {[1 .. k -> Tokens] : k \in 1 .. MaxLen}

\* An empty prompt is an IndexError in the code, num_draft < 1 a ValueError.
\* room is 1 in spec_decode_greedy and 0 in spec_decode_greedy_deepseek.
ASSUME SpecAssumption ==
    /\ NoToken \notin Tokens
    /\ MaxLen \in Nat
    /\ \A c \in Calls :
        /\ c.prompt \in IdSeqs
        /\ c.max_new \in Nat
        /\ Len(c.prompt) + c.max_new <= MaxLen
        /\ c.num_draft \in Nat \ {0}
        /\ c.room \in {0, 1}
        /\ \A s \in IdSeqs : Greedy(c.model, s) \in Tokens

VARIABLES
    call,       \* the arguments, fixed
    ids,        \* prompt and emitted tokens
    n,          \* tokens emitted
    draft,      \* tokens drafted in this round
    accepted,   \* of which the main model agrees with the first so many
    mismatch,   \* its own choice where it disagreed, NoToken before that
    pc          \* where the function is

specVars == <<call, ids, n, draft, accepted, mismatch, pc>>

SpecTypeOK ==
    /\ call \in Calls
    /\ ids \in Seq(Tokens)
    /\ n \in 0 .. call.max_new
    /\ draft \in Seq(Tokens)
    /\ accepted \in 0 .. Len(draft)
    /\ mismatch \in Tokens \union {NoToken}
    /\ pc \in {"top", "verify", "correct", "done"}

SpecInit ==
    /\ call \in Calls
    /\ ids = call.prompt
    /\ n = 0
    /\ draft = <<>>
    /\ accepted = 0
    /\ mismatch = NoToken
    /\ pc = "top"

\* Mutant of DraftLen: a draft may overrun max_new.
DraftLenUnbounded == call.num_draft

\* Tokens drafted in a round.
DraftLen ==
    LET left == call.max_new - n - call.room IN
    IF call.num_draft <= left THEN call.num_draft ELSE left

\* Mutant of Draft: the loop's bound is off by one.
DraftShort ==
    /\ pc = "top"
    /\ IF n + 1 >= call.max_new \/ ids[Len(ids)] \in StopIds
       THEN pc' = "done" /\ UNCHANGED <<draft, accepted, mismatch>>
       ELSE /\ pc' = "verify"
            /\ draft' \in [1 .. DraftLen -> Tokens]
            /\ accepted' = 0
            /\ mismatch' = NoToken
    /\ UNCHANGED <<call, ids, n>>

\* The loop's condition, the test of the last token, and the draft.
Draft ==
    /\ pc = "top"
    /\ IF n >= call.max_new \/ ids[Len(ids)] \in StopIds
       THEN pc' = "done" /\ UNCHANGED <<draft, accepted, mismatch>>
       ELSE /\ pc' = "verify"
            /\ draft' \in [1 .. DraftLen -> Tokens]
            /\ accepted' = 0
            /\ mismatch' = NoToken
    /\ UNCHANGED <<call, ids, n>>

\* What the main model is shown to verify the next draft token.
Shown == ids \o SubSeq(draft, 1, accepted)

Verifying == pc = "verify" /\ mismatch = NoToken /\ accepted < Len(draft)

\* Mutant of Accept: a token is compared with the model's choice for the
\* prefix before this round.
AcceptStale ==
    /\ Verifying
    /\ Greedy(call.model, ids) = draft[accepted + 1]
    /\ accepted' = accepted + 1
    /\ UNCHANGED <<call, ids, n, draft, mismatch, pc>>

Accept ==
    /\ Verifying
    /\ Greedy(call.model, Shown) = draft[accepted + 1]
    /\ accepted' = accepted + 1
    /\ UNCHANGED <<call, ids, n, draft, mismatch, pc>>

Reject ==
    /\ Verifying
    /\ Greedy(call.model, Shown) # draft[accepted + 1]
    /\ mismatch' = Greedy(call.model, Shown)
    /\ UNCHANGED <<call, ids, n, draft, accepted, pc>>

\* Mutant of Extend: a round in which nothing was rejected has no token of
\* the main model's own.
ExtendNoBonus ==
    /\ pc = "verify"
    /\ ~Verifying
    /\ ids' = Shown
    /\ n' = n + accepted
    /\ draft' = <<>>
    /\ accepted' = 0
    /\ pc' = IF n + accepted >= call.max_new THEN "done"
             ELSE IF mismatch = NoToken THEN "top" ELSE "correct"
    /\ UNCHANGED <<call, mismatch>>

\* The accepted tokens are emitted.
Extend ==
    /\ pc = "verify"
    /\ ~Verifying
    /\ ids' = Shown
    /\ n' = n + accepted
    /\ draft' = <<>>
    /\ accepted' = 0
    /\ pc' = IF n + accepted >= call.max_new THEN "done" ELSE "correct"
    /\ UNCHANGED <<call, mismatch>>

Corrective ==
    IF mismatch # NoToken THEN mismatch ELSE Greedy(call.model, ids)

\* One token of the main model's own ends the round.
Correct ==
    /\ pc = "correct"
    /\ IF Corrective \in StopIds
       THEN /\ pc' = "done"
            /\ UNCHANGED <<ids, n>>
       ELSE /\ pc' = "top"
            /\ ids' = Append(ids, Corrective)
            /\ n' = n + 1
    /\ UNCHANGED <<call, draft, accepted, mismatch>>

SpecNext == Draft \/ Accept \/ Reject \/ Extend \/ Correct

SpecSpec == SpecInit /\ [][SpecNext]_specVars

\* The function runs on.
SpecFairSpec == SpecSpec /\ WF_specVars(SpecNext)

-----------------------------------------------------------------------------
(***************************************************************************)
(* Properties.                                                             *)
(***************************************************************************)

\* Whatever the drafter proposes, what is emitted is what plain greedy
\* generation without stop ids emits, in the same order and never more than
\* max_new (spec.py:3-5).  A verified draft token counts as emitted.
Plain == INSTANCE GreedyDecode
         WITH StopIds <- {}, ids <- Shown, n <- n + accepted
PlainSpec == Plain!GreedySpec

\* The function returns because max_new tokens are there or the main model
\* chose a stop id, never earlier.
EndsForAReason ==
    pc = "done" =>
        \/ n = call.max_new
        \/ ids[Len(ids)] \in StopIds
        \/ Greedy(call.model, ids) \in StopIds

\* It does return: every round emits at least one token.
Returns == <>(pc = "done")

\* spec.py:26-27: "Deterministic and output-equivalent to plain greedy
\* generation", which never emits a stop id.
StopNeverEmitted ==
    \A i \in Len(call.prompt) + 1 .. Len(ids) : ids[i] \notin StopIds

=============================================================================
