------------------------------ MODULE MtpDecode ------------------------------
(***************************************************************************)
(* Speculative decoding of the qwen4_exp model: generate_greedy_mtp of     *)
(* ref/qwen4_exp_mtp.py and spec_decode_greedy_qwen4exp of runtime/spec.py.*)
(*                                                                         *)
(* Unlike the loops of SpecDecode, this one keeps the main model's state   *)
(* and its logits across rounds, knows no stop ids, and its caller trims   *)
(* the tail.  Tokens, calls and the model are those of SpecDecode; what a  *)
(* drafter proposes is arbitrary.                                          *)
(***************************************************************************)
EXTENDS SpecDecode

VARIABLES
    out,        \* tokens emitted
    cached,     \* what the main model has computed: pending are its logits
    drafts,     \* drafted tokens that are still to be compared
    mpc         \* where the loop is

mtpVars == <<call, out, cached, drafts, mpc>>

MtpInit ==
    /\ call \in Calls
    /\ out = <<>>
    /\ cached = call.prompt
    /\ drafts = <<>>
    /\ mpc = "draft"

\* argmax of pending.
Pick == Greedy(call.model, cached)

\* The loop's condition, and the drafts of a round.
MtpDraft ==
    /\ mpc = "draft"
    /\ IF Len(out) >= call.max_new
       THEN mpc' = "done" /\ UNCHANGED drafts
       ELSE mpc' = "verify" /\ drafts' \in [1 .. call.num_draft -> Tokens]
    /\ UNCHANGED <<call, out, cached>>

\* Mutant of Emitted: the state is advanced by the draft that was refused.
EmittedStale(t) ==
    /\ out' = Append(out, t)
    /\ cached' = IF Len(out) + 1 < call.max_new
                 THEN Append(cached, Head(drafts)) ELSE cached
    /\ UNCHANGED call

\* A token is emitted and the main model's state advanced by it, unless it is
\* the last.
Emitted(t) ==
    /\ out' = Append(out, t)
    /\ cached' = IF Len(out) + 1 < call.max_new
                 THEN Append(cached, t) ELSE cached
    /\ UNCHANGED call

\* The round ends with the main model's own token.
MtpReject ==
    /\ mpc = "verify"
    /\ Head(drafts) # Pick
    /\ Emitted(Pick)
    /\ drafts' = <<>>
    /\ mpc' = "draft"

MtpAccept ==
    /\ mpc = "verify"
    /\ Head(drafts) = Pick
    /\ Emitted(Head(drafts))
    /\ LET over == Len(drafts) = 1 \/ Len(out) + 1 >= call.max_new IN
       /\ drafts' = IF over THEN <<>> ELSE Tail(drafts)
       /\ mpc' = IF over THEN "draft" ELSE "verify"

MtpNext == MtpDraft \/ MtpReject \/ MtpAccept

MtpSpec == MtpInit /\ [][MtpNext]_mtpVars /\ WF_mtpVars(MtpNext)

\* spec_decode_greedy_qwen4exp: the tail from the first stop id on is cut.
Trimmed ==
    LET kept == {k \in 0 .. Len(out) : \A i \in 1 .. k : out[i] \notin StopIds}
    IN  SubSeq(out, 1, CHOOSE k \in kept : \A j \in kept : j <= k)

-----------------------------------------------------------------------------
(***************************************************************************)
(* Properties.                                                             *)
(***************************************************************************)

\* What the caller returns, had the loop ended now, is what plain greedy
\* generation with the stop ids has emitted by then; and when the loop does
\* end, it is all that would emit (spec.py:162-165).  A pending of another
\* prefix, or a token emitted past max_new, would show here.
MtpPlain == INSTANCE GreedyDecode
            WITH ids <- call.prompt \o Trimmed, n <- Len(Trimmed)
MtpExact ==
    /\ MtpPlain!GreedySpec
    /\ [](mpc = "done" =>
            \/ Len(Trimmed) = call.max_new
            \/ Greedy(call.model, call.prompt \o Trimmed) \in StopIds)

\* The loop ends.
MtpReturns == <>(mpc = "done")

=============================================================================
