------------------------------ MODULE Generate ------------------------------
(***************************************************************************)
(* Generation without a scheduler: generate and generate_stream of         *)
(* serving/executor.py, at temperature 0, over a model that carries its    *)
(* state from step to step or one that computes everything anew; and the   *)
(* text that is streamed, as tokenizer.decode (serving/bpe.py) makes it of *)
(* the tokens' bytes.  Tokens, calls and the model are those of SpecDecode.*)
(***************************************************************************)
EXTENDS SpecDecode, SequencesExt

CONSTANTS
    Contexts,       \* max_context, 0 for None
    ByteTables      \* tokens' bytes: "ascii", or "lead" and "cont", the two
                    \* bytes of a character of its own

ASSUME GenerateAssumption ==
    /\ Contexts \subseteq Nat
    /\ \A t \in ByteTables : t \in [Tokens -> Seq({"ascii", "lead", "cont"})]

VARIABLES
    setting,    \* the model: supports_incremental, max_context, its tokens
    gids,       \* prompt and generated tokens
    carried,    \* what the model's state was computed from
    streamed,   \* the text the client was sent
    last_full,  \* length of the text at the last delta
    gpc,        \* where the generation is
    reason      \* finish_reason

genVars == <<call, setting, gids, carried, streamed, last_full, gpc, reason>>

GenInit ==
    /\ call \in Calls
    /\ setting \in [inc : BOOLEAN, context : Contexts, bytes : ByteTables]
    /\ setting.inc => setting.context # 0
    /\ gids = call.prompt
    /\ carried = <<>>
    /\ streamed = <<>>
    /\ last_full = 0
    /\ gpc = "start"
    /\ reason = "length"

Generated == SubSeq(gids, Len(call.prompt) + 1, Len(gids))

\* decode, byte by byte: bytes that are no character of UTF-8 are replaced by
\* U+FFFD.
Text(toks) ==
    LET bytes == FlattenSeq([i \in DOMAIN toks |-> setting.bytes[toks[i]]])
        pair(i) == i > 1 /\ bytes[i - 1] = "lead" /\ bytes[i] = "cont"
        upto[i \in 0 .. Len(bytes)] ==
            IF i = 0 THEN <<>>
            ELSE IF pair(i) THEN Append(upto[i - 2], "char")
            ELSE Append(upto[i - 1],
                        IF bytes[i] = "ascii" THEN "ascii" ELSE "U+FFFD")
    IN  upto[Len(bytes)]

\* A prompt that fills the context is a ValueError where there is a state.
Start ==
    /\ gpc = "start"
    /\ IF setting.inc /\ Len(call.prompt) >= setting.context
       THEN gpc' = "error" /\ UNCHANGED carried
       ELSE gpc' = "step" /\ carried' = IF setting.inc THEN call.prompt ELSE <<>>
    /\ UNCHANGED <<call, setting, gids, streamed, last_full, reason>>

NextId == Greedy(call.model, IF setting.inc THEN carried ELSE gids)

\* Mutant of Full: the limit is one token late.
FullLate == setting.context # 0 /\ Len(gids) + 1 > setting.context

\* With one token more the context is full.
Full == setting.context # 0 /\ Len(gids) + 1 >= setting.context

Going == gpc = "step" /\ Len(Generated) < call.max_new

\* A token is appended and what it adds to the text is sent.
Emit ==
    /\ Going
    /\ NextId \notin StopIds
    /\ gids' = Append(gids, NextId)
    /\ LET full == Text(Append(Generated, NextId)) IN
       /\ streamed' = streamed \o SubSeq(full, last_full + 1, Len(full))
       /\ last_full' = Len(full)
    /\ gpc' = IF Full THEN "done" ELSE "step"
    /\ carried' = IF Full \/ ~setting.inc THEN carried ELSE Append(carried, NextId)
    /\ UNCHANGED <<call, setting, reason>>

Stop ==
    /\ Going
    /\ NextId \in StopIds
    /\ gpc' = "done"
    /\ reason' = "stop"
    /\ UNCHANGED <<call, setting, gids, carried, streamed, last_full>>

Exhaust ==
    /\ gpc = "step"
    /\ Len(Generated) = call.max_new
    /\ gpc' = "done"
    /\ UNCHANGED <<call, setting, gids, carried, streamed, last_full, reason>>

GenNext == Start \/ Emit \/ Stop \/ Exhaust

GenSpec == GenInit /\ [][GenNext]_genVars /\ WF_genVars(GenNext)

-----------------------------------------------------------------------------
(***************************************************************************)
(* Properties.                                                             *)
(***************************************************************************)

\* generate emits the main model's choices, whether its state is carried
\* along or not, and never past the context; the reason it reports is the
\* one it ended for; and where every token is made of whole characters, the
\* deltas of generate_stream make up the text (executor.py:334-416,
\* 436-514).
GenPlain == INSTANCE GreedyDecode
            WITH ids <- gids, n <- Len(Generated)
WholeTokens == \A t \in Tokens : \A i \in DOMAIN setting.bytes[t] :
    setting.bytes[t][i] = "ascii"
GenerateExact ==
    /\ GenPlain!GreedySpec
    /\ [](/\ setting.context # 0 =>
                Len(gids) <= setting.context \/ Len(Generated) <= 1
          /\ gpc = "done" =>
                IF reason = "stop"
                THEN Greedy(call.model, gids) \in StopIds
                ELSE \/ Len(Generated) = call.max_new
                     \/ setting.context # 0 /\ Len(gids) >= setting.context
          /\ WholeTokens => streamed = Text(Generated))

GenReturns == <>(gpc \in {"done", "error"})

\* tests/test_server.py:101: "join deltas -> must equal the non-stream text
\* completion".
DeltasJoin == streamed = Text(Generated)

=============================================================================
