--------------------------- MODULE SpecDecode_proofs ---------------------------
(***************************************************************************)
(* Proofs about the loops that generate: SpecDecode, MtpDecode and         *)
(* Generate.  For every model, drafter, prompt and set of stop ids, what   *)
(* each of them emits is plain greedy generation.                          *)
(*                                                                         *)
(* SpecTypeOK is not inductive: that n stays within max_new needs a bound  *)
(* on the draft, that ids stays a sequence of tokens needs its length, and *)
(* the step that emits a remembered mismatch needs to know that it still   *)
(* is the main model's choice for what has been emitted since.             *)
(*                                                                         *)
(* What is sent of the text is flattened and decoded by recursive          *)
(* functions, in SequencesExt and in Generate.  That such a function       *)
(* exists, and that two of them agree where their arguments do, is shown   *)
(* by the smallest number at which it fails.                               *)
(***************************************************************************)
EXTENDS MtpDecode, Generate, Basics, TLAPS

\* The tokens emitted are counted, and a draft fits what is left.
Counted ==
    /\ Len(ids) = Len(call.prompt) + n
    /\ n + Len(draft) <= call.max_new

\* Between rounds there is no draft; before the last token there is room.
RoundShape ==
    /\ pc \in {"top", "correct", "done"} => draft = <<>>
    /\ pc = "correct" => n < call.max_new

\* A remembered mismatch is the main model's choice for what was accepted.
MismatchCurrent ==
    /\ pc \in {"verify", "correct"} /\ mismatch # NoToken
           => mismatch = Greedy(call.model, Shown)
    /\ pc = "verify" /\ mismatch # NoToken => accepted < Len(draft)

SpecInv == SpecTypeOK /\ Counted /\ RoundShape /\ MismatchCurrent

\* A non-empty token sequence no longer than MaxLen is one the models answer.
LEMMA PrefixOf ==
    ASSUME NEW x \in Seq(Tokens), Len(x) \in 1 .. MaxLen
    PROVE  x \in IdSeqs
BY DEF IdSeqs

\* Nothing accepted, nothing shown beyond ids.
LEMMA NothingAccepted ==
    ASSUME NEW x \in Seq(Tokens), NEW d \in Seq(Tokens)
    PROVE  x \o SubSeq(d, 1, 0) = x
<1>1. SubSeq(d, 1, 0) = <<>>
  OBVIOUS
<1>2. x \o <<>> = x
  OBVIOUS
<1> QED BY <1>1, <1>2

\* The parameters of a call: types and sizes.
LEMMA CallFacts ==
    ASSUME NEW c \in Calls
    PROVE  /\ c.prompt \in Seq(Tokens)
           /\ Len(c.prompt) \in Nat \ {0}
           /\ c.max_new \in Nat
           /\ Len(c.prompt) + c.max_new <= MaxLen
           /\ MaxLen \in Nat
           /\ c.num_draft \in Nat \ {0}
           /\ c.room \in {0, 1}
           /\ NoToken \notin Tokens
           /\ \A x \in IdSeqs : Greedy(c.model, x) \in Tokens
<1>1. PICK k \in 1 .. MaxLen : c.prompt \in [1 .. k -> Tokens]
  BY SpecAssumption DEF IdSeqs
<1>2. c.prompt \in Seq(Tokens) /\ Len(c.prompt) = k
  BY <1>1, SpecAssumption
<1> QED BY <1>2, SpecAssumption

\* Appending the accepted part of a draft to ids.
LEMMA ShownFacts ==
    ASSUME SpecTypeOK
    PROVE  /\ Shown \in Seq(Tokens)
           /\ Len(Shown) = Len(ids) + accepted
           /\ accepted = 0 => Shown = ids
           /\ accepted < Len(draft) =>
                ids \o SubSeq(draft, 1, accepted + 1)
                    = Append(Shown, draft[accepted + 1])
<1>1. /\ ids \in Seq(Tokens) /\ draft \in Seq(Tokens)
      /\ Len(draft) \in Nat /\ Len(ids) \in Nat
      /\ accepted \in 0 .. Len(draft)
  BY DEF SpecTypeOK
<1>2. /\ SubSeq(draft, 1, accepted) \in Seq(Tokens)
      /\ Len(SubSeq(draft, 1, accepted)) = accepted
  BY <1>1
<1>3. accepted = 0 => SubSeq(draft, 1, accepted) = <<>>
  BY <1>2
<1>4. ASSUME accepted < Len(draft)
      PROVE  SubSeq(draft, 1, accepted + 1)
                 = Append(SubSeq(draft, 1, accepted), draft[accepted + 1])
  BY <1>1, <1>2, <1>4
<1> QED BY <1>1, <1>2, <1>3, <1>4 DEF Shown

\* The main model's choice for what it is shown is a token.
LEMMA GreedyIsToken ==
    ASSUME SpecInv
    PROVE  Greedy(call.model, Shown) \in Tokens
<1>1. /\ Shown \in Seq(Tokens)
      /\ Len(Shown) = Len(call.prompt) + n + accepted
  BY ShownFacts DEF SpecInv, Counted
<1>2. /\ call \in Calls
      /\ n \in Nat /\ accepted \in 0 .. Len(draft) /\ Len(draft) \in Nat
      /\ n + Len(draft) <= call.max_new
  BY CallFacts DEF SpecInv, SpecTypeOK, Counted
<1>3. Len(Shown) \in 1 .. MaxLen
  BY <1>1, <1>2, CallFacts
<1> QED BY <1>1, <1>2, <1>3, PrefixOf, CallFacts

\* Counting on from a prompt: the brackets do not matter.
LEMMA Shift ==
    ASSUME NEW p \in Nat, NEW m \in Nat, NEW k \in Nat
    PROVE  (p + m) + k = p + (m + k)
OBVIOUS

\* The same for one token, in the form the corrective step needs.
LEMMA ShiftOne ==
    ASSUME NEW p \in Nat, NEW m \in Nat
    PROVE  (p + m) + 1 = p + (m + 1)
OBVIOUS

\* A call starts within its sizes.
LEMMA SpecInitInv ==
    ASSUME SpecInit
    PROVE  SpecInv
<1>1. call \in Calls
  BY DEF SpecInit
<1>2. SpecTypeOK
  BY <1>1, CallFacts DEF SpecInit, SpecTypeOK
<1>3. Counted /\ RoundShape
  BY <1>1, CallFacts DEF SpecInit, Counted, RoundShape
<1>4. MismatchCurrent
  BY DEF SpecInit, MismatchCurrent
<1> QED BY <1>2, <1>3, <1>4 DEF SpecInv

\* Starting a round, or not.
LEMMA DraftInv ==
    ASSUME SpecInv, Draft
    PROVE  SpecInv'
<1> USE DEF SpecInv
<1>1. /\ call \in Calls /\ call' = call /\ ids' = ids /\ n' = n
      /\ n \in 0 .. call.max_new /\ draft = <<>> /\ pc = "top"
  BY DEF Draft, SpecTypeOK, RoundShape
<1>2. CASE n >= call.max_new \/ ids[Len(ids)] \in StopIds
  <2>1. /\ pc' = "done" /\ draft' = draft /\ accepted' = accepted
        /\ mismatch' = mismatch
    BY <1>2 DEF Draft
  <2>2. SpecTypeOK'
    BY <1>1, <2>1 DEF SpecTypeOK
  <2>3. Counted' /\ RoundShape' /\ MismatchCurrent'
    BY <1>1, <2>1 DEF Counted, RoundShape, MismatchCurrent
  <2> QED BY <2>2, <2>3
<1>3. CASE ~(n >= call.max_new \/ ids[Len(ids)] \in StopIds)
  <2>1. /\ pc' = "verify" /\ accepted' = 0 /\ mismatch' = NoToken
        /\ draft' \in [1 .. DraftLen -> Tokens]
    BY <1>3 DEF Draft
  <2>2. DraftLen \in Nat /\ n + DraftLen <= call.max_new
    <3>1. /\ call.max_new \in Nat /\ call.num_draft \in Nat \ {0}
          /\ call.room \in {0, 1}
      BY <1>1, CallFacts
    <3>2. n \in 0 .. call.max_new /\ ~(n >= call.max_new)
      BY <1>1, <1>3
    <3> QED BY <3>1, <3>2 DEF DraftLen
  <2>3. draft' \in Seq(Tokens) /\ Len(draft') = DraftLen
    BY <2>1, <2>2
  <2>4. SpecTypeOK'
    BY <1>1, <2>1, <2>2, <2>3 DEF SpecTypeOK
  <2>5. Counted'
    BY <1>1, <2>2, <2>3 DEF Counted
  <2>6. RoundShape' /\ MismatchCurrent'
    BY <2>1 DEF RoundShape, MismatchCurrent
  <2> QED BY <2>4, <2>5, <2>6
<1> QED BY <1>2, <1>3

\* A draft token the main model agrees with.
LEMMA AcceptInv ==
    ASSUME SpecInv, Accept
    PROVE  SpecInv'
<1>1. SpecTypeOK'
  BY DEF SpecInv, Accept, Verifying, SpecTypeOK
<1>2. Counted' /\ RoundShape'
  BY DEF SpecInv, Accept, Verifying, Counted, RoundShape
<1>3. MismatchCurrent'
  BY DEF SpecInv, Accept, Verifying, MismatchCurrent
<1> QED BY <1>1, <1>2, <1>3 DEF SpecInv

\* A draft token the main model would not have chosen.
LEMMA RejectInv ==
    ASSUME SpecInv, Reject
    PROVE  SpecInv'
<1>1. SpecTypeOK'
  BY GreedyIsToken DEF SpecInv, Reject, Verifying, SpecTypeOK
<1>2. Counted' /\ RoundShape'
  BY DEF SpecInv, Reject, Verifying, Counted, RoundShape
<1>3. Shown' = Shown
  BY DEF Reject, Shown
<1>4. MismatchCurrent'
  BY <1>3 DEF SpecInv, Reject, Verifying, MismatchCurrent
<1> QED BY <1>1, <1>2, <1>4 DEF SpecInv

\* What is shown stays the same when the accepted tokens move to ids.
LEMMA ExtendShown ==
    ASSUME SpecInv, Extend
    PROVE  Shown' = Shown
<1>1. ids' = Shown /\ draft' = <<>> /\ accepted' = 0
  BY DEF Extend
<1>2. Shown \in Seq(Tokens)
  BY ShownFacts DEF SpecInv
<1>3. SubSeq(draft', 1, accepted') = <<>>
  BY <1>1
<1>4. Shown' = ids' \o SubSeq(draft', 1, accepted')
  BY DEF Shown
<1> QED BY <1>1, <1>2, <1>3, <1>4

\* The accepted tokens join the emitted ones.
LEMMA ExtendInv ==
    ASSUME SpecInv, Extend
    PROVE  SpecInv'
<1>1. /\ Shown \in Seq(Tokens)
      /\ Len(Shown) = Len(ids) + accepted
  BY ShownFacts DEF SpecInv
<1>2. /\ call \in Calls /\ call' = call /\ call.max_new \in Nat
      /\ ids \in Seq(Tokens) /\ Len(ids) \in Nat
      /\ n \in Nat /\ accepted \in 0 .. Len(draft) /\ Len(draft) \in Nat
      /\ n + Len(draft) <= call.max_new
      /\ Len(ids) = Len(call.prompt) + n
      /\ Len(call.prompt) \in Nat
  BY CallFacts DEF SpecInv, Extend, SpecTypeOK, Counted
<1>3. /\ ids' = Shown /\ n' = n + accepted /\ draft' = <<>> /\ accepted' = 0
      /\ mismatch' = mismatch
      /\ pc' = IF n' >= call.max_new THEN "done" ELSE "correct"
  BY DEF Extend
<1>4. SpecTypeOK'
  BY <1>1, <1>2, <1>3 DEF SpecInv, SpecTypeOK
<1>5. Counted'
  <2>1. Len(draft') = 0
    BY <1>3
  <2>2. Len(ids') = Len(call'.prompt) + n'
    <3>1. Len(call'.prompt) = Len(call.prompt)
      BY <1>2, Zenon
    <3>2. Len(ids') = Len(call.prompt) + n'
      <4>1. Len(ids') = Len(ids) + accepted
        BY <1>1, <1>3, Zenon
      <4>2. (Len(call.prompt) + n) + accepted
                = Len(call.prompt) + (n + accepted)
        <5>1. accepted \in Nat
          BY <1>2
        <5>2. Len(call.prompt) \in Nat /\ n \in Nat
          BY <1>2
        <5> QED BY ONLY <5>1, <5>2, Shift, Zenon
      <4> QED BY <1>2, <1>3, <4>1, <4>2, Zenon
    <3> QED BY <3>1, <3>2, Zenon
  <2>3. n' + Len(draft') <= call'.max_new
    BY <1>2, <1>3, <2>1
  <2> QED BY <2>2, <2>3 DEF Counted
<1>6. MismatchCurrent'
  BY <1>2, <1>3, ExtendShown DEF SpecInv, MismatchCurrent, Extend
<1>7. RoundShape'
  BY <1>2, <1>3 DEF RoundShape
<1> QED BY <1>4, <1>5, <1>6, <1>7 DEF SpecInv

\* The last token of a round is the main model's choice for what is emitted.
LEMMA CorrectiveIsGreedy ==
    ASSUME SpecInv, pc = "correct"
    PROVE  /\ Corrective = Greedy(call.model, ids)
           /\ Corrective \in Tokens
           /\ Shown = ids /\ accepted = 0
<1>1. accepted = 0
  BY DEF SpecInv, RoundShape, SpecTypeOK
<1>2. Shown = ids
  BY <1>1, ShownFacts DEF SpecInv
<1>3. Corrective = Greedy(call.model, ids)
  BY <1>2 DEF SpecInv, MismatchCurrent, Corrective
<1> QED BY <1>1, <1>2, <1>3, GreedyIsToken

\* The token that closes a round: a stop token or one more emitted.
LEMMA CorrectInv ==
    ASSUME SpecInv, Correct
    PROVE  SpecInv'
<1>1. /\ pc = "correct" /\ call' = call /\ draft' = draft
      /\ accepted' = accepted /\ mismatch' = mismatch
  BY DEF Correct
<1>2. Corrective \in Tokens
  BY <1>1, CorrectiveIsGreedy
<1>3. /\ call \in Calls /\ call.max_new \in Nat /\ draft = <<>>
      /\ ids \in Seq(Tokens) /\ Len(ids) \in Nat
      /\ n \in Nat /\ n < call.max_new
      /\ Len(ids) = Len(call.prompt) + n
      /\ Len(call.prompt) \in Nat
  BY <1>1, CallFacts DEF SpecInv, SpecTypeOK, Counted, RoundShape
<1>4. CASE Corrective \in StopIds
  <2>1. pc' = "done" /\ ids' = ids /\ n' = n
    BY <1>4 DEF Correct
  <2> QED BY <1>1, <1>3, <2>1
          DEF SpecInv, SpecTypeOK, Counted, RoundShape, MismatchCurrent
<1>5. CASE Corrective \notin StopIds
  <2>1. pc' = "top" /\ ids' = Append(ids, Corrective) /\ n' = n + 1
    BY <1>5 DEF Correct
  <2>2. ids' \in Seq(Tokens) /\ Len(ids') = Len(ids) + 1
    BY <1>2, <1>3, <2>1
  <2>3. SpecTypeOK'
    BY <1>1, <1>3, <2>1, <2>2 DEF SpecInv, SpecTypeOK
  <2>4. Len(draft') = 0
    BY <1>1, <1>3
  <2>5. Counted'
    <3>1. Len(call'.prompt) = Len(call.prompt)
      BY <1>1, Zenon
    <3>2. Len(ids') = Len(call.prompt) + n'
      <4>1. (Len(call.prompt) + n) + 1 = Len(call.prompt) + (n + 1)
        <5>1. Len(call.prompt) \in Nat /\ n \in Nat
          BY <1>3, Zenon
        <5> QED BY ONLY <5>1, ShiftOne, Zenon
      <4> QED BY <1>3, <2>1, <2>2, <4>1, Zenon
    <3>3. n' + Len(draft') <= call'.max_new
      BY <1>1, <1>3, <2>1, <2>4
    <3> QED BY <3>1, <3>2, <3>3, Zenon DEF Counted
  <2>6. RoundShape' /\ MismatchCurrent'
    BY <1>1, <1>3, <2>1 DEF RoundShape, MismatchCurrent
  <2> QED BY <2>3, <2>5, <2>6 DEF SpecInv
<1> QED BY <1>4, <1>5

\* A step that leaves the call alone.
LEMMA SpecStutterInv ==
    ASSUME SpecInv, UNCHANGED specVars
    PROVE  SpecInv'
BY DEF SpecInv, specVars, SpecTypeOK, Counted, RoundShape, MismatchCurrent,
       Shown

\* Every step of a call preserves the invariant.
LEMMA SpecNextInv ==
    ASSUME SpecInv, [SpecNext]_specVars
    PROVE  SpecInv'
BY DraftInv, AcceptInv, RejectInv, ExtendInv, CorrectInv, SpecStutterInv
   DEF SpecNext

\* Type correctness, with n never past max_new, of every call of either
\* function.
THEOREM SpecTypeCorrect == SpecSpec => []SpecTypeOK
<1>1. SpecInit => SpecInv
  BY SpecInitInv
<1>2. SpecInv /\ [SpecNext]_specVars => SpecInv'
  BY SpecNextInv
<1>3. SpecInv => SpecTypeOK
  BY DEF SpecInv
<1> QED BY <1>1, <1>2, <1>3, PTL DEF SpecSpec

\* A step that ends a call has a reason: max_new is reached by what was
\* verified, the last token was a stop id, or the main model's own is one.
LEMMA EndHasReason ==
    ASSUME SpecInv, EndsForAReason, [SpecNext]_specVars
    PROVE  EndsForAReason'
<1> SUFFICES ASSUME pc' = "done"
             PROVE  \/ n' = call'.max_new
                    \/ ids'[Len(ids')] \in StopIds
                    \/ Greedy(call'.model, ids') \in StopIds
  BY DEF EndsForAReason
<1>1. /\ n' \in Nat /\ call'.max_new \in Nat /\ n' <= call'.max_new
  <2>1. SpecTypeOK'
    BY SpecNextInv DEF SpecInv
  <2>2. call'.max_new \in Nat
    BY <2>1, CallFacts DEF SpecTypeOK
  <2>3. n' \in 0 .. call'.max_new
    BY <2>1 DEF SpecTypeOK
  <2> QED BY <2>2, <2>3
<1>2. CASE Draft
  <2>1. /\ call' = call /\ ids' = ids /\ n' = n
        /\ n >= call.max_new \/ ids[Len(ids)] \in StopIds
    BY <1>2 DEF Draft
  <2> QED BY <1>1, <2>1
<1>3. CASE Accept \/ Reject
  BY <1>3 DEF Accept, Reject, Verifying
<1>4. CASE Extend
  <2>1. call' = call /\ n' = n + accepted /\ n + accepted >= call.max_new
    BY <1>4 DEF Extend
  <2> QED BY <1>1, <2>1
<1>5. CASE Correct
  <2>1. call' = call /\ ids' = ids /\ Corrective \in StopIds
    BY <1>5 DEF Correct
  <2>2. Corrective = Greedy(call.model, ids)
    BY <1>5, CorrectiveIsGreedy DEF Correct
  <2> QED BY <2>1, <2>2
<1>6. CASE UNCHANGED specVars
  BY <1>6 DEF specVars, EndsForAReason
<1> QED BY <1>2, <1>3, <1>4, <1>5, <1>6 DEF SpecNext

\* A call of either function never returns early.
THEOREM EndsAlwaysForAReason == SpecSpec => []EndsForAReason
<1>1. SpecInit => SpecInv /\ EndsForAReason
  BY SpecInitInv DEF SpecInit, EndsForAReason
<1>2. SpecInv /\ EndsForAReason /\ [SpecNext]_specVars
         => SpecInv' /\ EndsForAReason'
  BY SpecNextInv, EndHasReason
<1> QED BY <1>1, <1>2, PTL DEF SpecSpec

\* A call starts where plain generation starts.
LEMMA InitIsGreedy ==
    ASSUME SpecInit
    PROVE  Plain!GreedyInit
<1>1. SpecInv
  BY SpecInitInv
<1>2. Shown = ids
  BY <1>1, ShownFacts DEF SpecInit, SpecInv
<1> QED BY <1>2 DEF SpecInit, Plain!GreedyInit

\* Accepting a draft token and emitting the last token of a round are steps
\* of plain greedy generation; the other actions change nothing it shows.
LEMMA StepIsGreedy ==
    ASSUME SpecInv, [SpecNext]_specVars
    PROVE  [Plain!Emit]_(Plain!greedyVars)
<1> USE DEF Plain!greedyVars
<1>1. /\ n \in Nat /\ accepted \in 0 .. Len(draft) /\ Len(draft) \in Nat
      /\ call \in Calls /\ call.max_new \in Nat
      /\ n + Len(draft) <= call.max_new
  BY CallFacts DEF SpecInv, SpecTypeOK, Counted
<1>2. CASE Draft
  <2>1. accepted = 0 /\ Shown = ids
    BY <1>2, ShownFacts DEF SpecInv, Draft, RoundShape, SpecTypeOK
  <2>2. accepted' = 0 /\ ids' = ids /\ n' = n /\ call' = call
    BY <1>2, <2>1 DEF Draft
  <2>3. SpecTypeOK'
    BY <1>2, DraftInv DEF SpecInv
  <2>4. Shown' = ids'
    <3>1. draft' \in Seq(Tokens) /\ ids' \in Seq(Tokens)
      BY <2>3 DEF SpecTypeOK
    <3>2. Shown' = ids' \o SubSeq(draft', 1, 0)
      BY <2>2 DEF Shown
    <3> QED BY <3>1, <3>2, NothingAccepted
  <2> QED BY <2>1, <2>2, <2>4
<1>3. CASE Accept
  <2>1. /\ accepted < Len(draft) /\ accepted' = accepted + 1
        /\ ids' = ids /\ draft' = draft /\ n' = n /\ call' = call
        /\ Greedy(call.model, Shown) = draft[accepted + 1]
    BY <1>3 DEF Accept, Verifying
  <2>2. Shown' = Append(Shown, Greedy(call.model, Shown))
    <3>1. Shown' = ids \o SubSeq(draft, 1, accepted + 1)
      BY <2>1 DEF Shown
    <3> QED BY <2>1, <3>1, ShownFacts DEF SpecInv
  <2>3. n + accepted < call.max_new /\ n' + accepted' = n + accepted + 1
    BY <1>1, <2>1
  <2>4. Plain!Emit
    BY <2>1, <2>2, <2>3 DEF Plain!Emit
  <2> QED BY <2>4
<1>4. CASE Reject
  BY <1>4 DEF Reject, Shown
<1>5. CASE Extend
  <2>1. Shown' = Shown
    BY <1>5, ExtendShown
  <2>2. n' + accepted' = n + accepted /\ call' = call
    BY <1>1, <1>5 DEF Extend
  <2> QED BY <2>1, <2>2
<1>6. CASE Correct
  <2>1. /\ Corrective = Greedy(call.model, ids) /\ Shown = ids
        /\ accepted = 0 /\ draft = <<>> /\ n < call.max_new
    BY <1>6, CorrectiveIsGreedy DEF Correct, SpecInv, RoundShape
  <2>2. accepted' = 0 /\ draft' = <<>> /\ call' = call
    BY <1>6, <2>1 DEF Correct
  <2>3. Shown' = ids'
    <3>1. SpecTypeOK'
      BY <1>6, CorrectInv DEF SpecInv
    <3>2. ids' \in Seq(Tokens) /\ draft' \in Seq(Tokens)
      BY <3>1 DEF SpecTypeOK
    <3>3. Shown' = ids' \o SubSeq(draft', 1, 0)
      BY <2>2 DEF Shown
    <3> QED BY <3>2, <3>3, NothingAccepted
  <2>4. CASE Corrective \in StopIds
    BY <1>6, <2>1, <2>2, <2>3, <2>4 DEF Correct
  <2>5. CASE Corrective \notin StopIds
    <3>1. ids' = Append(ids, Corrective) /\ n' = n + 1
      BY <1>6, <2>5 DEF Correct
    <3>2. Plain!Emit
      BY <1>1, <2>1, <2>2, <2>3, <3>1 DEF Plain!Emit
    <3> QED BY <3>2
  <2> QED BY <2>4, <2>5
<1>7. CASE UNCHANGED specVars
  BY <1>7 DEF specVars, Shown
<1> QED BY <1>2, <1>3, <1>4, <1>5, <1>6, <1>7 DEF SpecNext

\* Speculative decoding implements plain greedy generation, for every main
\* model, drafter, prompt, max_new, num_draft and set of stop ids (what it
\* may do after a stop id included).
THEOREM ImplementsGreedy == SpecSpec => PlainSpec
<1>1. SpecInit => Plain!GreedyInit /\ SpecInv
  BY InitIsGreedy, SpecInitInv
<1>2. SpecInv /\ [SpecNext]_specVars
          => SpecInv' /\ [Plain!Emit]_(Plain!greedyVars)
  BY SpecNextInv, StepIsGreedy
<1> QED BY <1>1, <1>2, PTL DEF SpecSpec, PlainSpec, Plain!GreedySpec

-----------------------------------------------------------------------------
(***************************************************************************)
(* MtpDecode.  The invariant says where the tail would be cut now, and     *)
(* that the main model's choice there is the stop id: plain generation has *)
(* ended at the cut, whatever the loop emits after it.                     *)
(***************************************************************************)

\* The tokens of x before its first stop id are the first k.
CutAt(x, k) ==
    /\ k \in 0 .. Len(x)
    /\ \A i \in 1 .. k : x[i] \notin StopIds
    /\ k = Len(x) \/ x[k + 1] \in StopIds

MtpTypes ==
    /\ call \in Calls
    /\ out \in Seq(Tokens)
    /\ Len(out) <= call.max_new
    /\ drafts \in Seq(Tokens)
    /\ mpc \in {"draft", "verify", "done"}

\* The pending logits are those of what has been emitted, until the last token.
PendingCurrent == Len(out) < call.max_new => cached = call.prompt \o out

\* There is a token to compare, and to emit; the loop ends when none is left.
MtpShape ==
    /\ mpc = "verify" => drafts # <<>> /\ Len(out) < call.max_new
    /\ mpc = "done" => Len(out) = call.max_new

\* Whatever lies behind the cut, plain generation has ended there.
CutIsAnEnd ==
    \E k \in 0 .. Len(out) :
        /\ CutAt(out, k)
        /\ k < Len(out) => Greedy(call.model, call.prompt \o SubSeq(out, 1, k))
                               \in StopIds

MtpInv == MtpTypes /\ PendingCurrent /\ MtpShape /\ CutIsAnEnd

\* What the caller makes of x: Trimmed, of any sequence.
CutOf(x) ==
    LET kept == {k \in 0 .. Len(x) : \A i \in 1 .. k : x[i] \notin StopIds}
    IN  SubSeq(x, 1, CHOOSE k \in kept : \A j \in kept : j <= k)

\* The caller cuts at the first stop id: no other length is the longest.
LEMMA TrimmedAtCut ==
    ASSUME NEW x \in Seq(Tokens), NEW k \in 0 .. Len(x), CutAt(x, k)
    PROVE  /\ CutOf(x) = SubSeq(x, 1, k)
           /\ Len(CutOf(x)) = k
<1> DEFINE kept == {j \in 0 .. Len(x) : \A i \in 1 .. j : x[i] \notin StopIds}
           longest == CHOOSE j \in kept : \A i \in kept : i <= j
<1>1. Len(x) \in Nat
  OBVIOUS
<1>2. k \in kept
  BY DEF CutAt
<1>3. ASSUME NEW j \in kept
      PROVE  j <= k
  <2>1. SUFFICES ASSUME j > k
                 PROVE  FALSE
    BY <1>1
  <2>2. k + 1 \in 1 .. j
    BY <1>1, <2>1
  <2>3. x[k + 1] \notin StopIds
    BY <2>2
  <2>4. k # Len(x)
    BY <1>1, <2>1
  <2> QED BY <2>3, <2>4 DEF CutAt
<1>4. longest \in kept /\ \A i \in kept : i <= longest
  <2> HIDE DEF kept
  <2> QED BY <1>2, <1>3
<1>5. longest = k
  <2>1. longest <= k /\ k <= longest
    BY <1>2, <1>3, <1>4
  <2>2. longest \in 0 .. Len(x)
    BY <1>4
  <2> QED BY <1>1, <2>1, <2>2
<1>6. CutOf(x) = SubSeq(x, 1, longest)
  BY DEF CutOf
<1>7. CutOf(x) = SubSeq(x, 1, k)
  BY <1>5, <1>6
<1>8. Len(SubSeq(x, 1, k)) = k
  BY <1>1
<1> QED BY <1>7, <1>8

\* A draft of more than one token has more to come.
LEMMA MoreToCome ==
    ASSUME NEW x \in Seq(Tokens), x # <<>>, Len(x) # 1
    PROVE  Tail(x) \in Seq(Tokens) /\ Tail(x) # <<>>
<1>1. Len(x) \in Nat /\ Len(x) # 0
  OBVIOUS
<1>2. Tail(x) \in Seq(Tokens) /\ Len(Tail(x)) = Len(x) - 1
  OBVIOUS
<1>3. Len(Tail(x)) # 0
  BY <1>1, <1>2
<1>4. Len(<<>>) = 0
  OBVIOUS
<1> QED BY <1>2, <1>3, <1>4, Zenon

\* A sequence of tokens is its own longest prefix.
LEMMA WholePrefix ==
    ASSUME NEW x \in Seq(Tokens)
    PROVE  SubSeq(x, 1, Len(x)) = x
OBVIOUS

\* A token that is appended does not touch what lies before it.
LEMMA PrefixOfAppended ==
    ASSUME NEW x \in Seq(Tokens), NEW t \in Tokens, NEW k \in 0 .. Len(x)
    PROVE  /\ Append(x, t) \in Seq(Tokens)
           /\ Len(Append(x, t)) = Len(x) + 1
           /\ SubSeq(Append(x, t), 1, k) = SubSeq(x, 1, k)
           /\ \A i \in 1 .. Len(x) : Append(x, t)[i] = x[i]
           /\ Append(x, t)[Len(x) + 1] = t
<1>1. Len(x) \in Nat
  OBVIOUS
<1>2. /\ Append(x, t) \in Seq(Tokens)
      /\ Len(Append(x, t)) = Len(x) + 1
      /\ \A i \in 1 .. Len(x) : Append(x, t)[i] = x[i]
      /\ Append(x, t)[Len(x) + 1] = t
  OBVIOUS
<1>3. SubSeq(Append(x, t), 1, k) = SubSeq(x, 1, k)
  BY <1>1, <1>2
<1> QED BY <1>2, <1>3

\* Prompt and output grow at the same end.
LEMMA AppendedToPrompt ==
    ASSUME NEW p \in Seq(Tokens), NEW x \in Seq(Tokens), NEW t \in Tokens
    PROVE  /\ p \o Append(x, t) = Append(p \o x, t)
           /\ p \o x \in Seq(Tokens)
           /\ Len(p \o x) = Len(p) + Len(x)
OBVIOUS

\* The main model's choice after what has been emitted is a token.
LEMMA PickIsToken ==
    ASSUME MtpInv, mpc = "verify"
    PROVE  /\ Pick \in Tokens
           /\ Pick = Greedy(call.model, call.prompt \o out)
<1>1. /\ call \in Calls /\ out \in Seq(Tokens) /\ Len(out) \in Nat
      /\ Len(out) < call.max_new
  BY DEF MtpInv, MtpTypes, MtpShape
<1>2. cached = call.prompt \o out
  BY <1>1 DEF MtpInv, PendingCurrent
<1>3. /\ cached \in Seq(Tokens)
      /\ Len(cached) = Len(call.prompt) + Len(out)
  BY <1>1, <1>2, CallFacts
<1>4. Len(cached) \in 1 .. MaxLen
  BY <1>1, <1>3, CallFacts
<1> QED BY <1>1, <1>2, <1>3, <1>4, PrefixOf, CallFacts DEF Pick

\* Emitting the main model's choice: while no stop id has been emitted it is a
\* step of plain generation, unless it is a stop id itself; after the first
\* one nothing the caller returns changes.
LEMMA EmittedIsGreedy ==
    ASSUME MtpInv, mpc = "verify", Emitted(Pick)
    PROVE  /\ CutIsAnEnd'
           /\ [MtpPlain!Emit]_(MtpPlain!greedyVars)
<1> DEFINE t == Greedy(call.model, call.prompt \o out)
           x == Append(out, t)
<1>1. /\ call \in Calls /\ out \in Seq(Tokens) /\ Len(out) \in Nat
      /\ Len(out) < call.max_new /\ call.max_new \in Nat
      /\ call.prompt \in Seq(Tokens)
  BY CallFacts DEF MtpInv, MtpTypes, MtpShape
<1>2. t \in Tokens /\ Pick = t
  BY PickIsToken
<1>3. out' = x /\ call' = call
  BY <1>2 DEF Emitted
<1>4. PICK k \in 0 .. Len(out) :
        /\ CutAt(out, k)
        /\ k < Len(out) => Greedy(call.model, call.prompt \o SubSeq(out, 1, k))
                               \in StopIds
  BY DEF MtpInv, CutIsAnEnd
<1>5. Trimmed = SubSeq(out, 1, k) /\ Len(Trimmed) = k
  BY <1>1, <1>4, TrimmedAtCut DEF Trimmed, CutOf
<1> HIDE DEF t, x
<1>6. /\ x \in Seq(Tokens) /\ Len(x) = Len(out) + 1
      /\ SubSeq(x, 1, k) = SubSeq(out, 1, k)
      /\ \A i \in 1 .. Len(out) : x[i] = out[i]
      /\ x[Len(out) + 1] = t
  BY <1>1, <1>2, PrefixOfAppended DEF x
<1>7. ASSUME NEW j \in 0 .. Len(x), CutAt(x, j),
             j < Len(x) => Greedy(call.model, call.prompt \o SubSeq(x, 1, j))
                               \in StopIds
      PROVE  /\ CutIsAnEnd'
             /\ Trimmed' = SubSeq(x, 1, j)
             /\ Len(Trimmed') = j
  <2>1. CutIsAnEnd'
    BY <1>3, <1>7 DEF CutIsAnEnd, CutAt
  <2>2. CutOf(x) = SubSeq(x, 1, j) /\ Len(CutOf(x)) = j
    BY <1>6, <1>7, TrimmedAtCut
  <2>3. Trimmed' = CutOf(x)
    BY <1>3 DEF Trimmed, CutOf
  <2> QED BY <2>1, <2>2, <2>3
<1>8. CASE k < Len(out) \/ t \in StopIds
  <2>1. k \in 0 .. Len(x) /\ k < Len(x)
    BY <1>1, <1>6
  <2>2. CutAt(x, k)
    <3>1. \A i \in 1 .. k : x[i] \notin StopIds
      BY <1>1, <1>4, <1>6 DEF CutAt
    <3>2. x[k + 1] \in StopIds
      <4>1. CASE k < Len(out)
        BY <1>1, <1>4, <1>6, <4>1 DEF CutAt
      <4>2. CASE k = Len(out)
        BY <1>6, <1>8, <4>2
      <4> QED BY <1>1, <4>1, <4>2
    <3> QED BY <2>1, <3>1, <3>2 DEF CutAt
  <2>3. Greedy(call.model, call.prompt \o SubSeq(x, 1, k)) \in StopIds
    <3>1. CASE k < Len(out)
      BY <1>4, <1>6, <3>1
    <3>2. CASE k = Len(out)
      <4>1. SubSeq(x, 1, k) = out
        BY <1>1, <1>6, <3>2, WholePrefix
      <4>2. t \in StopIds
        BY <1>8, <3>2, <1>1
      <4> QED BY <4>1, <4>2 DEF t
    <3> QED BY <1>1, <3>1, <3>2
  <2>4. CutIsAnEnd' /\ Trimmed' = Trimmed
    BY <1>5, <1>6, <1>7, <2>1, <2>2, <2>3
  <2> QED BY <1>3, <2>4 DEF MtpPlain!greedyVars
<1>9. CASE k = Len(out) /\ t \notin StopIds
  <2>1. Trimmed = out /\ Len(Trimmed) < call.max_new
    BY <1>1, <1>5, <1>9, WholePrefix
  <2>2. Len(x) \in 0 .. Len(x) /\ CutAt(x, Len(x))
    <3>1. ASSUME NEW i \in 1 .. Len(x)
          PROVE  x[i] \notin StopIds
      <4>1. CASE i \in 1 .. Len(out)
        BY <1>4, <1>6, <1>9, <4>1 DEF CutAt
      <4>2. CASE i = Len(out) + 1
        BY <1>6, <1>9, <4>2
      <4> QED BY <1>1, <1>6, <4>1, <4>2
    <3>2. Len(x) \in 0 .. Len(x)
      BY <1>1, <1>6
    <3> QED BY <3>1, <3>2 DEF CutAt
  <2>3. CutIsAnEnd' /\ Trimmed' = x /\ Len(Trimmed') = Len(out) + 1
    <3>1. SubSeq(x, 1, Len(x)) = x
      BY <1>6, WholePrefix
    <3>2. ~(Len(x) < Len(x))
      BY <1>1, <1>6
    <3> QED BY <1>6, <1>7, <2>2, <3>1, <3>2
  <2>4. call'.prompt \o Trimmed' = Append(call.prompt \o out, t)
    BY <1>1, <1>2, <1>3, <2>3, AppendedToPrompt DEF x
  <2>5. MtpPlain!Emit
    BY <1>3, <1>9, <2>1, <2>3, <2>4 DEF MtpPlain!Emit, t
  <2> QED BY <2>3, <2>5
<1> QED BY <1>1, <1>8, <1>9

\* Types and shape after a token has been emitted.
LEMMA EmittedInv ==
    ASSUME MtpInv, mpc = "verify", Emitted(Pick)
    PROVE  /\ call' \in Calls /\ call' = call
           /\ out' \in Seq(Tokens)
           /\ Len(out') = Len(out) + 1
           /\ Len(out') <= call'.max_new
           /\ PendingCurrent'
<1>1. /\ call \in Calls /\ out \in Seq(Tokens) /\ Len(out) \in Nat
      /\ Len(out) < call.max_new /\ call.max_new \in Nat
      /\ call.prompt \in Seq(Tokens)
  BY CallFacts DEF MtpInv, MtpTypes, MtpShape
<1>2. Pick \in Tokens
  BY PickIsToken
<1>3. /\ out' = Append(out, Pick) /\ call' = call
      /\ Len(out) + 1 < call.max_new => cached' = Append(cached, Pick)
  BY DEF Emitted
<1>4. out' \in Seq(Tokens) /\ Len(out') = Len(out) + 1
  BY <1>1, <1>2, <1>3
<1>5. PendingCurrent'
  <2>1. SUFFICES ASSUME Len(out') < call'.max_new
                 PROVE  cached' = call'.prompt \o out'
    BY DEF PendingCurrent
  <2>2. cached = call.prompt \o out
    BY <1>1 DEF MtpInv, PendingCurrent
  <2>3. cached' = Append(cached, Pick)
    BY <1>3, <1>4, <2>1
  <2> QED BY <1>1, <1>2, <1>3, <2>2, <2>3, AppendedToPrompt
<1> QED BY <1>1, <1>3, <1>4, <1>5

\* The loop starts with nothing emitted: plain generation starts there too.
LEMMA MtpInitInv ==
    ASSUME MtpInit
    PROVE  MtpInv /\ MtpPlain!GreedyInit
<1>1. call \in Calls /\ out = <<>> /\ drafts = <<>> /\ mpc = "draft"
  BY DEF MtpInit
<1>2. out \in Seq(Tokens) /\ Len(out) = 0
  BY <1>1
<1>3. MtpTypes
  BY <1>1, <1>2, CallFacts DEF MtpTypes
<1>4. call.prompt \in Seq(Tokens)
  BY <1>1, CallFacts
<1>5. call.prompt \o out = call.prompt
  BY <1>1, <1>4
<1>6. PendingCurrent /\ MtpShape
  BY <1>1, <1>5 DEF MtpInit, PendingCurrent, MtpShape
<1>7. 0 \in 0 .. Len(out) /\ CutAt(out, 0)
  BY <1>2 DEF CutAt
<1>8. CutIsAnEnd
  BY <1>2, <1>7 DEF CutIsAnEnd
<1>9. Trimmed = out /\ Len(Trimmed) = 0
  <2>1. SubSeq(out, 1, 0) = out
    BY <1>1
  <2> QED BY <1>2, <1>7, <2>1, TrimmedAtCut DEF Trimmed, CutOf
<1> QED BY <1>1, <1>3, <1>5, <1>6, <1>8, <1>9
        DEF MtpInv, MtpPlain!GreedyInit

\* Every step of the loop preserves the invariant and is, in what the caller
\* would return, a step of plain generation or none.
LEMMA MtpStep ==
    ASSUME MtpInv, [MtpNext]_mtpVars
    PROVE  /\ MtpInv'
           /\ [MtpPlain!Emit]_(MtpPlain!greedyVars)
<1>1. /\ call \in Calls /\ call.max_new \in Nat /\ call.num_draft \in Nat \ {0}
      /\ out \in Seq(Tokens) /\ Len(out) \in Nat /\ Len(out) <= call.max_new
      /\ drafts \in Seq(Tokens)
  BY CallFacts DEF MtpInv, MtpTypes
<1>2. ASSUME call' = call, out' = out
      PROVE  /\ CutIsAnEnd'
             /\ [MtpPlain!Emit]_(MtpPlain!greedyVars)
  <2>1. CutIsAnEnd'
    BY <1>2 DEF MtpInv, CutIsAnEnd, CutAt
  <2>2. Trimmed' = Trimmed
    BY <1>2 DEF Trimmed
  <2> QED BY <1>2, <2>1, <2>2 DEF MtpPlain!greedyVars
<1>3. CASE MtpDraft
  <2>1. call' = call /\ out' = out /\ cached' = cached
    BY <1>3 DEF MtpDraft
  <2>2. PendingCurrent'
    BY <2>1 DEF MtpInv, PendingCurrent
  <2>3. MtpTypes' /\ MtpShape'
    <3>1. CASE Len(out) >= call.max_new
      <4>1. mpc' = "done" /\ drafts' = drafts
        BY <1>3, <3>1 DEF MtpDraft
      <4> QED BY <1>1, <2>1, <3>1, <4>1 DEF MtpInv, MtpTypes, MtpShape
    <3>2. CASE Len(out) < call.max_new
      <4>1. mpc' = "verify" /\ drafts' \in [1 .. call.num_draft -> Tokens]
        BY <1>1, <1>3, <3>2 DEF MtpDraft
      <4>2. drafts' \in Seq(Tokens) /\ Len(drafts') = call.num_draft
        BY <1>1, <4>1
      <4>3. drafts' # <<>>
        BY <1>1, <4>2
      <4> QED BY <1>1, <2>1, <3>2, <4>1, <4>2, <4>3
              DEF MtpInv, MtpTypes, MtpShape
    <3> QED BY <1>1, <3>1, <3>2
  <2> QED BY <1>2, <2>1, <2>2, <2>3 DEF MtpInv
<1>4. CASE MtpReject
  <2>1. mpc = "verify" /\ Emitted(Pick) /\ drafts' = <<>> /\ mpc' = "draft"
    BY <1>4 DEF MtpReject
  <2>2. MtpTypes' /\ PendingCurrent'
    BY <2>1, EmittedInv DEF MtpTypes
  <2>3. MtpShape'
    BY <2>1 DEF MtpShape
  <2> QED BY <2>1, <2>2, <2>3, EmittedIsGreedy DEF MtpInv
<1>5. CASE MtpAccept
  <2> DEFINE over == Len(drafts) = 1 \/ Len(out) + 1 >= call.max_new
  <2>1. /\ mpc = "verify" /\ Emitted(Pick)
        /\ drafts' = IF over THEN <<>> ELSE Tail(drafts)
        /\ mpc' = IF over THEN "draft" ELSE "verify"
    BY <1>5 DEF MtpAccept
  <2>2. /\ Len(out') = Len(out) + 1 /\ PendingCurrent' /\ call' = call
        /\ call' \in Calls /\ out' \in Seq(Tokens)
        /\ Len(out') <= call'.max_new
    BY <2>1, EmittedInv
  <2>3. drafts # <<>>
    BY <2>1 DEF MtpInv, MtpShape
  <2>4. drafts' \in Seq(Tokens) /\ mpc' \in {"draft", "verify"}
    <3>1. Tail(drafts) \in Seq(Tokens)
      BY <1>1, <2>3
    <3> QED BY <2>1, <3>1
  <2>5. MtpTypes'
    BY <2>2, <2>4 DEF MtpTypes
  <2>6. MtpShape'
    <3>1. ASSUME ~over
          PROVE  drafts' # <<>> /\ Len(out') < call'.max_new
      <4>1. Tail(drafts) # <<>>
        BY <1>1, <2>3, <3>1, MoreToCome
      <4> QED BY <1>1, <2>1, <2>2, <3>1, <4>1
    <3> QED BY <2>1, <3>1 DEF MtpShape
  <2> QED BY <2>1, <2>2, <2>5, <2>6, EmittedIsGreedy DEF MtpInv
<1>6. CASE UNCHANGED mtpVars
  <2>1. /\ call' = call /\ out' = out /\ cached' = cached /\ drafts' = drafts
        /\ mpc' = mpc
    BY <1>6 DEF mtpVars
  <2> QED BY <1>2, <2>1
          DEF MtpInv, MtpTypes, PendingCurrent, MtpShape
<1> QED BY <1>3, <1>4, <1>5, <1>6 DEF MtpNext

\* When the loop has ended the caller has max_new tokens, or plain generation
\* has come to a stop id where the tail was cut.
LEMMA MtpEnd ==
    ASSUME MtpInv, mpc = "done"
    PROVE  \/ Len(Trimmed) = call.max_new
           \/ Greedy(call.model, call.prompt \o Trimmed) \in StopIds
<1>1. out \in Seq(Tokens) /\ Len(out) \in Nat /\ Len(out) = call.max_new
  BY DEF MtpInv, MtpTypes, MtpShape
<1>2. PICK k \in 0 .. Len(out) :
        /\ CutAt(out, k)
        /\ k < Len(out) => Greedy(call.model, call.prompt \o SubSeq(out, 1, k))
                               \in StopIds
  BY DEF MtpInv, CutIsAnEnd
<1>3. Trimmed = SubSeq(out, 1, k) /\ Len(Trimmed) = k
  BY <1>1, <1>2, TrimmedAtCut DEF Trimmed, CutOf
<1> QED BY <1>1, <1>2, <1>3

\* The loop that keeps the model's state, with the cut of its caller,
\* implements plain greedy generation with stop ids, and returns all of it.
THEOREM MtpImplementsGreedy == MtpSpec => MtpExact
<1> DEFINE Ended == mpc = "done" =>
                      \/ Len(Trimmed) = call.max_new
                      \/ Greedy(call.model, call.prompt \o Trimmed) \in StopIds
<1>1. MtpInit => MtpPlain!GreedyInit /\ MtpInv
  BY MtpInitInv
<1>2. MtpInv /\ [MtpNext]_mtpVars
          => MtpInv' /\ [MtpPlain!Emit]_(MtpPlain!greedyVars)
  BY MtpStep
<1>3. MtpInv => Ended
  BY MtpEnd
<1>4. MtpInit /\ [][MtpNext]_mtpVars => MtpPlain!GreedySpec /\ []Ended
  <2> HIDE DEF Ended
  <2> QED BY <1>1, <1>2, <1>3, PTL DEF MtpPlain!GreedySpec
<1>5. MtpSpec => MtpInit /\ [][MtpNext]_mtpVars
  BY PTL DEF MtpSpec
<1> QED BY <1>4, <1>5 DEF MtpExact

-----------------------------------------------------------------------------
(***************************************************************************)
(* Generate.  While the loop runs, a state that is carried along is that   *)
(* of all tokens so far, and there is room in the context.                 *)
(***************************************************************************)
GenTypes ==
    /\ call \in Calls
    /\ setting.inc \in BOOLEAN /\ setting.context \in Nat
    /\ gids \in Seq(Tokens)
    /\ Len(call.prompt) <= Len(gids)
    /\ Len(gids) <= Len(call.prompt) + call.max_new
    /\ gpc \in {"start", "step", "done", "error"}

\* Before and while the loop runs.
GenRunning ==
    /\ gpc \in {"start", "error"} => gids = call.prompt
    /\ gpc = "step" =>
          /\ setting.inc => carried = gids
          /\ setting.context # 0 =>
                Len(gids) < setting.context \/ Len(gids) = Len(call.prompt)
    /\ gpc # "done" => reason = "length"

\* The context is never overrun by more than the first token, and the loop
\* ends for the reason it reports: a stop id, max_new tokens, or the context.
GenEnds ==
    /\ setting.context # 0 =>
          Len(gids) <= setting.context \/ Len(Generated) <= 1
    /\ gpc = "done" =>
          IF reason = "stop"
          THEN Greedy(call.model, gids) \in StopIds
          ELSE \/ Len(Generated) = call.max_new
               \/ setting.context # 0 /\ Len(gids) >= setting.context

GenInv == GenTypes /\ GenRunning /\ GenEnds

\* The length of what lies behind a prefix.
LEMMA SuffixLength ==
    ASSUME NEW x \in Seq(Tokens), NEW m \in 1 .. Len(x) + 1
    PROVE  Len(SubSeq(x, m, Len(x))) = Len(x) - m + 1
<1>1. Len(x) \in Nat
  OBVIOUS
<1>2. CASE m = Len(x) + 1
  OBVIOUS
<1>3. CASE m \in 1 .. Len(x)
  OBVIOUS
<1> QED BY <1>1, <1>2, <1>3

\* What is generated is what is behind the prompt.
LEMMA GeneratedLength ==
    ASSUME GenTypes
    PROVE  /\ Len(Generated) = Len(gids) - Len(call.prompt)
           /\ Len(Generated) \in Nat
           /\ Len(gids) \in Nat /\ Len(call.prompt) \in Nat \ {0}
           /\ call.max_new \in Nat
           /\ Len(call.prompt) + call.max_new <= MaxLen /\ MaxLen \in Nat
<1>1. /\ gids \in Seq(Tokens) /\ Len(gids) \in Nat
      /\ Len(call.prompt) <= Len(gids)
  BY DEF GenTypes
<1>2. /\ Len(call.prompt) \in Nat \ {0} /\ call.max_new \in Nat
      /\ Len(call.prompt) + call.max_new <= MaxLen /\ MaxLen \in Nat
  BY CallFacts DEF GenTypes
<1>3. ASSUME NEW p \in Nat, p <= Len(gids)
      PROVE  Len(SubSeq(gids, p + 1, Len(gids))) = Len(gids) - p
  <2>1. p + 1 \in 1 .. Len(gids) + 1
    BY <1>1, <1>3
  <2>2. Len(SubSeq(gids, p + 1, Len(gids))) = Len(gids) - (p + 1) + 1
    BY <1>1, <2>1, SuffixLength
  <2> QED BY <1>1, <2>2
<1>4. Len(Generated) = Len(gids) - Len(call.prompt)
  BY <1>1, <1>2, <1>3 DEF Generated
<1> QED BY <1>1, <1>2, <1>4

\* The next token is the main model's choice for all tokens so far, however
\* the model computes it.
LEMMA NextIsGreedy ==
    ASSUME GenInv, gpc = "step", Len(Generated) < call.max_new
    PROVE  NextId = Greedy(call.model, gids) /\ NextId \in Tokens
<1>1. setting.inc => carried = gids
  BY DEF GenInv, GenRunning
<1>2. NextId = Greedy(call.model, gids)
  BY <1>1 DEF NextId
<1>3. Len(gids) \in 1 .. MaxLen
  BY GeneratedLength DEF GenInv, GenTypes
<1>4. gids \in IdSeqs
  BY <1>3, PrefixOf DEF GenInv, GenTypes
<1> QED BY <1>2, <1>4, CallFacts DEF GenInv, GenTypes

\* A generation starts with its prompt.
LEMMA GenInitInv ==
    ASSUME GenInit
    PROVE  GenInv /\ GenPlain!GreedyInit
<1>1. /\ call \in Calls /\ gids = call.prompt /\ gpc = "start"
      /\ reason = "length"
      /\ setting \in [inc : BOOLEAN, context : Contexts, bytes : ByteTables]
  BY DEF GenInit
<1>2. /\ call.prompt \in Seq(Tokens) /\ Len(call.prompt) \in Nat \ {0}
      /\ call.max_new \in Nat
  BY <1>1, CallFacts
<1>3. setting.inc \in BOOLEAN /\ setting.context \in Nat
  BY <1>1, GenerateAssumption
<1>4. GenTypes
  BY <1>1, <1>2, <1>3 DEF GenTypes
<1>5. Len(Generated) = 0
  BY <1>1, <1>2, <1>4, GeneratedLength
<1>6. GenRunning /\ GenEnds
  BY <1>1, <1>2, <1>5 DEF GenRunning, GenEnds
<1> QED BY <1>1, <1>4, <1>5, <1>6 DEF GenInv, GenPlain!GreedyInit

\* A step that appends nothing.
LEMMA GenQuiet ==
    ASSUME GenInv, call' = call, setting' = setting, gids' = gids
    PROVE  /\ Generated' = Generated
           /\ [GenPlain!Emit]_(GenPlain!greedyVars)
<1>1. Generated' = Generated
  BY DEF Generated
<1> QED BY <1>1 DEF GenPlain!greedyVars

\* A token is appended: a step of plain generation.
LEMMA GenEmit ==
    ASSUME GenInv, Emit
    PROVE  GenInv' /\ GenPlain!Emit
<1>1. /\ gpc = "step" /\ Len(Generated) < call.max_new /\ NextId \notin StopIds
      /\ gids' = Append(gids, NextId) /\ call' = call /\ setting' = setting
      /\ reason' = reason
      /\ gpc' = IF Full THEN "done" ELSE "step"
      /\ carried' = IF Full \/ ~setting.inc THEN carried
                    ELSE Append(carried, NextId)
  BY DEF Emit, Going
<1>2. NextId = Greedy(call.model, gids) /\ NextId \in Tokens
  BY <1>1, NextIsGreedy
<1>3. /\ Len(Generated) = Len(gids) - Len(call.prompt)
      /\ Len(gids) \in Nat /\ Len(call.prompt) \in Nat \ {0}
      /\ call.max_new \in Nat
  BY GeneratedLength DEF GenInv
<1>4. gids \in Seq(Tokens) /\ call \in Calls /\ Len(call.prompt) <= Len(gids)
      /\ setting.inc \in BOOLEAN /\ setting.context \in Nat
  BY DEF GenInv, GenTypes
<1>5. gids' \in Seq(Tokens) /\ Len(gids') = Len(gids) + 1
  BY <1>1, <1>2, <1>4
<1>6. call'.prompt = call.prompt /\ call'.max_new = call.max_new
  BY <1>1
<1>7. GenTypes'
  <2>1. /\ Len(call.prompt) <= Len(gids')
        /\ Len(gids') <= Len(call.prompt) + call.max_new
    BY <1>1, <1>3, <1>4, <1>5
  <2>2. gpc' \in {"step", "done"}
    BY <1>1
  <2> QED BY <1>1, <1>4, <1>5, <2>1, <2>2 DEF GenTypes
<1>8. Len(Generated)' = Len(Generated) + 1
  <2>1. Len(Generated)' = Len(gids') - Len(call.prompt)
    <3>1. Generated' = SubSeq(gids', Len(call.prompt) + 1, Len(gids'))
      BY <1>1 DEF Generated
    <3>2. ASSUME NEW p \in Nat, p <= Len(gids')
          PROVE  Len(SubSeq(gids', p + 1, Len(gids'))) = Len(gids') - p
      <4>1. Len(gids') \in Nat
        BY <1>3, <1>5
      <4>2. p + 1 \in 1 .. Len(gids') + 1
        BY <3>2, <4>1
      <4>3. Len(SubSeq(gids', p + 1, Len(gids'))) = Len(gids') - (p + 1) + 1
        BY <1>5, <4>2, SuffixLength
      <4> QED BY <4>1, <4>3
    <3>3. Len(call.prompt) \in Nat /\ Len(call.prompt) <= Len(gids')
      BY <1>3, <1>4, <1>5
    <3> QED BY <3>1, <3>2, <3>3
  <2> QED BY <1>3, <1>5, <2>1
<1>9. GenRunning'
  <2>1. carried = gids \/ ~setting.inc
    BY <1>1 DEF GenInv, GenRunning
  <2>2. ASSUME gpc' = "step"
        PROVE  /\ setting.inc => carried' = gids'
               /\ setting.context # 0 => Len(gids') < setting.context
    <3>1. ~Full
      BY <1>1, <2>2
    <3>2. setting.inc => carried' = gids'
      BY <1>1, <2>1, <3>1
    <3>3. setting.context # 0 => Len(gids) + 1 < setting.context
      BY <1>3, <1>4, <3>1 DEF Full
    <3> QED BY <1>5, <3>2, <3>3
  <2>3. gpc' \in {"step", "done"} /\ reason' = "length"
    BY <1>1 DEF GenInv, GenRunning
  <2> QED BY <1>1, <2>2, <2>3 DEF GenRunning
<1>10. GenEnds'
  <2>1. setting.context # 0 => Len(gids') <= setting.context \/ Len(Generated)' <= 1
    <3>1. setting.context # 0 =>
             Len(gids) < setting.context \/ Len(gids) = Len(call.prompt)
      BY <1>1 DEF GenInv, GenRunning
    <3> QED BY <1>3, <1>4, <1>5, <1>8, <3>1
  <2>2. gpc' = "done" => setting.context # 0 /\ Len(gids') >= setting.context
    BY <1>1, <1>3, <1>4, <1>5 DEF Full
  <2>3. reason' = "length"
    BY <1>1 DEF GenInv, GenRunning
  <2> QED BY <1>1, <2>1, <2>2, <2>3 DEF GenEnds
<1>11. GenPlain!Emit
  BY <1>1, <1>2, <1>8 DEF GenPlain!Emit
<1> QED BY <1>7, <1>9, <1>10, <1>11 DEF GenInv

\* Every step of generate and generate_stream preserves the invariant and is a
\* step of plain generation or appends nothing.
LEMMA GenStep ==
    ASSUME GenInv, [GenNext]_genVars
    PROVE  GenInv' /\ [GenPlain!Emit]_(GenPlain!greedyVars)
<1>1. CASE Start
  <2>1. /\ gpc = "start" /\ call' = call /\ setting' = setting /\ gids' = gids
        /\ reason' = reason /\ gpc' \in {"error", "step"}
        /\ gpc' = "step" /\ setting.inc => carried' = call.prompt
    BY <1>1 DEF Start
  <2>2. gids = call.prompt
    BY <2>1 DEF GenInv, GenRunning
  <2> QED BY <2>1, <2>2, GenQuiet
          DEF GenInv, GenTypes, GenRunning, GenEnds
<1>2. CASE Emit
  BY <1>2, GenEmit
<1>3. CASE Stop
  <2>1. /\ gpc = "step" /\ Len(Generated) < call.max_new /\ NextId \in StopIds
        /\ gpc' = "done" /\ reason' = "stop"
        /\ call' = call /\ setting' = setting /\ gids' = gids
    BY <1>3 DEF Stop, Going
  <2>2. Greedy(call.model, gids) \in StopIds
    BY <2>1, NextIsGreedy
  <2> QED BY <2>1, <2>2, GenQuiet
          DEF GenInv, GenTypes, GenRunning, GenEnds
<1>4. CASE Exhaust
  <2>1. /\ gpc = "step" /\ Len(Generated) = call.max_new /\ gpc' = "done"
        /\ call' = call /\ setting' = setting /\ gids' = gids
        /\ reason' = reason /\ reason = "length"
    BY <1>4 DEF Exhaust, GenInv, GenRunning
  <2> QED BY <2>1, GenQuiet DEF GenInv, GenTypes, GenRunning, GenEnds
<1>5. CASE UNCHANGED genVars
  <2>1. /\ call' = call /\ setting' = setting /\ gids' = gids /\ gpc' = gpc
        /\ reason' = reason /\ carried' = carried
    BY <1>5 DEF genVars
  <2> QED BY <2>1, GenQuiet DEF GenInv, GenTypes, GenRunning, GenEnds
<1> QED BY <1>1, <1>2, <1>3, <1>4, <1>5 DEF GenNext

-----------------------------------------------------------------------------
(***************************************************************************)
(* Generate: the text.                                                     *)
(***************************************************************************)
\* f[i] is the first i sequences of s, one behind the other.
FlattensOn(s, f, m) ==
    f = [i \in 1 .. m |-> IF i = 1 THEN s[i] ELSE f[i - 1] \o s[i]]

\* There is such a function for every number of sequences.
LEMMA FlattenExists ==
    ASSUME NEW s, NEW m \in Nat \ {0}
    PROVE  \E f : FlattensOn(s, f, m)
<1> DEFINE Good(k) == \E f : FlattensOn(s, f, k)
           Bad == {k \in Nat \ {0} : ~Good(k)}
<1>1. Good(1)
  <2> DEFINE f == [i \in 1 .. 1 |-> s[1]]
  <2>1. [i \in 1 .. 1 |-> IF i = 1 THEN s[i] ELSE f[i - 1] \o s[i]]
          = [i \in 1 .. 1 |-> s[1]]
    <3>1. \A i \in 1 .. 1 : i = 1
      OBVIOUS
    <3> QED BY <3>1
  <2>2. FlattensOn(s, f, 1)
    BY <2>1 DEF FlattensOn
  <2> QED BY <2>2
<1>2. ASSUME NEW k \in Nat \ {0}, Good(k)
      PROVE  Good(k + 1)
  <2>1. PICK f : FlattensOn(s, f, k)
    BY <1>2
  <2> DEFINE h == [i \in 1 .. k + 1 |-> IF i = k + 1 THEN f[k] \o s[k + 1] ELSE f[i]]
  <2>2. ASSUME NEW i \in 1 .. k + 1
        PROVE  h[i] = IF i = 1 THEN s[i] ELSE h[i - 1] \o s[i]
    <3>1. CASE i = k + 1
      <4>1. h[i] = f[k] \o s[k + 1]
        BY <3>1
      <4>2. h[k] = f[k] /\ i - 1 = k /\ i # 1
        BY <3>1
      <4> QED BY <3>1, <4>1, <4>2
    <3>2. CASE i # k + 1
      <4>1. i \in 1 .. k
        BY <3>2
      <4>2. h[i] = f[i]
        BY <3>2
      <4>3. f[i] = IF i = 1 THEN s[i] ELSE f[i - 1] \o s[i]
        BY <2>1, <4>1 DEF FlattensOn
      <4>4. i # 1 => h[i - 1] = f[i - 1]
        BY <4>1
      <4> QED BY <4>2, <4>3, <4>4
    <3> QED BY <3>1, <3>2
  <2>3. h = [i \in 1 .. k + 1 |-> h[i]]
    OBVIOUS
  <2> HIDE DEF h
  <2>4. h = [i \in 1 .. k + 1 |-> IF i = 1 THEN s[i] ELSE h[i - 1] \o s[i]]
    BY <2>2, <2>3
  <2>5. FlattensOn(s, h, k + 1)
    BY <2>4 DEF FlattensOn
  <2> QED BY <2>5
<1> HIDE DEF Good
<1>3. Bad = {}
  <2> SUFFICES ASSUME Bad # {}
               PROVE  FALSE
    OBVIOUS
  <2>1. Bad \in SUBSET Nat
    OBVIOUS
  <2>2. PICK k \in Bad : \A j \in Bad : k <= j
    <3> HIDE DEF Bad
    <3> QED BY <2>1, SmallestOf
  <2>3. k \in Nat \ {0} /\ ~Good(k) /\ k # 1
    BY <1>1
  <2>4. k - 1 \in Nat \ {0} /\ (k - 1) + 1 = k /\ ~(k <= k - 1)
    BY <2>3
  <2>5. Good(k - 1)
    BY <2>2, <2>4
  <2> QED BY <1>2, <2>3, <2>4, <2>5
<1>4. Good(m)
  BY <1>3
<1> QED BY <1>4 DEF Good

\* It has the value that s asks for, which is that of FlattenSeq at its end.
LEMMA FlattenIs ==
    ASSUME NEW s, NEW m \in Nat \ {0}, Len(s) = m
    PROVE  \E f : FlattensOn(s, f, m) /\ FlattenSeq(s) = f[m]
<1> DEFINE f == CHOOSE f : FlattensOn(s, f, m)
<1>1. FlattenSeq(s) = f[m]
  BY DEF FlattenSeq, FlattensOn
<1>2. FlattensOn(s, f, m)
  BY FlattenExists
<1> QED BY <1>1, <1>2

\* Sequences that begin alike do so when they are flattened.
LEMMA FlattenSame ==
    ASSUME NEW s, NEW t, NEW m \in Nat \ {0}, NEW l \in Nat, m <= l,
           \A i \in 1 .. m : s[i] = t[i],
           NEW f, FlattensOn(s, f, m), NEW h, FlattensOn(t, h, l)
    PROVE  f[m] = h[m]
<1> DEFINE Bad == {i \in 1 .. m : f[i] # h[i]}
<1>1. ASSUME NEW i \in 1 .. m
      PROVE  /\ f[i] = IF i = 1 THEN s[i] ELSE f[i - 1] \o s[i]
             /\ h[i] = IF i = 1 THEN s[i] ELSE h[i - 1] \o s[i]
  <2>1. i \in 1 .. l /\ t[i] = s[i]
    OBVIOUS
  <2> QED BY <2>1 DEF FlattensOn
<1>2. Bad = {}
  <2> SUFFICES ASSUME Bad # {}
               PROVE  FALSE
    OBVIOUS
  <2>1. Bad \in SUBSET Nat
    OBVIOUS
  <2>2. PICK k \in Bad : \A j \in Bad : k <= j
    <3> HIDE DEF Bad
    <3> QED BY <2>1, SmallestOf
  <2>3. k \in 1 .. m /\ f[k] # h[k] /\ k # 1
    <3>1. f[1] = h[1]
      BY <1>1
    <3> QED BY <3>1
  <2>4. k - 1 \in 1 .. m /\ ~(k <= k - 1)
    BY <2>3
  <2>5. f[k - 1] = h[k - 1]
    BY <2>2, <2>4
  <2> QED BY <1>1, <2>3, <2>5
<1> QED BY <1>2

\* One sequence more is put behind.
LEMMA FlattenAppend ==
    ASSUME NEW s, NEW m \in Nat, IsSeq(s, m),
           NEW x, NEW l \in Nat, IsSeq(x, l)
    PROVE  FlattenSeq(Append(s, x)) = IF m = 0 THEN x ELSE FlattenSeq(s) \o x
<1> DEFINE t == Append(s, x)
<1>1. /\ IsSeq(t, m + 1) /\ t[m + 1] = x /\ \A i \in 1 .. m : t[i] = s[i]
  BY AppendIs
<1> HIDE DEF t
<1>2. Len(s) = m /\ Len(t) = m + 1 /\ m + 1 \in Nat \ {0}
  <2>1. Len(s) = m
    BY SeqIs
  <2>2. m + 1 \in Nat \ {0}
    OBVIOUS
  <2>3. Len(t) = m + 1
    BY <1>1, <2>2, SeqIs
  <2> QED BY <2>1, <2>2, <2>3
<1>3. PICK h : FlattensOn(t, h, m + 1) /\ FlattenSeq(t) = h[m + 1]
  BY <1>2, FlattenIs
<1>4. m + 1 \in 1 .. m + 1 /\ (m + 1) - 1 = m /\ (m = 0 <=> m + 1 = 1)
  OBVIOUS
<1>5. h[m + 1] = IF m = 0 THEN x ELSE h[m] \o x
  <2>1. h[m + 1] = IF m + 1 = 1 THEN t[m + 1] ELSE h[(m + 1) - 1] \o t[m + 1]
    BY <1>3, <1>4 DEF FlattensOn
  <2> QED BY <1>1, <1>4, <2>1
<1>6. CASE m = 0
  BY <1>3, <1>5, <1>6 DEF t
<1>7. CASE m # 0
  <2>1. PICK f : FlattensOn(s, f, m) /\ FlattenSeq(s) = f[m]
    BY <1>2, <1>7, FlattenIs
  <2>2. f[m] = h[m]
    <3> DEFINE k == m + 1
    <3>1. k \in Nat /\ m <= k /\ m \in Nat \ {0} /\ FlattensOn(t, h, k)
      BY <1>3, <1>7
    <3>2. \A i \in 1 .. m : s[i] = t[i]
      BY <1>1
    <3> HIDE DEF k
    <3> QED BY <2>1, <3>1, <3>2, FlattenSame
  <2> QED BY <1>3, <1>5, <1>7, <2>1, <2>2 DEF t
<1> QED BY <1>6, <1>7

\* l whole characters.
Ascii(l) == [k \in 1 .. l |-> "ascii"]

\* f[i] is the text of the first i bytes.
DecodesOn(bytes, f, l) ==
    f = [i \in 0 .. l |->
            IF i = 0 THEN <<>>
            ELSE IF i > 1 /\ bytes[i - 1] = "lead" /\ bytes[i] = "cont"
                 THEN Append(f[i - 2], "char")
            ELSE Append(f[i - 1],
                        IF bytes[i] = "ascii" THEN "ascii" ELSE "U+FFFD")]

\* One character more.
LEMMA AsciiAppend ==
    ASSUME NEW l \in Nat
    PROVE  Append(Ascii(l), "ascii") = Ascii(l + 1)
<1>1. IsSeq(Ascii(l), l)
  BY DEF IsSeq, Ascii
<1>2. Append(Ascii(l), "ascii")
        = [i \in 1 .. l + 1 |-> IF i = l + 1 THEN "ascii" ELSE Ascii(l)[i]]
  BY <1>1, AppendIs
<1>3. \A i \in 1 .. l + 1 : i # l + 1 => Ascii(l)[i] = "ascii"
  BY DEF Ascii
<1> QED BY <1>2, <1>3 DEF Ascii

\* Bytes that are characters are decoded to as many.
LEMMA AsciiDecodes ==
    ASSUME NEW bytes, NEW l \in Nat, \A i \in 1 .. l : bytes[i] = "ascii"
    PROVE  (CHOOSE f : DecodesOn(bytes, f, l))[l] = Ascii(l)
<1> DEFINE g == [i \in 0 .. l |-> Ascii(i)]
           f == CHOOSE f : DecodesOn(bytes, f, l)
           Bad == {i \in 0 .. l : f[i] # Ascii(i)}
<1>1. ASSUME NEW i \in 0 .. l
      PROVE  /\ i = 0 => Ascii(i) = <<>>
             /\ i # 0 => /\ i \in 1 .. l /\ i - 1 \in 0 .. l
                         /\ Append(Ascii(i - 1), "ascii") = Ascii(i)
                         /\ i > 1 => bytes[i - 1] # "lead"
                         /\ bytes[i] = "ascii"
  <2>1. CASE i = 0
    BY <2>1 DEF Ascii
  <2>2. CASE i # 0
    <3>1. i \in 1 .. l /\ i - 1 \in Nat /\ (i - 1) + 1 = i /\ i - 1 \in 0 .. l
      BY <2>2
    <3>2. Append(Ascii(i - 1), "ascii") = Ascii(i)
      BY <3>1, AsciiAppend
    <3>3. i > 1 => i - 1 \in 1 .. l
      BY <3>1
    <3> QED BY <2>2, <3>1, <3>2, <3>3
  <2> QED BY <2>1, <2>2
<1>2. DecodesOn(bytes, g, l)
  <2>1. ASSUME NEW i \in 0 .. l
        PROVE  g[i] = IF i = 0 THEN <<>>
                      ELSE IF i > 1 /\ bytes[i - 1] = "lead" /\ bytes[i] = "cont"
                           THEN Append(g[i - 2], "char")
                      ELSE Append(g[i - 1],
                                  IF bytes[i] = "ascii" THEN "ascii" ELSE "U+FFFD")
    <3>1. g[i] = Ascii(i) /\ (i # 0 => g[i - 1] = Ascii(i - 1))
      OBVIOUS
    <3> HIDE DEF g
    <3> QED BY <1>1, <3>1
  <2>2. g = [i \in 0 .. l |-> g[i]]
    OBVIOUS
  <2> HIDE DEF g
  <2> QED BY <2>1, <2>2 DEF DecodesOn
<1>3. DecodesOn(bytes, f, l)
  BY <1>2
<1> HIDE DEF f, g
<1>4. ASSUME NEW i \in 0 .. l
      PROVE  /\ i = 0 => f[i] = <<>>
             /\ i # 0 => f[i] = Append(f[i - 1], "ascii")
  <2>1. f[i] = IF i = 0 THEN <<>>
               ELSE IF i > 1 /\ bytes[i - 1] = "lead" /\ bytes[i] = "cont"
                    THEN Append(f[i - 2], "char")
               ELSE Append(f[i - 1],
                           IF bytes[i] = "ascii" THEN "ascii" ELSE "U+FFFD")
    BY <1>3 DEF DecodesOn
  <2> QED BY <1>1, <2>1
<1>5. Bad = {}
  <2> SUFFICES ASSUME Bad # {}
               PROVE  FALSE
    OBVIOUS
  <2>1. Bad \in SUBSET Nat
    OBVIOUS
  <2>2. PICK k \in Bad : \A j \in Bad : k <= j
    <3> HIDE DEF Bad
    <3> QED BY <2>1, SmallestOf
  <2>3. k \in 0 .. l /\ f[k] # Ascii(k) /\ k # 0
    <3>1. 0 \in 0 .. l
      OBVIOUS
    <3>2. f[0] = Ascii(0)
      BY <1>1, <1>4, <3>1
    <3> QED BY <3>2
  <2>4. k - 1 \in 0 .. l /\ ~(k <= k - 1)
    BY <2>3
  <2>5. f[k - 1] = Ascii(k - 1)
    BY <2>2, <2>4
  <2> QED BY <1>1, <1>4, <2>3, <2>5
<1>6. l \in 0 .. l
  OBVIOUS
<1>7. f[l] = Ascii(l)
  BY <1>5, <1>6
<1> QED BY <1>7 DEF f

\* The bytes of tokens, and that they are l characters.
BytesOf(toks) == FlattenSeq([i \in DOMAIN toks |-> setting.bytes[toks[i]]])

Characters(bytes, l) ==
    /\ l \in Nat /\ IsSeq(bytes, l)
    /\ \A i \in 1 .. l : bytes[i] = "ascii"

\* The text of such bytes.
LEMMA PlainText ==
    ASSUME NEW toks, NEW l, Characters(BytesOf(toks), l)
    PROVE  Text(toks) = Ascii(l)
<1> DEFINE b == BytesOf(toks)
<1>1. Len(b) = l /\ l \in Nat
  BY SeqIs DEF Characters
<1>2. Text(toks) = (CHOOSE f : DecodesOn(b, f, Len(b)))[Len(b)]
  BY DEF Text, DecodesOn, BytesOf
<1> HIDE DEF b
<1>3. \A i \in 1 .. l : b[i] = "ascii"
  BY DEF Characters, b
<1> QED BY <1>1, <1>2, <1>3, AsciiDecodes

\* A token of whole characters adds some.
LEMMA PlainAppend ==
    ASSUME NEW toks, NEW m \in Nat, IsSeq(toks, m), NEW t \in Tokens,
           setting.bytes \in ByteTables, WholeTokens,
           NEW l, Characters(BytesOf(toks), l)
    PROVE  \E d \in Nat : Characters(BytesOf(Append(toks, t)), l + d)
<1> DEFINE s == [i \in DOMAIN toks |-> setting.bytes[toks[i]]]
           x == setting.bytes[t]
           d == Len(x)
           more == Append(toks, t)
<1>1. x \in Seq({"ascii", "lead", "cont"})
  BY GenerateAssumption
<1>2. d \in Nat /\ IsSeq(x, d) /\ \A i \in 1 .. d : x[i] = "ascii"
  <2>1. d \in Nat /\ DOMAIN x = 1 .. d /\ x = [i \in 1 .. d |-> x[i]]
    BY <1>1
  <2>2. \A i \in DOMAIN x : x[i] = "ascii"
    BY DEF WholeTokens
  <2> QED BY <2>1, <2>2 DEF IsSeq
<1>3. DOMAIN toks = 1 .. m /\ IsSeq(s, m)
  <2>1. DOMAIN toks = 1 .. m
    BY SeqIs
  <2> QED BY <2>1 DEF IsSeq
<1>4. [i \in DOMAIN more |-> setting.bytes[more[i]]] = Append(s, x)
  <2>1. /\ IsSeq(more, m + 1) /\ more[m + 1] = t
        /\ \A i \in 1 .. m : more[i] = toks[i]
    BY AppendIs
  <2>2. m + 1 \in Nat
    OBVIOUS
  <2>3. DOMAIN more = 1 .. m + 1
    <3> HIDE DEF more
    <3> QED BY <2>1, <2>2, SeqIs
  <2>4. Append(s, x) = [i \in 1 .. m + 1 |-> IF i = m + 1 THEN x ELSE s[i]]
    <3> HIDE DEF s, x
    <3> QED BY <1>3, AppendIs
  <2>5. \A i \in 1 .. m + 1 :
           setting.bytes[more[i]] = IF i = m + 1 THEN x ELSE s[i]
    <3> HIDE DEF more
    <3>1. \A i \in 1 .. m : s[i] = setting.bytes[toks[i]]
      BY <1>3
    <3>2. \A i \in 1 .. m + 1 : i # m + 1 => i \in 1 .. m
      OBVIOUS
    <3> HIDE DEF s
    <3> QED BY <2>1, <3>1, <3>2
  <2> HIDE DEF more, s, x
  <2> QED BY <2>3, <2>4, <2>5
<1>5. BytesOf(more) = IF m = 0 THEN x ELSE BytesOf(toks) \o x
  <2>1. FlattenSeq(Append(s, x)) = IF m = 0 THEN x ELSE FlattenSeq(s) \o x
    <3> HIDE DEF s, x, d
    <3> QED BY <1>2, <1>3, FlattenAppend
  <2> QED BY <1>4, <2>1 DEF BytesOf
<1> DEFINE b == BytesOf(toks)
           c == b \o x
<1>6. l \in Nat /\ IsSeq(b, l) /\ \A i \in 1 .. l : b[i] = "ascii"
  BY DEF Characters
<1>7. CASE m # 0
  <2> HIDE DEF b, x, d
  <2>1. IsSeq(c, l + d) /\ Behind(c, 0, b, l) /\ Behind(c, l, x, d)
    BY <1>2, <1>6, ConcatIs
  <2>2. l + d \in Nat
    BY <1>2, <1>6
  <2>3. ASSUME NEW i \in 1 .. l + d
        PROVE  c[i] = "ascii"
    <3> HIDE DEF c
    <3>1. CASE i <= l
      <4>1. i \in 1 .. l /\ 0 + i = i
        BY <1>2, <1>6, <3>1
      <4>2. c[0 + i] = b[i]
        BY <2>1, <4>1 DEF Behind
      <4> QED BY <1>6, <4>1, <4>2
    <3>2. CASE ~(i <= l)
      <4>1. i - l \in 1 .. d /\ l + (i - l) = i
        BY <1>2, <1>6, <3>2
      <4>2. c[l + (i - l)] = x[i - l]
        BY <2>1, <4>1 DEF Behind
      <4> QED BY <1>2, <4>1, <4>2
    <3> QED BY <3>1, <3>2
  <2>4. Characters(c, l + d)
    BY <2>1, <2>2, <2>3 DEF Characters
  <2>5. BytesOf(more) = c
    BY <1>5, <1>7 DEF b
  <2> QED BY <1>2, <2>4, <2>5
<1>8. CASE m = 0
  <2>1. l = 0
    <3>1. s = <<>>
      BY <1>3, <1>8 DEF IsSeq
    <3>2. Len(s) = 0
      BY <3>1
    <3>3. b = s
      BY <3>2 DEF BytesOf, FlattenSeq
    <3>4. Len(b) = l
      <4> HIDE DEF b
      <4> QED BY <1>6, SeqIs
    <3> QED BY <3>2, <3>3, <3>4
  <2> HIDE DEF x, d
  <2>2. Characters(x, l + d)
    BY <1>2, <2>1 DEF Characters
  <2> QED BY <1>2, <1>5, <1>8, <2>2
<1> QED BY <1>7, <1>8

\* What comes behind text is the rest of the longer one.
LEMMA AsciiRest ==
    ASSUME NEW l \in Nat, NEW d \in Nat
    PROVE  /\ Len(Ascii(l + d)) = l + d
           /\ Ascii(l) \o SubSeq(Ascii(l + d), l + 1, Len(Ascii(l + d))) = Ascii(l + d)
<1> DEFINE full == Ascii(l + d)
           rest == SubSeq(full, l + 1, l + d)
           s == Ascii(l)
           c == s \o rest
<1>1. IsSeq(full, l + d) /\ IsSeq(s, l) /\ l + d \in Nat
  BY DEF IsSeq, Ascii
<1>2. \A i \in 1 .. l : s[i] = "ascii"
  BY DEF Ascii
<1>3. \A i \in 1 .. l + d : full[i] = "ascii"
  BY DEF Ascii
<1> HIDE DEF full, s
<1>4. Len(full) = l + d
  BY <1>1, SeqIs
<1>5. /\ l + 1 \in 1 .. (l + d) + 1 /\ l + d \in (l + 1) - 1 .. l + d
      /\ (l + d) - (l + 1) + 1 = d
      /\ \A i \in 1 .. d : (l + 1) + i - 1 \in 1 .. l + d
  OBVIOUS
<1>6. /\ rest = [i \in 1 .. d |-> full[(l + 1) + i - 1]] /\ IsSeq(rest, d)
  <2> DEFINE e == l + d
             a == l + 1
  <2>1. e \in Nat /\ IsSeq(full, e) /\ a \in 1 .. e + 1 /\ e \in a - 1 .. e
        /\ e - a + 1 = d
    BY <1>1, <1>5
  <2> HIDE DEF e, a
  <2>2. /\ SubSeq(full, a, e) = [i \in 1 .. e - a + 1 |-> full[a + i - 1]]
        /\ IsSeq(SubSeq(full, a, e), e - a + 1)
    BY <2>1, SubSeqIs
  <2>3. /\ SubSeq(full, a, e) = [i \in 1 .. d |-> full[a + i - 1]]
        /\ IsSeq(SubSeq(full, a, e), d)
    BY <2>1, <2>2
  <2> QED BY <2>3 DEF e, a
<1>7. \A i \in 1 .. d : rest[i] = "ascii"
  <2>1. \A i \in 1 .. d : rest[i] = full[(l + 1) + i - 1]
    BY <1>6
  <2> QED BY <1>3, <1>5, <2>1
<1> HIDE DEF rest
<1>8. IsSeq(c, l + d) /\ Behind(c, 0, s, l) /\ Behind(c, l, rest, d)
  BY <1>1, <1>6, ConcatIs
<1> HIDE DEF c
<1>9. ASSUME NEW i \in 1 .. l + d
      PROVE  c[i] = "ascii"
  <2>1. CASE i <= l
    <3>1. i \in 1 .. l /\ 0 + i = i
      BY <2>1
    <3>2. c[0 + i] = s[i]
      BY <1>8, <3>1 DEF Behind
    <3> QED BY <1>2, <3>1, <3>2
  <2>2. CASE ~(i <= l)
    <3>1. i - l \in 1 .. d /\ l + (i - l) = i
      BY <2>2
    <3>2. c[l + (i - l)] = rest[i - l]
      BY <1>8, <3>1 DEF Behind
    <3> QED BY <1>7, <3>1, <3>2
  <2> QED BY <2>1, <2>2
<1>10. c = Ascii(l + d)
  BY <1>8, <1>9 DEF IsSeq, Ascii
<1> QED BY <1>4, <1>10 DEF c, rest, full, s

\* Where tokens are whole, what was sent is the text so far.
GenText ==
    /\ setting.bytes \in ByteTables
    /\ WholeTokens => /\ Characters(BytesOf(Generated), last_full)
                      /\ streamed = Ascii(last_full)

\* A token more is a token more behind the prompt.
LEMMA GeneratedAppend ==
    ASSUME GenTypes, NEW t \in Tokens, gids' = Append(gids, t), call' = call
    PROVE  /\ Len(Generated) \in Nat /\ IsSeq(Generated, Len(Generated))
           /\ Generated' = Append(Generated, t)
<1> DEFINE g == Len(gids)
           p == Len(call.prompt)
           more == Append(gids, t)
<1>1. /\ g \in Nat /\ p \in Nat /\ p <= g /\ Len(Generated) = g - p /\ g - p \in Nat
      /\ gids \in Seq(Tokens)
  BY GeneratedLength DEF GenTypes
<1>2. IsSeq(gids, g)
  BY <1>1 DEF IsSeq
<1>3. /\ IsSeq(more, g + 1) /\ more[g + 1] = t
      /\ \A i \in 1 .. g : more[i] = gids[i]
  <2> HIDE DEF g
  <2> QED BY <1>1, <1>2, AppendIs
<1>4. Generated = SubSeq(gids, p + 1, g)
  BY DEF Generated
<1>5. Len(more) = g + 1
  <2> HIDE DEF g, more
  <2>1. g + 1 \in Nat
    BY <1>1
  <2> QED BY <1>3, <2>1, SeqIs
<1>6. Generated' = SubSeq(more, p + 1, g + 1)
  BY <1>5 DEF Generated
<1> HIDE DEF g, p, more
<1>7. /\ Generated = [i \in 1 .. g - p |-> gids[p + i]]
      /\ IsSeq(Generated, g - p)
  <2>1. p + 1 \in 1 .. g + 1 /\ g \in (p + 1) - 1 .. g /\ g - (p + 1) + 1 = g - p
        /\ \A i \in 1 .. g - p : (p + 1) + i - 1 = p + i
    BY <1>1
  <2>2. /\ SubSeq(gids, p + 1, g)
             = [i \in 1 .. g - (p + 1) + 1 |-> gids[(p + 1) + i - 1]]
        /\ IsSeq(SubSeq(gids, p + 1, g), g - (p + 1) + 1)
    BY <1>1, <1>2, <2>1, SubSeqIs
  <2>3. [i \in 1 .. g - p |-> gids[(p + 1) + i - 1]] = [i \in 1 .. g - p |-> gids[p + i]]
    BY <2>1
  <2> QED BY <1>4, <2>1, <2>2, <2>3
<1>8. Generated' = [i \in 1 .. (g - p) + 1 |-> more[p + i]]
  <2>1. p + 1 \in 1 .. (g + 1) + 1 /\ g + 1 \in (p + 1) - 1 .. g + 1
        /\ (g + 1) - (p + 1) + 1 = (g - p) + 1 /\ g + 1 \in Nat
        /\ \A i \in 1 .. (g - p) + 1 : (p + 1) + i - 1 = p + i
    BY <1>1
  <2>2. SubSeq(more, p + 1, g + 1)
             = [i \in 1 .. (g + 1) - (p + 1) + 1 |-> more[(p + 1) + i - 1]]
    <3> DEFINE e == g + 1
               a == p + 1
    <3>1. e \in Nat /\ IsSeq(more, e) /\ a \in 1 .. e + 1 /\ e \in a - 1 .. e
      BY <1>3, <2>1
    <3> HIDE DEF e, a
    <3>2. SubSeq(more, a, e) = [i \in 1 .. e - a + 1 |-> more[a + i - 1]]
      BY <3>1, SubSeqIs
    <3> QED BY <3>2 DEF e, a
  <2>3. [i \in 1 .. (g - p) + 1 |-> more[(p + 1) + i - 1]]
           = [i \in 1 .. (g - p) + 1 |-> more[p + i]]
    BY <2>1
  <2> QED BY <1>6, <2>1, <2>2, <2>3
<1>9. Append(Generated, t)
        = [i \in 1 .. (g - p) + 1 |-> IF i = (g - p) + 1 THEN t ELSE Generated[i]]
  <2> DEFINE m == g - p
  <2>1. m \in Nat /\ IsSeq(Generated, m)
    BY <1>1, <1>7
  <2> HIDE DEF m
  <2>2. Append(Generated, t)
          = [i \in 1 .. m + 1 |-> IF i = m + 1 THEN t ELSE Generated[i]]
    BY <2>1, AppendIs
  <2> QED BY <2>2 DEF m
<1>10. ASSUME NEW i \in 1 .. (g - p) + 1
       PROVE  more[p + i] = IF i = (g - p) + 1 THEN t ELSE Generated[i]
  <2>1. CASE i = (g - p) + 1
    <3>1. p + i = g + 1
      BY <1>1, <2>1
    <3> QED BY <1>3, <2>1, <3>1
  <2>2. CASE i # (g - p) + 1
    <3>1. i \in 1 .. g - p /\ p + i \in 1 .. g
      BY <1>1, <2>2
    <3>2. Generated[i] = gids[p + i]
      BY <1>7, <3>1
    <3> QED BY <1>3, <2>2, <3>1, <3>2
  <2> QED BY <2>1, <2>2
<1>11. Generated' = Append(Generated, t)
  <2> DEFINE m == (g - p) + 1
  <2> HIDE DEF m
  <2>1. Generated' = [i \in 1 .. m |-> more[p + i]]
    BY <1>8 DEF m
  <2>2. Append(Generated, t) = [i \in 1 .. m |-> IF i = m THEN t ELSE Generated[i]]
    BY <1>9 DEF m
  <2>3. \A i \in 1 .. m : more[p + i] = IF i = m THEN t ELSE Generated[i]
    BY <1>10 DEF m
  <2>4. [i \in 1 .. m |-> more[p + i]]
           = [i \in 1 .. m |-> IF i = m THEN t ELSE Generated[i]]
    BY <2>3
  <2> QED BY <2>1, <2>2, <2>4
<1> QED BY <1>1, <1>7, <1>11

\* Nothing has been generated, nothing was sent.
LEMMA GenTextInit ==
    ASSUME GenInit
    PROVE  GenText
<1>1. setting.bytes \in ByteTables /\ streamed = <<>> /\ last_full = 0
  BY DEF GenInit
<1>2. GenTypes /\ gids = call.prompt
  BY GenInitInv DEF GenInv, GenInit
<1>3. /\ Len(Generated) = 0 /\ gids \in Seq(Tokens)
      /\ Len(gids) \in Nat /\ Generated = SubSeq(gids, Len(gids) + 1, Len(gids))
  <2>1. Len(Generated) = Len(gids) - Len(call.prompt) /\ Len(gids) \in Nat
    BY <1>2, GeneratedLength
  <2>2. Len(gids) - Len(gids) = 0
    BY <2>1
  <2> QED BY <1>2, <2>1, <2>2 DEF GenTypes, Generated
<1>4. Generated = <<>>
  BY <1>3
<1>5. Characters(BytesOf(Generated), 0)
  <2> DEFINE s == [i \in DOMAIN Generated |-> setting.bytes[Generated[i]]]
  <2>1. s = <<>>
    BY <1>4
  <2>2. Len(s) = 0 /\ IsSeq(s, 0)
    BY <2>1 DEF IsSeq
  <2>3. BytesOf(Generated) = s
    BY <2>2 DEF BytesOf, FlattenSeq
  <2> HIDE DEF s
  <2> QED BY <2>2, <2>3 DEF Characters
<1>6. streamed = Ascii(0)
  BY <1>1 DEF Ascii
<1> QED BY <1>1, <1>5, <1>6 DEF GenText

\* A step sends what its token adds.
LEMMA GenTextStep ==
    ASSUME GenInv, GenText, [GenNext]_genVars
    PROVE  GenText'
<1>1. ASSUME call' = call, setting' = setting, gids' = gids,
             streamed' = streamed, last_full' = last_full
      PROVE  GenText'
  <2>1. Generated' = Generated
    BY <1>1 DEF Generated
  <2>2. BytesOf(Generated)' = BytesOf(Generated)
    BY <1>1, <2>1 DEF BytesOf
  <2>3. WholeTokens' <=> WholeTokens
    BY <1>1 DEF WholeTokens
  <2> QED BY <1>1, <2>2, <2>3 DEF GenText
<1>2. CASE Emit
  <2> DEFINE more == Append(Generated, NextId)
             full == Text(more)
  <2>1. /\ gpc = "step" /\ Len(Generated) < call.max_new
        /\ gids' = Append(gids, NextId) /\ call' = call /\ setting' = setting
        /\ streamed' = streamed \o SubSeq(full, last_full + 1, Len(full))
        /\ last_full' = Len(full)
    BY <1>2 DEF Emit, Going
  <2>2. NextId \in Tokens
    BY <2>1, NextIsGreedy
  <2>3. /\ Len(Generated) \in Nat /\ IsSeq(Generated, Len(Generated))
        /\ Generated' = more
    BY <2>1, <2>2, GeneratedAppend DEF GenInv
  <2>4. WholeTokens' <=> WholeTokens
    BY <2>1 DEF WholeTokens
  <2>5. ASSUME WholeTokens
        PROVE  /\ Characters(BytesOf(Generated)', last_full')
               /\ streamed' = Ascii(last_full')
    <3>1. Characters(BytesOf(Generated), last_full) /\ streamed = Ascii(last_full)
          /\ setting.bytes \in ByteTables /\ last_full \in Nat
      BY <2>5 DEF GenText, Characters
    <3>2. PICK d \in Nat : Characters(BytesOf(more), last_full + d)
      <4> DEFINE m == Len(Generated)
      <4> HIDE DEF m
      <4>1. m \in Nat /\ IsSeq(Generated, m)
        BY <2>3 DEF m
      <4> QED BY <2>2, <2>5, <3>1, <4>1, PlainAppend
    <3>3. full = Ascii(last_full + d)
      <4> HIDE DEF more
      <4> QED BY <3>2, PlainText
    <3>4. /\ Len(full) = last_full + d
          /\ Ascii(last_full) \o SubSeq(full, last_full + 1, Len(full))
                = Ascii(last_full + d)
      BY <3>1, <3>3, AsciiRest
    <3> HIDE DEF full
    <3>5. BytesOf(Generated)' = BytesOf(more)
      <4>1. BytesOf(Generated)' = FlattenSeq([i \in DOMAIN Generated' |->
                                                 setting'.bytes[Generated'[i]]])
        BY DEF BytesOf
      <4> HIDE DEF more
      <4> QED BY <2>1, <2>3, <4>1 DEF BytesOf
    <3> HIDE DEF more
    <3> QED BY <2>1, <3>1, <3>2, <3>4, <3>5
  <2>6. setting'.bytes \in ByteTables
    BY <2>1 DEF GenText
  <2> QED BY <2>4, <2>5, <2>6 DEF GenText
<1>3. CASE Start \/ Stop \/ Exhaust \/ UNCHANGED genVars
  <2>1. /\ call' = call /\ setting' = setting /\ gids' = gids
        /\ streamed' = streamed /\ last_full' = last_full
    BY <1>3 DEF Start, Stop, Exhaust, genVars
  <2> QED BY <1>1, <2>1
<1> QED BY <1>2, <1>3 DEF GenNext

\* generate and generate_stream implement plain greedy generation, with a
\* state that is carried along or without one, end for the reason they report
\* and never past the context; and where tokens are whole characters, the
\* deltas that were sent are the text.
THEOREM GenerateAlwaysExact == GenSpec => GenerateExact
<1> DEFINE Sent == WholeTokens => streamed = Text(Generated)
           Exact == /\ setting.context # 0 =>
                          Len(gids) <= setting.context \/ Len(Generated) <= 1
                    /\ gpc = "done" =>
                          IF reason = "stop"
                          THEN Greedy(call.model, gids) \in StopIds
                          ELSE \/ Len(Generated) = call.max_new
                               \/ setting.context # 0 /\ Len(gids) >= setting.context
                    /\ Sent
<1>1. GenInit => GenPlain!GreedyInit /\ GenInv /\ GenText
  BY GenInitInv, GenTextInit
<1>2. GenInv /\ GenText /\ [GenNext]_genVars
          => GenInv' /\ GenText' /\ [GenPlain!Emit]_(GenPlain!greedyVars)
  BY GenStep, GenTextStep
<1>3. GenText => Sent
  BY PlainText DEF GenText
<1>4. GenInv /\ GenText => Exact
  <2> HIDE DEF Sent
  <2> QED BY <1>3 DEF GenInv, GenEnds
<1>5. GenSpec => GenPlain!GreedySpec /\ []Exact
  <2> HIDE DEF Exact
  <2> QED BY <1>1, <1>2, <1>4, PTL DEF GenSpec, GenPlain!GreedySpec
<1> QED BY <1>5 DEF GenerateExact

=============================================================================
