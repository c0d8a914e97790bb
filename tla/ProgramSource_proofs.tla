------------------------ MODULE ProgramSource_proofs ------------------------
(***************************************************************************)
(* TLAPS proofs about the fetch engine, for every bundle width and every   *)
(* set of presented PCs.  The induction carries SourceIInv; each action    *)
(* gets one lemma, with one step per conjunct it can disturb.              *)
(***************************************************************************)
EXTENDS ProgramSource, TLAPS

LEMMA BundleWordsFacts ==
  BundleWords \in Nat /\ BundleWords > 0 /\ 0 \in 0..BundleWords
BY StreamAssumption

LEMMA WordSpan ==
  ASSUME NEW a \in Nat, NEW b \in Nat, Aligned(a), Aligned(b), a <= b
  PROVE  /\ (b - a) \div 4 \in Nat
         /\ 4 * ((b - a) \div 4) = b - a
BY SMT DEF Aligned

LEMMA AlignedStep ==
  ASSUME NEW a \in Nat, NEW n \in Nat, Aligned(a)
  PROVE  Aligned(a + 4 * n)
BY SMT DEF Aligned

\* What one request asks for: at least one word, at most a bundle, and it is
\* the last one iff it reaches the end of the range.
LEMMA RequestShape ==
  ASSUME SourcePcsOK, FetchInRange, LiveRequest, rangeValid, pc < endPc
  PROVE  /\ RequestCount \in 1..BundleWords
         /\ pc + 4 * RequestCount <= endPc
         /\ (RemainingWords <= BundleWords) <=> (pc + 4 * RequestCount = endPc)
<1>1. /\ pc \in Nat /\ endPc \in Nat /\ Aligned(pc) /\ Aligned(endPc)
      /\ pc <= endPc
  BY DEF SourcePcsOK, FetchInRange, LiveRequest
<1>2. RemainingWords \in Nat /\ 4 * RemainingWords = endPc - pc
  BY <1>1, WordSpan DEF RemainingWords
<1>3. BundleWords \in Nat /\ BundleWords > 0
  BY BundleWordsFacts
<1> QED
  BY <1>1, <1>2, <1>3 DEF RequestCount

LEMMA SourceInitInv == FetchInit => SourceIInv
<1> SUFFICES ASSUME FetchInit PROVE SourceIInv
  OBVIOUS
<1>1. SourceTypeOK
  BY BundleWordsFacts
  DEF FetchInit, SourceInit, StoreInit, SourceTypeOK, SourceFlagsOK,
      SourcePcsOK, Request, Bundle, NoReq, NoBundle, NoFetch
<1>2. /\ BundleIsCurrentPath /\ OneObligation /\ FetchInRange /\ LiveRequest
      /\ PoisonedPathRuns
  BY DEF FetchInit, SourceInit, StoreInit, NoFetch, BundleIsCurrentPath,
         OneObligation, FetchInRange, LiveRequest, SourceRunning,
         PoisonedPathRuns
<1> QED BY <1>1, <1>2 DEF SourceIInv

LEMMA StartInv ==
  ASSUME SourceIInv, NEW s \in PcInputs, NEW e \in PcInputs,
         NEW clear \in BOOLEAN, SourceStart(s, e, clear), UNCHANGED store
  PROVE  SourceIInv'
<1> USE DEF Bit, Sticky
<1>1. s \in Nat /\ e \in Nat
  BY StreamAssumption
<1>2. SourceFlagsOK /\ SourcePcsOK
  BY DEF SourceIInv, SourceTypeOK
<1>3. ~discard /\ ~outstanding /\ ~bundleValid /\ ~running
  BY DEF SourceIInv, OneObligation, SourceStart, StartReady
<1>4. CASE ~RangeOk(s, e)
  <2>1. /\ rangeValid' = FALSE
        /\ UNCHANGED <<pc, startPc, endPc, running, outstanding, discard, req,
                       bundleValid, bundle, store>>
    BY <1>4 DEF SourceStart, flowVars
  <2>2. SourceFlagsOK'
    BY <1>2, <1>4
    DEF SourceStart, SourceFlagsOK, SetSourceError, KeepStoreFault, flowVars
  <2>3. SourceTypeOK'
    BY <2>1, <2>2 DEF SourceIInv, SourceTypeOK, SourcePcsOK
  <2>4. (/\ BundleIsCurrentPath /\ FetchInRange /\ LiveRequest
         /\ PoisonedPathRuns)'
    BY <1>2, <1>3, <2>1
    DEF SourceFlagsOK, BundleIsCurrentPath, FetchInRange, LiveRequest,
        PoisonedPathRuns, SourceRunning
  <2>5. OneObligation'
    BY <2>1 DEF SourceIInv, OneObligation
  <2> QED BY <2>3, <2>4, <2>5 DEF SourceIInv
<1>5. CASE RangeOk(s, e)
  <2>1. /\ pc' = s /\ startPc' = s /\ endPc' = e /\ rangeValid' = TRUE
        /\ running' = Bit(s # e) /\ discard' = FALSE
        /\ UNCHANGED <<outstanding, req, bundleValid, bundle, store>>
    BY <1>5 DEF SourceStart
  <2>2. SourceFlagsOK'
    BY <1>2, <1>5 DEF SourceStart, SourceFlagsOK, SetSourceError
  <2>3. SourceTypeOK'
    BY <1>1, <2>1, <2>2 DEF SourceIInv, SourceTypeOK, SourcePcsOK
  <2>4. (BundleIsCurrentPath /\ PoisonedPathRuns)'
    BY <1>2, <1>3, <2>1
    DEF SourceFlagsOK, BundleIsCurrentPath, PoisonedPathRuns
  <2>5. (FetchInRange /\ LiveRequest)'
    BY <1>1, <1>2, <1>3, <1>5, <2>1
    DEF SourceFlagsOK, RangeOk, FetchInRange, LiveRequest, SourceRunning
  <2>6. OneObligation'
    BY <1>3, <2>1 DEF SourceIInv, OneObligation
  <2> QED BY <2>3, <2>4, <2>5, <2>6 DEF SourceIInv
<1> QED BY <1>4, <1>5

LEMMA RequestInv ==
  ASSUME SourceIInv, NEW clear \in BOOLEAN, SourceRequest(clear), StoreAccept
  PROVE  SourceIInv'
<1> USE DEF Bit, Sticky
<1>1. SourceFlagsOK /\ SourcePcsOK /\ running /\ ~outstanding /\ ~bundleValid
  BY DEF SourceIInv, SourceTypeOK, SourceRequest, RequestValid
<1>2. /\ outstanding' = TRUE /\ discard' = FALSE
      /\ req' = [pc |-> pc, count |-> RequestCount,
                 last |-> Bit(RemainingWords <= BundleWords)]
      /\ store' = [busy |-> TRUE, pc |-> pc, count |-> RequestCount]
      /\ UNCHANGED <<pc, startPc, endPc, rangeValid, running, bundleValid,
                     bundle>>
  BY DEF SourceRequest, StoreAccept, progVars
<1>3. RequestCount \in 1..BundleWords /\ RequestCount \in 0..BundleWords
  <2>1. rangeValid /\ pc < endPc
    BY <1>1 DEF SourceIInv, FetchInRange, SourceRunning
  <2>2. RequestCount \in 1..BundleWords
    BY <1>1, <2>1, RequestShape DEF SourceIInv
  <2> QED BY <2>2, BundleWordsFacts
<1>4. SourceFlagsOK'
  BY <1>1, <1>2
  DEF SourceRequest, SourceFlagsOK, SetSourceError, KeepStoreFault
<1>5. SourceTypeOK'
  BY <1>1, <1>2, <1>3, <1>4
  DEF SourceIInv, SourceTypeOK, SourcePcsOK, Request
<1>6. (BundleIsCurrentPath /\ OneObligation /\ PoisonedPathRuns)'
  BY <1>1, <1>2
  DEF SourceFlagsOK, BundleIsCurrentPath, OneObligation, PoisonedPathRuns
<1>7. (FetchInRange /\ LiveRequest)'
  BY <1>1, <1>2
  DEF SourceIInv, SourceFlagsOK, FetchInRange, LiveRequest, SourceRunning,
      RequestCount, RemainingWords
<1> QED BY <1>5, <1>6, <1>7 DEF SourceIInv

LEMMA ResponseInv ==
  ASSUME SourceIInv, NEW fault \in BOOLEAN, NEW bad \in BOOLEAN,
         NEW clear \in BOOLEAN,
         SourceResponse(store.pc, fault, bad, clear), StoreAnswer
  PROVE  SourceIInv'
<1> USE DEF Bit, Sticky
<1>1. SourceFlagsOK /\ SourcePcsOK /\ outstanding /\ ~bundleValid
  BY DEF SourceIInv, SourceTypeOK, SourceResponse, AnswerIsStale, ResponseReady
<1>2. /\ outstanding' = FALSE /\ discard' = FALSE
      /\ req' = NoReq /\ store' = NoFetch
      /\ UNCHANGED <<pc, startPc, endPc, rangeValid>>
  BY DEF SourceResponse, AnswerIsStale, StoreAnswer, progVars
<1>3. req' \in Request /\ store' \in [busy : BOOLEAN, pc : Nat,
                                      count : 0..BundleWords]
  BY <1>2, BundleWordsFacts DEF NoReq, NoFetch, Request
<1>4. OneObligation'
  BY <1>2 DEF NoFetch, OneObligation
<1>5. PoisonedPathRuns'
  BY <1>2 DEF PoisonedPathRuns
<1>6. CASE discard \/ fault
  <2>1. bundleValid' = FALSE /\ bundle' = bundle
        /\ (running' = FALSE \/ running' = running)
    BY <1>1, <1>6 DEF SourceResponse, AnswerIsStale, SourceFlagsOK
  <2>2. SourceFlagsOK'
    BY <1>1, <1>2, <1>6
    DEF SourceResponse, AnswerIsStale, SourceFlagsOK, SetSourceError, KeepStoreFault
  <2>3. SourceTypeOK'
    BY <1>1, <1>2, <1>3, <2>1, <2>2 DEF SourceIInv, SourceTypeOK, SourcePcsOK
  <2>4. (BundleIsCurrentPath /\ FetchInRange /\ LiveRequest)'
    BY <1>1, <1>2, <2>1
    DEF SourceIInv, SourceFlagsOK, BundleIsCurrentPath, FetchInRange,
        LiveRequest, SourceRunning
  <2> QED BY <1>4, <1>5, <2>3, <2>4 DEF SourceIInv
<1>7. CASE ~discard /\ ~fault
  <2>1. /\ bundleValid' = TRUE /\ running' = running
        /\ bundle' = [data |-> store.pc, count |-> req.count,
                      base |-> req.pc, last |-> req.last]
    BY <1>7 DEF SourceResponse, AnswerIsStale
  <2>2. SourceFlagsOK'
    BY <1>1, <1>2, <1>7, <2>1
    DEF SourceResponse, AnswerIsStale, SourceFlagsOK, SetSourceError, KeepStoreFault
  <2>3. bundle' \in Bundle
    BY <2>1 DEF SourceIInv, SourceTypeOK, Request, Bundle
  <2>4. SourceTypeOK'
    BY <1>1, <1>2, <1>3, <2>2, <2>3 DEF SourceTypeOK, SourcePcsOK
  <2>5. /\ running /\ rangeValid /\ pc < endPc
        /\ store.pc = pc /\ req.pc = pc /\ req.count = RequestCount
        /\ req.last <=> RemainingWords <= BundleWords
    BY <1>1, <1>7
    DEF SourceIInv, LiveRequest, OneObligation, FetchInRange, SourceRunning
  <2>6. /\ RequestCount \in 1..BundleWords
        /\ pc + 4 * RequestCount <= endPc
        /\ (RemainingWords <= BundleWords)
              <=> (pc + 4 * RequestCount = endPc)
    BY <1>1, <2>5, RequestShape DEF SourceIInv
  <2>7. BundleIsCurrentPath'
    BY <1>2, <2>1, <2>5, <2>6 DEF BundleIsCurrentPath
  <2>8. (FetchInRange /\ LiveRequest)'
    BY <1>1, <1>2, <2>1, <2>5
    DEF SourceIInv, SourceFlagsOK, FetchInRange, LiveRequest, SourceRunning
  <2> QED BY <1>4, <1>5, <2>4, <2>7, <2>8 DEF SourceIInv
<1> QED BY <1>6, <1>7

LEMMA TransferInv ==
  ASSUME SourceIInv, NEW bad \in BOOLEAN, NEW clear \in BOOLEAN,
         SourceTransfer(bad, clear), UNCHANGED store
  PROVE  SourceIInv'
<1> USE DEF Bit, Sticky
<1>1. SourceFlagsOK /\ SourcePcsOK /\ bundleValid
  BY DEF SourceIInv, SourceTypeOK, SourceTransfer
<1>2. /\ bundleValid' = FALSE /\ bundle' = NoBundle
      /\ pc' = pc + 4 * bundle.count
      /\ running' = Bit(running /\ ~bundle.last)
      /\ UNCHANGED <<startPc, endPc, rangeValid, outstanding, discard, req,
                     store>>
  BY DEF SourceTransfer
<1>3. bundle.count \in Nat /\ bundle.last \in BOOLEAN
  BY BundleWordsFacts DEF SourceIInv, SourceTypeOK, Bundle
<1>4. SourceFlagsOK'
  BY <1>1, <1>2, <1>3
  DEF SourceTransfer, SourceFlagsOK, SetSourceError, KeepStoreFault
<1>5. bundle' \in Bundle
  BY <1>2, BundleWordsFacts DEF NoBundle, Bundle
<1>6. SourcePcsOK'
  BY <1>1, <1>2, <1>3 DEF SourcePcsOK
<1>7. SourceTypeOK'
  BY <1>2, <1>4, <1>5, <1>6 DEF SourceIInv, SourceTypeOK
<1>8. /\ rangeValid /\ running /\ ~outstanding /\ ~discard
      /\ startPc <= pc /\ pc + 4 * bundle.count <= endPc
      /\ bundle.last <=> (pc + 4 * bundle.count = endPc)
  BY <1>1
  DEF SourceIInv, SourceFlagsOK, BundleIsCurrentPath, OneObligation,
      LiveRequest, FetchInRange, SourceRunning
<1>9. Aligned(pc + 4 * bundle.count)
  BY <1>1, <1>3, <1>8, AlignedStep DEF SourceIInv, SourcePcsOK, FetchInRange
<1>10. (/\ BundleIsCurrentPath /\ OneObligation /\ LiveRequest
        /\ PoisonedPathRuns)'
  BY <1>1, <1>2, <1>8
  DEF SourceIInv, SourceFlagsOK, BundleIsCurrentPath, OneObligation,
      LiveRequest, PoisonedPathRuns
<1>11. FetchInRange'
  BY <1>1, <1>2, <1>3, <1>8, <1>9
  DEF SourceFlagsOK, SourcePcsOK, FetchInRange, SourceRunning
<1> QED BY <1>7, <1>10, <1>11 DEF SourceIInv

LEMMA RedirectInv ==
  ASSUME SourceIInv, NEW t \in Nat, NEW drained \in BOOLEAN,
         NEW clear \in BOOLEAN, SourceRedirect(t, drained, clear),
         IF drained THEN StoreAnswer ELSE UNCHANGED store
  PROVE  SourceIInv'
<1> USE DEF Bit, Sticky
<1>1. SourceFlagsOK /\ SourcePcsOK
  BY DEF SourceIInv, SourceTypeOK
<1>2. /\ rangeValid /\ Aligned(t) /\ startPc <= t /\ t <= endPc
      /\ pc' = t /\ bundleValid' = FALSE /\ bundle' = NoBundle
      /\ running' = Bit(t # endPc)
      /\ outstanding' = Bit(outstanding /\ ~drained)
      /\ discard' = Bit(outstanding /\ ~drained)
      /\ UNCHANGED <<startPc, endPc, rangeValid>>
  BY DEF SourceRedirect, RedirectOk, LeavesPoison
<1>3. SourceFlagsOK'
  BY <1>1, <1>2 DEF SourceRedirect, LeavesPoison, SourceFlagsOK, SetSourceError
<1>4. bundle' \in Bundle
  BY <1>2, BundleWordsFacts DEF NoBundle, Bundle
<1>5. (/\ BundleIsCurrentPath /\ FetchInRange /\ LiveRequest
       /\ PoisonedPathRuns)'
  BY <1>1, <1>2
  DEF SourceIInv, SourceFlagsOK, SourcePcsOK, BundleIsCurrentPath,
      FetchInRange, LiveRequest, PoisonedPathRuns, SourceRunning
<1>6. CASE drained
  <2>1. outstanding' = FALSE /\ discard' = FALSE
        /\ req' = NoReq /\ store' = NoFetch
    BY <1>2, <1>6 DEF SourceRedirect, LeavesPoison, StoreAnswer
  <2>2. req' \in Request /\ store' \in [busy : BOOLEAN, pc : Nat,
                                        count : 0..BundleWords]
    BY <2>1, BundleWordsFacts DEF NoReq, NoFetch, Request
  <2>3. SourceTypeOK'
    BY <1>1, <1>2, <1>3, <1>4, <2>2 DEF SourceTypeOK, SourcePcsOK
  <2>4. OneObligation'
    BY <2>1 DEF NoFetch, OneObligation
  <2> QED BY <1>5, <2>3, <2>4 DEF SourceIInv
<1>7. CASE ~drained
  <2>1. /\ outstanding' = outstanding /\ discard' = outstanding
        /\ req' = IF outstanding THEN req ELSE NoReq
        /\ store' = store
    BY <1>1, <1>2, <1>7 DEF SourceRedirect, LeavesPoison, SourceFlagsOK
  <2>2. req' \in Request
    BY <2>1, BundleWordsFacts
    DEF SourceIInv, SourceTypeOK, NoReq, Request
  <2>3. SourceTypeOK'
    BY <1>1, <1>2, <1>3, <1>4, <2>1, <2>2
    DEF SourceIInv, SourceTypeOK, SourcePcsOK
  <2>4. OneObligation'
    <3>1. OneObligation
      BY DEF SourceIInv
    <3>2. CASE outstanding
      BY <1>2, <2>1, <3>1, <3>2 DEF OneObligation
    <3>3. CASE ~outstanding
      BY <1>2, <2>1, <3>1, <3>3 DEF OneObligation
    <3> QED BY <3>2, <3>3
  <2> QED BY <1>5, <2>3, <2>4 DEF SourceIInv
<1> QED BY <1>6, <1>7

LEMMA QuietInv ==
  ASSUME SourceIInv, NEW bad \in BOOLEAN, NEW clear \in BOOLEAN,
         SourceQuiet(bad, clear), UNCHANGED store
  PROVE  SourceIInv'
<1>1. UNCHANGED <<pc, startPc, endPc, rangeValid, running, outstanding,
                  discard, req, bundleValid, bundle, store>>
  BY DEF SourceQuiet, progVars, flowVars
<1>2. SourceFlagsOK'
  BY <1>1
  DEF SourceIInv, SourceTypeOK, SourceFlagsOK, SourceQuiet, SetSourceError,
      KeepStoreFault, Bit, Sticky
<1>3. SourceTypeOK'
  BY <1>1, <1>2 DEF SourceIInv, SourceTypeOK, SourcePcsOK
<1> QED
  BY <1>1, <1>3
  DEF SourceIInv, BundleIsCurrentPath, OneObligation, FetchInRange,
      LiveRequest, PoisonedPathRuns, SourceRunning, RequestCount,
      RemainingWords

LEMMA SourceStepInv == SourceIInv /\ [FetchNext]_fetchVars => SourceIInv'
<1> SUFFICES ASSUME SourceIInv, [FetchNext]_fetchVars
             PROVE  SourceIInv'
  OBVIOUS
<1>1. CASE UNCHANGED fetchVars
  <2>1. UNCHANGED <<pc, startPc, endPc, rangeValid, running, outstanding,
                    discard, req, bundleValid, bundle, deliveryDone,
                    storeFault, sourceError, store>>
    BY <1>1 DEF fetchVars, sourceVars, progVars, flowVars
  <2> QED
    BY <2>1
    DEF SourceIInv, SourceTypeOK, SourceFlagsOK, SourcePcsOK,
        BundleIsCurrentPath, OneObligation, FetchInRange, LiveRequest,
        PoisonedPathRuns, SourceRunning, RequestCount, RemainingWords
<1>2. CASE Launch
  BY <1>2, StartInv DEF Launch
<1>3. CASE Fetch
  BY <1>3, RequestInv DEF Fetch
<1>4. CASE Answer
  BY <1>4, ResponseInv DEF Answer
<1>5. CASE Deliver
  BY <1>5, TransferInv DEF Deliver
<1>6. CASE Redirect
  BY <1>6, RedirectInv, StreamAssumption DEF Redirect
<1>7. CASE Quiet
  BY <1>7, QuietInv DEF Quiet
<1> QED
  BY <1>1, <1>2, <1>3, <1>4, <1>5, <1>6, <1>7 DEF FetchNext

LEMMA SourceInductive == FetchSpec => []SourceIInv
BY SourceInitInv, SourceStepInv, PTL DEF FetchSpec

\* The registers of the fetch engine keep their declared ranges.
THEOREM SourceTypeCorrect == FetchSpec => []SourceTypeOK
<1>1. SourceIInv => SourceTypeOK
  BY DEF SourceIInv
<1> QED BY <1>1, SourceInductive, PTL

\* Redirect safety of the fetch engine: whatever redirects, faults and late
\* answers happen, the bundle offered is the next part of the current path.
THEOREM BundleCorrect == FetchSpec => []BundleIsCurrentPath
<1>1. SourceIInv => BundleIsCurrentPath
  BY DEF SourceIInv
<1> QED BY <1>1, SourceInductive, PTL

\* The source and the store never disagree about the answer that is owed.
THEOREM ObligationCorrect == FetchSpec => []OneObligation
<1>1. SourceIInv => OneObligation
  BY DEF SourceIInv
<1> QED BY <1>1, SourceInductive, PTL

\* Fetch stays inside the launch range.
THEOREM RangeCorrect == FetchSpec => []FetchInRange
<1>1. SourceIInv => FetchInRange
  BY DEF SourceIInv
<1> QED BY <1>1, SourceInductive, PTL

\* A poisoned answer, faulting or not, stops nothing and reports nothing.
THEOREM SilenceCorrect == FetchSpec => PoisonedAnswerIsSilent
<1>1. ASSUME SourceIInv, FetchNext, discard, ~discard'
      PROVE  /\ storeFault' => storeFault
             /\ pc' = pc => running' = running
  <2>1. outstanding /\ ~bundleValid /\ SourceFlagsOK
    BY <1>1 DEF SourceIInv, OneObligation, SourceTypeOK
  <2>2. CASE Answer
    BY <1>1, <2>1, <2>2
    DEF Answer, SourceResponse, AnswerIsStale, KeepStoreFault, Sticky, Bit, SourceFlagsOK
  <2>3. CASE Redirect
    <3>1. storeFault' = FALSE
      BY <2>3 DEF Redirect, SourceRedirect
    <3>2. ASSUME pc' = pc
          PROVE  running' = running
      <4>1. running' = Bit(pc # endPc)
        BY <2>3, <3>2 DEF Redirect, SourceRedirect
      <4> QED
        BY <1>1, <2>1, <4>1
        DEF SourceIInv, PoisonedPathRuns, SourceFlagsOK, Bit
    <3> QED BY <3>1, <3>2
  <2>4. ~Launch /\ ~Fetch /\ ~Deliver
    BY <2>1
    DEF Launch, Fetch, Deliver, SourceStart, StartReady, SourceRequest,
        RequestValid, SourceTransfer
  <2>5. CASE Quiet
    BY <1>1, <2>5 DEF Quiet, SourceQuiet, flowVars
  <2> QED BY <1>1, <2>2, <2>3, <2>4, <2>5 DEF FetchNext
<1>2. SourceIInv /\ [FetchNext]_fetchVars =>
        [discard /\ ~discard' =>
           /\ storeFault' => storeFault
           /\ pc' = pc => running' = running]_fetchVars
  BY <1>1
<1> QED
  BY <1>2, SourceInductive, PTL DEF FetchSpec, PoisonedAnswerIsSilent
============================================================================
