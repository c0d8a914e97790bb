---------------------------- MODULE ProgramSource ----------------------------
(***************************************************************************)
(* vsp_uword_program_source: the sequential fetch engine of the control    *)
(* stream.  It walks one half-open byte range [startPc, endPc), keeps at   *)
(* most one store request outstanding, holds the response as a bundle      *)
(* until the framer takes it, and restarts at another PC on a redirect.    *)
(*                                                                         *)
(* Every action is one clock edge; which one a cycle performs follows from *)
(* the handshakes of that cycle, which are mutually exclusive by state.  A *)
(* payload register that is dead because its valid bit is low is kept at   *)
(* its null value.                                                         *)
(*                                                                         *)
(* An operator marked (mutant) is a broken variant of the operator below   *)
(* it; no specification uses it.                                           *)
(*                                                                         *)
(* The control store behind the request port is external: it keeps one     *)
(* accepted request and answers it any number of cycles later, with the    *)
(* requested words or with a fault.                                        *)
(***************************************************************************)
EXTENDS ControlStream

VARIABLES
  pc, startPc, endPc, rangeValid, running,
  outstanding,  \* request_outstanding_q
  discard,      \* discard_response_q: the outstanding answer is poisoned
  req,          \* request_{pc,word_count,last}_q
  bundleValid,
  bundle,       \* bundle_{words,word_count,base_pc,last}_q
  deliveryDone, storeFault, sourceError,
  store         \* external: the request the store has accepted

progVars == <<pc, startPc, endPc, rangeValid>>
flowVars == <<running, outstanding, discard, req, bundleValid, bundle>>
sourceVars == <<progVars, flowVars, deliveryDone, storeFault, sourceError>>
storeVars == <<store>>
fetchVars == <<sourceVars, store>>

NoReq   == [pc |-> 0, count |-> 0, last |-> FALSE]
NoFetch == [busy |-> FALSE, pc |-> 0, count |-> 0]

SourceInit ==
  /\ pc = 0 /\ startPc = 0 /\ endPc = 0 /\ rangeValid = FALSE
  /\ running = FALSE /\ outstanding = FALSE /\ discard = FALSE
  /\ req = NoReq /\ bundleValid = FALSE /\ bundle = NoBundle
  /\ deliveryDone = FALSE /\ storeFault = FALSE /\ sourceError = FALSE

StoreInit == store = NoFetch

----------------------------------------------------------------------------
(* Outputs of the module. *)

SourceRunning == running \/ outstanding \/ bundleValid
StartReady    == ~running /\ ~outstanding /\ ~bundleValid
RangeOk(s, e) == Aligned(s) /\ Aligned(e) /\ s <= e

\* (mutant) a loop target before the launch range is let through
RedirectOkUnbounded(t) == rangeValid /\ Aligned(t) /\ t <= endPc

RedirectOk(t) == rangeValid /\ Aligned(t) /\ startPc <= t /\ t <= endPc

\* A redirect presented in this cycle, good or bad, holds the request back.
RequestValid(redirecting) ==
  running /\ ~outstanding /\ ~bundleValid /\ ~redirecting

ResponseReady == outstanding /\ ~bundleValid

RemainingWords == (endPc - pc) \div 4

\* (mutant) a whole bundle is asked for past the end of the range
RequestCountUnclamped == RemainingWords + 1

RequestCount   == IF RemainingWords > BundleWords THEN BundleWords
                                                  ELSE RemainingWords

----------------------------------------------------------------------------
(* One clock edge.  clear is protocol_error_clear_i, bad a redirect whose  *)
(* target is refused in this cycle; a new error wins over clear.           *)

SetSourceError(set, clear) == sourceError' = Sticky(sourceError, set, clear)
KeepStoreFault(clear)      == storeFault' = Sticky(storeFault, FALSE, clear)

\* What a redirect does with the response of the path it leaves: an
\* accepted request that is not answered in this very cycle stays, poisoned.
\* (mutant) the redirect cancels the request it cannot cancel
LeavesPoisonNever(drained) == FALSE

LeavesPoison(drained) == outstanding /\ ~drained

\* (mutant) the answer is taken for the current path
AnswerIsStaleNever == FALSE

AnswerIsStale == discard

\* start_fire: an empty range is delivered at once, a bad one is an error.
SourceStart(s, e, clear) ==
  /\ StartReady
  /\ \/ /\ ~RangeOk(s, e)
        /\ rangeValid' = FALSE
        /\ deliveryDone' = FALSE
        /\ SetSourceError(TRUE, clear)
        /\ KeepStoreFault(clear)
        /\ UNCHANGED <<pc, startPc, endPc>>
        /\ UNCHANGED flowVars
     \/ /\ RangeOk(s, e)
        /\ pc' = s /\ startPc' = s /\ endPc' = e /\ rangeValid' = TRUE
        /\ running' = Bit(s # e)
        /\ deliveryDone' = Bit(s = e)
        /\ discard' = FALSE
        /\ storeFault' = FALSE
        /\ SetSourceError(FALSE, clear)
        /\ UNCHANGED <<outstanding, req, bundleValid, bundle>>

\* store_req_fire
SourceRequest(clear) ==
  /\ RequestValid(FALSE)
  /\ outstanding' = TRUE
  /\ discard' = FALSE
  /\ req' = [pc |-> pc, count |-> RequestCount,
             last |-> Bit(RemainingWords <= BundleWords)]
  /\ deliveryDone' = FALSE
  /\ SetSourceError(FALSE, clear)
  /\ KeepStoreFault(clear)
  /\ UNCHANGED progVars
  /\ UNCHANGED <<running, bundleValid, bundle>>

\* store_rsp_fire without a committed redirect in the same cycle
SourceResponse(data, fault, bad, clear) ==
  /\ ResponseReady
  /\ outstanding' = FALSE
  /\ discard' = FALSE
  /\ req' = NoReq
  /\ deliveryDone' = FALSE
  /\ SetSourceError(bad, clear)
  /\ UNCHANGED progVars
  /\ \/ /\ AnswerIsStale
        /\ KeepStoreFault(clear)
        /\ UNCHANGED <<running, bundleValid, bundle>>
     \/ /\ ~AnswerIsStale /\ fault
        /\ running' = FALSE
        /\ storeFault' = TRUE
        /\ UNCHANGED <<bundleValid, bundle>>
     \/ /\ ~AnswerIsStale /\ ~fault
        /\ bundleValid' = TRUE
        /\ bundle' = [data |-> data, count |-> req.count,
                      base |-> req.pc, last |-> req.last]
        /\ KeepStoreFault(clear)
        /\ UNCHANGED running

\* bundle_fire: the consumer takes the held bundle
SourceTransfer(bad, clear) ==
  /\ bundleValid
  /\ bundleValid' = FALSE
  /\ bundle' = NoBundle
  /\ pc' = pc + 4 * bundle.count
  /\ running' = Bit(running /\ ~bundle.last)
  /\ deliveryDone' = bundle.last
  /\ SetSourceError(bad, clear)
  /\ KeepStoreFault(clear)
  /\ UNCHANGED <<startPc, endPc, rangeValid, outstanding, discard, req>>

\* redirect_commit; drained says that the old response transfers right now.
SourceRedirect(t, drained, clear) ==
  /\ RedirectOk(t)
  /\ drained => ResponseReady
  /\ pc' = t
  /\ bundleValid' = FALSE
  /\ bundle' = NoBundle
  /\ storeFault' = FALSE
  /\ deliveryDone' = Bit(t = endPc)
  /\ running' = Bit(t # endPc)
  /\ outstanding' = Bit(LeavesPoison(drained))
  /\ discard' = Bit(LeavesPoison(drained))
  /\ req' = IF LeavesPoison(drained) THEN req ELSE NoReq
  /\ SetSourceError(FALSE, clear)
  /\ UNCHANGED <<startPc, endPc, rangeValid>>

\* A cycle without any transfer: only the delivery pulse falls.
SourceQuiet(bad, clear) ==
  /\ deliveryDone' = FALSE
  /\ SetSourceError(bad, clear)
  /\ KeepStoreFault(clear)
  /\ UNCHANGED progVars
  /\ UNCHANGED flowVars

----------------------------------------------------------------------------
(* The store behind the port: the control store or an external provider.  *)

StoreAccept == store' = [busy |-> TRUE, pc |-> pc, count |-> RequestCount]
StoreAnswer == store.busy /\ store' = NoFetch

----------------------------------------------------------------------------
(* The source under an open environment: launches, redirects (legal or     *)
(* not), consumer and store all choose freely; a launch and a redirect     *)
(* never share a cycle.                                                    *)

Launch ==
  \E s, e \in PcInputs, clear \in BOOLEAN :
    SourceStart(s, e, clear) /\ UNCHANGED store

Fetch == \E clear \in BOOLEAN : SourceRequest(clear) /\ StoreAccept

Answer ==
  \E fault, bad, clear \in BOOLEAN :
    /\ SourceResponse(store.pc, fault, bad, clear)
    /\ StoreAnswer

Deliver ==
  \E bad, clear \in BOOLEAN : SourceTransfer(bad, clear) /\ UNCHANGED store

Redirect ==
  \E t \in PcInputs, clear \in BOOLEAN :
    \/ SourceRedirect(t, FALSE, clear) /\ UNCHANGED store
    \/ SourceRedirect(t, TRUE, clear) /\ StoreAnswer

Quiet ==
  \E bad, clear \in BOOLEAN : SourceQuiet(bad, clear) /\ UNCHANGED store

FetchInit == SourceInit /\ StoreInit
FetchNext == Launch \/ Fetch \/ Answer \/ Deliver \/ Redirect \/ Quiet

\* The store answers and the consumer takes what it is offered; nobody has
\* to launch or to redirect.  An answer also transfers under a redirect.
FetchFairness ==
  /\ WF_fetchVars(Fetch)
  /\ WF_fetchVars(Answer \/ \E t \in PcInputs, clear \in BOOLEAN :
                              SourceRedirect(t, TRUE, clear) /\ StoreAnswer)
  /\ WF_fetchVars(Deliver)

FetchSpec == FetchInit /\ [][FetchNext]_fetchVars /\ FetchFairness

----------------------------------------------------------------------------
(* Properties *)

Request == [pc : Nat, count : 0..BundleWords, last : BOOLEAN]

SourceFlagsOK ==
  /\ rangeValid \in BOOLEAN /\ running \in BOOLEAN
  /\ outstanding \in BOOLEAN /\ discard \in BOOLEAN
  /\ bundleValid \in BOOLEAN /\ deliveryDone \in BOOLEAN
  /\ storeFault \in BOOLEAN /\ sourceError \in BOOLEAN

SourcePcsOK == pc \in Nat /\ startPc \in Nat /\ endPc \in Nat

\* Every register holds a value of its declared range.
SourceTypeOK ==
  /\ SourceFlagsOK
  /\ SourcePcsOK
  /\ req \in Request
  /\ bundle \in Bundle
  /\ store \in [busy : BOOLEAN, pc : Nat, count : 0..BundleWords]

\* No response of an abandoned path reaches the framer: the held bundle is
\* exactly the next words of the current path, whatever redirects and late
\* answers came before it, and it is marked last iff it reaches endPc.
BundleIsCurrentPath ==
  bundleValid =>
    /\ bundle.base = pc
    /\ bundle.data = pc
    /\ bundle.count > 0
    /\ pc + 4 * bundle.count <= endPc
    /\ bundle.last <=> (pc + 4 * bundle.count = endPc)

\* The source's account of its obligation and the store's agree: it waits
\* iff the store owes an answer, so none is orphaned and none awaited twice.
OneObligation ==
  /\ outstanding <=> store.busy
  /\ outstanding => ~bundleValid /\ store.pc = req.pc /\ store.count = req.count
  /\ discard => outstanding

\* Fetch never leaves the launch range, and it runs exactly while words of
\* the current path remain (or a fault stopped it).
FetchInRange ==
  /\ SourceRunning => rangeValid
  /\ rangeValid => /\ Aligned(pc) /\ startPc <= pc /\ pc <= endPc
                   /\ running => pc < endPc

\* The strengthening the four invariants above need: a live request is the
\* next request of the current path, and the range itself is well formed.
LiveRequest ==
  /\ outstanding /\ ~discard =>
       /\ running
       /\ req.pc = pc /\ req.count = RequestCount
       /\ req.last <=> RemainingWords <= BundleWords
  /\ bundleValid => running
  /\ rangeValid => Aligned(startPc) /\ Aligned(endPc) /\ startPc <= endPc

\* While an answer is poisoned the new path runs, unless it is empty.
PoisonedPathRuns ==
  /\ discard /\ pc # endPc => running
  /\ discard /\ pc = endPc => ~running

SourceIInv ==
  /\ SourceTypeOK
  /\ BundleIsCurrentPath
  /\ OneObligation
  /\ FetchInRange
  /\ LiveRequest
  /\ PoisonedPathRuns

\* A fault stops the path it belongs to and nothing else: after a redirect
\* the poisoned answer, faulting or not, cannot stop the new path.
PoisonedAnswerIsSilent ==
  [][discard /\ ~discard' =>
       /\ storeFault' => storeFault
       /\ pc' = pc => running' = running]_fetchVars
============================================================================
