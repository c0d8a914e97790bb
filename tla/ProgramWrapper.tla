--------------------------- MODULE ProgramWrapper ---------------------------
(***************************************************************************)
(* vsp_uword_cluster_program_wrapper: runs one program.  It puts the fetch *)
(* engine, the framer, two holding registers (the raw record and its class *)
(* decode), the sequencer state engine, the branch unit and the cluster in *)
(* a row, keeps a single action in flight, restarts the front end on every *)
(* legal branch, and closes the program as done or failed.                 *)
(*                                                                         *)
(* One step is one clock edge of all of them: an action below is what the  *)
(* fetch engine does in the cycle, conjoined with what every other part    *)
(* does in it.  Of the sequencer's registers one is modelled, beside the   *)
(* register zero that always reads zero.                                   *)
(*                                                                         *)
(* An operator marked (mutant) is a broken variant of the operator below   *)
(* it; no specification uses it.                                           *)
(***************************************************************************)
EXTENDS ProgramSource, MultiFramer, ActionController

CONSTANTS
  StateValues,  \* 2^STATE_W, the values of a sequencer register
  HostClears,   \* the host launches only after clearing old fetch errors
  StaleLaunch   \* it may launch on a framer that expects an old PC

\* A displacement is an integer, and every word of a launch range reads as a
\* header of some kind.
ASSUME ProgramAssumption ==
  \A m \in Images :
    /\ \A a \in DOMAIN m : m[a].arg \in Int
    /\ \A s, e \in PcInputs : \A a \in s..(e - 1) : Aligned(a) => a \in DOMAIN m

VARIABLES
  raw,          \* action_record_*_q
  decoded,      \* decoded_action_*_q
  tag,          \* tag_q of the adapter
  stateReg,     \* state_q[0][1] of the state engine
  stateCpl,     \* cpl_valid_q, cpl_tag_q of the state engine
  branchCpl,    \* branch_cpl_*_q
  progStart, progEnd,          \* program_{start,end}_pc_q
  programActive, programDone, programFailed, programError,
  eofDone,                     \* eof_records_done_q
  endRetired, boundaryError, transportFailure,
  framerClear, framerAbort,    \* framer_clear_q, framer_stream_abort_q
  terminalDrain,               \* source_terminal_drain_q
  routerError,                 \* state_router_protocol_error_q
  storeError,                  \* protocol_error_o of the control store
  due,          \* history: where the next action of the program is
  cut           \* history: the current path was cut short

decodeVars == <<raw, decoded, tag>>
localVars  == <<stateReg, stateCpl, branchCpl>>
programVars == <<progStart, progEnd, programActive, programDone,
                 programFailed, programError>>
closeVars  == <<eofDone, endRetired, boundaryError, transportFailure>>
glueVars   == <<framerClear, framerAbort, terminalDrain, routerError,
                storeError>>
wrapperVars == <<fetchVars, image, framerVars, controllerVars, decodeVars,
                 localVars, programVars, closeVars, glueVars, due, cut>>

NoRecord  == [valid |-> FALSE, pc |-> 0, head |-> 0, size |-> 0]
NoDecoded == [valid |-> FALSE, pc |-> 0, head |-> 0, whole |-> FALSE,
              legal |-> FALSE, tag |-> 0, base |-> 0]
NoBranch  == [valid |-> FALSE, tag |-> 0, status |-> "OK"]

WrapperInit ==
  /\ FetchInit /\ FramerInit /\ ControllerInit /\ image \in Images
  /\ raw = NoRecord /\ decoded = NoDecoded /\ tag = 0
  /\ stateReg = 0 /\ stateCpl = NoTag /\ branchCpl = NoBranch
  /\ progStart = 0 /\ progEnd = 0 /\ programActive = FALSE
  /\ programDone = FALSE /\ programFailed = FALSE /\ programError = FALSE
  /\ eofDone = FALSE /\ endRetired = FALSE /\ boundaryError = FALSE
  /\ transportFailure = FALSE /\ framerClear = FALSE /\ framerAbort = FALSE
  /\ terminalDrain = FALSE /\ routerError = FALSE /\ storeError = FALSE
  /\ due = 0 /\ cut = FALSE

----------------------------------------------------------------------------
(* The decoders, by what a header of the image stands for.                 *)

Header(h) == image[h]
ClassOf(h) == IF Header(h).kind \in {"STATE", "BRANCH", "END"} THEN "CONTROL"
                                                        ELSE Header(h).kind

EndAllowed(p) == p + 4 = progEnd

RecordWhole(r) == r.size = Header(r.head).need
RecordLegal(r) ==
  /\ RecordWhole(r) /\ Header(r.head).legal
  /\ Header(r.head).kind = "END" => EndAllowed(r.pc)

\* The adapter samples the MEMORY base in the cycle it decodes.
Decode(r) == [valid |-> TRUE, pc |-> r.pc, head |-> r.head,
              whole |-> RecordWhole(r), legal |-> RecordLegal(r), tag |-> tag,
              base |-> IF Header(r.head).kind = "MEMORY" /\ RecordLegal(r)
                       THEN stateReg ELSE 0]

\* Only a complete record is recognised as a state or branch record.
IsState  == decoded.whole /\ Header(decoded.head).kind = "STATE"
IsBranch == decoded.whole /\ Header(decoded.head).kind = "BRANCH"

Canonical == [class |-> ClassOf(decoded.head), legal |-> decoded.legal,
              end |-> decoded.whole /\ Header(decoded.head).kind = "END",
              owned |-> TRUE, tag |-> decoded.tag]

StateResult(h) ==
  CASE Header(h).op = "SMOVI" -> Header(h).arg % StateValues
    [] Header(h).op = "SADDI" -> (stateReg + Header(h).arg) % StateValues
    [] Header(h).op = "SADD"  -> (stateReg + stateReg) % StateValues

----------------------------------------------------------------------------
(* Combinational signals of a cycle.                                       *)

StateBusy  == stateCpl.valid
BranchBusy == branchCpl.valid

\* (mutant) a decoded action may overtake a state command in flight
EnginesIdleButState == ~BranchBusy /\ ~ControllerBusy

EnginesIdle == ~StateBusy /\ ~BranchBusy /\ ~ControllerBusy

AdapterValid  == decoded.valid /\ programActive
StateSelected == AdapterValid /\ IsState /\ decoded.legal
BranchIssue   == AdapterValid /\ IsBranch /\ EnginesIdle

\* BNE r1, r0 and J; a target is a displacement from the header.
Taken  == Header(decoded.head).op = "J" \/ stateReg # 0
NextPc == IF Taken THEN decoded.pc + Header(decoded.head).arg
                   ELSE decoded.pc + 8

\* (mutant) a loop may jump to the end of the range
NextPcOkToEnd == /\ decoded.legal /\ Aligned(NextPc)
                 /\ progStart <= NextPc /\ NextPc <= progEnd

\* A taken target lies inside the range, a fall-through may be its end.
NextPcOk == /\ decoded.legal /\ Aligned(NextPc)
            /\ progStart <= NextPc /\ NextPc <= progEnd
            /\ Taken => NextPc < progEnd

BranchFire  == BranchIssue
Redirecting == BranchFire /\ NextPcOk

StateAck(ready)   == ready /\ StateBusy /\ ~BranchBusy
BranchAck(ready)  == ready /\ BranchBusy
ClusterAck(ready) == ready /\ cpl # NoCpl /\ ~BranchBusy /\ ~StateBusy

StateFire(ready) == /\ StateSelected /\ ~ControllerBusy /\ ~BranchBusy
                    /\ ~StateBusy \/ StateAck(ready)
ClusterFire == /\ AdapterValid /\ ~StateSelected /\ ~IsBranch
               /\ ~StateBusy /\ ~BranchBusy /\ CaptureReady
DecodedFire(ready) == StateFire(ready) \/ BranchFire \/ ClusterFire

\* (mutant) only the stage itself has to be free
DecodeFireEager == raw.valid /\ programActive /\ ~decoded.valid /\ ~Redirecting

DecodeFire == /\ raw.valid /\ programActive /\ ~decoded.valid
              /\ EnginesIdle /\ ~Redirecting

\* Only slot zero of the framer is ever ready.
\* The framer withholds both its sides while it aborts or flushes.
FramerOpen  == ~framerAbort /\ ~Redirecting
RecordReady == /\ ~raw.valid /\ programActive
               /\ ~StateBusy /\ ~BranchBusy /\ FramerOpen
RecordTaken == IF RecordReady THEN Accepted({1}) ELSE {}

\* From the cycle after END shows, bundles are drained past the framer.
FramerTakes == FramerOpen /\ BundleReady(bundle, RecordTaken)
BundleTaken == terminalDrain \/ FramerTakes
BundleFire  == bundleValid /\ BundleTaken

StartReadyNow ==
  /\ ~programActive /\ EnginesIdle /\ StartReady /\ FramerIdle
  /\ ~framerClear /\ ~raw.valid /\ ~decoded.valid

TransportFailureNow == storeFault \/ sourceError \/ framerError \/ storeError
BoundaryErrorNow == programActive /\ StopFetch /\ FoundPc + 4 # progEnd

\* At most one parent may be in flight.
Overlap == Cardinality({p \in {<<"STATE", StateBusy>>, <<"BRANCH", BranchBusy>>,
                               <<"CLUSTER", ControllerBusy>>} : p[2]}) > 1

Settled == /\ EnginesIdle /\ ~SourceRunning /\ ~raw.valid /\ ~decoded.valid
           /\ ~Redirecting
FinishSuccess ==
  /\ programActive /\ endRetired /\ ~boundaryError /\ Halted /\ Settled

FinishFailure ==
  /\ programActive /\ Settled /\ Records = {}
  /\ \/ boundaryError /\ Halted
     \/ eofDone /\ ~endRetired
     \/ transportFailure /\ (FramerIdle \/ Halted)

----------------------------------------------------------------------------
(* One clock edge, part by part.                                           *)

\* (mutant) an END already seen is not revoked, as in an abort
FlushesFramerBeforeEnd == Redirecting /\ terminalStop = FALSE

FlushesFramer == Redirecting

FramerCycle(clear) ==
  IF FlushesFramer THEN FramerFlush
  ELSE IF framerAbort THEN FramerAbort(clear)
  ELSE IF bundleValid /\ ~terminalDrain /\ FramerTakes
  THEN \/ FramerAppend(bundle, RecordTaken, clear)
       \/ FramerReject(bundle, RecordTaken, clear)
       \/ FramerSwallow(bundle, clear)
  ELSE FramerShift(RecordTaken, framerClear, clear)

FlushesRaw == Redirecting

RawCycle ==
  raw' = IF FlushesRaw THEN NoRecord
         ELSE IF RecordTaken # {}
         THEN [valid |-> TRUE, pc |-> basePc, head |-> words[1],
               size |-> Present(1)]
         ELSE IF DecodeFire THEN NoRecord ELSE raw

DecodeCycle(ready) ==
  decoded' = IF DecodeFire THEN Decode(raw)
             ELSE IF DecodedFire(ready) THEN NoDecoded ELSE decoded

TagCycle == tag' = IF DecodeFire THEN (tag + 1) % Cardinality(Tags) ELSE tag

StateCycle(ready) ==
  /\ stateReg' = IF StateFire(ready) THEN StateResult(decoded.head)
                                     ELSE stateReg
  /\ stateCpl' = IF StateFire(ready) THEN [valid |-> TRUE, tag |-> decoded.tag]
                 ELSE IF StateAck(ready) THEN NoTag ELSE stateCpl

BranchCycle(ready) ==
  branchCpl' = IF BranchFire
               THEN [valid |-> TRUE, tag |-> decoded.tag,
                     status |-> IF ~decoded.legal THEN "DECODE_ERROR"
                                ELSE IF NextPcOk THEN "OK"
                                ELSE "CONTROL_ERROR"]
               ELSE IF BranchAck(ready) THEN NoBranch ELSE branchCpl

\* The engines of the cluster are registered: they answer later, and only
\* what they were given.  When results have drained is up to their consumer.
Answers(class) == [valid : {TRUE}, tag : {active.tag}, error : BOOLEAN]

ClusterCycle(ready, clear) ==
  \/ ClusterFire /\ Capture(Canonical, FALSE, clear)
  \/ RejectLocally(FALSE, clear)
  \/ StartEngine(NoDone, FALSE, clear)
  \/ StartEnd(FALSE, clear)
  \/ \E class \in Engines : \E done \in Answers(class) :
       FinishEngine(class, done, FALSE, clear)
  \/ FinishEnd(TRUE, FALSE, clear)
  \/ ClusterAck(ready) /\ RetireAction(FALSE, clear)
  \/ ~ClusterFire /\ ~ClusterAck(ready) /\ ControllerStall(FALSE, clear)

\* The store reports a write outside its window; only an idle host writes.
StoreCycle(clear) ==
  \E badWrite \in BOOLEAN :
    /\ badWrite => ~programActive /\ ~SourceRunning /\ ~store.busy
    /\ storeError' = Sticky(storeError, badWrite, clear)

DrainStops(starting) == starting \/ Redirecting

\* (mutant) only a successful program gives the halted framer back
ClearsFramerOnDone == programDone /\ Halted /\ ~framerClear

ClearsFramer == ~programActive /\ Halted /\ ~framerClear

GlueCycle(starting, clear) ==
  /\ routerError' = Sticky(routerError, Overlap, clear)
  /\ terminalDrain' = Bit(/\ ~DrainStops(starting)
                          /\ \/ StopFetch
                             \/ terminalDrain /\ (programActive \/ ~FramerIdle))
  /\ framerClear' = Bit(ClearsFramer)
  /\ framerAbort' = Bit(/\ programActive
                        /\ transportFailure \/ TransportFailureNow
                        /\ ~StopFetch /\ Records = {} /\ ~FramerIdle /\ ~Halted
                        /\ ~framerAbort /\ ~Redirecting)

\* The status of the completion that transfers in this cycle
BadCompletion(ready) ==
  \/ BranchAck(ready) /\ branchCpl.status # "OK"
  \/ ClusterAck(ready) /\ cpl.status # "OK"

KeepClosing == UNCHANGED closeVars

\* Closing flags of a running program; a redirect revokes what the path it
\* leaves has caused, also in this very cycle.
\* (mutant) a fetch fault of the abandoned path stays
RevokedFaultKept(flag, now) == Bit(flag \/ now)

Revoked(flag, now) == Bit(~Redirecting /\ (flag \/ now))

\* (mutant) an empty range, which brings no bundle, brings no end of file
EofNowFramed == framesDone

EofNow == framesDone \/ (deliveryDone /\ FramerIdle)

ClosingCycle(ready) ==
  /\ eofDone' = Revoked(eofDone, EofNow)
  /\ boundaryError' = Revoked(boundaryError, BoundaryErrorNow)
  /\ transportFailure' = Revoked(transportFailure, TransportFailureNow)
  /\ endRetired' = Bit(endRetired \/ (ClusterAck(ready) /\ EndRetires))

LifecycleIdle(clear) ==
  /\ ~programActive
  /\ programDone' = FALSE /\ programFailed' = FALSE
  /\ programError' = Sticky(programError, FALSE, clear)
  /\ UNCHANGED <<progStart, progEnd, programActive>>
  /\ KeepClosing

LifecycleRun(ready) ==
  /\ programActive
  /\ ClosingCycle(ready)
  /\ programActive' = Bit(~FinishSuccess /\ ~FinishFailure)
  /\ programDone' = Bit(FinishSuccess)
  /\ programFailed' = Bit(FinishFailure /\ ~FinishSuccess)
  /\ programError' = Bit(\/ programError \/ ctrlError \/ routerError \/ Overlap
                         \/ BadCompletion(ready)
                         \/ FinishFailure /\ ~FinishSuccess)
  /\ UNCHANGED <<progStart, progEnd>>

LifecycleStart(s, e) ==
  /\ progStart' = s /\ progEnd' = e /\ programActive' = TRUE
  /\ programDone' = FALSE /\ programFailed' = FALSE /\ programError' = FALSE
  /\ eofDone' = FALSE /\ endRetired' = FALSE
  /\ boundaryError' = FALSE /\ transportFailure' = FALSE

----------------------------------------------------------------------------
(* History: the place of the program's next action, and whether the words  *)
(* of the current path ended before its end.                               *)

Follow(p) ==
  IF Redirecting THEN NextPc
  ELSE LET left == (progEnd - p) \div 4
       IN  p + 4 * (IF Header(decoded.head).need <= left
                    THEN Header(decoded.head).need ELSE left)

HistoryCycle(ready) ==
  /\ due' = IF DecodedFire(ready) THEN Follow(decoded.pc) ELSE due
  /\ cut' = Bit(/\ ~Redirecting
                /\ \/ cut
                   \/ storeFault'
                   \/ /\ DecodedFire(ready) /\ ~decoded.legal
                      /\ Header(decoded.head).kind = "END")

Rest(ready, clear) ==
  /\ FramerCycle(clear) /\ RawCycle /\ DecodeCycle(ready) /\ TagCycle
  /\ StateCycle(ready) /\ BranchCycle(ready) /\ ClusterCycle(ready, clear)
  /\ StoreCycle(clear) /\ GlueCycle(FALSE, clear)
  /\ LifecycleIdle(clear) \/ LifecycleRun(ready)
  /\ HistoryCycle(ready)
  /\ UNCHANGED image

----------------------------------------------------------------------------
(* The cycles, by what the fetch engine does.                              *)

\* start_fire: nothing else can happen in this cycle
LaunchCycle ==
  \E s, e \in PcInputs, clear \in BOOLEAN :
    /\ StartReadyNow
    /\ SourceStart(s, e, clear) /\ UNCHANGED store
    /\ FramerShift({}, FALSE, clear)
    /\ ControllerStall(FALSE, clear)
    /\ StoreCycle(clear) /\ GlueCycle(TRUE, clear)
    /\ expectedValid => StaleLaunch
    /\ HostClears => ~sourceError /\ ~framerError /\ ~storeError'
    /\ LifecycleStart(s, e)
    /\ tag' = 0 /\ due' = s /\ cut' = Bit(~RangeOk(s, e))
    /\ UNCHANGED <<image, raw, decoded, localVars>>

RefusedRedirect == Redirecting /\ ~RedirectOk(NextPc)
Commits == Redirecting /\ RedirectOk(NextPc)

RedirectCycle ==
  \E ready, clear \in BOOLEAN :
    /\ Commits
    /\ \/ SourceRedirect(NextPc, FALSE, clear) /\ UNCHANGED store
       \/ SourceRedirect(NextPc, TRUE, clear) /\ StoreAnswer
    /\ Rest(ready, clear)

RequestCycle ==
  \E ready, clear \in BOOLEAN :
    /\ ~Redirecting
    /\ SourceRequest(clear) /\ StoreAccept
    /\ Rest(ready, clear)

ResponseCycle ==
  \E ready, clear, fault \in BOOLEAN :
    /\ ~Commits
    /\ StoreAnswer /\ SourceResponse(store.pc, fault, RefusedRedirect, clear)
    /\ Rest(ready, clear)

TransferCycle ==
  \E ready, clear \in BOOLEAN :
    /\ ~Commits /\ BundleTaken
    /\ SourceTransfer(RefusedRedirect, clear) /\ UNCHANGED store
    /\ Rest(ready, clear)

QuietCycle ==
  \E ready, clear \in BOOLEAN :
    /\ ~Commits /\ ~BundleFire
    /\ SourceQuiet(RefusedRedirect, clear) /\ UNCHANGED store
    /\ Rest(ready, clear)

WrapperNext ==
  \/ LaunchCycle \/ RedirectCycle \/ RequestCycle \/ ResponseCycle
  \/ TransferCycle \/ QuietCycle

\* The store accepts and answers, the engines do, completions are taken, and
\* the clock runs.  Nobody has to launch a program.
ConsumerMoves ==
  /\ WrapperNext
  /\ \/ StateBusy /\ ~stateCpl'.valid
     \/ BranchBusy /\ ~branchCpl'.valid
     \/ cpl # NoCpl /\ cpl' = NoCpl
EngineMoves == WrapperNext /\ ctrl' # ctrl
StoreMoves  == WrapperNext /\ store' # store
ClockMoves  == RedirectCycle \/ TransferCycle \/ QuietCycle

WrapperFairness ==
  /\ WF_wrapperVars(ConsumerMoves) /\ WF_wrapperVars(EngineMoves)
  /\ WF_wrapperVars(StoreMoves) /\ WF_wrapperVars(ClockMoves)

WrapperSpec ==
  WrapperInit /\ [][WrapperNext]_wrapperVars /\ WrapperFairness

----------------------------------------------------------------------------
(* What holds of a program run by the wrapper, and the mapping under which   *)
(* it implements OrderedProgram.                                             *)

EndInFlight == \/ canonical.class = "CONTROL" /\ canonical.end /\ canonical.legal
               \/ ctrl = "WAIT_END"
               \/ cpl.end

InFlight == IF EnginesIdle THEN "NONE" ELSE IF EndInFlight THEN "END" ELSE "ACTION"

Ordered == INSTANCE OrderedProgram WITH
  running <- programActive, first <- progStart, limit <- progEnd,
  at <- due, reg <- stateReg, flight <- InFlight, ended <- endRetired,
  done <- programDone, failed <- programFailed

\* The wrapper implements the sequential program: whatever is prefetched,
\* buffered, poisoned, flushed or aborted, exactly the records of the
\* sequential execution are issued, each after its predecessor retired.
ExecutesInOrder == Ordered!Spec

\* Neither holding register ever holds a record of a path that was left, or
\* a body word taken for a header: each holds the next record of the program.
HoldsNextRecord ==
  /\ decoded.valid => decoded.pc = due /\ decoded.head = due
  /\ raw.valid => raw.pc = due /\ raw.head = due

\* One action at a time.  The engines that share the completion port never
\* overlap, and the decode entry is empty or about to leave, with no older
\* action in flight and no younger record behind it: the MEMORY base it has
\* sampled is still the register, and no record waits behind a branch that
\* flushes.
DispatchesAtOnce ==
  /\ ~Overlap /\ ~routerError
  /\ decoded.valid =>
       /\ EnginesIdle /\ ~raw.valid
       /\ decoded.legal /\ Header(decoded.head).kind = "MEMORY" =>
            decoded.base = stateReg

\* A program fails for a reason of its own: it ran past its last record, an
\* END stood in the wrong place, or the fetch of the current path failed.  A
\* fault, an END or an end of file on a path a branch has left is no reason.
FailureHasCause ==
  [][programFailed' /\ ~programFailed =>
       cut \/ (due = progEnd /\ ~endRetired)]_wrapperVars

\* A program ends, done or failed, unless it loops forever.
ProgramsClose ==
  \/ []<><<Redirecting /\ WrapperNext>>_wrapperVars
  \/ programActive ~> ~programActive

\* However a program ended, the next one can be launched.
Restartable == ~programActive ~> StartReadyNow \/ programActive
============================================================================
