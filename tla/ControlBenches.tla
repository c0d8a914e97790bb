---------------------------- MODULE ControlBenches ----------------------------
(***************************************************************************)
(* The benches of the control side as scripts: vsp_host_control_tb,        *)
(* vsp_uncached_device_merge_tb, vsp_uword_program_source_tb,              *)
(* vsp_uword_multi_framer_tb and vsp_decoded_action_controller_tb.  A line *)
(* holds what the bench drives in a cycle (in) and what it demands of the  *)
(* outputs, and of the state they show, before the edge (see).  Reads of   *)
(* registers become demands on the state they show; each of their answers  *)
(* is checked to be an OK.  In the last three benches each section starts  *)
(* from reset and is a bench.                                              *)
(***************************************************************************)
EXTENDS HostControl, UncachedMerge, ProgramSource, MultiFramer, ActionController

Line(in, see) == [in |-> in, see |-> see]
Nothing == <<>>
Times(n, l) == [i \in 1 .. n |-> l]

----------------------------------------------------------------------------
(* Host control: its inputs, and the accesses of the bench.  lv is what the *)
(* bench holds on the other ports meanwhile.                                *)

HostQuiet ==
  [request |-> NoRequest, taken |-> FALSE, ready |-> TRUE, quiescent |-> TRUE,
   started |-> FALSE, cfgTaken |-> FALSE, maintTaken |-> FALSE, ended |-> NoEnd,
   cfgDone |-> [valid |-> FALSE, error |-> FALSE],
   maintDone |-> [valid |-> FALSE, error |-> FALSE],
   retire |-> NoRetire, programError |-> FALSE, fetchFault |-> FALSE]
Running == [HostQuiet EXCEPT !.quiescent = FALSE]

HostView == [rsp |-> mmioRsp, pending |-> PendingPort, payload |-> owned,
             result |-> result, irq |-> irqPending, mgmt |-> mgmt,
             clear |-> clearPulse]

HostReset == Line(HostQuiet, [rsp |-> "NONE", pending |-> "NONE", irq |-> {},
                              result |-> NoResult, mgmt |-> NoMgmt])

Submit(lv, q)        == Line([lv EXCEPT !.request = q], [rsp |-> "NONE"])
FinishAs(lv, answer) == Line([lv EXCEPT !.taken = TRUE], [rsp |-> answer])
Access(lv, q, answer) == <<Submit(lv, q), FinishAs(lv, answer)>>
HeldResponse(lv, n)  == Times(n, Line(lv, [rsp |-> "OK"]))
Hold(lv, see)        == <<Line(lv, see)>>

Do(command)    == [kind |-> "COMMAND", strobes |-> TRUE, command |-> command]
Stage(port, c) == [kind |-> "STAGE", port |-> port, config |-> c]
Read(lv)       == Access(lv, [kind |-> "READ"], "OK")
Write(lv, q)   == Access(lv, q, "OK")
Obeyed(lv, command)  == Access(lv, Do(command), "OK")
Refused(lv, command) == Access(lv, Do(command), "ERROR")
ClearIrq(bits) == [kind |-> "CLEAR_IRQ", bits |-> bits]

ConfigureStart == Write(HostQuiet, Stage("START", "A"))
AcceptStart(c) ==
  <<Line([HostQuiet EXCEPT !.started = TRUE], [pending |-> "START", payload |-> c]),
    Line(Running, [pending |-> "NONE"])>>
Launched == ConfigureStart \o Obeyed(HostQuiet, "START") \o AcceptStart("A")

RetireAs(lv, bad, fault, info) ==
  <<Line([lv EXCEPT !.retire = [bad |-> bad, fault |-> fault, info |-> info, valid |-> TRUE]],
         Nothing)>>
Terminal(lv, failed) ==
  <<Line([lv EXCEPT !.ended = [done |-> ~failed, failed |-> failed]], Nothing)>>
Quiesce == Times(2, Line(HostQuiet, Nothing))

Job(done, failed, count, error, fault, fetch) ==
  [valid |-> TRUE, done |-> done, failed |-> failed,
   error |-> (failed \/ error # <<>> \/ fault # <<>> \/ fetch),
   retired |-> [count |-> count, error |-> error, fault |-> fault],
   fetchFault |-> fetch]

\* Bad accesses, refused commands and a command executed once however long
\* its answer waits.  "BAD" stands for each configuration the bench sets up
\* to be refused.
TransportAndValidation ==
  <<HostReset>> \o Read(HostQuiet) \o Access(HostQuiet, [kind |-> "BAD"], "ERROR")
  \o ConfigureStart
  \o Access(HostQuiet, [Do("START") EXCEPT !.strobes = FALSE], "ERROR")
  \o Refused(HostQuiet, "UNDEFINED")
  \o Write(HostQuiet, Stage("START", "BAD")) \o Refused(HostQuiet, "START")
  \o ConfigureStart \o Refused([HostQuiet EXCEPT !.ready = FALSE], "START")
  \o Refused(Running, "MMU") \o Refused(Running, "MAINT")
  \o Hold(HostQuiet, [pending |-> "NONE"])
  \o <<Submit(HostQuiet, [kind |-> "READ"])>> \o HeldResponse(HostQuiet, 3)
  \o <<FinishAs(HostQuiet, "OK")>>
  \o <<Submit(HostQuiet, Do("CLEAR_PROTOCOL")),
       Line(HostQuiet, [rsp |-> "OK", clear |-> TRUE])>>
  \o Times(5, Line(HostQuiet, [rsp |-> "OK", clear |-> FALSE]))
  \o <<FinishAs(HostQuiet, "OK")>>

\* A launch held at its port, what is refused while the job runs, a fetch
\* fault a redirect leaves behind, and the publication under a held read.
LaunchAndPublication ==
  LET fault == [Running EXCEPT !.programError = TRUE, !.fetchFault = TRUE]
      success == Job(TRUE, FALSE, 2, <<>>, <<>>, FALSE)
  IN  <<HostReset>> \o ConfigureStart \o <<Submit(HostQuiet, Do("START"))>>
      \o Times(3, Line(HostQuiet, [rsp |-> "OK", pending |-> "START", payload |-> "A"]))
      \o <<FinishAs(HostQuiet, "OK")>> \o Read(HostQuiet) \o Refused(HostQuiet, "START")
      \o Write(HostQuiet, Stage("START", "B")) \o AcceptStart("A")
      \o Times(3, Line(Running, [pending |-> "NONE"]))
      \o Refused(Running, "START") \o Refused(Running, "ACK_RESULT")
      \o Refused(Running, "CLEAR_PROTOCOL")
      \o Hold(fault, Nothing) \o Read(fault)
      \o Hold(fault, [result |-> NoResult, irq |-> {}])
      \o RetireAs(Running, FALSE, FALSE, "tag00")
      \o RetireAs(Running, FALSE, FALSE, "tag00")
      \o Terminal(Running, FALSE) \o Hold(Running, [result |-> NoResult, irq |-> {}])
      \o Refused(Running, "ACK_RESULT")
      \o <<Submit(Running, [kind |-> "READ"])>> \o Quiesce
      \o Times(3, Line(HostQuiet, [rsp |-> "OK", irq |-> {"COMPLETE"}]))
      \o <<FinishAs(HostQuiet, "OK")>> \o Hold(HostQuiet, [result |-> success])
      \o Refused(HostQuiet, "START") \o Obeyed(HostQuiet, "CLEAR_PROTOCOL")
      \o Hold(HostQuiet, [result |-> success]) \o Obeyed(HostQuiet, "ACK_RESULT")
      \o Hold(HostQuiet, [result |-> NoResult, irq |-> {"COMPLETE"}])
      \o Obeyed(HostQuiet, "ACK_RESULT") \o Launched

\* An action error before the first memory fault, later ones ignored; what
\* happens after the publication cannot change it; interrupts bit by bit.
RetiredFaultAndIrq ==
  LET late == [HostQuiet EXCEPT !.programError = TRUE, !.fetchFault = TRUE]
      answer == Job(TRUE, FALSE, 3, <<"tag21">>, <<"tag22">>, FALSE)
  IN  <<HostReset>> \o Launched
      \o RetireAs(Running, TRUE, FALSE, "tag21")
      \o RetireAs(Running, TRUE, TRUE, "tag22") \o RetireAs(Running, TRUE, TRUE, "tag99")
      \o Terminal(Running, FALSE) \o Quiesce
      \o Hold(HostQuiet, [result |-> answer]) \o RetireAs(late, TRUE, TRUE, "tag99")
      \o Hold(late, [result |-> answer, irq |-> {"COMPLETE", "ERROR"}])
      \o Write(late, ClearIrq({})) \o Hold(late, [irq |-> {"COMPLETE", "ERROR"}])
      \o Write(late, ClearIrq({"ERROR"})) \o Hold(late, [irq |-> {"COMPLETE"}])
      \o Obeyed(late, "ACK_RESULT")
      \o Hold(late, [result |-> NoResult, irq |-> {"COMPLETE"}])
      \o Write(late, ClearIrq({"COMPLETE"})) \o Hold(late, [irq |-> {}])

\* A failed job; software clears the interrupts in the publishing cycle.
EventWinsClear ==
  LET fault == [Running EXCEPT !.programError = TRUE, !.fetchFault = TRUE]
      quiet == [fault EXCEPT !.quiescent = TRUE]
      answer == Job(FALSE, TRUE, 0, <<>>, <<>>, TRUE)
  IN  <<HostReset>> \o Launched \o Terminal(fault, TRUE)
      \o Hold(fault, [result |-> NoResult, irq |-> {}])
      \o <<Submit(quiet, ClearIrq({"COMPLETE", "ERROR"}))>> \o HeldResponse(quiet, 3)
      \o <<FinishAs(quiet, "OK")>>
      \o Hold(quiet, [irq |-> {"COMPLETE", "ERROR"}, result |-> answer])
      \o Hold([quiet EXCEPT !.fetchFault = FALSE], [result |-> answer])
      \o Hold(quiet, [result |-> answer])

\* Management beside an unread result: the payload is the accepted one, the
\* completion does not wait for the MMIO port, the result is left alone.
Management ==
  LET answer == Job(TRUE, FALSE, 0, <<>>, <<>>, FALSE)
      Managed(port, error) == [valid |-> TRUE, error |-> error, kind |-> port]
      Ended(error) == [valid |-> TRUE, error |-> error]
  IN  <<HostReset>> \o Launched \o Terminal(Running, FALSE) \o Quiesce
      \o Write(HostQuiet, ClearIrq(IrqEvents))
      \o Write(HostQuiet, Stage("MMU", "B")) \o Obeyed(HostQuiet, "MMU")
      \o Write(HostQuiet, Stage("MMU", "A"))
      \o Hold(HostQuiet, [pending |-> "MMU", payload |-> "B"])
      \o Refused(HostQuiet, "MMU") \o Refused(HostQuiet, "ACK_RESULT")
      \o Refused(HostQuiet, "CLEAR_PROTOCOL")
      \o <<Submit(HostQuiet, [kind |-> "READ"]),
           Line([HostQuiet EXCEPT !.cfgTaken = TRUE], [pending |-> "MMU"]),
           Line([HostQuiet EXCEPT !.cfgDone = Ended(FALSE)], [pending |-> "NONE"])>>
      \o Times(3, Line(HostQuiet, [rsp |-> "OK", irq |-> {"MANAGEMENT"}]))
      \o <<FinishAs(HostQuiet, "OK")>>
      \o Hold(HostQuiet, [mgmt |-> Managed("MMU", FALSE), result |-> answer])
      \o Write(HostQuiet, ClearIrq({"MANAGEMENT"}))
      \o Write(HostQuiet, Stage("MAINT", "B")) \o Obeyed(HostQuiet, "MAINT")
      \o Hold(HostQuiet, [mgmt |-> NoMgmt]) \o Write(HostQuiet, Stage("MAINT", "A"))
      \o Hold(HostQuiet, [pending |-> "MAINT", payload |-> "B"])
      \o <<Submit(HostQuiet, [kind |-> "READ"]),
           Line([HostQuiet EXCEPT !.maintTaken = TRUE], [pending |-> "MAINT"]),
           Line([HostQuiet EXCEPT !.maintDone = Ended(TRUE)], [pending |-> "NONE"])>>
      \o HeldResponse(HostQuiet, 3) \o <<FinishAs(HostQuiet, "OK")>>
      \o Hold(HostQuiet, [mgmt |-> Managed("MAINT", TRUE), irq |-> {"MANAGEMENT"},
                          result |-> answer])
      \o Obeyed(HostQuiet, "ACK_RESULT") \o ConfigureStart
      \o <<Submit(HostQuiet, Do("START")),
           Line(HostQuiet, [rsp |-> "OK", pending |-> "START", irq |-> {"MANAGEMENT"}])>>

----------------------------------------------------------------------------
(* The merge: who raises a request in the cycle, and what the master below  *)
(* does.  The model shows a raised request one cycle later.                 *)

MergeQuiet == [asking |-> {}, accepted |-> FALSE, answered |-> FALSE,
               orphan |-> FALSE, clear |-> FALSE]
MergeView == [shows |-> IF SharedValid THEN Selected ELSE "NONE",
              receiver |-> Receiver, error |-> mergeError, idle |-> MergeIdle]

Raise(endpoints, see) == Line([MergeQuiet EXCEPT !.asking = endpoints], see)
Stall(see)    == Line(MergeQuiet, see)
Accept(e)     == Line([MergeQuiet EXCEPT !.accepted = TRUE], [shows |-> e])
Reply(e)      == Line([MergeQuiet EXCEPT !.answered = TRUE], [receiver |-> e])
ClearError    == <<Line([MergeQuiet EXCEPT !.clear = TRUE], [error |-> TRUE]),
                   Stall([error |-> FALSE])>>
CompletePending(e) == <<Accept(e), Reply(e)>>

\* A stalled choice is not displaced by a stronger request, the answer goes
\* to the endpoint whose request was accepted, and the other one follows.
StalledDeviceLock ==
  <<Stall([shows |-> "NONE", receiver |-> "NONE", error |-> FALSE, idle |-> TRUE]),
    Raise({"DEVICE"}, Nothing), Raise({"UNCACHED"}, [shows |-> "DEVICE"]),
    Stall([shows |-> "DEVICE"]), Stall([shows |-> "DEVICE", error |-> TRUE]),
    Accept("DEVICE"), Stall([receiver |-> "DEVICE", shows |-> "NONE"]),
    Stall([receiver |-> "DEVICE"]), Reply("DEVICE")>>
  \o CompletePending("UNCACHED") \o <<Stall([idle |-> TRUE])>> \o ClearError

\* Of two simultaneous requests the uncached one goes first; the loser is
\* kept, and the overlap diagnosed.
SimultaneousPriority ==
  <<Raise({"DEVICE", "UNCACHED"}, Nothing), Accept("UNCACHED"),
    Line([MergeQuiet EXCEPT !.answered = TRUE], [receiver |-> "UNCACHED", error |-> TRUE])>>
  \o CompletePending("DEVICE") \o ClearError

\* An answer nobody waits for is swallowed and diagnosed, also against clear.
OrphanAndClear ==
  LET Orphan(clear) == Line([MergeQuiet EXCEPT !.orphan = TRUE, !.clear = clear],
                            [receiver |-> "NONE"])
  IN  <<Stall([idle |-> TRUE]), Orphan(FALSE)>> \o ClearError
      \o <<Orphan(TRUE)>> \o ClearError \o <<Stall([idle |-> TRUE])>>

----------------------------------------------------------------------------
HostScripts ==
  [hostTransport |-> TransportAndValidation, hostLaunch |-> LaunchAndPublication,
   hostRetired |-> RetiredFaultAndIrq, hostEvents |-> EventWinsClear,
   hostManagement |-> Management]

MergeScripts == [merge |-> StalledDeviceLock \o SimultaneousPriority \o OrphanAndClear]

MergePlay(in) ==
  /\ MergeEdge(in.accepted, in.answered, in.orphan, in.clear)
  /\ EndpointsEdge(in.asking, in.accepted, in.answered)
----------------------------------------------------------------------------
(* The program source.  The words of an answer are named by their address.  *)

SourceQuietIn == [start |-> <<>>, redirect |-> <<>>, grant |-> FALSE, answer |-> FALSE,
                  fault |-> FALSE, taken |-> FALSE, clear |-> FALSE]

\* The handshakes of a cycle choose the clock edge.
SourcePlay(in) ==
  \/ /\ in.start # <<>> /\ SourceStart(in.start[1], in.start[2], in.clear)
     /\ UNCHANGED store
  \/ /\ in.redirect # <<>> /\ SourceRedirect(in.redirect[1], in.answer, in.clear)
     /\ IF in.answer THEN StoreAnswer ELSE UNCHANGED store
  \/ /\ in.redirect # <<>> /\ ~RedirectOk(in.redirect[1])
     /\ SourceQuiet(TRUE, in.clear) /\ UNCHANGED store
  \/ in.grant /\ SourceRequest(in.clear) /\ StoreAccept
  \/ /\ in.answer /\ in.redirect = <<>>
     /\ SourceResponse(store.pc, in.fault, FALSE, in.clear) /\ StoreAnswer
  \/ /\ in.taken /\ in.redirect = <<>> /\ SourceTransfer(FALSE, in.clear)
     /\ UNCHANGED store
  \/ /\ in.start = <<>> /\ in.redirect = <<>> /\ ~in.grant /\ ~in.answer /\ ~in.taken
     /\ SourceQuiet(FALSE, in.clear) /\ UNCHANGED store

SourceView(in) ==
  [startReady |-> StartReady, running |-> SourceRunning, pc |-> pc,
   bundle |-> IF bundleValid /\ in.redirect = <<>> THEN <<bundle.base>> ELSE <<>>,
   request |-> IF RequestValid(in.redirect # <<>>) THEN <<pc, RequestCount>> ELSE <<>>,
   ready |-> ResponseReady, fault |-> storeFault, error |-> sourceError,
   done |-> deliveryDone]

SourceReset == Line(SourceQuietIn, [startReady |-> TRUE, running |-> FALSE,
                                    bundle |-> <<>>, error |-> FALSE])
SourceSees(see) == Line(SourceQuietIn, see)
LaunchAt(s, e) ==
  <<SourceReset, Line([SourceQuietIn EXCEPT !.start = <<s, e>>], [startReady |-> TRUE])>>
AcceptRequest(a, n) ==
  <<Line([SourceQuietIn EXCEPT !.grant = TRUE], [request |-> <<a, n>>, pc |-> a])>>
ReturnResponse(fault) ==
  <<Line([SourceQuietIn EXCEPT !.answer = TRUE, !.fault = fault], [ready |-> TRUE])>>
RedirectTo(t) == <<Line([SourceQuietIn EXCEPT !.redirect = <<t>>], Nothing)>>
FetchOne(s, e) == LaunchAt(s, e) \o AcceptRequest(s, 4)

\* A held bundle is not transferred in the cycle of a redirect.
HeldBundle ==
  FetchOne(256, 288) \o ReturnResponse(FALSE) \o
  <<SourceSees([bundle |-> <<256>>]),
    Line([SourceQuietIn EXCEPT !.redirect = <<272>>, !.taken = TRUE], [bundle |-> <<>>]),
    SourceSees([bundle |-> <<>>, pc |-> 272, running |-> TRUE, request |-> <<272, 4>>])>>

\* The answer of the path left is swallowed with its fault, then the target
\* is asked for; so is an answer in the very cycle of the redirect.
PoisonedAnswer ==
  FetchOne(256, 320) \o RedirectTo(288)
  \o <<SourceSees([request |-> <<>>, ready |-> TRUE])>> \o ReturnResponse(TRUE)
  \o <<SourceSees([fault |-> FALSE, bundle |-> <<>>, request |-> <<288, 4>>])>>

RacingAnswer ==
  FetchOne(256, 320) \o
  <<Line([SourceQuietIn EXCEPT !.redirect = <<304>>, !.answer = TRUE, !.fault = TRUE],
         [ready |-> TRUE]),
    SourceSees([fault |-> FALSE, bundle |-> <<>>, request |-> <<304, 4>>])>>

\* A visible fetch fault stops the source and is revoked by a redirect.
FaultThenRedirect ==
  FetchOne(256, 320) \o ReturnResponse(TRUE)
  \o <<SourceSees([fault |-> TRUE, request |-> <<>>])>> \o RedirectTo(272)
  \o <<SourceSees([fault |-> FALSE, request |-> <<272, 4>>])>>

\* After the end of the range a redirect restarts without a new launch.
RedirectAfterEnd ==
  FetchOne(256, 272) \o ReturnResponse(FALSE) \o
  <<Line([SourceQuietIn EXCEPT !.taken = TRUE], [bundle |-> <<256>>]),
    SourceSees([running |-> FALSE, done |-> TRUE]), SourceSees([done |-> FALSE])>>
  \o RedirectTo(264)
  \o <<SourceSees([pc |-> 264, running |-> TRUE, request |-> <<264, 2>>])>>

\* The end itself is a target: delivered once, the old answer still drains.
RedirectToEnd ==
  FetchOne(256, 288) \o RedirectTo(288)
  \o <<Line([SourceQuietIn EXCEPT !.answer = TRUE, !.fault = TRUE],
            [pc |-> 288, done |-> TRUE, request |-> <<>>, ready |-> TRUE]),
       SourceSees([fault |-> FALSE, running |-> FALSE, done |-> FALSE])>>

\* A refused target leaves the source as it is.
RefusedRedirect ==
  LaunchAt(256, 288) \o RedirectTo(292) \o
  <<Line([SourceQuietIn EXCEPT !.clear = TRUE],
         [error |-> TRUE, pc |-> 256, request |-> <<256, 4>>]),
    SourceSees([error |-> FALSE])>>

SourceScripts ==
  [sourceHeld |-> HeldBundle, sourcePoison |-> PoisonedAnswer, sourceRace |-> RacingAnswer,
   sourceFault |-> FaultThenRedirect, sourceAfterEnd |-> RedirectAfterEnd,
   sourceToEnd |-> RedirectToEnd, sourceRefused |-> RefusedRedirect]

----------------------------------------------------------------------------
(* The framer.                                                              *)

FramerQuiet == [bundle |-> NoBundle, ready |-> {}, restart |-> FALSE, abort |-> FALSE,
                flush |-> FALSE, clear |-> FALSE]
Taken(in) == IF in.flush \/ in.abort THEN {} ELSE Accepted(in.ready)

FramerPlay(in) ==
  \/ in.flush /\ FramerFlush
  \/ in.abort /\ FramerAbort(in.clear)
  \/ /\ ~in.flush /\ ~in.abort /\ in.bundle = NoBundle
     /\ FramerShift(Taken(in), in.restart, in.clear)
  \/ /\ in.bundle # NoBundle
     /\ \/ FramerAppend(in.bundle, Taken(in), in.clear)
        \/ FramerReject(in.bundle, Taken(in), in.clear)

ShownIn(records) == {i \in records : Slot(records, i) <= AdmitSlots}
Shows(i) == <<Slot(Records, i), RecordPc(i), Need(i), Present(i), EndAt(i)>>

\* The slots that show a record: slot, address, length, words present, END.
FramerView(in) ==
  [slots |-> {Shows(i) : i \in ShownIn(Records)}, accepted |-> Cardinality(Taken(in)),
   bundleReady |-> ~in.flush /\ ~in.abort /\ BundleReady(in.bundle, Taken(in)),
   stop |-> ~in.flush /\ StopFetch, endPc |-> FoundPc, halted |-> Halted,
   idle |-> FramerIdle, error |-> framerError, done |-> framesDone]

Sees(see) == <<Line(FramerQuiet, see)>>
Ready(slots, see) == <<Line([FramerQuiet EXCEPT !.ready = slots], see)>>
Drain == Ready({1, 2, 3}, Nothing)
BundleAt(a, n, last) == [data |-> a, count |-> n, base |-> a, last |-> last]
Send(a, n, last) ==
  <<Line([FramerQuiet EXCEPT !.bundle = BundleAt(a, n, last)], [bundleReady |-> TRUE])>>
Reset == Sees([idle |-> TRUE, slots |-> {}, stop |-> FALSE, halted |-> FALSE, error |-> FALSE])
Single(k, a) == <<k, a, 1, 1, FALSE>>
Flush(ready, see) == <<Line([FramerQuiet EXCEPT !.flush = TRUE, !.ready = ready], see)>>
ClearFramer == <<Line([FramerQuiet EXCEPT !.clear = TRUE], [error |-> TRUE])>>

\* Four words, three slots: only the oldest ready prefix leaves.
AdmissionPrefix ==
  LET three == {Single(1, 256), Single(2, 260), Single(3, 264)}
  IN  Reset \o Send(256, 4, FALSE) \o Sees([slots |-> three, stop |-> FALSE])
      \o Ready({2, 3}, [accepted |-> 0, slots |-> three]) \o Ready({1, 3}, [accepted |-> 1])
      \o Ready({1, 2, 3}, [slots |-> {Single(1, 260), Single(2, 264), Single(3, 268)}])
      \o Sees([slots |-> {}])

\* A record of four words across two bundles; END in its body is no END.
SplitRecord ==
  Reset \o Send(512, 2, FALSE) \o Sees([slots |-> {}]) \o Send(520, 4, TRUE)
  \o Ready({1, 2, 3}, [slots |-> {<<1, 512, 4, 4, FALSE>>, Single(2, 528), Single(3, 532)},
                       stop |-> FALSE])
  \o Sees([done |-> TRUE, idle |-> TRUE]) \o Sees([done |-> FALSE])

\* END stops the fetch before it reaches a slot, halts the framer when it
\* leaves, and a restart releases it; what follows END never shows.
EndBeyondSlots ==
  Reset \o Send(768, 4, FALSE)
  \o <<Line([FramerQuiet EXCEPT !.ready = {1, 2, 3}],
            [stop |-> TRUE, endPc |-> 780, bundleReady |-> FALSE,
             slots |-> {Single(1, 768), Single(2, 772), Single(3, 776)}])>>
  \o Ready({1}, [slots |-> {<<1, 780, 1, 1, TRUE>>}, accepted |-> 1])
  \o <<Line([FramerQuiet EXCEPT !.restart = TRUE], [slots |-> {}, halted |-> TRUE, stop |-> TRUE])>>
  \o Sees([stop |-> FALSE, idle |-> TRUE])

YoungerThanEnd ==
  Reset \o Send(896, 4, FALSE)
  \o Ready({1}, [slots |-> {Single(1, 896), <<2, 900, 1, 1, TRUE>>}, endPc |-> 900])
  \o Sees([slots |-> {<<1, 900, 1, 1, TRUE>>}])

TruncatedTail ==
  Reset \o Send(1024, 2, TRUE)
  \o Ready({1}, [slots |-> {<<1, 1024, 4, 2, FALSE>>}, stop |-> FALSE]) \o Sees([done |-> TRUE])

\* Records leave and the next bundle comes at one edge.
LeaveAndArrive ==
  Reset \o Send(1280, 4, FALSE)
  \o <<Line([FramerQuiet EXCEPT !.ready = {1, 2, 3}, !.bundle = BundleAt(1296, 4, TRUE)],
            [accepted |-> 3, bundleReady |-> TRUE])>>
  \o Sees([slots |-> {Single(1, 1292), Single(2, 1296), Single(3, 1300)}])

\* An abort drops the tail and the expected address, and is no end of stream.
AbortTail ==
  Reset \o Send(1536, 2, FALSE)
  \o <<Line([FramerQuiet EXCEPT !.abort = TRUE],
            [slots |-> {}, idle |-> FALSE, bundleReady |-> FALSE, accepted |-> 0])>>
  \o Sees([slots |-> {}, idle |-> TRUE, done |-> FALSE]) \o Send(2304, 1, TRUE)
  \o Sees([slots |-> {Single(1, 2304)}])

\* A final bundle of another address takes the tail with it.
Discontinuity ==
  Reset \o Send(2816, 2, FALSE) \o Sees([slots |-> {}, idle |-> FALSE]) \o Send(2828, 1, TRUE)
  \o Sees([slots |-> {}, error |-> TRUE, idle |-> TRUE, done |-> FALSE])
  \o ClearFramer \o Sees([error |-> FALSE])

\* An abort does not revoke END, a redirect does; the next stream may start
\* anywhere.
EndAbortFlush ==
  Reset \o Send(2560, 1, FALSE)
  \o <<Line([FramerQuiet EXCEPT !.abort = TRUE], [stop |-> TRUE])>>
  \o Sees([slots |-> {}, halted |-> TRUE, stop |-> TRUE, endPc |-> 2560, done |-> FALSE])
  \o Flush({1}, [accepted |-> 0, stop |-> FALSE, bundleReady |-> FALSE])
  \o Sees([slots |-> {}, stop |-> FALSE, halted |-> FALSE, endPc |-> 0, idle |-> TRUE])
  \o Send(3328, 1, TRUE) \o Sees([slots |-> {Single(1, 3328)}, error |-> FALSE])

\* A redirect cancels the end of the stream and keeps the error.
FlushKeepsError ==
  Reset \o Send(3584, 1, TRUE) \o Sees([slots |-> {Single(1, 3584)}])
  \o Flush({1}, [accepted |-> 0]) \o Sees([done |-> FALSE, slots |-> {}, idle |-> TRUE])
  \o Send(3840, 2, FALSE) \o Send(3852, 1, TRUE) \o Flush({}, [error |-> TRUE])
  \o Sees([error |-> TRUE, idle |-> TRUE]) \o ClearFramer \o Sees([error |-> FALSE])

FramerScripts ==
  [framerPrefix |-> AdmissionPrefix, framerSplit |-> SplitRecord, framerEnd |-> EndBeyondSlots,
   framerYounger |-> YoungerThanEnd, framerTail |-> TruncatedTail,
   framerBoth |-> LeaveAndArrive, framerAbort |-> AbortTail, framerGap |-> Discontinuity,
   framerEndAbort |-> EndAbortFlush, framerFlush |-> FlushKeepsError]
----------------------------------------------------------------------------
(* The action controller.  The action the bench holds on the port is the    *)
(* captured one; the line names the edge the bench's handshakes make.       *)

Presents(class) == [class |-> class, legal |-> TRUE, end |-> FALSE, owned |-> TRUE, tag |-> 0]
Controls(tag, end) == [Presents("CONTROL") EXCEPT !.end = end, !.tag = tag]
Tagged(a, tag) == [a EXCEPT !.tag = tag]
ActionQuiet == [edge |-> "STALL", action |-> NoAction, done |-> NoDone, drained |-> TRUE,
                stray |-> FALSE, clear |-> FALSE]
Edge(name) == [ActionQuiet EXCEPT !.edge = name]
Answers(tag, error) == [valid |-> TRUE, tag |-> tag, error |-> error]

ActionPlay(in) ==
  \/ in.edge = "CAPTURE" /\ Capture(in.action, in.stray, in.clear)
  \/ in.edge = "REJECT" /\ RejectLocally(in.stray, in.clear)
  \/ in.edge = "START" /\ StartEngine(in.done, in.stray, in.clear)
  \/ in.edge = "START_END" /\ StartEnd(in.stray, in.clear)
  \/ /\ in.edge = "FINISH"
     /\ \E class \in Engines : FinishEngine(class, in.done, in.stray, in.clear)
  \/ in.edge = "FINISH_END" /\ FinishEnd(in.drained, in.stray, in.clear)
  \/ in.edge = "RETIRE" /\ RetireAction(in.stray, in.clear)
  \/ in.edge = "STALL" /\ ControllerStall(in.stray, in.clear)

ActionView(in) == [ready |-> CaptureReady, busy |-> ControllerBusy, cpl |-> cpl,
                   error |-> ctrlError, done |-> in.edge = "RETIRE" /\ EndRetires]

Holds(in, see) == <<Line(in, see)>>
Brings(a) == Holds([Edge("CAPTURE") EXCEPT !.action = a], [ready |-> TRUE, cpl |-> NoCpl])
Starts(done) == Holds([Edge("START") EXCEPT !.done = done], [cpl |-> NoCpl])
Finishes(done) == Holds([Edge("FINISH") EXCEPT !.done = done], [busy |-> TRUE, cpl |-> NoCpl])
Report(class, tag, status, end) ==
  [class |-> class, tag |-> tag, status |-> status, end |-> end]
Consumes(report) ==
  Holds(Edge("RETIRE"), [cpl |-> report, done |-> report.end])
  \o Holds(ActionQuiet, [cpl |-> NoCpl, done |-> FALSE])

\* An action waits for its engine, a younger one for its completion, and
\* the completion for its consumer; an engine's error keeps its class.
EngineActions ==
  LET exec == Report("EXEC", 17, "OK", FALSE)
      blocked == [ready |-> FALSE, busy |-> TRUE]
  IN  Brings(Tagged(Presents("EXEC"), 17)) \o Times(3, Line(ActionQuiet, blocked))
      \o Starts(NoDone) \o Holds(ActionQuiet, blocked) \o Finishes(Answers(17, FALSE))
      \o Times(5, Line(ActionQuiet, [cpl |-> exec, ready |-> FALSE])) \o Consumes(exec)
      \o Brings(Tagged(Presents("EXEC"), 34)) \o Starts(NoDone) \o Finishes(Answers(34, TRUE))
      \o Consumes(Report("EXEC", 34, "EXEC_ERROR", FALSE))
      \o Brings(Tagged(Presents("MEMORY"), 33)) \o Starts(NoDone)
      \o Finishes(Answers(33, TRUE)) \o Consumes(Report("MEMORY", 33, "MEMORY_ERROR", FALSE))

\* What no engine is asked for: an illegal action, an undefined class, a
\* group of another context, an undefined opcode, END with a group mask.
LocalRejections ==
  LET Rejects(a, status) == Brings(a) \o Holds(Edge("REJECT"), [cpl |-> NoCpl])
                            \o Consumes(Report(a.class, a.tag, status, FALSE))
  IN  Rejects([Tagged(Presents("EXEC"), 49) EXCEPT !.legal = FALSE], "DECODE_ERROR")
      \o Rejects(Tagged(Presents("UNDEFINED"), 50), "DECODE_ERROR")
      \o Rejects([Tagged(Presents("MEMORY"), 65) EXCEPT !.owned = FALSE], "OWNER_MISMATCH")
      \o Rejects(Controls(72, FALSE), "CONTROL_ERROR")
      \o Rejects(Controls(73, FALSE), "CONTROL_ERROR")

\* END waits until the engines are drained; its handshake ends the program.
EndWaits ==
  LET end == Report("CONTROL", 81, "OK", TRUE)
      busy == [ActionQuiet EXCEPT !.drained = FALSE]
  IN  Brings(Controls(81, TRUE)) \o Holds(Edge("START_END"), Nothing)
      \o Times(4, Line(busy, [cpl |-> NoCpl, busy |-> TRUE])) \o Holds(Edge("FINISH_END"), Nothing)
      \o Times(3, Line(ActionQuiet, [cpl |-> end, done |-> FALSE])) \o Consumes(end)

\* An engine may answer in the cycle of its command.
ZeroLatency ==
  Brings(Tagged(Presents("EXEC"), 88)) \o Starts(Answers(88, FALSE))
  \o Holds(ActionQuiet, [error |-> FALSE]) \o Consumes(Report("EXEC", 88, "OK", FALSE))
  \o Brings(Tagged(Presents("MEMORY"), 89)) \o Starts(Answers(89, TRUE))
  \o Consumes(Report("MEMORY", 89, "MEMORY_ERROR", FALSE))

\* Answers nobody waits for, and answers to another command.
UnexpectedAnswers ==
  Holds([ActionQuiet EXCEPT !.stray = TRUE], [error |-> FALSE])
  \o Holds([ActionQuiet EXCEPT !.clear = TRUE], [error |-> TRUE, cpl |-> NoCpl])
  \o Holds(ActionQuiet, [error |-> FALSE])
  \o Brings(Tagged(Presents("EXEC"), 97)) \o Starts(NoDone) \o Finishes(Answers(98, FALSE))
  \o Holds(ActionQuiet, [error |-> TRUE])
  \o Consumes(Report("EXEC", 97, "PROTOCOL_ERROR", FALSE))

ActionScripts == [actionAll |-> EngineActions \o LocalRejections \o EndWaits
                                \o ZeroLatency \o UnexpectedAnswers]
============================================================================
