-------------------------- MODULE HostSystem_proofs --------------------------
(***************************************************************************)
(* What holds of the host system in every run, whatever the staged         *)
(* configurations, the host's programme of requests and the traffic of the *)
(* merge.  Four invariants, each inductive on top of those before it:      *)
(*                                                                         *)
(*   MergeInv      an endpoint waits exactly when the slave serves it      *)
(*   OwnershipInv  who owns the program and memory paths                   *)
(*   HostInv       a phase with a port to offer owns a good configuration  *)
(*   JobInv        the running summaries are functions of the job's log,   *)
(*                 and the program's error flags tell what the job met     *)
(*                                                                         *)
(* The summaries of a log of any length need a least position with a       *)
(* property; it comes from the well-foundedness of the natural numbers     *)
(* (Least), used by minimal counterexample.                                *)
(***************************************************************************)
EXTENDS HostSystem, WellFoundedInduction, TLAPS

\* Whichever host drives it, a step is a cycle of the system.
ACycle ==
  \E request \in Requests, retire \in Retirements, event \in SystemEvents, leaves \in BOOLEAN,
     troubles \in SUBSET Trouble :
    \E granted, raised, clear :
      /\ Cycle(request, retire, event, granted, raised, leaves, clear, troubles)
      /\ mode = "DIRECT" => request = NoRequest /\ retire = NoRetire
      /\ mode # "DIRECT" => clear = clearPulse

\* Every step, of host control and of the test host, is such a cycle.
LEMMA StepIsCycle == Next => ACycle
<1>1. NoRetire \in Retirements /\ "NONE" \in SystemEvents /\ NoRequest \in Requests
  BY DEF Retirements, SystemEvents, Requests
<1>2. ASSUME HostCycle PROVE ACycle
  <2>1. PICK request \in Offered, granted \in {{}, PortsValid} :
       \/ \E event \in SystemEvents, leaves \in BOOLEAN,
            troubles \in {{}} \cup {{t} : t \in Trouble} :
            /\ leaves => event \in Endings
            /\ troubles # {} => event \in {"NONE", "REDIRECT"} \cup Endings
            /\ Cycle(request, NoRetire, event, granted, {}, leaves, clearPulse, troubles)
       \/ \E retire \in Completions :
            Cycle(request, retire, "NONE", granted, {}, FALSE, clearPulse, {})
    BY <1>2 DEF HostCycle
  <2>2. request \in Requests /\ mode = "HOST"
    BY <1>1, <1>2, SystemAssumption DEF HostCycle, Offered
  <2>3. CASE \E event \in SystemEvents, leaves \in BOOLEAN, troubles \in SUBSET Trouble :
               Cycle(request, NoRetire, event, granted, {}, leaves, clearPulse, troubles)
    BY <1>1, <2>2, <2>3 DEF ACycle
  <2>4. CASE \E retire \in Completions :
               Cycle(request, retire, "NONE", granted, {}, FALSE, clearPulse, {})
    BY <1>1, <2>2, <2>4, SystemAssumption DEF ACycle
  <2> QED BY <2>1, <2>3, <2>4
<1>3. ASSUME TestCycle PROVE ACycle
  <2>1. PICK event \in SystemEvents, granted \in {{}, PortsValid},
             raised \in SUBSET (Ports \ asked), leaves \in BOOLEAN, clear \in BOOLEAN :
          mode = "DIRECT" /\ Cycle(NoRequest, NoRetire, event, granted, raised, leaves, clear, {})
    BY <1>3 DEF TestCycle
  <2> QED BY <1>1, <2>1 DEF ACycle
<1> QED BY <1>2, <1>3 DEF Next

----------------------------------------------------------------------------
(* What a cycle does.  In is what the ports carry in it, Errors what it adds
   to the program's error flags. *)

In(request, retire, event, granted) ==
  PortInputs(request, TRUE, retire, event, granted, FALSE)

Errors(retire, troubles) ==
  troubles \cup (IF retire.bad THEN {"HELD"} ELSE {})

\* The fields host control reads.
LEMMA PortFields ==
  ASSUME NEW request, NEW retire, NEW event, NEW granted
  PROVE  LET in == In(request, retire, event, granted)
         IN  /\ in.request = request /\ in.retire = retire
             /\ in.ready = SystemReady /\ in.quiescent = SystemQuiescent
             /\ in.started = Fires("START", PortsValid, granted)
             /\ in.ended = Pulse
             /\ in.programError = ProgramError /\ in.fetchFault = fetchFault
BY DEF In, PortInputs

\* Host control's part of a cycle.
LEMMA CycleHost ==
  ASSUME NEW request, NEW retire, NEW event, NEW granted, NEW raised, NEW leaves, NEW clear,
         NEW troubles,
         Cycle(request, retire, event, granted, raised, leaves, clear, troubles)
  PROVE  /\ HostEdge(In(request, retire, event, granted))
         /\ HistoryEdge(In(request, retire, event, granted), event, troubles)
         /\ SystemEdge(event, PortsValid, granted, leaves, clear, Errors(retire, troubles))
         /\ troubles # {} => ProgramActive
         /\ mode' = mode
BY DEF Cycle, In, Errors

----------------------------------------------------------------------------
(* The merge *)

\* The master keeps the owner it was given, exactly the served endpoint waits,
\* and a locked choice is a request that is still shown.
MergeInv ==
  /\ asks \in [Endpoints -> {"IDLE", "ASKING", "WAITING"}]
  /\ {owner, lock, slave} \subseteq Endpoints \cup {"NONE"}
  /\ owner = slave
  /\ \A e \in Endpoints : asks[e] = "WAITING" <=> slave = e
  /\ lock # "NONE" => asks[lock] = "ASKING" /\ owner = "NONE"

\* One edge of the merge: accept, answer, or a new request joining a stalled one.
LEMMA MergeStep ==
  ASSUME MergeInv, NEW event, NEW maintFires, NEW clear, DataEdge(event, maintFires, clear)
  PROVE  /\ MergeInv'
         /\ SharedValid /\ owner' = "NONE" => SharedValid' /\ Selected' = Selected
<1> DEFINE accepted == event = "ACCEPT"
           answered == event = "REPLY"
<1>1. Selected \in Endpoints
  BY DEF MergeInv, Selected, Endpoints
<1>2. /\ accepted => SharedValid
      /\ answered => slave # "NONE"
      /\ owner' = IF accepted THEN Selected ELSE IF answered THEN "NONE" ELSE owner
      /\ lock' = IF accepted THEN "NONE" ELSE IF SharedValid THEN Selected ELSE lock
      /\ slave' = IF accepted THEN Selected ELSE IF answered THEN "NONE" ELSE slave
  BY DEF DataEdge, MergeEdge
<1>3. /\ \A e \in Asking(event) : asks[e] = "IDLE"
      /\ asks' = [e \in Endpoints |->
                IF e \in Asking(event) THEN "ASKING"
                ELSE IF accepted /\ e = Selected THEN "WAITING"
                ELSE IF answered /\ e = owner THEN "IDLE"
                ELSE asks[e]]
  BY DEF DataEdge, EndpointsEdge, Receiver
<1>4. Asking(event) \subseteq Endpoints /\ (accepted \/ answered => Asking(event) = {})
  BY DEF Asking, Endpoints
<1>5. CASE accepted
  <2>1. owner = "NONE" /\ asks[Selected] = "ASKING"
    BY <1>2, <1>5 DEF SharedValid
  <2>2. \A e \in Endpoints : asks[e] # "WAITING"
    BY <2>1 DEF MergeInv, Endpoints
  <2>3. \A e \in Endpoints : asks'[e] = IF e = Selected THEN "WAITING" ELSE asks[e]
    BY <1>3, <1>4, <1>5
  <2>4. owner' = Selected /\ slave' = Selected /\ lock' = "NONE"
    BY <1>2, <1>5
  <2> QED BY <1>1, <1>3, <1>4, <2>2, <2>3, <2>4 DEF MergeInv, Endpoints
<1>6. CASE answered
  <2>1. owner # "NONE" /\ owner \in Endpoints /\ lock = "NONE" /\ ~SharedValid
    BY <1>2, <1>6 DEF MergeInv, SharedValid
  <2>2. \A e \in Endpoints : asks'[e] = IF e = owner THEN "IDLE" ELSE asks[e]
    BY <1>3, <1>4, <1>6
  <2>3. owner' = "NONE" /\ slave' = "NONE" /\ lock' = "NONE"
    BY <1>2, <1>6, <2>1
  <2> QED BY <1>3, <2>1, <2>2, <2>3 DEF MergeInv, Endpoints
<1>7. CASE ~accepted /\ ~answered
  <2>1. \A e \in Endpoints : asks'[e] = IF e \in Asking(event) THEN "ASKING" ELSE asks[e]
    BY <1>3, <1>7
  <2>2. owner' = owner /\ slave' = slave
    BY <1>2, <1>7
  <2>3. CASE SharedValid
    <3>1. lock' = Selected /\ asks[Selected] = "ASKING" /\ owner = "NONE"
      BY <1>2, <1>7, <2>3 DEF SharedValid
    <3>2. asks'[Selected] = "ASKING"
      BY <1>1, <1>3, <2>1, <3>1
    <3>3. Selected' = Selected
      BY <1>1, <3>1 DEF Selected, Endpoints
    <3>4. SharedValid'
      BY <2>2, <3>1, <3>2, <3>3 DEF SharedValid
    <3> QED BY <1>1, <1>3, <2>1, <2>2, <3>1, <3>2, <3>3, <3>4 DEF MergeInv, Endpoints
  <2>4. CASE ~SharedValid
    <3>1. lock' = lock
      BY <1>2, <1>7, <2>4
    <3>2. lock = "NONE"
      BY <2>4 DEF MergeInv, SharedValid, Selected
    <3> QED BY <1>3, <2>1, <2>2, <2>4, <3>1, <3>2 DEF MergeInv, Endpoints
  <2> QED BY <2>3, <2>4
<1> QED BY <1>5, <1>6, <1>7

\* The merge's part of a cycle.
LEMMA CycleData ==
  ASSUME NEW request, NEW retire, NEW event, NEW granted, NEW raised, NEW leaves, NEW clear,
         NEW troubles,
         Cycle(request, retire, event, granted, raised, leaves, clear, troubles)
  PROVE  DataEdge(event, Fires("MAINT", PortsValid, granted), clear)
BY DEF Cycle, SystemEdge

\* Nothing is asked for after reset.
LEMMA MergeInitially == Init => MergeInv
BY DEF Init, SystemInit, MergeInit, MergeInv, Endpoints

\* Every step keeps the invariant and the choice of a stalled request.
LEMMA MergeNext ==
  ASSUME MergeInv, [Next]_allVars
  PROVE  /\ MergeInv'
         /\ [SharedValid /\ owner' = "NONE" => SharedValid' /\ Selected' = Selected]_allVars
<1>1. CASE Next
  <2>1. ACycle
    BY <1>1, StepIsCycle
  <2> QED BY <2>1, CycleData, MergeStep DEF ACycle
<1>2. CASE UNCHANGED allVars
  BY <1>2 DEF allVars, systemVars, mergeVars, MergeInv
<1> QED BY <1>1, <1>2

\* The uncached master's answers find the endpoint that asked for them
\* (active_owner_r), and a request the master stalls stays the one that is
\* shown (lock_valid_r, locked_endpoint_r).
THEOREM MergeCorrect == Spec => AnswersReachTheirAsker
<1> DEFINE Kept == SharedValid /\ owner' = "NONE" => SharedValid' /\ Selected' = Selected
<1>1. Spec => []MergeInv
  <2>1. Init => MergeInv
    BY MergeInitially
  <2>2. MergeInv /\ [Next]_allVars => MergeInv'
    BY MergeNext
  <2> QED BY <2>1, <2>2, PTL DEF Spec
<1>2. MergeInv => /\ owner = slave
                  /\ \A e \in Endpoints : asks[e] = "WAITING" <=> slave = e
  BY DEF MergeInv
<1>3. MergeInv /\ [Next]_allVars => [Kept]_allVars
  BY MergeNext
<1> QED BY <1>1, <1>2, <1>3, PTL DEF Spec, AnswersReachTheirAsker

----------------------------------------------------------------------------
(* Ownership of the paths *)

\* A merge that nobody asks stays idle.
LEMMA MergeStaysIdle ==
  ASSUME MergeInv, MergeIdle, NEW event, event \notin AskEvents, NEW maintFires, NEW clear,
         DataEdge(event, maintFires, clear)
  PROVE  MergeIdle'
<1>1. owner = "NONE" /\ lock = "NONE" /\ slave = "NONE" /\ ~SharedValid
  BY DEF MergeIdle, MergeInv
<1>2. event # "ACCEPT" /\ event # "REPLY" /\ Asking(event) = {}
  BY <1>1 DEF DataEdge, MergeEdge, AskEvents, Asking
<1>3. owner' = "NONE" /\ lock' = "NONE"
  BY <1>1, <1>2 DEF DataEdge, MergeEdge
<1>4. asks' = asks
  BY <1>2 DEF DataEdge, EndpointsEdge, MergeInv
<1> QED BY <1>1, <1>3, <1>4 DEF MergeIdle, SharedValid, Selected

\* A configuration or a maintenance command in progress holds every other path
\* still, and the fetch path moves only for an active program.
OwnershipInv ==
  /\ prog \in {"IDLE", "ACTIVE", "DONE", "FAILED"}
  /\ fetch \in {"NONE", "LIVE", "STALE"}
  /\ residue \in BOOLEAN /\ programErrors \subseteq Trouble
  /\ cfg \in {"NONE", "PENDING", "SENT"} /\ maint \in {"IDLE", "BUSY", "DONE"}
  /\ ~ProgramActive => fetch = "NONE"
  /\ ExclusiveOwnership

\* One edge of the system behind the ports, whoever drives them.
LEMMA OwnershipStep ==
  ASSUME MergeInv, OwnershipInv, NEW event, NEW valid, NEW granted, NEW leaves \in BOOLEAN, NEW clear,
         NEW errors \in SUBSET Trouble,
         SystemEdge(event, valid, granted, leaves, clear, errors)
  PROVE  OwnershipInv'
<1> DEFINE started == Fires("START", valid, granted)
           cfgTaken == Fires("MMU", valid, granted)
           maintTaken == Fires("MAINT", valid, granted)
<1>1. /\ ProgramEdge(event, started, leaves) /\ FetchEdge(event)
      /\ CfgEdge(event, cfgTaken) /\ MaintEdge(event, maintTaken)
      /\ DataEdge(event, maintTaken, clear)
      /\ event = "REDIRECT_ANSWERED" => ProgramActive
  BY DEF SystemEdge
<1>2. /\ started => StartAllowed(valid) /\ "MMU" \notin valid /\ "MAINT" \notin valid
      /\ cfgTaken => CfgAllowed(valid) /\ "MMU" \in valid /\ "MAINT" \notin valid
      /\ maintTaken => MaintAllowed(valid) /\ "MAINT" \in valid
  BY DEF Fires, StartAllowed, CfgAllowed
<1> HIDE DEF started, cfgTaken, maintTaken
<1>3. /\ prog' = IF started THEN "ACTIVE"
                 ELSE IF event = "END_DONE" THEN "DONE"
                 ELSE IF event = "END_FAILED" THEN "FAILED"
                 ELSE IF ProgramActive THEN "ACTIVE" ELSE "IDLE"
      /\ residue' = IF event \in Endings THEN leaves
                    ELSE IF event = "DRAIN" THEN FALSE ELSE residue
      /\ event \in Endings => ProgramActive /\ fetch = "NONE"
      /\ event = "FETCH" => ProgramActive
  BY <1>1 DEF ProgramEdge, ProgramCan, Endings
<1>4. /\ event \notin {"FETCH", "ANSWER", "FAULT", "REDIRECT_ANSWERED", "REDIRECT"} => fetch' = fetch
      /\ fetch' \in {"NONE", "LIVE", "STALE"}
      /\ fetch = "NONE" /\ event # "FETCH" => fetch' = "NONE"
  BY <1>1 DEF FetchEdge, OwnershipInv
<1>5. /\ cfg' = IF cfgTaken THEN "PENDING"
                ELSE IF event = "MMU_TAKE" THEN "SENT"
                ELSE IF event = "MMU_ANSWER" THEN "NONE" ELSE cfg
      /\ event = "MMU_TAKE" => cfg = "PENDING"
  BY <1>1 DEF CfgEdge
<1>6. /\ maint' = IF maintTaken THEN "BUSY"
                  ELSE IF event = "MAINT_WORK" THEN "DONE"
                  ELSE IF event = "MAINT_ANSWER" THEN "IDLE" ELSE maint
      /\ event = "MAINT_WORK" => maint = "BUSY"
  BY <1>1 DEF MaintEdge
<1>7. /\ prog' \in {"IDLE", "ACTIVE", "DONE", "FAILED"} /\ fetch' \in {"NONE", "LIVE", "STALE"}
      /\ cfg' \in {"NONE", "PENDING", "SENT"} /\ maint' \in {"IDLE", "BUSY", "DONE"}
      /\ residue' \in BOOLEAN /\ programErrors' \subseteq Trouble
  <2>1. residue' \in BOOLEAN
    BY <1>3, Zenon DEF OwnershipInv
  <2>2. ErrorEdge(event, started, errors, clear)
    BY DEF SystemEdge, started
  <2>3. programErrors' \subseteq Trouble
    BY <2>2 DEF ErrorEdge, Outlives, OwnershipInv, Trouble
  <2> QED BY <1>3, <1>4, <1>5, <1>6, <2>1, <2>3 DEF OwnershipInv
<1>8. ~ProgramActive' => fetch' = "NONE"
  BY <1>3, <1>4 DEF OwnershipInv, ProgramActive, Endings
<1>9. cfg' # "NONE" => ~ProgramActive' /\ maint' = "IDLE" /\ PathsQuiescent'
  <2> SUFFICES ASSUME cfg' # "NONE" PROVE ~ProgramActive' /\ maint' = "IDLE" /\ PathsQuiescent'
    OBVIOUS
  <2>1. ~ProgramActive /\ maint = "IDLE" /\ PathsQuiescent
    BY <1>2, <1>5 DEF CfgAllowed, OwnershipInv, ExclusiveOwnership
  <2>2. ~started /\ ~maintTaken
    BY <1>2, <1>5 DEF StartAllowed, SystemReady, MaintAllowed
  <2>3. ~ProgramActive' /\ (residue' = residue \/ residue' = FALSE)
    BY <1>3, <2>1, <2>2 DEF ProgramActive, Endings
  <2>4. event \notin AskEvents
    BY <1>1, <2>1 DEF DataEdge
  <2>5. MergeIdle'
    BY <1>1, <2>1, <2>4, MergeStaysIdle DEF PathsQuiescent
  <2>6. fetch' = "NONE" /\ maint' = "IDLE"
    BY <1>3, <1>4, <1>6, <2>1, <2>2 DEF PathsQuiescent
  <2> QED BY <1>3, <2>1, <2>2, <2>3, <2>5, <2>6 DEF PathsQuiescent, ProgramActive, Endings
<1>10. maint' # "IDLE" => ~ProgramActive'
  BY <1>2, <1>3, <1>6 DEF OwnershipInv, ExclusiveOwnership, ProgramActive, Endings, StartAllowed,
     SystemReady, MaintAllowed
<1> QED BY <1>7, <1>8, <1>9, <1>10 DEF OwnershipInv, ExclusiveOwnership

\* Every step keeps the ownership.
LEMMA OwnershipNext ==
  ASSUME MergeInv, OwnershipInv, [Next]_allVars
  PROVE  OwnershipInv'
<1>1. CASE Next
  <2>1. ACycle
    BY <1>1, StepIsCycle
  <2>2. PICK request \in Requests, retire \in Retirements, event \in SystemEvents,
             leaves \in BOOLEAN, troubles \in SUBSET Trouble :
          \E granted, raised, clear :
            Cycle(request, retire, event, granted, raised, leaves, clear, troubles)
    BY <2>1 DEF ACycle
  <2>3. Errors(retire, troubles) \in SUBSET Trouble
    BY DEF Errors, Trouble
  <2>4. \E granted, clear :
          SystemEdge(event, PortsValid, granted, leaves, clear, Errors(retire, troubles))
    BY <2>2, CycleHost
  <2> QED BY <2>3, <2>4, OwnershipStep
<1>2. CASE UNCHANGED allVars
  BY <1>2 DEF allVars, systemVars, mergeVars, OwnershipInv, ExclusiveOwnership, ProgramActive,
     PathsQuiescent, MergeIdle, SharedValid, Selected
<1> QED BY <1>1, <1>2

\* Nothing is owned after reset.
LEMMA OwnershipInitially == Init => OwnershipInv
BY DEF Init, SystemInit, OwnershipInv, ExclusiveOwnership, ProgramActive

\* The three users of the memory path are never at work together: the system
\* accepts a program, a configuration or a maintenance command only when the
\* paths it would disturb are quiescent, and keeps them so until it answers.
THEOREM OwnershipExclusive == Spec => []ExclusiveOwnership
<1>1. Init => MergeInv /\ OwnershipInv
  BY MergeInitially, OwnershipInitially
<1>2. MergeInv /\ OwnershipInv /\ [Next]_allVars => MergeInv' /\ OwnershipInv'
  BY MergeNext, OwnershipNext
<1>3. OwnershipInv => ExclusiveOwnership
  BY DEF OwnershipInv
<1> QED BY <1>1, <1>2, <1>3, PTL DEF Spec

----------------------------------------------------------------------------
(* Types *)

Phases == {"IDLE", "START", "RUN", "DRAIN", "MMU_REQ", "MMU_RSP", "MAINT_REQ", "MAINT_RSP"}

\* The configuration a port offers is held exactly as long as the port offers.
HostInv ==
  /\ phase \in Phases
  /\ staged \in [Ports -> Configs] /\ owned \in GoodConfigs \cup {NoConfig}
  /\ PendingPort # "NONE" <=> owned # NoConfig
  /\ irqPending \subseteq IrqEvents /\ mmioRsp \in {"NONE", "OK", "ERROR"}

\* Software's requests: a command is taken only when host control is idle,
\* and a downstream request only with a configuration that is good.
LEMMA SubmittedWhenIdle ==
  ASSUME NEW in, Submitted(in) # "NONE"
  PROVE  /\ phase = "IDLE"
         /\ Submitted(in) \in Ports \cup {"ACK_RESULT", "CLEAR_PROTOCOL"}
         /\ Submitted(in) \in Ports => staged[Submitted(in)] \in GoodConfigs /\ in.quiescent
         /\ Submitted(in) = "START" => ~result.valid
<1>1. CommandAllowed(Submitted(in), in)
  BY DEF Submitted, RequestError
<1> QED BY <1>1 DEF CommandAllowed, NewWorkAllowed, HostIdle, Ports

\* Staging writes configurations to ports that exist.
LEMMA StagedStep ==
  ASSUME HostInv, NEW in, in.request \in Requests, MmioEdge(in)
  PROVE  staged' \in [Ports -> Configs] /\ mmioRsp' \in {"NONE", "OK", "ERROR"}
<1>1. in.request.kind = "STAGE" => in.request.port \in Ports /\ in.request.config \in Configs
  BY DEF Requests, NoRequest, StageRequests, ClearRequests, CommandRequests, OtherRequests
<1> QED BY <1>1 DEF MmioEdge, HostInv

\* One edge of the MMIO target.
LEMMA HostStep ==
  ASSUME HostInv, NEW in, in.request \in Requests, HostEdge(in)
  PROVE  HostInv'
<1>1. /\ MmioEdge(in) /\ PhaseEdge(in) /\ OwnedEdge(in) /\ IrqEdge(in)
  BY DEF HostEdge
<1>2. /\ staged' \in [Ports -> Configs] /\ mmioRsp' \in {"NONE", "OK", "ERROR"}
  BY <1>1, StagedStep
<1>3. phase' \in Phases
  BY <1>1 DEF PhaseEdge, NextPhase, HostInv, Phases
<1>4. irqPending' \subseteq IrqEvents
  <2>1. EventsOf(in) \subseteq IrqEvents
    BY DEF EventsOf, IrqEvents
  <2> QED BY <1>1, <2>1 DEF IrqEdge, IrqAfter, HostInv
<1>5. owned' \in GoodConfigs \cup {NoConfig} /\ (PendingPort' # "NONE" <=> owned' # NoConfig)
  <2>1. phase' = NextPhase(in)
    BY <1>1 DEF PhaseEdge
  <2>2. CASE Submitted(in) \in Ports
    <3>1. phase' \in {"START", "MMU_REQ", "MAINT_REQ"}
      BY <2>1, <2>2 DEF NextPhase, Ports
    <3>2. owned' = staged[Submitted(in)] /\ owned' \in GoodConfigs
      BY <1>1, <2>2, SubmittedWhenIdle DEF OwnedEdge, Ports
    <3> QED BY <3>1, <3>2, ConfigAssumption DEF PendingPort
  <2>3. CASE Submitted(in) \notin Ports /\ PendingPort # "NONE" /\ NextPhase(in) = phase
    <3>1. owned' = owned
      BY <1>1, <2>3 DEF OwnedEdge, HeldPayload
    <3> QED BY <2>1, <2>3, <3>1 DEF PendingPort, HostInv
  <2>4. CASE Submitted(in) \notin Ports /\ ~(PendingPort # "NONE" /\ NextPhase(in) = phase)
    <3>1. owned' = NoConfig
      BY <1>1, <2>4 DEF OwnedEdge
    <3>2. phase' \notin {"START", "MMU_REQ", "MAINT_REQ"}
      BY <2>1, <2>4 DEF NextPhase, PendingPort, Ports
    <3> QED BY <3>1, <3>2 DEF PendingPort
  <2> QED BY <2>2, <2>3, <2>4
<1> QED BY <1>2, <1>3, <1>4, <1>5 DEF HostInv

\* Every step keeps host control's invariant.
LEMMA HostNext ==
  ASSUME HostInv, [Next]_allVars
  PROVE  HostInv'
<1>1. CASE Next
  <2>1. ACycle
    BY <1>1, StepIsCycle
  <2>2. PICK request, retire, event, granted :
          request \in Requests /\ HostEdge(In(request, retire, event, granted))
    BY <2>1, CycleHost DEF ACycle
  <2>3. In(request, retire, event, granted).request \in Requests
    BY <2>2, PortFields
  <2> QED BY <2>2, <2>3, HostStep
<1>2. CASE UNCHANGED allVars
  BY <1>2 DEF allVars, hostVars, HostInv, PendingPort
<1> QED BY <1>1, <1>2

\* No port offers anything after reset.
LEMMA HostInitially == Init => HostInv
BY DEF Init, HostInit, HostInv, ResetStaging, PendingPort, Phases

\* Every register keeps its type, and a port that offers a command offers a
\* configuration validated when the command was taken, not the staged one,
\* which software may have overwritten since.
THEOREM HostTypeCorrect == Spec => []HostTypeOK
<1>1. Init => HostInv /\ MergeInv /\ OwnershipInv
  BY HostInitially, MergeInitially, OwnershipInitially
<1>2. HostInv /\ MergeInv /\ OwnershipInv /\ [Next]_allVars => HostInv' /\ MergeInv' /\ OwnershipInv'
  BY HostNext, MergeNext, OwnershipNext
<1>3. HostInv /\ MergeInv /\ OwnershipInv => HostTypeOK
  BY DEF HostInv, MergeInv, OwnershipInv, HostTypeOK, Phases
<1> QED BY <1>1, <1>2, <1>3, PTL DEF Spec

----------------------------------------------------------------------------
(* The report: the two running summaries are functions of the log. *)

Retired == [bad : BOOLEAN, fault : BOOLEAN, info : Infos, valid : {TRUE}]
FirstBad(l) == Job!FirstOf(l, LAMBDA c : c.bad)
FirstFault(l) == Job!FirstOf(l, LAMBDA c : c.fault)

\* A nonempty set of natural numbers has a least element.
LEMMA Least ==
  ASSUME NEW T \in SUBSET Nat, T # {}
  PROVE  \E m \in T : \A k \in T : m =< k
<1>1. \E m \in T : \A k \in T : <<k, m>> \notin OpToRel(<, Nat)
  BY WFMin, NatLessThanWellFounded
<1>2. PICK m \in T : \A k \in T : <<k, m>> \notin OpToRel(<, Nat)
  BY <1>1, Zenon
<1>3. \A k \in T : ~(k < m)
  BY <1>2, Zenon DEF OpToRel
<1>4. \A k \in T : m =< k
  BY <1>3
<1> QED BY <1>4

\* The least of a set of positions, 0 for the empty one.
First(S) == IF S # {} THEN CHOOSE i \in S : \A j \in S : i =< j ELSE 0

\* It is the least one, when there is one.
LEMMA FirstIs ==
  ASSUME NEW S \in SUBSET Nat, NEW m \in S, \A j \in S : m =< j
  PROVE  First(S) = m
<1>1. \A i \in S : (\A j \in S : i =< j) => i = m
  OBVIOUS
<1>2. \E i \in S : \A j \in S : i =< j
  OBVIOUS
<1>3. First(S) \in S /\ \A j \in S : First(S) =< j
  BY <1>2 DEF First
<1> QED BY <1>1, <1>3

\* It lies among the positions, or is 0.
LEMMA FirstRange ==
  ASSUME NEW n \in Nat, NEW S \in SUBSET (1 .. n)
  PROVE  First(S) \in 0 .. n
<1>1. CASE S = {}
  BY <1>1 DEF First
<1>2. CASE S # {}
  <2>1. PICK m \in S : \A k \in S : m =< k
    BY <1>2, Least
  <2> QED BY <2>1, FirstIs
<1> QED BY <1>1, <1>2

\* A later position changes it only when there was none.
LEMMA FirstExtends ==
  ASSUME NEW n \in Nat, NEW S \in SUBSET (1 .. n), NEW T \in SUBSET (1 .. n + 1),
         T \cap (1 .. n) = S
  PROVE  First(T) = IF First(S) = 0 /\ n + 1 \in T THEN n + 1 ELSE First(S)
<1>1. CASE S = {}
  <2>1. First(S) = 0
    BY <1>1 DEF First
  <2>2. CASE n + 1 \in T
    <3>1. \A k \in T : k \in 1 .. n \/ k = n + 1
      OBVIOUS
    <3>2. T = {n + 1}
      BY <1>1, <2>2, <3>1
    <3> QED BY <2>1, <2>2, <3>2, FirstIs
  <2>3. CASE n + 1 \notin T
    <3>1. T = {}
      BY <1>1, <2>3
    <3> QED BY <2>1, <2>3, <3>1 DEF First
  <2> QED BY <2>2, <2>3
<1>2. CASE S # {}
  <2>1. PICK m \in S : \A k \in S : m =< k
    BY <1>2, Least
  <2>2. First(S) = m
    BY <2>1, FirstIs
  <2>3. m \in T /\ \A k \in T : m =< k
    BY <2>1
  <2>4. First(T) = m
    BY <2>3, FirstIs
  <2> QED BY <2>2, <2>4
<1> QED BY <1>1, <1>2

\* The first bad completion and the first fault of a log, as sets of positions.
LEMMA FirstOfIsFirst ==
  ASSUME NEW l \in Seq(Retired)
  PROVE  /\ FirstBad(l) = First({i \in DOMAIN l : l[i].bad})
         /\ FirstFault(l) = First({i \in DOMAIN l : l[i].fault})
<1> DEFINE B == {i \in DOMAIN l : l[i].bad}
           F == {i \in DOMAIN l : l[i].fault}
<1>1. FirstBad(l) = IF \E i \in DOMAIN l : l[i].bad
             THEN CHOOSE i \in DOMAIN l : l[i].bad /\ \A j \in 1..(i - 1) : ~l[j].bad
             ELSE 0
  BY DEF FirstBad, Job!FirstOf
<1>2. FirstFault(l) = IF \E i \in DOMAIN l : l[i].fault
             THEN CHOOSE i \in DOMAIN l : l[i].fault /\ \A j \in 1..(i - 1) : ~l[j].fault
             ELSE 0
  BY DEF FirstFault, Job!FirstOf
<1>3. DOMAIN l = 1 .. Len(l) /\ Len(l) \in Nat
  OBVIOUS
<1>4. FirstBad(l) = First(B)
  <2>1. CASE B # {}
    <3>0. B \in SUBSET Nat
      BY <1>3
    <3>1. PICK m \in B : \A k \in B : m =< k
      <4> HIDE DEF B
      <4> QED BY <2>1, <3>0, Least
    <3>2. First(B) = m
      BY <1>3, <3>1, FirstIs
    <3>3. m \in DOMAIN l /\ l[m].bad /\ \A j \in 1..(m - 1) : ~l[j].bad
      BY <1>3, <3>1
    <3>4. \A i \in DOMAIN l : l[i].bad /\ (\A j \in 1..(i - 1) : ~l[j].bad) => i = m
      BY <1>3, <3>1
    <3> QED BY <1>1, <3>2, <3>3, <3>4
  <2>2. CASE B = {}
    BY <1>1, <2>2 DEF First
  <2> QED BY <2>1, <2>2
<1>5. FirstFault(l) = First(F)
  <2>1. CASE F # {}
    <3>0. F \in SUBSET Nat
      BY <1>3
    <3>1. PICK m \in F : \A k \in F : m =< k
      <4> HIDE DEF F
      <4> QED BY <2>1, <3>0, Least
    <3>2. First(F) = m
      BY <1>3, <3>1, FirstIs
    <3>3. m \in DOMAIN l /\ l[m].fault /\ \A j \in 1..(m - 1) : ~l[j].fault
      BY <1>3, <3>1
    <3>4. \A i \in DOMAIN l : l[i].fault /\ (\A j \in 1..(i - 1) : ~l[j].fault) => i = m
      BY <1>3, <3>1
    <3> QED BY <1>2, <3>2, <3>3, <3>4
  <2>2. CASE F = {}
    BY <1>2, <2>2 DEF First
  <2> QED BY <2>1, <2>2
<1> QED BY <1>4, <1>5

\* A completion is appended: an earlier error or fault keeps its place.
LEMMA FirstAppend ==
  ASSUME NEW l \in Seq(Retired), NEW c \in Retired
  PROVE  /\ FirstBad(Append(l, c)) = IF FirstBad(l) = 0 /\ c.bad THEN Len(l) + 1 ELSE FirstBad(l)
         /\ FirstFault(Append(l, c)) = IF FirstFault(l) = 0 /\ c.fault THEN Len(l) + 1 ELSE FirstFault(l)
<1> DEFINE L == Append(l, c)
           B == {i \in DOMAIN l : l[i].bad}
           F == {i \in DOMAIN l : l[i].fault}
           BB == {i \in DOMAIN L : L[i].bad}
           FF == {i \in DOMAIN L : L[i].fault}
<1>1. /\ L \in Seq(Retired) /\ DOMAIN L = 1 .. Len(l) + 1 /\ DOMAIN l = 1 .. Len(l)
      /\ \A i \in 1 .. Len(l) : L[i] = l[i]
      /\ L[Len(l) + 1] = c /\ Len(l) \in Nat
  OBVIOUS
<1>2. /\ B \in SUBSET (1 .. Len(l)) /\ BB \in SUBSET (1 .. Len(l) + 1) /\ BB \cap (1 .. Len(l)) = B
      /\ F \in SUBSET (1 .. Len(l)) /\ FF \in SUBSET (1 .. Len(l) + 1) /\ FF \cap (1 .. Len(l)) = F
  BY <1>1
<1>3. (Len(l) + 1 \in BB <=> c.bad) /\ (Len(l) + 1 \in FF <=> c.fault)
  BY <1>1
<1>4. FirstBad(l) = First(B) /\ FirstFault(l) = First(F)
      /\ FirstBad(L) = First(BB) /\ FirstFault(L) = First(FF)
  BY <1>1, FirstOfIsFirst
<1> HIDE DEF B, F, BB, FF
<1>5. /\ First(BB) = IF First(B) = 0 /\ Len(l) + 1 \in BB THEN Len(l) + 1 ELSE First(B)
      /\ First(FF) = IF First(F) = 0 /\ Len(l) + 1 \in FF THEN Len(l) + 1 ELSE First(F)
  BY <1>1, <1>2, FirstExtends
<1> QED BY <1>3, <1>4, <1>5

\* What the first bad completion and the first fault said.
SaidBad(l) == Job!SaidAt(l, FirstBad(l))
SaidFault(l) == Job!SaidAt(l, FirstFault(l))

\* A completion is appended: what an earlier error or fault said stands.
LEMMA SaidAppend ==
  ASSUME NEW l \in Seq(Retired), NEW c \in Retired
  PROVE  /\ SaidBad(Append(l, c)) = IF SaidBad(l) = <<>> /\ c.bad THEN <<c.info>> ELSE SaidBad(l)
         /\ SaidFault(Append(l, c)) = IF SaidFault(l) = <<>> /\ c.fault THEN <<c.info>> ELSE SaidFault(l)
<1> DEFINE L == Append(l, c)
           n == Len(l)
<1>1. /\ n \in Nat /\ DOMAIN l = 1 .. n /\ L[n + 1] = c
      /\ \A i \in 1 .. n : L[i] = l[i]
  OBVIOUS
<1>2. FirstBad(l) \in 0 .. n /\ FirstFault(l) \in 0 .. n
  BY <1>1, FirstOfIsFirst, FirstRange
<1>3. \A i \in 0 .. n : (Job!SaidAt(l, i) = <<>> <=> i = 0) /\ Job!SaidAt(L, i) = Job!SaidAt(l, i)
  BY <1>1 DEF Job!SaidAt
<1>4. Job!SaidAt(L, n + 1) = <<c.info>>
  BY <1>1 DEF Job!SaidAt
<1>5. /\ FirstBad(L) = IF FirstBad(l) = 0 /\ c.bad THEN n + 1 ELSE FirstBad(l)
      /\ FirstFault(L) = IF FirstFault(l) = 0 /\ c.fault THEN n + 1 ELSE FirstFault(l)
  BY FirstAppend
<1> HIDE DEF L, n
<1>6. SaidBad(L) = IF SaidBad(l) = <<>> /\ c.bad THEN <<c.info>> ELSE SaidBad(l)
  BY <1>2, <1>3, <1>4, <1>5 DEF SaidBad
<1>7. SaidFault(L) = IF SaidFault(l) = <<>> /\ c.fault THEN <<c.info>> ELSE SaidFault(l)
  BY <1>2, <1>3, <1>4, <1>5 DEF SaidFault
<1> QED BY <1>6, <1>7 DEF L

\* A remainder is determined by its number and its range.
LEMMA Remainder ==
  ASSUME NEW q \in Nat, NEW r \in 0 .. CountRange - 1
  PROVE  (CountRange * q + r) % CountRange = r
BY CountAssumption

\* A counter that wraps counts modulo its range.
LEMMA WrapsOnce ==
  ASSUME NEW n \in Nat
  PROVE  ((n % CountRange) + 1) % CountRange = (n + 1) % CountRange
<1> DEFINE q == n \div CountRange
           r == n % CountRange
<1>1. q \in Nat /\ r \in 0 .. CountRange - 1 /\ n = CountRange * q + r
  BY CountAssumption
<1> HIDE DEF q, r
<1>2. CASE r + 1 < CountRange
  <2>1. /\ r + 1 \in 0 .. CountRange - 1
        /\ n + 1 = CountRange * q + (r + 1) /\ r + 1 = CountRange * 0 + (r + 1)
    BY CountAssumption, <1>1, <1>2
  <2>2. /\ (CountRange * q + (r + 1)) % CountRange = r + 1
        /\ (CountRange * 0 + (r + 1)) % CountRange = r + 1
    BY <1>1, <2>1, Remainder
  <2> QED BY <2>1, <2>2 DEF r
<1>3. CASE r + 1 = CountRange
  <2>1. n + 1 = CountRange * (q + 1) + 0 /\ r + 1 = CountRange * 1 + 0
    BY CountAssumption, <1>1, <1>3
  <2>2. (CountRange * (q + 1) + 0) % CountRange = 0 /\ (CountRange * 1 + 0) % CountRange = 0
    BY CountAssumption, <1>1, Remainder
  <2> QED BY <2>1, <2>2 DEF r
<1> QED BY CountAssumption, <1>1, <1>2, <1>3

----------------------------------------------------------------------------
(* The job *)

\* The summary the hardware should have kept of a log.
Account(l) == [count |-> Len(l) % CountRange, error |-> SaidBad(l), fault |-> SaidFault(l)]

\* The report the abstract specification makes of a log.
LEMMA ReportIs ==
  ASSUME NEW l \in Seq(Retired), NEW f, NEW t, NEW v
  PROVE  Job!Report(l, f, t, v) =
           [valid |-> TRUE, done |-> v.done, failed |-> v.failed,
            error |-> (v.failed \/ f \/ t # {} \/ SaidBad(l) # <<>> \/ SaidFault(l) # <<>>),
            retired |-> Account(l), fetchFault |-> f]
<1>1. (FirstBad(l) # 0 <=> SaidBad(l) # <<>>) /\ (FirstFault(l) # 0 <=> SaidFault(l) # <<>>)
  BY DEF SaidBad, SaidFault, Job!SaidAt
<1>2. Job!Report(l, f, t, v) =
           [valid |-> TRUE, done |-> v.done, failed |-> v.failed,
            error |-> (v.failed \/ f \/ t # {} \/ FirstBad(l) # 0 \/ FirstFault(l) # 0),
            retired |-> Account(l), fetchFault |-> f]
  BY DEF Job!Report, FirstBad, FirstFault, SaidBad, SaidFault, Account
<1> QED BY <1>1, <1>2

\* The program's error flags tell what the job has met.  The one that lasts may
\* also stand for a failure or for a bad completion, which the report has from
\* elsewhere.
ErrorsTold ==
  /\ "PATH" \in programErrors <=> "PATH" \in troubled
  /\ "HELD" \in troubled => "HELD" \in programErrors
  /\ "HELD" \in programErrors =>
       \/ "HELD" \in troubled \/ retired.error # <<>>
       \/ phase = "RUN" /\ prog = "FAILED"
       \/ phase = "DRAIN" /\ terminal.failed

\* The running summary is the account of the log, and the sticky fault and the
\* error flags of the program are those of the job, from the launch to the report.
JobInv ==
  /\ mode = "DIRECT" => phase = "IDLE"
  /\ mode # "DIRECT" /\ ProgramActive => phase = "RUN"
  /\ clearPulse => phase = "IDLE"
  /\ phase \notin {"RUN", "DRAIN"} => pathBroken = FALSE /\ troubled = {}
  /\ phase \in {"RUN", "DRAIN"} => pathBroken = fetchFault /\ ErrorsTold
  /\ troubled \subseteq Trouble
  /\ fetchFault \in BOOLEAN /\ pathBroken \in BOOLEAN
  /\ terminal \in [done : BOOLEAN, failed : BOOLEAN]
  /\ ~result.valid => result = NoResult
  /\ log \in Seq(Retired)
  /\ JobOwned => retired = Account(log)

\* A job begins with nothing to account for.
LEMMA AccountOfNone == Account(<<>>) = NoRecord
<1>1. <<>> \in Seq(Retired) /\ DOMAIN <<>> = {} /\ Len(<<>>) = 0
  OBVIOUS
<1>2. FirstBad(<<>>) = 0 /\ FirstFault(<<>>) = 0
  BY <1>1, FirstOfIsFirst DEF First
<1>3. SaidBad(<<>>) = <<>> /\ SaidFault(<<>>) = <<>>
  BY <1>2 DEF SaidBad, SaidFault, Job!SaidAt
<1>4. Len(<<>>) % CountRange = 0
  BY <1>1, CountAssumption
<1> QED BY <1>3, <1>4 DEF Account, NoRecord

\* What a cycle writes, field by field.
LEMMA CycleWrites ==
  ASSUME NEW request \in Requests, NEW retire \in Retirements, NEW event, NEW granted, NEW raised, NEW leaves, NEW clear,
         NEW troubles,
         Cycle(request, retire, event, granted, raised, leaves, clear, troubles),
         NEW in, in = In(request, retire, event, granted)
  PROVE  /\ phase' = NextPhase(in)
         /\ retired' = IF Submitted(in) = "START" THEN NoRecord
                       ELSE IF JobOwned /\ retire.valid THEN Summarise(retire) ELSE retired
         /\ terminal' = IF Submitted(in) = "START" THEN NoEnd
                        ELSE IF Ends(in) THEN Pulse ELSE terminal
         /\ result' = IF Submitted(in) = "ACK_RESULT" THEN NoResult
                      ELSE IF Publishes(in) THEN Publication(in) ELSE result
         /\ log' = IF Submitted(in) \in {"START", "ACK_RESULT"} THEN << >>
                   ELSE IF JobOwned /\ retire.valid THEN Append(log, retire) ELSE log
         /\ fetchFault' = FaultAfter(event, in.started)
         /\ irqPending' \subseteq irqPending \cup EventsOf(in) /\ EventsOf(in) \subseteq irqPending'
         /\ mode' = mode
<1>1. HostEdge(in) /\ HistoryEdge(in, event, troubles)
      /\ SystemEdge(event, PortsValid, granted, leaves, clear, Errors(retire, troubles))
      /\ mode' = mode
  BY CycleHost
<1>2. in.request = request /\ in.retire = retire /\ in.ended = Pulse
      /\ in.started = Fires("START", PortsValid, granted)
  BY PortFields
<1> QED BY <1>1, <1>2 DEF HostEdge, PhaseEdge, RetireEdge, RetiredNext, TerminalEdge, ResultEdge,
     IrqEdge, IrqAfter, HistoryEdge, SystemEdge, FaultEdge

\* What a cycle writes of the faults and errors its job has met.
LEMMA CycleRecords ==
  ASSUME NEW request \in Requests, NEW retire \in Retirements, NEW event, NEW granted, NEW raised, NEW leaves, NEW clear,
         NEW troubles,
         Cycle(request, retire, event, granted, raised, leaves, clear, troubles),
         NEW in, in = In(request, retire, event, granted)
  PROVE  /\ pathBroken' = IF ~JobOwned \/ Publishes(in) \/ Redirects(event) THEN FALSE
                          ELSE IF pathBroken \/ LiveFault(event) THEN TRUE ELSE FALSE
         /\ troubled' = IF ~JobOwned \/ Publishes(in) THEN {} ELSE TroubledBy(event, troubles)
         /\ clearPulse' = IF Submitted(in) = "CLEAR_PROTOCOL" THEN TRUE ELSE FALSE
<1>1. HostEdge(in) /\ HistoryEdge(in, event, troubles)
  BY CycleHost
<1> QED BY <1>1 DEF HostEdge, ClearEdge, HistoryEdge, Bit

\* The program behind the ports: it is launched from START, and what happens
\* to its path happens while it is active.
LEMMA ProgramWrites ==
  ASSUME JobInv, OwnershipInv,
         NEW request, NEW retire, NEW event, NEW granted, NEW raised, NEW leaves, NEW clear,
         NEW troubles,
         Cycle(request, retire, event, granted, raised, leaves, clear, troubles),
         NEW in, in = In(request, retire, event, granted)
  PROVE  /\ ProgramActive' => in.started \/ (ProgramActive /\ event \notin Endings)
         /\ mode # "DIRECT" /\ in.started => phase = "START"
         /\ Redirects(event) => ProgramActive
         /\ LiveFault(event) => ProgramActive
         /\ troubles # {} => ProgramActive
         /\ event = "END_FAILED" => ProgramActive /\ (~in.started => prog' = "FAILED")
         /\ programErrors' =
              IF in.started THEN {}
              ELSE IF ProgramActive
                   THEN Outlives(event, programErrors \cup Errors(retire, troubles))
                          \cup (IF event = "END_FAILED" THEN {"HELD"} ELSE {})
              ELSE IF clear THEN programErrors \ {"HELD"} ELSE programErrors
<1>1. SystemEdge(event, PortsValid, granted, leaves, clear, Errors(retire, troubles))
      /\ (troubles # {} => ProgramActive)
  BY CycleHost
<1>2. in.started = Fires("START", PortsValid, granted)
  BY PortFields
<1>3. ProgramEdge(event, in.started, leaves) /\ (event = "REDIRECT_ANSWERED" => ProgramActive)
  BY <1>1, <1>2 DEF SystemEdge
<1>4. ProgramActive' => in.started \/ (ProgramActive /\ event \notin Endings)
  BY <1>3 DEF ProgramEdge, ProgramActive, Endings
<1>5. mode # "DIRECT" /\ in.started => phase = "START"
  BY <1>2 DEF Fires, PortsValid, PendingPort
<1>6. Redirects(event) => ProgramActive
  BY <1>3 DEF ProgramEdge, ProgramCan, Redirects, Endings
<1>7. LiveFault(event) => ProgramActive
  BY DEF LiveFault, OwnershipInv
<1>8. event = "END_FAILED" => ProgramActive /\ (~in.started => prog' = "FAILED")
  BY <1>3 DEF ProgramEdge, ProgramCan, Endings
<1>9. ErrorEdge(event, in.started, Errors(retire, troubles), clear)
  BY <1>1, <1>2 DEF SystemEdge
<1> QED BY <1>1, <1>4, <1>5, <1>6, <1>7, <1>8, <1>9 DEF ErrorEdge

\* A completion is taken, or nothing is.
LEMMA Taken ==
  ASSUME NEW retire \in Retirements
  PROVE  (retire.valid => retire \in Retired) /\ (retire.bad => retire.valid)
<1>1. CASE retire = NoRetire
  BY <1>1 DEF NoRetire
<1>2. CASE retire \in Retired
  <2>1. retire.valid = TRUE
    BY <1>2 DEF Retired
  <2> QED BY <1>2, <2>1
<1> QED BY <1>1, <1>2 DEF Retirements, Retired

\* One completion more: count, first error and first fault are updated as if
\* the log had been read again.
LEMMA SummariseIs ==
  ASSUME NEW retire \in Retirements, retire.valid, log \in Seq(Retired), retired = Account(log)
  PROVE  /\ Append(log, retire) \in Seq(Retired)
         /\ Summarise(retire) = Account(Append(log, retire))
         /\ retire.bad => Summarise(retire).error # <<>>
         /\ retired.error # <<>> => Summarise(retire).error # <<>>
<1>1. retire \in Retired
  BY Taken
<1>2. Append(log, retire) \in Seq(Retired) /\ Len(Append(log, retire)) = Len(log) + 1 /\ Len(log) \in Nat
  BY <1>1
<1>3. /\ retired.count = Len(log) % CountRange
      /\ retired.error = SaidBad(log) /\ retired.fault = SaidFault(log)
  BY DEF Account
<1>4. (retired.count + 1) % CountRange = Len(Append(log, retire)) % CountRange
  BY <1>2, <1>3, WrapsOnce
<1>5. Summarise(retire) = Account(Append(log, retire))
  BY <1>1, <1>3, <1>4, SaidAppend DEF Summarise, Account
<1>6. (retire.bad \/ retired.error # <<>>) => Summarise(retire).error # <<>>
  BY DEF Summarise
<1> QED BY <1>2, <1>5, <1>6

\* The terminal pulses follow the state of the program.
LEMMA PulseFields ==
  /\ Pulse.done <=> prog = "DONE"
  /\ Pulse.failed <=> prog = "FAILED"
BY DEF Pulse

\* One cycle keeps the flags telling what the job has met: a launch clears them,
\* a branch those of its path, and software's clear comes only between jobs.
LEMMA ErrorsStep ==
  ASSUME JobInv, OwnershipInv, HostInv,
         NEW request \in Requests, NEW retire \in Retirements, NEW event, NEW granted, NEW raised, NEW leaves, NEW clear,
         NEW troubles,
         Cycle(request, retire, event, granted, raised, leaves, clear, troubles),
         NEW in, in = In(request, retire, event, granted),
         mode # "DIRECT" => clear = clearPulse,
         Submitted(in) = "NONE", JobOwned, ~Publishes(in), mode # "DIRECT",
         phase = "START" => in.started /\ phase' = "RUN",
         phase # "START" => ~in.started,
         ProgramActive => phase = "RUN"
  PROVE  ErrorsTold'
<1>1. /\ phase' = NextPhase(in) /\ in.ended = Pulse
      /\ retired' = IF retire.valid THEN Summarise(retire) ELSE retired
      /\ terminal' = IF Ends(in) THEN Pulse ELSE terminal
      /\ troubled' = TroubledBy(event, troubles)
  <2>1. in.ended = Pulse
    BY PortFields
  <2>2. /\ phase' = NextPhase(in)
        /\ retired' = IF retire.valid THEN Summarise(retire) ELSE retired
        /\ terminal' = IF Ends(in) THEN Pulse ELSE terminal
    BY CycleWrites
  <2>3. troubled' = TroubledBy(event, troubles)
    BY CycleRecords
  <2> QED BY <2>1, <2>2, <2>3
<1>2. /\ Redirects(event) => ProgramActive
      /\ troubles # {} => ProgramActive
      /\ event = "END_FAILED" => ProgramActive /\ (~in.started => prog' = "FAILED")
      /\ programErrors' =
           IF in.started THEN {}
           ELSE IF ProgramActive
                THEN Outlives(event, programErrors \cup Errors(retire, troubles))
                       \cup (IF event = "END_FAILED" THEN {"HELD"} ELSE {})
           ELSE IF clear THEN programErrors \ {"HELD"} ELSE programErrors
  BY ProgramWrites
<1>3. /\ retire.bad => retired'.error # <<>>
      /\ retired.error # <<>> => retired'.error # <<>>
  <2>1. retired = Account(log) /\ log \in Seq(Retired)
    BY DEF JobInv
  <2>2. retire.bad => retire.valid
    BY Taken
  <2> QED BY <1>1, <2>1, <2>2, SummariseIs
<1>4. CASE phase = "START"
  <2>1. troubled' = {} /\ programErrors' = {}
    BY <1>1, <1>2, <1>4 DEF JobInv, TroubledBy
  <2> QED BY <2>1 DEF ErrorsTold
<1>5. CASE phase = "RUN" /\ ProgramActive
  <2>1. ~Ends(in) /\ phase' = "RUN"
    <3>1. ~Ends(in)
      BY <1>1, <1>5, PulseFields DEF Ends, ProgramActive
    <3> QED BY <1>1, <1>5, <3>1 DEF NextPhase, Publishes, CfgAnswered, MaintAnswered
  <2>2. ErrorsTold /\ prog # "FAILED"
    BY <1>5 DEF JobInv, ProgramActive
  <2>3. programErrors' = Outlives(event, programErrors \cup Errors(retire, troubles))
                           \cup (IF event = "END_FAILED" THEN {"HELD"} ELSE {})
    BY <1>2, <1>5
  <2>4. "PATH" \in programErrors' <=> "PATH" \in troubled'
    BY <1>1, <2>2, <2>3 DEF Outlives, Errors, ErrorsTold, TroubledBy
  <2>5. "HELD" \in troubled' => "HELD" \in programErrors'
    BY <1>1, <2>2, <2>3 DEF Outlives, Errors, ErrorsTold, TroubledBy
  <2>6. "HELD" \in programErrors' =>
          "HELD" \in troubled' \/ retired'.error # <<>> \/ prog' = "FAILED"
    BY <1>1, <1>2, <1>3, <1>5, <2>2, <2>3 DEF Outlives, Errors, ErrorsTold, TroubledBy
  <2> QED BY <2>1, <2>4, <2>5, <2>6 DEF ErrorsTold
<1>6. CASE phase \in {"RUN", "DRAIN"} /\ ~ProgramActive
  <2>1. troubled' = troubled /\ programErrors' = programErrors
    BY <1>1, <1>2, <1>6 DEF JobInv, TroubledBy
  <2>2. ErrorsTold
    BY <1>6 DEF JobInv
  <2>3. phase = "RUN" /\ prog = "FAILED" => phase' = "DRAIN" /\ terminal'.failed
    <3> SUFFICES ASSUME phase = "RUN", prog = "FAILED" PROVE phase' = "DRAIN" /\ terminal'.failed
      OBVIOUS
    <3>1. Pulse.failed
      BY PulseFields
    <3>2. Ends(in)
      BY <1>1, <3>1 DEF Ends
    <3> QED BY <1>1, <3>1, <3>2 DEF NextPhase
  <2>4. phase = "DRAIN" => phase' = "DRAIN" /\ terminal' = terminal
    BY <1>1 DEF NextPhase, Ends, CfgAnswered, MaintAnswered
  <2> QED BY <1>3, <2>1, <2>2, <2>3, <2>4 DEF ErrorsTold
<1> QED BY <1>4, <1>5, <1>6 DEF JobOwned

\* One cycle keeps the account.
LEMMA JobStep ==
  ASSUME JobInv, OwnershipInv, HostInv,
         NEW request \in Requests, NEW retire \in Retirements, NEW event, NEW granted, NEW raised, NEW leaves, NEW clear,
         NEW troubles,
         Cycle(request, retire, event, granted, raised, leaves, clear, troubles),
         troubles \subseteq Trouble,
         mode = "DIRECT" => request = NoRequest /\ retire = NoRetire,
         mode # "DIRECT" => clear = clearPulse
  PROVE  JobInv'
<1> DEFINE in == In(request, retire, event, granted)
<1>1. in.request = request /\ in.retire = retire /\ in.ended = Pulse
  BY PortFields
<1>2. Submitted(in) # "NONE" => phase = "IDLE" /\ mode # "DIRECT"
  BY <1>1, SubmittedWhenIdle DEF Submitted, NoRequest
<1>3. phase' = NextPhase(in)
  BY CycleWrites
<1>4. /\ pathBroken' = IF ~JobOwned \/ Publishes(in) \/ Redirects(event) THEN FALSE
                        ELSE IF pathBroken \/ LiveFault(event) THEN TRUE ELSE FALSE
      /\ troubled' = IF ~JobOwned \/ Publishes(in) THEN {} ELSE TroubledBy(event, troubles)
      /\ clearPulse' = IF Submitted(in) = "CLEAR_PROTOCOL" THEN TRUE ELSE FALSE
  BY CycleRecords
<1>5. fetchFault' = FaultAfter(event, in.started) /\ mode' = mode
  BY CycleWrites
<1>6. /\ ProgramActive' => in.started \/ (ProgramActive /\ event \notin Endings)
      /\ mode # "DIRECT" /\ in.started => phase = "START"
      /\ Redirects(event) => ProgramActive
      /\ LiveFault(event) => ProgramActive
      /\ troubles # {} => ProgramActive
  BY ProgramWrites
<1> HIDE DEF in
<1>7. mode' = "DIRECT" => phase' = "IDLE"
  BY <1>2, <1>3, <1>5 DEF JobInv, NextPhase, Publishes, CfgAnswered, MaintAnswered, Ends
<1>8. mode' # "DIRECT" /\ ProgramActive' => phase' = "RUN"
  <2> SUFFICES ASSUME mode # "DIRECT", ProgramActive' PROVE NextPhase(in) = "RUN"
    BY <1>3, <1>5
  <2>1. CASE in.started
    BY <1>2, <1>6, <2>1 DEF NextPhase
  <2>2. CASE ProgramActive
    <3>1. phase = "RUN"
      BY <1>6, <2>2 DEF JobInv
    <3>2. prog # "DONE" /\ prog # "FAILED"
      BY <2>2 DEF ProgramActive
    <3>3. ~in.ended.done /\ ~in.ended.failed
      BY <1>1, <3>2, PulseFields
    <3> QED BY <1>2, <3>1, <3>3 DEF NextPhase, Ends, Publishes, CfgAnswered, MaintAnswered
  <2> QED BY <1>6, <2>1, <2>2
<1>9. clearPulse' => phase' = "IDLE"
  BY <1>2, <1>3, <1>4 DEF Bit, NextPhase, Publishes, CfgAnswered, MaintAnswered, Ends
<1>10. phase' \notin {"RUN", "DRAIN"} => pathBroken' = FALSE /\ troubled' = {}
  <2> SUFFICES ASSUME phase' \notin {"RUN", "DRAIN"}, JobOwned, ~Publishes(in)
               PROVE  pathBroken' = FALSE /\ troubled' = {}
    BY <1>4
  <2>1. phase = "START" /\ mode # "DIRECT"
    BY <1>2, <1>3 DEF NextPhase, JobOwned, Publishes, CfgAnswered, MaintAnswered, Ends, JobInv
  <2>2. pathBroken = FALSE /\ troubled = {} /\ ~ProgramActive
    BY <2>1 DEF JobInv
  <2> QED BY <1>4, <1>6, <2>2 DEF Bit, TroubledBy
<1>11. phase' \in {"RUN", "DRAIN"} => pathBroken' = fetchFault' /\ ErrorsTold'
  <2> SUFFICES ASSUME phase' \in {"RUN", "DRAIN"} PROVE pathBroken' = fetchFault' /\ ErrorsTold'
    OBVIOUS
  <2>1. Submitted(in) = "NONE" /\ JobOwned /\ ~Publishes(in) /\ mode # "DIRECT"
    BY <1>2, <1>3 DEF NextPhase, JobOwned, Publishes, CfgAnswered, MaintAnswered, Ends, Ports, SubmittedWhenIdle, JobInv
  <2>2. phase = "START" => in.started /\ phase' = "RUN"
    BY <1>3, <2>1 DEF NextPhase, Publishes, CfgAnswered, MaintAnswered, Ends
  <2>3. phase # "START" => ~in.started
    BY <1>6, <2>1 DEF JobInv, JobOwned
  <2>4. ProgramActive => phase = "RUN"
    BY <2>1 DEF JobInv
  <2>5. pathBroken' = fetchFault'
    BY <1>4, <1>5, <1>6, <2>1, <2>2, <2>3, <2>4 DEF FaultAfter, Bit, JobInv, JobOwned
  <2>6. ErrorsTold'
    BY <2>1, <2>2, <2>3, <2>4, ErrorsStep DEF in
  <2> QED BY <2>5, <2>6
<1>12. fetchFault' \in BOOLEAN /\ pathBroken' \in BOOLEAN /\ troubled' \subseteq Trouble
  BY <1>4, <1>5 DEF FaultAfter, Bit, JobInv, TroubledBy
<1>13. terminal' \in [done : BOOLEAN, failed : BOOLEAN]
  <2>1. terminal' = IF Submitted(in) = "START" THEN NoEnd ELSE IF Ends(in) THEN Pulse ELSE terminal
    BY CycleWrites DEF in
  <2> QED BY <2>1 DEF NoEnd, Pulse, JobInv
<1>14. ~result'.valid => result' = NoResult
  <2>1. result' = IF Submitted(in) = "ACK_RESULT" THEN NoResult
                      ELSE IF Publishes(in) THEN Publication(in) ELSE result
    BY CycleWrites DEF in
  <2>2. Publication(in).valid = TRUE
    BY DEF Publication, Published
  <2> QED BY <2>1, <2>2 DEF JobInv
<1>15. /\ log' \in Seq(Retired)
       /\ JobOwned' => retired' = Account(log')
  <2>1. /\ retired' = IF Submitted(in) = "START" THEN NoRecord
                       ELSE IF JobOwned /\ retire.valid THEN Summarise(retire) ELSE retired
        /\ log' = IF Submitted(in) \in {"START", "ACK_RESULT"} THEN << >>
                   ELSE IF JobOwned /\ retire.valid THEN Append(log, retire) ELSE log
    BY CycleWrites DEF in
  <2>2. JobOwned' => Submitted(in) = "START" \/ (JobOwned /\ Submitted(in) = "NONE")
    BY <1>2, <1>3 DEF NextPhase, JobOwned, Publishes, CfgAnswered, MaintAnswered, Ends
  <2>3. CASE Submitted(in) \in {"START", "ACK_RESULT"}
    BY <2>1, <2>2, <2>3, AccountOfNone
  <2>4. CASE Submitted(in) \notin {"START", "ACK_RESULT"} /\ JobOwned /\ retire.valid
    BY <2>1, <2>4, SummariseIs DEF JobInv
  <2>5. CASE Submitted(in) \notin {"START", "ACK_RESULT"} /\ ~(JobOwned /\ retire.valid)
    BY <2>1, <2>2, <2>5 DEF JobInv
  <2> QED BY <2>3, <2>4, <2>5
<1> QED BY <1>7, <1>8, <1>9, <1>10, <1>11, <1>12, <1>13, <1>14, <1>15 DEF JobInv

----------------------------------------------------------------------------
(* The report as the abstract specification defines it *)

\* One cycle is a step of JobReport or leaves what it shows alone.
LEMMA ReportStep ==
  ASSUME JobInv, JobInv', OwnershipInv, HostInv,
         NEW request \in Requests, NEW retire \in Retirements, NEW event, NEW granted, NEW raised, NEW leaves, NEW clear,
         NEW troubles,
         Cycle(request, retire, event, granted, raised, leaves, clear, troubles),
         mode = "DIRECT" => request = NoRequest /\ retire = NoRetire
  PROVE  Job!ReportNext
<1> DEFINE in == In(request, retire, event, granted)
           sub == Submitted(in)
<1>1. /\ in.request = request /\ in.retire = retire
      /\ in.ended = Pulse /\ in.programError = ProgramError /\ in.fetchFault = fetchFault
  BY PortFields
<1>2. /\ sub # "NONE" => phase = "IDLE" /\ mode # "DIRECT"
      /\ sub \in Ports \cup {"ACK_RESULT", "CLEAR_PROTOCOL", "NONE"}
      /\ sub = "START" => ~result.valid
  BY <1>1, SubmittedWhenIdle DEF Submitted, NoRequest
<1>3. /\ phase' = NextPhase(in)
      /\ terminal' = IF sub = "START" THEN NoEnd
                     ELSE IF Ends(in) THEN Pulse ELSE terminal
      /\ result' = IF sub = "ACK_RESULT" THEN NoResult
                   ELSE IF Publishes(in) THEN Publication(in) ELSE result
      /\ log' = IF sub \in {"START", "ACK_RESULT"} THEN << >>
                ELSE IF JobOwned /\ retire.valid THEN Append(log, retire) ELSE log
      /\ irqPending' \subseteq irqPending \cup EventsOf(in) /\ EventsOf(in) \subseteq irqPending'
  BY CycleWrites
<1>4. /\ pathBroken' = IF ~JobOwned \/ Publishes(in) \/ Redirects(event) THEN FALSE
                       ELSE IF pathBroken \/ LiveFault(event) THEN TRUE ELSE FALSE
      /\ troubled' = IF ~JobOwned \/ Publishes(in) THEN {} ELSE TroubledBy(event, troubles)
      /\ Redirects(event) => ProgramActive
      /\ LiveFault(event) => ProgramActive
      /\ troubles # {} => ProgramActive
  BY CycleRecords, ProgramWrites
<1>5. retired = Account(log) => RetiredNext(in) = Account(log') \/ ~JobOwned \/ sub # "NONE"
  BY <1>1, <1>3, SummariseIs DEF RetiredNext, JobInv
<1>6. JobOwned /\ sub = "NONE" => Job!Extends(log, log')
  <2>1. log \in Seq(Retired)
    BY DEF JobInv
  <2>2. Len(Append(log, retire)) = Len(log) + 1 /\ SubSeq(Append(log, retire), 1, Len(log)) = log
    BY <2>1
  <2> QED BY <1>3, <2>2 DEF Job!Extends
<1>7. ~JobOwned /\ sub \notin {"START", "ACK_RESULT"} => log' = log
  BY <1>3
<1>8. phase # "RUN" /\ ~Publishes(in) => pathBroken' = pathBroken /\ troubled' = troubled
  <2> SUFFICES ASSUME phase # "RUN", ~Publishes(in)
               PROVE  pathBroken' = pathBroken /\ troubled' = troubled
    OBVIOUS
  <2>1. CASE JobOwned
    <3>1. ~ProgramActive
      BY <2>1 DEF JobInv, JobOwned
    <3> QED BY <1>4, <2>1, <3>1 DEF JobInv, Bit, TroubledBy
  <2>2. CASE ~JobOwned
    BY <1>4, <2>2 DEF JobInv, JobOwned
  <2> QED BY <2>1, <2>2
<1>9. JobOwned /\ ~Publishes(in) => troubled \ {"PATH"} \subseteq troubled'
  BY <1>4 DEF TroubledBy
<1> HIDE DEF in
<1>10. CASE sub = "START"
  <2>1. phase = "IDLE" /\ ~result.valid /\ result = NoResult
    BY <1>2, <1>10 DEF JobInv
  <2>2. phase' = "START" /\ terminal' = NoEnd /\ result' = result /\ log' = <<>>
        /\ pathBroken' = pathBroken /\ troubled' = troubled
    BY <1>3, <1>8, <1>10, <2>1 DEF NextPhase, Publishes
  <2>3. EventsOf(in) = {}
    BY <2>1 DEF EventsOf, Publishes, CfgAnswered, MaintAnswered
  <2>4. Job!Submit
    BY <1>3, <2>1, <2>2, <2>3 DEF Job!Submit, Job!Notifies, Job!NoReport, Job!NoVerdict, NoResult, NoRecord, NoEnd, JobOwned
  <2> QED BY <2>4 DEF Job!ReportNext
<1>11. CASE sub = "ACK_RESULT"
  <2>1. phase = "IDLE"
    BY <1>2, <1>11
  <2>2. phase' = "IDLE" /\ result' = NoResult /\ log' = <<>>
        /\ pathBroken' = pathBroken /\ troubled' = troubled
    BY <1>3, <1>8, <1>11, <2>1 DEF NextPhase, Ends, Publishes, CfgAnswered, MaintAnswered
  <2>3. EventsOf(in) = {}
    BY <2>1 DEF EventsOf, Publishes, CfgAnswered, MaintAnswered
  <2>4. ~NoResult.valid /\ ~JobOwned'
    BY <2>2 DEF NoResult, JobOwned
  <2>5. Job!Acknowledge
    BY <1>3, <2>1, <2>2, <2>3, <2>4 DEF Job!Acknowledge, Job!Notifies, Job!NoReport, Job!NoVerdict, NoResult, NoRecord, NoEnd
  <2> QED BY <2>5 DEF Job!ReportNext
<1>12. CASE sub \in {"MMU", "MAINT", "CLEAR_PROTOCOL"} \/ (sub = "NONE" /\ phase = "IDLE")
  <2>1. phase = "IDLE"
    BY <1>2, <1>12
  <2>2. phase' \in {"IDLE", "MMU_REQ", "MAINT_REQ"} /\ terminal' = terminal /\ result' = result
    BY <1>3, <1>12, <2>1 DEF NextPhase, Ends, Publishes, CfgAnswered, MaintAnswered
  <2>3. log' = log /\ pathBroken' = pathBroken /\ troubled' = troubled
    BY <1>7, <1>8, <1>12, <2>1 DEF JobOwned, Publishes
  <2>4. EventsOf(in) = {}
    BY <2>1 DEF EventsOf, Publishes, CfgAnswered, MaintAnswered
  <2>5. Job!Clear
    BY <1>3, <2>1, <2>2, <2>3, <2>4 DEF Job!Clear, Job!Notifies, JobOwned
  <2> QED BY <2>5 DEF Job!ReportNext
<1>13. CASE sub = "NONE" /\ phase \in {"START", "RUN"} /\ ~Ends(in)
  <2>1. phase' \in {"START", "RUN"} /\ terminal' = terminal /\ result' = result
    BY <1>3, <1>13 DEF NextPhase, Publishes, CfgAnswered, MaintAnswered
  <2>2. EventsOf(in) = {}
    BY <1>13 DEF EventsOf, Publishes, CfgAnswered, MaintAnswered
  <2>3. Job!Work
    BY <1>3, <1>6, <1>9, <1>13, <2>1, <2>2 DEF Job!Work, Job!Notifies, JobOwned, Publishes
  <2> QED BY <2>3 DEF Job!ReportNext
<1>14. CASE sub = "NONE" /\ Ends(in)
  <2>1. phase = "RUN" /\ phase' = "DRAIN" /\ terminal' = Pulse /\ result' = result
    BY <1>3, <1>14 DEF NextPhase, Publishes, Ends
  <2>2. EventsOf(in) = {}
    BY <2>1 DEF EventsOf, Publishes, CfgAnswered, MaintAnswered
  <2>3. Pulse.done # Pulse.failed /\ ~ProgramActive
    BY <1>1, <1>14, PulseFields, Zenon DEF Ends, ProgramActive
  <2>4. pathBroken' = pathBroken /\ troubled' = troubled
    BY <1>4, <1>14, <2>1, <2>3 DEF JobInv, Bit, JobOwned, Publishes, TroubledBy
  <2>5. Job!End
    BY <1>3, <1>6, <1>14, <2>1, <2>2, <2>3, <2>4 DEF Job!End, Job!Notifies, JobOwned
  <2> QED BY <2>5 DEF Job!ReportNext
<1>15. CASE sub = "NONE" /\ phase = "DRAIN" /\ ~Publishes(in)
  <2>1. phase' = "DRAIN" /\ terminal' = terminal /\ result' = result
    BY <1>3, <1>15 DEF NextPhase, Ends, CfgAnswered, MaintAnswered
  <2>2. EventsOf(in) = {}
    BY <1>15 DEF EventsOf, CfgAnswered, MaintAnswered
  <2>3. Job!Drain
    BY <1>3, <1>6, <1>8, <1>15, <2>1, <2>2 DEF Job!Drain, Job!Notifies, JobOwned
  <2> QED BY <2>3 DEF Job!ReportNext
<1>16. CASE sub = "NONE" /\ Publishes(in)
  <2>1. phase = "DRAIN" /\ phase' = "IDLE" /\ terminal' = terminal /\ result' = Publication(in)
    BY <1>3, <1>16 DEF NextPhase, Publishes, Ends
  <2>2. /\ JobOwned /\ ~JobOwned' /\ retired = Account(log) /\ pathBroken = fetchFault
        /\ ErrorsTold /\ log' \in Seq(Retired)
    BY <2>1 DEF JobOwned, JobInv
  <2>3. RetiredNext(in) = Account(log')
    BY <1>5, <1>16, <2>2
  <2>4. Publication(in) =
           [valid |-> TRUE, done |-> terminal.done, failed |-> terminal.failed,
            error |-> Bit(ProgramError \/ terminal.failed \/ SaidBad(log') # <<>>
                            \/ SaidFault(log') # <<>> \/ pathBroken),
            retired |-> Account(log'), fetchFault |-> pathBroken]
    BY <1>1, <2>2, <2>3 DEF Publication, Published, Account
  <2>5. Publication(in) = Job!Report(log', pathBroken, troubled, terminal)
    <3>1. programErrors \subseteq {"HELD", "PATH"} /\ troubled \subseteq {"HELD", "PATH"}
      BY DEF OwnershipInv, JobInv, Trouble
    <3>2. troubled # {} => ProgramError
      BY <2>2, <3>1 DEF ErrorsTold, ProgramError
    <3>3. ProgramError => troubled # {} \/ retired.error # <<>> \/ terminal.failed
      BY <2>1, <2>2, <3>1 DEF ErrorsTold, ProgramError
    <3>4. retired.error # <<>> => SaidBad(log') # <<>>
      <4>1. retired.error # <<>> => RetiredNext(in).error # <<>>
        BY DEF RetiredNext, Summarise
      <4> QED BY <2>3, <4>1 DEF Account
    <3>5. (ProgramError \/ terminal.failed \/ SaidBad(log') # <<>> \/ SaidFault(log') # <<>> \/ pathBroken)
            <=> (terminal.failed \/ pathBroken \/ troubled # {} \/ SaidBad(log') # <<>> \/ SaidFault(log') # <<>>)
      BY <3>2, <3>3, <3>4
    <3>6. Bit(ProgramError \/ terminal.failed \/ SaidBad(log') # <<>> \/ SaidFault(log') # <<>> \/ pathBroken)
            = (terminal.failed \/ pathBroken \/ troubled # {} \/ SaidBad(log') # <<>> \/ SaidFault(log') # <<>>)
      BY <3>5, Zenon DEF Bit
    <3> QED BY <2>2, <2>4, <3>6, ReportIs
  <2>6. result'.valid /\ pathBroken' = FALSE /\ troubled' = {}
    BY <1>4, <1>16, <2>1, <2>4
  <2>7. EventsOf(in) = {"COMPLETE"} \cup (IF result'.error THEN {"ERROR"} ELSE {})
    BY <1>16, <2>1 DEF EventsOf, CfgAnswered, MaintAnswered
  <2>8. Job!Publish
    BY <1>3, <1>6, <1>16, <2>1, <2>2, <2>5, <2>6, <2>7 DEF Job!Publish, Job!Notifies, JobOwned
  <2> QED BY <2>8 DEF Job!ReportNext
<1>17. CASE sub = "NONE" /\ phase \in {"MMU_REQ", "MMU_RSP", "MAINT_REQ", "MAINT_RSP"}
  <2>1. phase' \in {"MMU_REQ", "MMU_RSP", "MAINT_REQ", "MAINT_RSP", "IDLE"} /\ terminal' = terminal /\ result' = result
    BY <1>3, <1>17 DEF NextPhase, Ends, Publishes, CfgAnswered, MaintAnswered
  <2>2. log' = log /\ pathBroken' = pathBroken /\ troubled' = troubled
    BY <1>7, <1>8, <1>17 DEF JobOwned, Publishes
  <2>3. EventsOf(in) \in {{}, {"MANAGEMENT"}}
    BY <1>17 DEF EventsOf, Publishes
  <2>4. Job!Clear \/ Job!Manage
    BY <1>3, <1>17, <2>1, <2>2, <2>3 DEF Job!Clear, Job!Manage, Job!Notifies, JobOwned
  <2> QED BY <2>4 DEF Job!ReportNext
<1> QED BY <1>2, <1>10, <1>11, <1>12, <1>13, <1>14, <1>15, <1>16, <1>17 DEF HostInv, Phases, Ports, Ends, Publishes

\* No job, no log.
LEMMA JobInitially == Init => JobInv
<1> SUFFICES ASSUME Init PROVE JobInv
  OBVIOUS
<1>1. NoEnd \in [done : BOOLEAN, failed : BOOLEAN] /\ <<>> \in Seq(Retired)
  BY DEF NoEnd
<1>2. phase = "IDLE" /\ ~ProgramActive /\ ~JobOwned
  BY DEF Init, HostInit, SystemInit, ProgramActive, JobOwned
<1>3. /\ terminal = NoEnd /\ result = NoResult /\ log = <<>> /\ pathBroken = FALSE /\ fetchFault = FALSE
      /\ troubled = {} /\ clearPulse = FALSE
  BY DEF Init, HostInit, SystemInit
<1> QED BY <1>1, <1>2, <1>3 DEF JobInv

\* Host control implements JobReport: the record software reads is the account
\* of exactly the completions of its job, with the program's verdict and the
\* faults of its path, is published once, and stays until it is acknowledged.
THEOREM ReportRefinement == Spec => ReportsTheJob
<1> DEFINE Inv == MergeInv /\ OwnershipInv /\ HostInv /\ JobInv
<1>1. Init => Inv
  BY HostInitially, MergeInitially, OwnershipInitially, JobInitially
<1>2. Inv /\ [Next]_allVars => Inv' /\ [Job!ReportNext]_(Job!reportVars)
  <2> SUFFICES ASSUME Inv, [Next]_allVars PROVE Inv' /\ [Job!ReportNext]_(Job!reportVars)
    OBVIOUS
  <2>1. MergeInv' /\ OwnershipInv' /\ HostInv'
    BY MergeNext, OwnershipNext, HostNext
  <2>2. CASE Next
    <3>1. ACycle
      BY <2>2, StepIsCycle
    <3>2. JobInv'
      BY <3>1, JobStep DEF ACycle
    <3>3. Job!ReportNext
      BY <3>1, <3>2, ReportStep DEF ACycle
    <3> QED BY <2>1, <3>2, <3>3
  <2>3. CASE UNCHANGED allVars
    <3>1. JobInv'
      BY <2>3 DEF allVars, hostVars, systemVars, mergeVars, JobInv, ErrorsTold, ProgramActive, JobOwned
    <3>2. UNCHANGED Job!reportVars
      BY <2>3 DEF allVars, hostVars, Job!reportVars, JobOwned
    <3> QED BY <2>1, <3>1, <3>2
  <2> QED BY <2>2, <2>3
<1>3. Init => Job!ReportInit
  BY DEF Init, HostInit, Job!ReportInit, NoResult, NoRecord, NoEnd, JobOwned, Job!NoReport, Job!NoVerdict
<1> QED BY <1>1, <1>2, <1>3, PTL DEF Spec, ReportsTheJob, Job!ReportSpec
==============================================================================
