------------------------------ MODULE HostSystem ------------------------------
(***************************************************************************)
(* vsp_mmio_system_wrapper: host control drives the memory system (mode    *)
(* "HOST"); or a test host holds the three ports itself, all at a time if  *)
(* it likes (mode "DIRECT", the memory system alone).                      *)
(*                                                                         *)
(* log, pathBroken and troubled are history: what the job has retired,     *)
(* whether the path it is on has met a fetch fault, and which protocol     *)
(* errors the job has met and no redirect has undone.                      *)
(***************************************************************************)
EXTENDS HostControl, MemorySystem

CONSTANTS
  HostRequests,  \* MMIO requests software makes in this instance
  Completions,   \* what the actions of a job complete with in this instance
  Traffic,       \* mode -> what happens behind the ports in it
  MaxRetire      \* bound: completions of one job

ASSUME SystemAssumption ==
  /\ HostRequests \subseteq Requests /\ Completions \subseteq Retirements \ {NoRetire}
  /\ MaxRetire \in Nat
  /\ \A m \in DOMAIN Traffic : m \in {"HOST", "DIRECT"} /\ Traffic[m] \subseteq SystemEvents

VARIABLES mode, asked, log, pathBroken, troubled

allVars == <<hostVars, systemVars, mode, asked, log, pathBroken, troubled>>

Init ==
  /\ HostInit /\ SystemInit
  /\ mode \in DOMAIN Traffic /\ asked = {} /\ log = << >> /\ pathBroken = FALSE
  /\ troubled = {}

PortsValid == IF mode = "DIRECT" THEN asked
              ELSE IF PendingPort = "NONE" THEN {} ELSE {PendingPort}

\* mmu_cfg_rsp_ready and maint_cpl_ready; a test host is always ready
AnswerReady(event) ==
  /\ event = "MMU_ANSWER"   => mode = "DIRECT" \/ phase = "MMU_RSP"
  /\ event = "MAINT_ANSWER" => mode = "DIRECT" \/ phase = "MAINT_RSP"

Pulse == [done |-> prog = "DONE", failed |-> prog = "FAILED"]

PortInputs(request, taken, retire, event, granted, error) ==
  [request |-> request, taken |-> taken, retire |-> retire,
   ready |-> SystemReady, quiescent |-> SystemQuiescent,
   started |-> Fires("START", PortsValid, granted),
   cfgTaken |-> Fires("MMU", PortsValid, granted),
   maintTaken |-> Fires("MAINT", PortsValid, granted),
   ended |-> Pulse,
   cfgDone |-> [valid |-> event = "MMU_ANSWER", error |-> error],
   maintDone |-> [valid |-> event = "MAINT_ANSWER", error |-> error],
   programError |-> ProgramError, fetchFault |-> fetchFault]

TestHostEdge(granted, raised) ==
  asked' = IF mode = "HOST" THEN {}
           ELSE {p \in asked : ~Fires(p, asked, granted)} \cup raised

\* A redirect undoes the errors of the path it leaves.
TroubledBy(event, troubles) ==
  IF Redirects(event) THEN (troubled \cup troubles) \ {"PATH"} ELSE troubled \cup troubles

HistoryEdge(in, event, troubles) ==
  /\ log' = IF Submitted(in) \in {"START", "ACK_RESULT"} THEN << >>
            ELSE IF JobOwned /\ in.retire.valid THEN Append(log, in.retire)
            ELSE log
  /\ pathBroken' =
       IF ~JobOwned \/ Publishes(in) \/ Redirects(event) THEN FALSE
       ELSE Bit(pathBroken \/ LiveFault(event))
  /\ troubled' = IF ~JobOwned \/ Publishes(in) THEN {} ELSE TroubledBy(event, troubles)

Trouble == {"HELD", "PATH"}

\* Software takes a response at once; a test host clears error flags at will.
\* troubles are the protocol errors that an active program meets in the cycle; a
\* flag of the cluster that nobody clears is met by the next program again.
Cycle(request, retire, event, granted, raised, leaves, clear, troubles) ==
  LET in == PortInputs(request, TRUE, retire, event, granted, FALSE)
  IN  /\ AnswerReady(event)
      /\ event \in Traffic[mode]
      /\ retire.valid => Len(log) < MaxRetire \/ ~JobOwned
      /\ troubles # {} => ProgramActive
      /\ SystemEdge(event, PortsValid, granted, leaves, clear,
                    troubles \cup (IF retire.bad THEN {"HELD"} ELSE {}))
      /\ HostEdge(in)
      /\ TestHostEdge(granted, raised)
      /\ HistoryEdge(in, event, troubles)
      /\ UNCHANGED mode

\* What software may present in the cycle
Offered == IF MmioReady THEN HostRequests \cup {NoRequest} ELSE {NoRequest}

\* What the environment chooses in a cycle.  A completion and an event behind
\* the ports are not drawn for the same cycle; a completion and the end or
\* the publication of the job are.  A protocol error comes alone, with a
\* redirect or with an end; a test host does not look at the error output.
HostCycle ==
  /\ mode = "HOST"
  /\ \E request \in Offered, granted \in {{}, PortsValid} :
       \/ \E event \in SystemEvents, leaves \in BOOLEAN,
            troubles \in {{}} \cup {{t} : t \in Trouble} :
            /\ leaves => event \in Endings
            /\ troubles # {} => event \in {"NONE", "REDIRECT"} \cup Endings
            /\ Cycle(request, NoRetire, event, granted, {}, leaves, clearPulse, troubles)
       \/ \E retire \in Completions :
            Cycle(request, retire, "NONE", granted, {}, FALSE, clearPulse, {})

TestCycle ==
  /\ mode = "DIRECT"
  /\ \E event \in SystemEvents, granted \in {{}, PortsValid}, raised \in SUBSET (Ports \ asked),
        leaves, clear \in BOOLEAN :
       /\ leaves => event \in Endings
       /\ clear => event \in {"NONE", "ORPHAN"}
       /\ Cycle(NoRequest, NoRetire, event, granted, raised, leaves, clear, {})

Next == HostCycle \/ TestCycle

\* The ends that must serve.  Each is a step some Cycle makes, possible until
\* it is made: the paths initialise, drain what an ended program left, and take
\* and answer an MMU access; the maintenance controller works once the data
\* side is idle, and answers; a request that its receiver allows is taken; and
\* the clock runs.
Boots        == ~pathsReady /\ pathsReady' = TRUE
Drains       == residue /\ residue' = FALSE
TakesMmu     == cfg = "PENDING" /\ cfg' = "SENT"
AnswersMmu   == cfg = "SENT" /\ AnswerReady("MMU_ANSWER") /\ cfg' = "NONE"
Maintains    == maint = "BUSY" /\ MergeIdle /\ maint' = "DONE"
AnswersMaint == maint = "DONE" /\ AnswerReady("MAINT_ANSWER") /\ maint' = "IDLE"

PhaseTaken == [START |-> "RUN", MMU |-> "MMU_RSP", MAINT |-> "MAINT_RSP"]

Takes(port) ==
  /\ port \in PortsValid /\ Fires(port, PortsValid, Ports)
  /\ \/ mode = "HOST" /\ phase' = PhaseTaken[port] /\ asked' = {}
     \/ mode = "DIRECT" /\ phase' = phase /\ asked' \in SUBSET (Ports \ {port})

Clocks == phase = "DRAIN" /\ SystemQuiescent /\ phase' = "IDLE"

Fairness ==
  /\ WF_pathsReady(Boots) /\ WF_residue(Drains)
  /\ WF_cfg(TakesMmu) /\ WF_cfg(AnswersMmu)
  /\ WF_maint(Maintains) /\ WF_maint(AnswersMaint)
  /\ \A port \in Ports : WF_<<phase, asked>>(Takes(port))
  /\ WF_phase(Clocks)

Spec == Init /\ [][Next]_allVars /\ Fairness

----------------------------------------------------------------------------
(* Properties *)

\* The payload registers hold a configuration exactly while a request is
\* pending, and one that validation has passed: what software stages in the
\* meantime does not reach a request that is stalled.
HostTypeOK ==
  /\ phase \in {"IDLE", "START", "RUN", "DRAIN", "MMU_REQ", "MMU_RSP", "MAINT_REQ", "MAINT_RSP"}
  /\ staged \in [Ports -> Configs] /\ owned \in GoodConfigs \cup {NoConfig}
  /\ PendingPort # "NONE" <=> owned # NoConfig
  /\ irqPending \subseteq IrqEvents /\ mmioRsp \in {"NONE", "OK", "ERROR"}
  /\ asks \in [Endpoints -> {"IDLE", "ASKING", "WAITING"}]
  /\ {owner, lock, slave} \subseteq Endpoints \cup {"NONE"}
  /\ cfg \in {"NONE", "PENDING", "SENT"} /\ maint \in {"IDLE", "BUSY", "DONE"}
  /\ programErrors \subseteq Trouble

\* Program, MMU access and maintenance own the paths one at a time.  With a
\* port each and requests of all three in any cycle, the exclusion rests on
\* what each looks at when it is accepted; an access to the translation
\* registers finds no traffic on the paths.
ExclusiveOwnership ==
  /\ cfg # "NONE" => ~ProgramActive /\ maint = "IDLE" /\ PathsQuiescent
  /\ maint # "IDLE" => ~ProgramActive

\* The master's answer finds the endpoint whose request it took, still
\* waiting, and no endpoint waits for an answer that will not come.  A request
\* shown to the master and not taken is shown again, by the same endpoint,
\* though the stronger one may have begun to ask.
AnswersReachTheirAsker ==
  /\ [](/\ owner = slave
        /\ \A e \in Endpoints : asks[e] = "WAITING" <=> slave = e)
  /\ [][SharedValid /\ owner' = "NONE" => SharedValid' /\ Selected' = Selected]_allVars

\* Whatever completions, protocol errors, faults, redirects, staging writes and
\* clears come in between: the result registers and the interrupt bits tell the
\* job as JobReport defines it, and hold until software acknowledges.  What the
\* program recorded for an earlier job or on an abandoned path does not make
\* this job an error, and no error of this job is lost, though it ends with DONE.
Job == INSTANCE JobReport WITH
  job     <- IF phase \in {"START", "RUN"} THEN "OPEN"
             ELSE IF phase = "DRAIN" THEN "ENDED" ELSE "NONE",
  broken  <- pathBroken,
  troubles <- troubled,
  verdict <- IF JobOwned \/ result.valid THEN terminal ELSE NoEnd,
  report  <- result,
  notices <- irqPending

ReportsTheJob == Job!ReportSpec

\* Nobody waits for ever: host control leaves every phase but RUN (a program
\* need not end); maintenance that a test host asks for is accepted when no
\* program runs, and so is an MMU access unless maintenance goes first.
NobodyWaitsForever ==
  /\ phase \notin {"IDLE", "RUN"} ~> phase \in {"IDLE", "RUN"}
  /\ "MAINT" \in asked ~> "MAINT" \notin asked \/ ProgramActive
  /\ "MMU" \in asked ~> "MMU" \notin asked \/ "MAINT" \in asked \/ ProgramActive
=============================================================================
