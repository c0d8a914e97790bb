----------------------------- MODULE HostControl -----------------------------
(***************************************************************************)
(* vsp_host_control: the MMIO register target in front of the memory       *)
(* system.  Software stages configurations, submits one command at a time  *)
(* (a job, an MMU access or a maintenance operation), and reads one frozen *)
(* result.  The module counts and summarises what the job retires and      *)
(* publishes the summary once the job has ended and the system is          *)
(* quiescent.                                                              *)
(*                                                                         *)
(* One clock edge is HostEdge(in).  in is what the ports carry in that     *)
(* cycle: the MMIO request, the response handshake (taken), the state of   *)
(* the system (ready, quiescent), the handshakes of the downstream         *)
(* requests (started, cfgTaken, maintTaken), the pulse of the program      *)
(* (ended), the management answers (cfgDone, maintDone), the action        *)
(* completion (retire) and the diagnostics of the program and its fetch    *)
(* path (programError, fetchFault).  Configurations are opaque;            *)
(* GoodConfigs are those the validation of their port lets through.  What  *)
(* a completion says beyond being bad is opaque as well.                   *)
(*                                                                         *)
(* An operator marked (mutant) is a broken variant of the operator below   *)
(* it; no specification uses it.                                           *)
(***************************************************************************)
EXTENDS Naturals, Sequences, Registers

CONSTANTS
  Configs,      \* what software may leave in the staging registers of a port
  GoodConfigs,  \* {start, mmu, maint}_config_valid
  Infos,        \* tag, class, status and fault particulars of a completion
  CountRange    \* values of the retirement counter, 2^32 in the code

NoConfig == "NONE"

ASSUME ConfigAssumption == GoodConfigs \subseteq Configs /\ NoConfig \notin Configs
ASSUME CountAssumption == CountRange \in Nat \ {0}

Ports     == {"START", "MMU", "MAINT"}
IrqEvents == {"COMPLETE", "ERROR", "MANAGEMENT"}

VARIABLES
  phase,      \* phase_q
  staged,     \* the staging registers, by port
  owned,      \* the payload registers of the pending downstream request
  retired,    \* retired_q
  terminal,   \* terminal_{done,failed}_q
  result,     \* result_q
  irqPending,
  mgmt,       \* mgmt_status_q
  mmioRsp,    \* the held MMIO response
  clearPulse  \* protocol_error_clear_o

hostVars == <<phase, staged, owned, retired, terminal, result, irqPending,
              mgmt, mmioRsp, clearPulse>>

NoRequest == [kind |-> "NONE"]
NoRetire  == [bad |-> FALSE, fault |-> FALSE, info |-> "NONE", valid |-> FALSE]
NoRecord  == [count |-> 0, error |-> <<>>, fault |-> <<>>]
NoEnd     == [done |-> FALSE, failed |-> FALSE]
NoResult  == [valid |-> FALSE, done |-> FALSE, failed |-> FALSE, error |-> FALSE,
              retired |-> NoRecord, fetchFault |-> FALSE]
NoMgmt    == [valid |-> FALSE, error |-> FALSE, kind |-> "NONE"]

\* A completion: its status or decode error is not OK; it is a MEMORY action
\* whose memory status is not OK.
Retirements ==
  {NoRetire} \cup [bad : BOOLEAN, fault : BOOLEAN, info : Infos, valid : {TRUE}]

\* The reset values of the staging registers: no job is staged (start and end
\* are both 0); the zeros of the other ports pass validation.
ResetStaging ==
  {s \in [Ports -> Configs] : \A p \in Ports : s[p] \in GoodConfigs <=> p # "START"}

HostInit ==
  /\ phase = "IDLE" /\ staged \in ResetStaging /\ owned = NoConfig
  /\ retired = NoRecord /\ terminal = NoEnd /\ result = NoResult
  /\ irqPending = {} /\ mgmt = NoMgmt /\ mmioRsp = "NONE" /\ clearPulse = FALSE

HostIdle == phase = "IDLE"
JobOwned == phase \in {"START", "RUN", "DRAIN"}

----------------------------------------------------------------------------
(* MMIO: one transaction outstanding, effects at acceptance.               *)

StageRequests   == [kind : {"STAGE"}, port : Ports, config : Configs]
ClearRequests   == [kind : {"CLEAR_IRQ"}, bits : SUBSET IrqEvents]
CommandRequests ==
  [kind : {"COMMAND"}, strobes : BOOLEAN,
   command : Ports \cup {"ACK_RESULT", "CLEAR_PROTOCOL", "UNDEFINED"}]
\* Reads, and accesses that are unaligned, unmapped or to read-only registers
OtherRequests   == [kind : {"READ", "BAD"}]

Requests == {NoRequest} \cup StageRequests \cup ClearRequests
              \cup CommandRequests \cup OtherRequests

NewWorkAllowed(in) == HostIdle /\ in.ready /\ in.quiescent

\* (mutant) an unread result is no obstacle
CommandAllowedUnread(command, in) ==
  \/ command \in Ports /\ NewWorkAllowed(in) /\ staged[command] \in GoodConfigs
  \/ command \in {"ACK_RESULT", "CLEAR_PROTOCOL"} /\ HostIdle

CommandAllowed(command, in) ==
  \/ /\ command \in Ports /\ NewWorkAllowed(in) /\ staged[command] \in GoodConfigs
     /\ command = "START" => ~result.valid
  \/ command \in {"ACK_RESULT", "CLEAR_PROTOCOL"} /\ HostIdle

RequestError(in) ==
  \/ in.request.kind = "BAD"
  \/ /\ in.request.kind = "COMMAND"
     /\ ~in.request.strobes \/ ~CommandAllowed(in.request.command, in)

\* The command the cycle accepts, "NONE" if it accepts none
Submitted(in) ==
  IF in.request.kind = "COMMAND" /\ ~RequestError(in) THEN in.request.command
                                                      ELSE "NONE"

MmioReady == mmioRsp = "NONE"

MmioEdge(in) ==
  /\ in.request # NoRequest => MmioReady
  /\ mmioRsp' = IF in.request # NoRequest
                THEN IF RequestError(in) THEN "ERROR" ELSE "OK"
                ELSE IF in.taken THEN "NONE" ELSE mmioRsp
  /\ staged' = IF in.request.kind = "STAGE"
               THEN [staged EXCEPT ![in.request.port] = in.request.config]
               ELSE staged

----------------------------------------------------------------------------
(* The summary of what the job retires.                                    *)

\* (mutant) a later fault replaces the first
SummariseLast(retire) ==
  [count |-> (retired.count + 1) % CountRange,
   error |-> IF retire.bad THEN <<retire.info>> ELSE retired.error,
   fault |-> IF retire.fault THEN <<retire.info>> ELSE retired.fault]

\* The counter wraps.  The first error and the first memory fault are kept
\* apart, each with what its completion said.
Summarise(retire) ==
  [count |-> (retired.count + 1) % CountRange,
   error |-> IF retired.error = <<>> /\ retire.bad THEN <<retire.info>>
                                                   ELSE retired.error,
   fault |-> IF retired.fault = <<>> /\ retire.fault THEN <<retire.info>>
                                                     ELSE retired.fault]

RetiredNext(in) ==
  IF JobOwned /\ in.retire.valid THEN Summarise(in.retire) ELSE retired

Publishes(in) == phase = "DRAIN" /\ in.quiescent

Published(summary, in) ==
  [valid |-> TRUE, done |-> terminal.done, failed |-> terminal.failed,
   error |-> Bit(in.programError \/ terminal.failed \/ summary.error # <<>>
                   \/ summary.fault # <<>> \/ in.fetchFault),
   retired |-> summary, fetchFault |-> in.fetchFault]

\* (mutant) the completion of the publishing cycle is left out
PublicationStale(in) == Published(retired, in)

Publication(in) == Published(RetiredNext(in), in)

RetireEdge(in) ==
  retired' = IF Submitted(in) = "START" THEN NoRecord ELSE RetiredNext(in)

ResultEdge(in) ==
  result' = IF Submitted(in) = "ACK_RESULT" THEN NoResult
            ELSE IF Publishes(in) THEN Publication(in)
            ELSE result

----------------------------------------------------------------------------
(* Phases, the payload of the pending request, management and interrupts.  *)

Ends(in) == phase = "RUN" /\ (in.ended.done \/ in.ended.failed)

CfgAnswered(in)   == phase = "MMU_RSP" /\ in.cfgDone.valid
MaintAnswered(in) == phase = "MAINT_RSP" /\ in.maintDone.valid

NextPhase(in) ==
  IF Submitted(in) = "START"                         THEN "START"
  ELSE IF Submitted(in) = "MMU"                      THEN "MMU_REQ"
  ELSE IF Submitted(in) = "MAINT"                    THEN "MAINT_REQ"
  ELSE IF phase = "START" /\ in.started              THEN "RUN"
  ELSE IF Ends(in)                                   THEN "DRAIN"
  ELSE IF phase = "MMU_REQ" /\ in.cfgTaken           THEN "MMU_RSP"
  ELSE IF phase = "MAINT_REQ" /\ in.maintTaken       THEN "MAINT_RSP"
  ELSE IF Publishes(in) \/ CfgAnswered(in) \/ MaintAnswered(in) THEN "IDLE"
  ELSE phase

PhaseEdge(in) == phase' = NextPhase(in)

PendingPort == IF phase = "START" THEN "START"
               ELSE IF phase = "MMU_REQ" THEN "MMU"
               ELSE IF phase = "MAINT_REQ" THEN "MAINT" ELSE "NONE"

\* (mutant) the payload of a stalled request follows the staging registers
HeldPayloadLive == staged[PendingPort]

HeldPayload == owned

\* The payload is a snapshot of the acceptance, dead after the handshake.
OwnedEdge(in) ==
  owned' = IF Submitted(in) \in Ports THEN staged[Submitted(in)]
           ELSE IF PendingPort # "NONE" /\ NextPhase(in) = phase THEN HeldPayload
           ELSE NoConfig

TerminalEdge(in) ==
  terminal' = IF Submitted(in) = "START" THEN NoEnd
              ELSE IF Ends(in) THEN in.ended
              ELSE terminal

MgmtEdge(in) ==
  mgmt' = IF Submitted(in) \in {"MMU", "MAINT"} THEN NoMgmt
          ELSE IF CfgAnswered(in)
               THEN [valid |-> TRUE, error |-> in.cfgDone.error, kind |-> "MMU"]
          ELSE IF MaintAnswered(in)
               THEN [valid |-> TRUE, error |-> in.maintDone.error, kind |-> "MAINT"]
          ELSE mgmt

EventsOf(in) ==
  (IF Publishes(in) THEN {"COMPLETE"} ELSE {})
  \cup (IF Publishes(in) /\ Publication(in).error THEN {"ERROR"} ELSE {})
  \cup (IF CfgAnswered(in) \/ MaintAnswered(in) THEN {"MANAGEMENT"} ELSE {})

\* (mutant) software's write wins over the event of the cycle
IrqAfterClearWins(cleared, events) == (irqPending \cup events) \ cleared

IrqAfter(cleared, events) == (irqPending \ cleared) \cup events

IrqEdge(in) ==
  irqPending' =
    IrqAfter(IF in.request.kind = "CLEAR_IRQ" THEN in.request.bits ELSE {},
             EventsOf(in))

ClearEdge(in) == clearPulse' = Bit(Submitted(in) = "CLEAR_PROTOCOL")

HostEdge(in) ==
  /\ MmioEdge(in) /\ PhaseEdge(in) /\ OwnedEdge(in) /\ RetireEdge(in)
  /\ TerminalEdge(in) /\ ResultEdge(in) /\ MgmtEdge(in) /\ IrqEdge(in)
  /\ ClearEdge(in)
=============================================================================
