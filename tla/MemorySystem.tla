----------------------------- MODULE MemorySystem -----------------------------
(***************************************************************************)
(* vsp_uword_memory_system_wrapper: the glue that keeps a program, an MMU  *)
(* access and a maintenance operation apart, says when the system is ready *)
(* and quiescent, and records the fetch fault of the current path.  Its    *)
(* data side reaches memory through the uncached and device merge.         *)
(*                                                                         *)
(* Of the program wrapper only its face to the system is here: it is       *)
(* launched, fetches, redirects, accesses memory, ends, and raises its     *)
(* error output.  ProgramWrapper models what is behind.  The translation   *)
(* unit, the caches and the maintenance controller come from elsewhere:    *)
(* they take what they are given and answer later.                         *)
(*                                                                         *)
(* An operator marked (mutant) is a broken variant of the operator below   *)
(* it; no specification uses it.                                           *)
(***************************************************************************)
EXTENDS UncachedMerge

VARIABLES
  cfg,         \* cfg_{active,req_pending}_q: "NONE", "PENDING", "SENT"
  fetchFault,  \* ifetch_fault_valid_o
  pathsReady,  \* raw_paths_ready: caches and translation have initialised
  prog,        \* program_{active,done,failed}_q: "IDLE", "ACTIVE", "DONE", "FAILED"
  programErrors, \* of program_error_q ("HELD") and of the errors of the path,
                 \* {terminal_boundary_error,transport_failure}_q ("PATH")
  fetch,       \* external: the fetch in flight, "NONE", "LIVE", "STALE"
  residue,     \* external: the paths still drain work of an ended program
  maint        \* external: maintenance "IDLE", "BUSY", "DONE"

systemVars == <<mergeVars, cfg, fetchFault, pathsReady, prog,
                programErrors, fetch, residue, maint>>

SystemInit ==
  /\ MergeInit
  /\ cfg = "NONE" /\ fetchFault = FALSE /\ pathsReady = FALSE
  /\ prog = "IDLE" /\ programErrors = {} /\ fetch = "NONE" /\ residue = FALSE
  /\ maint = "IDLE"

ProgramActive == prog = "ACTIVE"
ProgramError  == programErrors # {}

PathsQuiescent  == MergeIdle /\ fetch = "NONE" /\ ~residue
SystemReady     == pathsReady /\ maint = "IDLE" /\ cfg = "NONE"

SystemQuiescent ==
  PathsQuiescent /\ maint = "IDLE" /\ cfg = "NONE" /\ ~ProgramActive

----------------------------------------------------------------------------
(* Exclusion.  valid is the set of ports that present a request.           *)

\* (mutant) configuration and maintenance each wait for the other
MaintAllowedCross(valid) ==
  pathsReady /\ ~ProgramActive /\ cfg = "NONE" /\ "MMU" \notin valid

MaintAllowed(valid) == pathsReady /\ ~ProgramActive /\ cfg = "NONE"

CfgAllowed(valid) ==
  /\ pathsReady /\ PathsQuiescent /\ ~ProgramActive /\ maint = "IDLE"
  /\ "MAINT" \notin valid /\ cfg = "NONE"

\* (mutant) a launch looks at what is active, not at what is being accepted
StartAllowedBlind(valid) == SystemReady /\ SystemQuiescent

StartAllowed(valid) ==
  SystemReady /\ SystemQuiescent /\ "MAINT" \notin valid /\ "MMU" \notin valid

\* granted: the ports whose external receiver (program, maintenance
\* controller) is ready; the MMU port is registered here.
Fires(port, valid, granted) ==
  /\ port \in valid
  /\ CASE port = "START" -> StartAllowed(valid) /\ "START" \in granted
       [] port = "MAINT" -> MaintAllowed(valid) /\ "MAINT" \in granted
       [] port = "MMU"   -> CfgAllowed(valid)

----------------------------------------------------------------------------
(* One clock edge.  event is what happens behind the ports in it.          *)

Endings == {"END_DONE", "END_FAILED"}

Redirects(event) == event \in {"REDIRECT", "REDIRECT_ANSWERED"}

\* What the program can do: it ends with nothing of its own in flight.  Which
\* of the two ends it comes to is left open here.
ProgramCan(event) ==
  CASE event = "FETCH"      -> ProgramActive /\ fetch = "NONE" /\ ~fetchFault
    [] event = "REDIRECT"   -> ProgramActive
    [] event \in Endings    -> /\ ProgramActive /\ fetch = "NONE"
                               /\ \A e \in Endpoints : asks[e] = "IDLE"
    [] OTHER                -> TRUE

ProgramEdge(event, started, leaves) ==
  /\ ProgramCan(event)
  /\ prog' = IF started THEN "ACTIVE"
             ELSE IF event = "END_DONE" THEN "DONE"
             ELSE IF event = "END_FAILED" THEN "FAILED"
             ELSE IF ProgramActive THEN "ACTIVE" ELSE "IDLE"
  /\ residue' = IF event \in Endings THEN leaves
                ELSE IF event = "DRAIN" THEN FALSE ELSE residue

\* (mutant) the errors of a path outlive the branch that leaves it
OutlivesAll(event, errors) == errors

Outlives(event, errors) == IF Redirects(event) THEN errors \ {"PATH"} ELSE errors

\* errors: what the cycle adds, of the protocol errors of cluster, router and
\* fetch path and of a completion that is not OK.  A success looks at none of
\* them but the boundary error; a failure is an error of its own.
ErrorEdge(event, started, errors, clear) ==
  programErrors' =
    IF started THEN {}
    ELSE IF ProgramActive
         THEN Outlives(event, programErrors \cup errors)
                \cup (IF event = "END_FAILED" THEN {"HELD"} ELSE {})
    ELSE IF clear THEN programErrors \ {"HELD"} ELSE programErrors

\* An answer may come in the cycle of a redirect; the bridge masks its fault.
FetchEdge(event) ==
  /\ event \in {"ANSWER", "FAULT"} => fetch # "NONE"
  /\ fetch' = CASE event = "FETCH" -> "LIVE"
                [] event \in {"ANSWER", "FAULT", "REDIRECT_ANSWERED"} -> "NONE"
                [] event = "REDIRECT" /\ fetch = "LIVE" -> "STALE"
                [] OTHER -> fetch

LiveFault(event) == event = "FAULT" /\ fetch = "LIVE"

FaultAfter(event, started) ==
  IF started \/ Redirects(event) THEN FALSE ELSE Bit(fetchFault \/ LiveFault(event))

FaultEdge(event, started) == fetchFault' = FaultAfter(event, started)

CfgEdge(event, taken) ==
  /\ event = "MMU_TAKE" => cfg = "PENDING"
  /\ event = "MMU_ANSWER" => cfg = "SENT"
  /\ cfg' = IF taken THEN "PENDING"
            ELSE IF event = "MMU_TAKE" THEN "SENT"
            ELSE IF event = "MMU_ANSWER" THEN "NONE" ELSE cfg

\* The controller waits for the data side before it works.
MaintEdge(event, taken) ==
  /\ event = "MAINT_WORK" => maint = "BUSY" /\ MergeIdle
  /\ event = "MAINT_ANSWER" => maint = "DONE"
  /\ maint' = IF taken THEN "BUSY"
              ELSE IF event = "MAINT_WORK" THEN "DONE"
              ELSE IF event = "MAINT_ANSWER" THEN "IDLE" ELSE maint

BootEdge(event) ==
  /\ event = "BOOT" => ~pathsReady
  /\ event = "DRAIN" => residue
  /\ pathsReady' = Bit(pathsReady \/ event = "BOOT")

\* A new beat enters the data side only outside maintenance.
AskEvents == {"ASK_UNCACHED", "ASK_DEVICE"}
Asking(event) == IF event = "ASK_UNCACHED" THEN {"UNCACHED"}
                 ELSE IF event = "ASK_DEVICE" THEN {"DEVICE"} ELSE {}

DataEdge(event, maintFires, clear) ==
  /\ event \in AskEvents => ProgramActive /\ maint = "IDLE" /\ ~maintFires
  /\ MergeEdge(event = "ACCEPT", event = "REPLY", event = "ORPHAN", clear)
  /\ EndpointsEdge(Asking(event), event = "ACCEPT", event = "REPLY")

SystemEvents ==
  {"NONE", "BOOT", "FETCH", "ANSWER", "FAULT", "REDIRECT", "REDIRECT_ANSWERED",
   "ASK_UNCACHED", "ASK_DEVICE", "ACCEPT", "REPLY", "ORPHAN", "DRAIN",
   "MMU_TAKE", "MMU_ANSWER", "MAINT_WORK", "MAINT_ANSWER"} \cup Endings

SystemEdge(event, valid, granted, leaves, clear, errors) ==
  LET started == Fires("START", valid, granted)
  IN  /\ event = "REDIRECT_ANSWERED" => ProgramActive /\ fetch # "NONE"
      /\ ProgramEdge(event, started, leaves)
      /\ ErrorEdge(event, started, errors, clear)
      /\ FetchEdge(event) /\ FaultEdge(event, started) /\ BootEdge(event)
      /\ CfgEdge(event, Fires("MMU", valid, granted))
      /\ MaintEdge(event, Fires("MAINT", valid, granted))
      /\ DataEdge(event, Fires("MAINT", valid, granted), clear)
=============================================================================
