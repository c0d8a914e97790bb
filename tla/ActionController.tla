-------------------------- MODULE ActionController --------------------------
(***************************************************************************)
(* The ordered admission point of the cluster: the canonical-action entry  *)
(* of vsp_cluster_controller_wrapper and vsp_decoded_action_controller     *)
(* behind it.  One action at a time is captured, checked, given to the     *)
(* EXEC or the MEMORY engine or held until everything is quiescent (END),  *)
(* and reported by one completion that waits for its consumer.             *)
(*                                                                         *)
(* Every action below is one clock edge.  done is the completion an engine *)
(* returns for the command it was given, NoDone if none comes; stray says  *)
(* that a completion nobody waits for arrives in this cycle and is         *)
(* swallowed; clear is protocol_error_clear_i.                             *)
(*                                                                         *)
(* An operator marked (mutant) is a broken variant of the operator below   *)
(* it; no specification uses it.                                           *)
(***************************************************************************)
EXTENDS Naturals, Registers

CONSTANT Tags  \* action tags

ASSUME TagAssumption == Tags \subseteq Nat

VARIABLES
  canonical,   \* canonical_action_q, class "NONE" when it is not valid
  ctrl,        \* state_q
  active,      \* active_tag_q, which stands for context and group mask too;
               \* read only while the controller waits, NoTag otherwise
  cpl,         \* cpl_*_q, class "NONE" when it is not valid
  ctrlError    \* protocol_error_o

controllerVars == <<canonical, ctrl, active, cpl, ctrlError>>

Engines == {"EXEC", "MEMORY"}
Classes == Engines \cup {"CONTROL", "UNDEFINED"}

\* end: the control opcode is END, the only defined one; owned: every
\* selected group belongs to the context of the action.
Action == [class : Classes, legal : BOOLEAN, end : BOOLEAN,
           owned : BOOLEAN, tag : Tags]

NoAction == [class |-> "NONE", legal |-> FALSE, end |-> FALSE,
             owned |-> FALSE, tag |-> 0]
NoCpl    == [class |-> "NONE", tag |-> 0, status |-> "OK", end |-> FALSE]
NoDone   == [valid |-> FALSE, tag |-> 0, error |-> FALSE]
NoTag    == [valid |-> FALSE, tag |-> 0]
Done     == [valid : {TRUE}, tag : Tags, error : BOOLEAN]

Statuses == {"OK", "DECODE_ERROR", "OWNER_MISMATCH", "EXEC_ERROR",
             "MEMORY_ERROR", "CONTROL_ERROR", "PROTOCOL_ERROR"}

ControllerInit ==
  /\ canonical = NoAction /\ ctrl = "IDLE" /\ active = NoTag
  /\ cpl = NoCpl /\ ctrlError = FALSE

ControllerBusy == canonical # NoAction \/ ctrl # "IDLE" \/ cpl # NoCpl

\* The verdict that needs no engine, in the order of the checks.
LocalStatus(a) ==
  IF ~a.legal \/ a.class = "UNDEFINED"       THEN "DECODE_ERROR"
  ELSE IF a.class = "CONTROL" /\ ~a.end      THEN "CONTROL_ERROR"
  ELSE IF a.class \in Engines /\ ~a.owned    THEN "OWNER_MISMATCH"
  ELSE "OK"

\* (mutant) any answer is taken for the answer to the active command
EngineStatusAnyTag(class, tag, done) ==
  IF ~done.error THEN "OK"
  ELSE IF class = "EXEC" THEN "EXEC_ERROR" ELSE "MEMORY_ERROR"

EngineStatus(class, tag, done) ==
  IF done.tag # tag        THEN "PROTOCOL_ERROR"
  ELSE IF ~done.error      THEN "OK"
  ELSE IF class = "EXEC"   THEN "EXEC_ERROR"
  ELSE "MEMORY_ERROR"

Complete(class, tag, status, end) ==
  cpl' = [class |-> class, tag |-> tag, status |-> status, end |-> end]

SetControllerError(set, clear) == ctrlError' = Sticky(ctrlError, set, clear)

\* (mutant) the tag of an idle answer port is compared too
MismatchAlways(tag, done) == done.tag # tag

Mismatch(tag, done) == done # NoDone /\ done.tag # tag

Waiting(class) == IF class = "EXEC" THEN "WAIT_EXEC" ELSE "WAIT_MEMORY"

----------------------------------------------------------------------------
(* (mutant) the entry is refilled in the cycle that hands its action on *)
CaptureReadyElastic == canonical = NoAction

CaptureReady == ~ControllerBusy

\* canonical_action_capture
Capture(a, stray, clear) ==
  /\ CaptureReady
  /\ canonical' = a
  /\ SetControllerError(stray, clear)
  /\ UNCHANGED <<ctrl, active, cpl>>

\* The captured action is at the controller, which is idle.
Admits == canonical # NoAction /\ ctrl = "IDLE" /\ cpl = NoCpl

RejectLocally(stray, clear) ==
  /\ Admits /\ LocalStatus(canonical) # "OK"
  /\ canonical' = NoAction
  /\ Complete(canonical.class, canonical.tag, LocalStatus(canonical), FALSE)
  /\ SetControllerError(stray, clear)
  /\ UNCHANGED <<ctrl, active>>

\* exec_cmd_fire or memory_cmd_fire; the engine may answer at once
StartEngine(done, stray, clear) ==
  /\ Admits /\ LocalStatus(canonical) = "OK" /\ canonical.class \in Engines
  /\ canonical' = NoAction
  /\ SetControllerError(stray \/ Mismatch(canonical.tag, done), clear)
  /\ \/ /\ done = NoDone
        /\ ctrl' = Waiting(canonical.class)
        /\ active' = [valid |-> TRUE, tag |-> canonical.tag]
        /\ UNCHANGED cpl
     \/ /\ done # NoDone
        /\ Complete(canonical.class, canonical.tag,
                    EngineStatus(canonical.class, canonical.tag, done), FALSE)
        /\ UNCHANGED <<ctrl, active>>

StartEnd(stray, clear) ==
  /\ Admits /\ LocalStatus(canonical) = "OK" /\ canonical.class = "CONTROL"
  /\ canonical' = NoAction
  /\ ctrl' = "WAIT_END"
  /\ active' = [valid |-> TRUE, tag |-> canonical.tag]
  /\ SetControllerError(stray, clear)
  /\ UNCHANGED cpl

FinishEngine(class, done, stray, clear) ==
  /\ ctrl = Waiting(class) /\ done # NoDone
  /\ ctrl' = "IDLE" /\ active' = NoTag
  /\ Complete(class, active.tag, EngineStatus(class, active.tag, done), FALSE)
  /\ SetControllerError(stray \/ Mismatch(active.tag, done), clear)
  /\ UNCHANGED canonical

\* (mutant) the controller that waits for END counts as busy
QuiescentWhenIdle(drained) == ~ControllerBusy /\ drained

\* end_quiescent: no canonical action is pending and the engines drained
Quiescent(drained) == canonical = NoAction /\ drained

FinishEnd(drained, stray, clear) ==
  /\ ctrl = "WAIT_END" /\ Quiescent(drained)
  /\ ctrl' = "IDLE" /\ active' = NoTag
  /\ Complete("CONTROL", active.tag, "OK", TRUE)
  /\ SetControllerError(stray, clear)
  /\ UNCHANGED canonical

\* action_cpl_fire
RetireAction(stray, clear) ==
  /\ cpl # NoCpl
  /\ cpl' = NoCpl
  /\ SetControllerError(stray, clear)
  /\ UNCHANGED <<canonical, ctrl, active>>

\* An action that needs no engine is dealt with at once.
AdmitsAtOnce ==
  /\ Admits
  /\ LocalStatus(canonical) # "OK" \/ canonical.class = "CONTROL"

\* A cycle in which the action at hand, if any, makes no progress.
ControllerStall(stray, clear) ==
  /\ ~AdmitsAtOnce
  /\ SetControllerError(stray, clear)
  /\ UNCHANGED <<canonical, ctrl, active, cpl>>

\* program_done_o, in the cycle of the handshake
EndRetires == cpl # NoCpl /\ cpl.end /\ cpl.status = "OK"
============================================================================
