---------------------------- MODULE ActionStream ----------------------------
(***************************************************************************)
(* The ordered admission point between a sequencer that offers any action, *)
(* two engines that accept a command when they are free and answer it any  *)
(* number of cycles later, and a consumer of completions.  An engine may   *)
(* also misbehave: a completion without a command, or with the tag of      *)
(* another command.                                                        *)
(***************************************************************************)
EXTENDS ActionController

VARIABLES
  engine,   \* external: the command each engine has accepted
  residue,  \* external: EXEC has results nobody took yet
  pending,  \* history: the captured action until it retires
  verdict,  \* history: what an engine has said of the pending action
  rogue     \* history: a completion came that no command had asked for

outsideVars == <<engine, residue>>
historyVars == <<pending, verdict, rogue>>
actionVars  == <<controllerVars, outsideVars, historyVars>>

Free == [e \in Engines |-> NoTag]

ActionInit ==
  /\ ControllerInit
  /\ engine = Free /\ residue = FALSE
  /\ pending = NoAction /\ verdict = "NONE" /\ rogue = FALSE

EngineFree(class) == class \in Engines /\ engine[class] = NoTag

Drained == engine = Free /\ ~residue

Judge(tag, done) ==
  verdict' = IF done.tag = tag /\ ~done.error THEN "GOOD" ELSE "BAD"

\* An answer is honest when it is the answer to an accepted command.
Answers(e) == [valid : {TRUE}, tag : {engine[e].tag}, error : BOOLEAN]

Blame(stray) == rogue' = Bit(rogue \/ stray)

Offer ==
  \E a \in Action, stray, clear \in BOOLEAN :
    /\ Capture(a, stray, clear)
    /\ pending' = a /\ verdict' = "NONE"
    /\ Blame(stray) /\ UNCHANGED outsideVars

Reject ==
  \E stray, clear \in BOOLEAN :
    /\ RejectLocally(stray, clear)
    /\ verdict' = "BAD"
    /\ Blame(stray) /\ UNCHANGED <<pending, outsideVars>>

\* The engine takes the command and keeps it, or answers in the same cycle.
Accept ==
  \E stray, clear, left \in BOOLEAN :
    /\ EngineFree(canonical.class)
    /\ StartEngine(NoDone, stray, clear)
    /\ engine' = [engine EXCEPT ![canonical.class] =
                    [valid |-> TRUE, tag |-> canonical.tag]]
    /\ residue' = Bit(residue \/ (left /\ canonical.class = "EXEC"))
    /\ Blame(stray) /\ UNCHANGED <<pending, verdict>>

AcceptAndAnswer ==
  \E done \in Done, stray, clear \in BOOLEAN :
    /\ EngineFree(canonical.class)
    /\ StartEngine(done, stray, clear)
    /\ Judge(canonical.tag, done)
    /\ Blame(stray \/ done.tag # canonical.tag)
    /\ UNCHANGED <<pending, outsideVars>>

Answer ==
  \E e \in Engines, stray, clear \in BOOLEAN :
    /\ engine[e].valid
    /\ engine' = [engine EXCEPT ![e] = NoTag]
    /\ \E done \in Answers(e) :
         /\ FinishEngine(e, done, stray, clear)
         /\ Judge(active.tag, done)
    /\ Blame(stray) /\ UNCHANGED <<pending, residue>>

\* The command of this answer was ended by an earlier false completion.
LateAnswer ==
  \E e \in Engines, clear \in BOOLEAN :
    /\ engine[e].valid /\ ctrl # Waiting(e)
    /\ engine' = [engine EXCEPT ![e] = NoTag]
    /\ ControllerStall(TRUE, clear)
    /\ UNCHANGED <<historyVars, residue>>

FalseAnswer ==
  \E e \in Engines, done \in Done, clear \in BOOLEAN :
    /\ FinishEngine(e, done, FALSE, clear)
    /\ Judge(active.tag, done)
    /\ Blame(TRUE) /\ UNCHANGED <<pending, outsideVars>>

End ==
  \E stray, clear \in BOOLEAN :
    /\ \/ StartEnd(stray, clear)
       \/ FinishEnd(Drained, stray, clear)
    /\ Blame(stray) /\ UNCHANGED <<pending, verdict, outsideVars>>

Retire ==
  \E stray, clear \in BOOLEAN :
    /\ RetireAction(stray, clear)
    /\ pending' = NoAction /\ verdict' = "NONE"
    /\ Blame(stray) /\ UNCHANGED outsideVars

Idle ==
  \E stray, clear \in BOOLEAN :
    /\ ctrl = "WAIT_END" => ~Drained
    /\ ControllerStall(stray, clear)
    /\ residue' \in {residue, FALSE}
    /\ Blame(stray) /\ UNCHANGED <<engine, pending, verdict>>

Drain == residue /\ Idle /\ ~residue'

ActionNext ==
  \/ Offer \/ Reject \/ Accept \/ AcceptAndAnswer \/ Answer \/ LateAnswer
  \/ FalseAnswer \/ End \/ Retire \/ Idle

\* Engines take and answer commands, results are taken, completions are
\* taken; what needs only the clock happens.  Nobody has to offer an action.
ActionFairness ==
  /\ WF_actionVars(Reject) /\ WF_actionVars(Accept) /\ WF_actionVars(Answer)
  /\ WF_actionVars(LateAnswer) /\ WF_actionVars(Drain)
  /\ WF_actionVars(End) /\ WF_actionVars(Retire)

ActionSpec == ActionInit /\ [][ActionNext]_actionVars /\ ActionFairness

----------------------------------------------------------------------------
(* Properties *)

\* Every register holds a value of its range.
ControllerTypeOK ==
  /\ canonical \in Action \cup {NoAction}
  /\ ctrl \in {"IDLE", "WAIT_EXEC", "WAIT_MEMORY", "WAIT_END"}
  /\ active \in [valid : {TRUE}, tag : Tags] \cup {NoTag}
  /\ cpl \in [class : Classes, tag : Tags, status : Statuses, end : BOOLEAN]
               \cup {NoCpl}
  /\ ctrlError \in BOOLEAN

\* Exactly one place holds the action in flight - the entry, the controller
\* or the completion - and it carries that action's class and tag, whatever
\* the engines answer and however late.
OneActionInFlight ==
  /\ Admits \/ canonical = NoAction
  /\ ctrl # "IDLE" => cpl = NoCpl
  /\ pending = NoAction <=> ~ControllerBusy
  /\ canonical # NoAction => canonical = pending
  /\ active.valid <=> ctrl # "IDLE"
  /\ active.valid => active.tag = pending.tag
  /\ cpl # NoCpl => cpl.class = pending.class /\ cpl.tag = pending.tag

\* A completion is OK only if it was earned: by an answer to this very
\* command without an error, never by a late or foreign one; and the END
\* flag is set for a legal END only.
OkIsEarned ==
  cpl # NoCpl =>
    /\ cpl.status = "OK" => IF cpl.class \in Engines THEN verdict = "GOOD"
                                                     ELSE cpl.end
    /\ cpl.end => pending.class = "CONTROL" /\ pending.end /\ pending.legal

\* As long as the engines behave no command is out without the controller
\* waiting for it, and no protocol error is reported.
NoOrphanCommand ==
  ~rogue =>
    /\ \A e \in Engines : engine[e].valid <=> ctrl = Waiting(e)
    /\ \A e \in Engines : engine[e].valid => engine[e].tag = active.tag
    /\ ~ctrlError

\* What the induction adds: the ranges of the environment, and that the
\* controller waits for the engine of the pending action, or for a legal END.
OutsideTypeOK ==
  /\ engine \in [Engines -> [valid : BOOLEAN, tag : Nat]]
  /\ residue \in BOOLEAN /\ rogue \in BOOLEAN
  /\ pending \in Action \cup {NoAction}
  /\ verdict \in {"NONE", "GOOD", "BAD"}

WaitsForItsOwn ==
  /\ \A e \in Engines : ctrl = Waiting(e) => pending.class = e
  /\ ctrl = "WAIT_END" =>
       pending.class = "CONTROL" /\ pending.end /\ pending.legal

ActionIInv ==
  /\ ControllerTypeOK /\ OutsideTypeOK /\ OneActionInFlight
  /\ OkIsEarned /\ NoOrphanCommand /\ WaitsForItsOwn

\* Every captured action retires, also when an engine answers it wrongly.
ActionsRetire == pending # NoAction ~> pending = NoAction
============================================================================
