------------------------ MODULE ActionStream_proofs ------------------------
(***************************************************************************)
(* TLAPS proofs about the ordered admission point, for every set of tags.  *)
(* The induction carries ActionIInv; each action of the stream gets one    *)
(* lemma, with one step per conjunct it can disturb.                       *)
(***************************************************************************)
EXTENDS ActionStream, TLAPS

LEMMA ActionFacts ==
  ASSUME NEW a \in Action
  PROVE  /\ a # NoAction /\ a.class \in Classes
         /\ a.legal \in BOOLEAN /\ a.end \in BOOLEAN /\ a.owned \in BOOLEAN
         /\ a.tag \in Tags /\ a.tag \in Nat
<1>1. /\ a.class \in Classes /\ a.tag \in Tags
      /\ a.legal \in BOOLEAN /\ a.end \in BOOLEAN /\ a.owned \in BOOLEAN
  BY DEF Action
<1>2. a.tag \in Nat
  BY <1>1, TagAssumption
<1>3. NoAction.class = "NONE" /\ "NONE" \notin Classes
  BY DEF NoAction, Classes, Engines
<1> QED BY <1>1, <1>2, <1>3

LEMMA EngineNames ==
  /\ "EXEC" \in Engines /\ "MEMORY" \in Engines /\ "CONTROL" \notin Engines
  /\ "NONE" \notin Classes /\ "CONTROL" \in Classes
  /\ \A e \in Engines : /\ e \in Classes /\ Waiting(e) # "IDLE"
                        /\ Waiting(e) # "WAIT_END"
                        /\ Waiting(e) \in {"WAIT_EXEC", "WAIT_MEMORY"}
  /\ \A e, f \in Engines : Waiting(e) = Waiting(f) => e = f
BY DEF Engines, Classes, Waiting

\* What a completion register loaded by Complete holds.
LEMMA CompleteFacts ==
  ASSUME NEW class \in Classes, NEW tag \in Tags, NEW status \in Statuses,
         NEW end \in BOOLEAN, Complete(class, tag, status, end)
  PROVE  /\ cpl' # NoCpl /\ cpl'.class = class /\ cpl'.tag = tag
         /\ cpl'.status = status /\ cpl'.end = end
         /\ cpl' \in [class : Classes, tag : Tags, status : Statuses,
                      end : BOOLEAN]
BY EngineNames DEF Complete, NoCpl

\* An engine's answer makes a completion OK exactly when it is its own and
\* reports no error.
LEMMA StatusFacts ==
  ASSUME NEW class, NEW tag, NEW done, Judge(tag, done)
  PROVE  /\ EngineStatus(class, tag, done) \in Statuses
         /\ EngineStatus(class, tag, done) = "OK" => verdict' = "GOOD"
         /\ verdict' \in {"GOOD", "BAD"}
<1>1. CASE done.tag = tag /\ ~done.error
  BY <1>1 DEF EngineStatus, Statuses, Judge
<1>2. CASE ~(done.tag = tag /\ ~done.error)
  BY <1>2 DEF EngineStatus, Statuses, Judge
<1> QED BY <1>1, <1>2

LEMMA DoneFacts ==
  ASSUME NEW done \in Done
  PROVE  done # NoDone
<1>1. done.valid = TRUE
  BY DEF Done
<1>2. NoDone.valid = FALSE
  BY DEF NoDone
<1> QED BY <1>1, <1>2

LEMMA VerdictFacts ==
  ASSUME NEW a \in Action
  PROVE  /\ LocalStatus(a) \in Statuses
         /\ LocalStatus(a) = "OK" =>
              /\ a.legal /\ a.class # "UNDEFINED"
              /\ a.class = "CONTROL" => a.end
BY ActionFacts DEF LocalStatus, Statuses

\* Where the action at the entry is: nowhere else.
LEMMA AtEntry ==
  ASSUME ActionIInv, Admits
  PROVE  /\ canonical \in Action /\ canonical # NoAction
         /\ pending = canonical /\ ctrl = "IDLE" /\ cpl = NoCpl
         /\ active = NoTag
<1>1. canonical \in Action /\ ctrl = "IDLE" /\ cpl = NoCpl /\ canonical # NoAction
  BY DEF ActionIInv, ControllerTypeOK, Admits
<1>2. pending = canonical /\ ~active.valid
  BY <1>1 DEF ActionIInv, OneActionInFlight
<1> QED BY <1>1, <1>2 DEF ActionIInv, ControllerTypeOK

LEMMA AtController ==
  ASSUME ActionIInv, ctrl # "IDLE"
  PROVE  /\ canonical = NoAction /\ cpl = NoCpl
         /\ pending \in Action /\ active.valid /\ active.tag = pending.tag
         /\ active.tag \in Tags
<1>1. canonical = NoAction /\ cpl = NoCpl
  BY DEF ActionIInv, OneActionInFlight, Admits
<1>2. active.valid /\ active.tag = pending.tag /\ pending # NoAction
  BY DEF ActionIInv, OneActionInFlight, ControllerBusy
<1> QED BY <1>1, <1>2, ActionFacts DEF ActionIInv, OutsideTypeOK

LEMMA ErrorFlag ==
  ASSUME NEW set, NEW clear, SetControllerError(set, clear)
  PROVE  /\ ctrlError' \in BOOLEAN
         /\ ctrlError' <=> set \/ (ctrlError /\ ~clear)
BY DEF SetControllerError, Sticky, Bit

LEMMA RogueFlag ==
  ASSUME NEW stray, Blame(stray)
  PROVE  rogue' \in BOOLEAN /\ (rogue' <=> rogue \/ stray)
BY DEF Blame, Bit

LEMMA ActionInitInv == ActionInit => ActionIInv
<1> SUFFICES ASSUME ActionInit PROVE ActionIInv
  OBVIOUS
<1>1. ControllerTypeOK
  BY DEF ActionInit, ControllerInit, ControllerTypeOK
<1>2. OutsideTypeOK
  BY DEF ActionInit, Free, NoTag, OutsideTypeOK
<1>3. OneActionInFlight
  BY DEF ActionInit, ControllerInit, OneActionInFlight, ControllerBusy, NoTag
<1>4. OkIsEarned /\ WaitsForItsOwn
  BY EngineNames DEF ActionInit, ControllerInit, OkIsEarned, WaitsForItsOwn
<1>5. NoOrphanCommand
  BY EngineNames DEF ActionInit, ControllerInit, Free, NoTag, NoOrphanCommand
<1> QED BY <1>1, <1>2, <1>3, <1>4, <1>5 DEF ActionIInv

LEMMA OfferInv ==
  ASSUME ActionIInv, NEW a \in Action, NEW stray \in BOOLEAN,
         NEW clear \in BOOLEAN, Capture(a, stray, clear),
         pending' = a, verdict' = "NONE", Blame(stray), UNCHANGED outsideVars
  PROVE  ActionIInv'
<1>1. /\ canonical' = a /\ a # NoAction /\ pending' = a
      /\ ctrl = "IDLE" /\ ctrl' = "IDLE" /\ cpl = NoCpl /\ cpl' = NoCpl
      /\ active' = active /\ ~active.valid
      /\ engine' = engine /\ residue' = residue
  BY ActionFacts
  DEF Capture, CaptureReady, ControllerBusy, outsideVars, ActionIInv,
      OneActionInFlight
<1>2. (ControllerTypeOK /\ OutsideTypeOK)'
  BY <1>1, ErrorFlag, RogueFlag
  DEF ActionIInv, ControllerTypeOK, OutsideTypeOK, Capture
<1>3. OneActionInFlight'
  BY <1>1 DEF OneActionInFlight, Admits, ControllerBusy
<1>4. (OkIsEarned /\ WaitsForItsOwn)'
  BY <1>1, EngineNames DEF OkIsEarned, WaitsForItsOwn
<1>5. NoOrphanCommand'
  BY <1>1, ErrorFlag, RogueFlag DEF ActionIInv, NoOrphanCommand, Capture
<1> QED BY <1>2, <1>3, <1>4, <1>5 DEF ActionIInv

LEMMA RejectInv ==
  ASSUME ActionIInv, NEW stray \in BOOLEAN, NEW clear \in BOOLEAN,
         RejectLocally(stray, clear), verdict' = "BAD", Blame(stray),
         UNCHANGED <<pending, outsideVars>>
  PROVE  ActionIInv'
<1> DEFINE status == LocalStatus(canonical)
<1>1. /\ canonical \in Action /\ pending = canonical /\ pending' = pending
      /\ canonical' = NoAction /\ ctrl = "IDLE" /\ ctrl' = "IDLE"
      /\ active' = active /\ ~active.valid /\ status # "OK"
      /\ engine' = engine /\ residue' = residue
  BY AtEntry DEF RejectLocally, outsideVars, NoTag
<1>2. /\ cpl' # NoCpl /\ cpl'.class = pending.class
      /\ cpl'.tag = pending.tag /\ cpl'.status = status /\ cpl'.end = FALSE
      /\ cpl' \in [class : Classes, tag : Tags, status : Statuses,
                   end : BOOLEAN]
  BY <1>1, ActionFacts, VerdictFacts, CompleteFacts DEF RejectLocally
<1>3. (ControllerTypeOK /\ OutsideTypeOK)'
  BY <1>1, <1>2, ErrorFlag, RogueFlag
  DEF ActionIInv, ControllerTypeOK, OutsideTypeOK, RejectLocally
<1>4. OneActionInFlight'
  BY <1>1, <1>2, ActionFacts DEF OneActionInFlight, Admits, ControllerBusy
<1>5. (OkIsEarned /\ WaitsForItsOwn)'
  BY <1>1, <1>2, EngineNames DEF OkIsEarned, WaitsForItsOwn
<1>6. NoOrphanCommand'
  BY <1>1, ErrorFlag, RogueFlag DEF ActionIInv, NoOrphanCommand, RejectLocally
<1> QED BY <1>3, <1>4, <1>5, <1>6 DEF ActionIInv

LEMMA AcceptInv ==
  ASSUME ActionIInv, NEW stray \in BOOLEAN, NEW clear \in BOOLEAN,
         NEW left \in BOOLEAN, EngineFree(canonical.class),
         StartEngine(NoDone, stray, clear),
         engine' = [engine EXCEPT ![canonical.class] =
                      [valid |-> TRUE, tag |-> canonical.tag]],
         residue' = Bit(residue \/ (left /\ canonical.class = "EXEC")),
         Blame(stray), UNCHANGED <<pending, verdict>>
  PROVE  ActionIInv'
<1> DEFINE e == canonical.class
<1>1. /\ canonical \in Action /\ pending = canonical /\ pending' = pending
      /\ canonical' = NoAction /\ ctrl = "IDLE" /\ ctrl' = Waiting(e)
      /\ cpl = NoCpl /\ cpl' = NoCpl /\ verdict' = verdict
      /\ active' = [valid |-> TRUE, tag |-> pending.tag]
      /\ e \in Engines
  BY AtEntry DEF StartEngine
<1>2. Mismatch(canonical.tag, NoDone) <=> FALSE
  BY DEF Mismatch
<1>3. /\ ctrlError' \in BOOLEAN
      /\ ctrlError' <=> stray \/ (ctrlError /\ ~clear)
  BY <1>2, ErrorFlag DEF StartEngine
<1>4. (ControllerTypeOK /\ OutsideTypeOK)'
  <2>1. ControllerTypeOK'
    BY <1>1, <1>3, ActionFacts, EngineNames DEF ControllerTypeOK
  <2>2. engine' \in [Engines -> [valid : BOOLEAN, tag : Nat]]
    BY <1>1, ActionFacts DEF ActionIInv, OutsideTypeOK
  <2>3. residue' \in BOOLEAN
    BY DEF Bit
  <2> QED BY <1>1, <2>1, <2>2, <2>3, RogueFlag DEF ActionIInv, OutsideTypeOK
<1>5. OneActionInFlight'
  BY <1>1, ActionFacts, EngineNames
  DEF OneActionInFlight, Admits, ControllerBusy
<1>6. (OkIsEarned /\ WaitsForItsOwn)'
  BY <1>1, EngineNames DEF OkIsEarned, WaitsForItsOwn
<1>7. NoOrphanCommand'
  <2>1. SUFFICES ASSUME ~rogue' PROVE NoOrphanCommand'
    BY DEF NoOrphanCommand
  <2>2. ~stray /\ ~ctrlError' /\ \A f \in Engines : ~engine[f].valid
    BY <1>1, <1>3, <2>1, RogueFlag, EngineNames
    DEF ActionIInv, NoOrphanCommand
  <2>3. \A f \in Engines : engine'[f] = IF f = e THEN active' ELSE engine[f]
    BY <1>1 DEF ActionIInv, OutsideTypeOK
  <2> QED BY <1>1, <2>2, <2>3, EngineNames DEF NoOrphanCommand
<1> QED BY <1>4, <1>5, <1>6, <1>7 DEF ActionIInv

LEMMA AcceptAndAnswerInv ==
  ASSUME ActionIInv, NEW done \in Done, NEW stray \in BOOLEAN,
         NEW clear \in BOOLEAN, StartEngine(done, stray, clear),
         Judge(canonical.tag, done), Blame(stray \/ done.tag # canonical.tag),
         UNCHANGED <<pending, outsideVars>>
  PROVE  ActionIInv'
<1> DEFINE status == EngineStatus(canonical.class, canonical.tag, done)
<1>1. done # NoDone
  BY DoneFacts
<1>2. /\ canonical \in Action /\ pending = canonical /\ pending' = pending
      /\ canonical' = NoAction /\ ctrl = "IDLE" /\ ctrl' = "IDLE"
      /\ active' = active /\ ~active.valid /\ canonical.class \in Engines
      /\ engine' = engine /\ residue' = residue
  <2>1. /\ Admits /\ canonical' = NoAction /\ canonical.class \in Engines
        /\ UNCHANGED <<ctrl, active>>
    BY <1>1 DEF StartEngine
  <2>2. pending' = pending /\ engine' = engine /\ residue' = residue
    BY DEF outsideVars
  <2> QED BY <2>1, <2>2, AtEntry DEF NoTag
<1>3. /\ status \in Statuses /\ verdict' \in {"GOOD", "BAD"}
      /\ status = "OK" => verdict' = "GOOD"
  BY StatusFacts
<1>4. /\ cpl' # NoCpl /\ cpl'.class = pending.class
      /\ cpl'.tag = pending.tag /\ cpl'.status = status /\ cpl'.end = FALSE
      /\ cpl' \in [class : Classes, tag : Tags, status : Statuses,
                   end : BOOLEAN]
  <2>1. Complete(pending.class, pending.tag, status, FALSE)
    BY <1>1, <1>2 DEF StartEngine
  <2> HIDE DEF status
  <2> QED BY <1>2, <1>3, <2>1, ActionFacts, CompleteFacts
<1>5. (ControllerTypeOK /\ OutsideTypeOK)'
  BY <1>2, <1>3, <1>4, ErrorFlag, RogueFlag
  DEF ActionIInv, ControllerTypeOK, OutsideTypeOK, StartEngine
<1>6. OneActionInFlight'
  BY <1>2, <1>4, ActionFacts DEF OneActionInFlight, Admits, ControllerBusy
<1>7. (OkIsEarned /\ WaitsForItsOwn)'
  BY <1>2, <1>3, <1>4, EngineNames DEF OkIsEarned, WaitsForItsOwn
<1>8. NoOrphanCommand'
  <2>1. SUFFICES ASSUME ~rogue' PROVE NoOrphanCommand'
    BY DEF NoOrphanCommand
  <2>2. ~rogue /\ ~stray /\ done.tag = canonical.tag
    BY <2>1, RogueFlag
  <2>3. ~Mismatch(canonical.tag, done)
    BY <2>2 DEF Mismatch
  <2>4. ~ctrlError'
    BY <2>2, <2>3, ErrorFlag DEF StartEngine, ActionIInv, NoOrphanCommand
  <2> QED BY <1>2, <2>2, <2>4 DEF ActionIInv, NoOrphanCommand
<1> QED BY <1>5, <1>6, <1>7, <1>8 DEF ActionIInv

\* An awaited answer: what FinishEngine leaves behind, whoever answered.
LEMMA FinishFacts ==
  ASSUME ActionIInv, NEW e \in Engines, NEW done,
         NEW stray \in BOOLEAN, NEW clear \in BOOLEAN,
         FinishEngine(e, done, stray, clear), Judge(active.tag, done),
         pending' = pending
  PROVE  /\ ControllerTypeOK' /\ OneActionInFlight'
         /\ OkIsEarned' /\ WaitsForItsOwn'
         /\ verdict' \in {"GOOD", "BAD"} /\ ctrl' = "IDLE"
<1> DEFINE status == EngineStatus(e, active.tag, done)
<1>1. /\ ctrl = Waiting(e) /\ ctrl # "IDLE" /\ ctrl' = "IDLE"
      /\ canonical' = canonical /\ active' = NoTag
  BY EngineNames DEF FinishEngine
<1>2. /\ canonical = NoAction /\ pending \in Action /\ active.tag \in Tags
      /\ active.tag = pending.tag /\ pending.class = e
  BY <1>1, AtController DEF ActionIInv, WaitsForItsOwn
<1>3. /\ status \in Statuses /\ verdict' \in {"GOOD", "BAD"}
      /\ status = "OK" => verdict' = "GOOD"
  BY StatusFacts
<1>4. /\ cpl' # NoCpl /\ cpl'.class = pending.class
      /\ cpl'.tag = pending.tag /\ cpl'.status = status /\ cpl'.end = FALSE
      /\ cpl' \in [class : Classes, tag : Tags, status : Statuses,
                   end : BOOLEAN]
  <2>1. Complete(pending.class, pending.tag, status, FALSE)
    BY <1>2 DEF FinishEngine
  <2> HIDE DEF status
  <2> QED BY <1>2, <1>3, <2>1, EngineNames, CompleteFacts
<1>5. ControllerTypeOK'
  BY <1>1, <1>2, <1>4, ErrorFlag DEF ControllerTypeOK, FinishEngine
<1>6. OneActionInFlight'
  BY <1>1, <1>2, <1>4, ActionFacts
  DEF OneActionInFlight, Admits, ControllerBusy, NoTag
<1>7. (OkIsEarned /\ WaitsForItsOwn)'
  BY <1>1, <1>2, <1>3, <1>4, EngineNames DEF OkIsEarned, WaitsForItsOwn
<1> QED BY <1>1, <1>3, <1>5, <1>6, <1>7

LEMMA AnswerInv ==
  ASSUME ActionIInv, NEW e \in Engines, NEW done \in Answers(e),
         NEW stray \in BOOLEAN, NEW clear \in BOOLEAN,
         engine[e].valid, engine' = [engine EXCEPT ![e] = NoTag],
         FinishEngine(e, done, stray, clear), Judge(active.tag, done),
         Blame(stray), UNCHANGED <<pending, residue>>
  PROVE  ActionIInv'
<1>1. /\ ControllerTypeOK' /\ OneActionInFlight' /\ OkIsEarned'
      /\ WaitsForItsOwn' /\ verdict' \in {"GOOD", "BAD"} /\ ctrl' = "IDLE"
  BY FinishFacts
<1>2. \A f \in Engines : engine'[f] = IF f = e THEN NoTag ELSE engine[f]
  BY DEF ActionIInv, OutsideTypeOK
<1>3. OutsideTypeOK'
  <2>1. engine' \in [Engines -> [valid : BOOLEAN, tag : Nat]]
    BY DEF ActionIInv, OutsideTypeOK, NoTag
  <2> QED BY <1>1, <2>1, RogueFlag DEF ActionIInv, OutsideTypeOK
<1>4. NoOrphanCommand'
  <2>1. SUFFICES ASSUME ~rogue' PROVE NoOrphanCommand'
    BY DEF NoOrphanCommand
  <2>2. /\ ~rogue /\ ~stray /\ ~ctrlError /\ done.tag = active.tag
        /\ \A f \in Engines : engine[f].valid <=> ctrl = Waiting(f)
    BY <2>1, RogueFlag DEF ActionIInv, NoOrphanCommand, Answers
  <2>3. ~Mismatch(active.tag, done)
    BY <2>2 DEF Mismatch
  <2>4. ~ctrlError'
    BY <2>2, <2>3, ErrorFlag DEF FinishEngine
  <2>5. \A f \in Engines : ~engine'[f].valid
    BY <1>2, <2>2, EngineNames DEF NoTag, FinishEngine
  <2> QED BY <1>1, <2>4, <2>5, EngineNames DEF NoOrphanCommand
<1> QED BY <1>1, <1>3, <1>4 DEF ActionIInv

LEMMA FalseAnswerInv ==
  ASSUME ActionIInv, NEW e \in Engines, NEW done \in Done,
         NEW clear \in BOOLEAN, FinishEngine(e, done, FALSE, clear),
         Judge(active.tag, done), Blame(TRUE),
         UNCHANGED <<pending, outsideVars>>
  PROVE  ActionIInv'
<1>1. pending' = pending /\ engine' = engine /\ residue' = residue
  BY DEF outsideVars
<1>2. /\ ControllerTypeOK' /\ OneActionInFlight' /\ OkIsEarned'
      /\ WaitsForItsOwn' /\ verdict' \in {"GOOD", "BAD"} /\ ctrl' = "IDLE"
  BY <1>1, FinishFacts
<1>3. rogue' \in BOOLEAN /\ rogue'
  BY RogueFlag
<1>4. OutsideTypeOK'
  BY <1>1, <1>2, <1>3 DEF ActionIInv, OutsideTypeOK
<1>5. NoOrphanCommand'
  BY <1>3 DEF NoOrphanCommand
<1> QED BY <1>2, <1>4, <1>5 DEF ActionIInv

\* A cycle in which the controller does nothing but keep its error flag.
LEMMA StallFacts ==
  ASSUME ActionIInv, NEW stray \in BOOLEAN, NEW clear \in BOOLEAN,
         ControllerStall(stray, clear), UNCHANGED <<pending, verdict>>
  PROVE  /\ ControllerTypeOK' /\ OneActionInFlight'
         /\ OkIsEarned' /\ WaitsForItsOwn'
         /\ ctrlError' <=> stray \/ (ctrlError /\ ~clear)
         /\ UNCHANGED <<canonical, ctrl, active, cpl>>
<1>1. /\ canonical' = canonical /\ ctrl' = ctrl /\ active' = active
      /\ cpl' = cpl /\ pending' = pending /\ verdict' = verdict
  BY DEF ControllerStall
<1>2. /\ ctrlError' \in BOOLEAN
      /\ ctrlError' <=> stray \/ (ctrlError /\ ~clear)
  BY ErrorFlag DEF ControllerStall
<1>3. ControllerTypeOK'
  BY <1>1, <1>2 DEF ActionIInv, ControllerTypeOK
<1>4. OneActionInFlight'
  BY <1>1 DEF ActionIInv, OneActionInFlight, Admits, ControllerBusy
<1>5. (OkIsEarned /\ WaitsForItsOwn)'
  BY <1>1 DEF ActionIInv, OkIsEarned, WaitsForItsOwn
<1> QED BY <1>1, <1>2, <1>3, <1>4, <1>5

LEMMA LateAnswerInv ==
  ASSUME ActionIInv, NEW e \in Engines, NEW clear \in BOOLEAN,
         engine[e].valid, ctrl # Waiting(e),
         engine' = [engine EXCEPT ![e] = NoTag],
         ControllerStall(TRUE, clear), UNCHANGED <<historyVars, residue>>
  PROVE  ActionIInv'
<1>1. pending' = pending /\ verdict' = verdict /\ rogue' = rogue
      /\ residue' = residue
  BY DEF historyVars
<1>2. ControllerTypeOK' /\ OneActionInFlight' /\ OkIsEarned' /\ WaitsForItsOwn'
  BY <1>1, StallFacts
<1>3. OutsideTypeOK'
  <2>1. engine' \in [Engines -> [valid : BOOLEAN, tag : Nat]]
    BY DEF ActionIInv, OutsideTypeOK, NoTag
  <2> QED BY <1>1, <2>1 DEF ActionIInv, OutsideTypeOK
<1>4. rogue
  BY DEF ActionIInv, NoOrphanCommand
<1>5. NoOrphanCommand'
  BY <1>1, <1>4 DEF NoOrphanCommand
<1> QED BY <1>2, <1>3, <1>5 DEF ActionIInv

LEMMA IdleInv ==
  ASSUME ActionIInv, NEW stray \in BOOLEAN, NEW clear \in BOOLEAN,
         ControllerStall(stray, clear), residue' \in {residue, FALSE},
         Blame(stray), UNCHANGED <<engine, pending, verdict>>
  PROVE  ActionIInv'
<1>1. engine' = engine /\ pending' = pending /\ verdict' = verdict
  OBVIOUS
<1>2. /\ ControllerTypeOK' /\ OneActionInFlight' /\ OkIsEarned'
      /\ WaitsForItsOwn'
      /\ ctrlError' <=> stray \/ (ctrlError /\ ~clear)
      /\ canonical' = canonical /\ ctrl' = ctrl /\ active' = active
  BY <1>1, StallFacts
<1>3. OutsideTypeOK'
  BY <1>1, RogueFlag DEF ActionIInv, OutsideTypeOK
<1>4. NoOrphanCommand'
  BY <1>1, <1>2, RogueFlag DEF ActionIInv, NoOrphanCommand
<1> QED BY <1>2, <1>3, <1>4 DEF ActionIInv

LEMMA StartEndInv ==
  ASSUME ActionIInv, NEW stray \in BOOLEAN, NEW clear \in BOOLEAN,
         StartEnd(stray, clear), Blame(stray),
         UNCHANGED <<pending, verdict, outsideVars>>
  PROVE  ActionIInv'
<1>1. /\ canonical \in Action /\ pending = canonical /\ pending' = pending
      /\ canonical' = NoAction /\ ctrl = "IDLE" /\ ctrl' = "WAIT_END"
      /\ cpl = NoCpl /\ cpl' = NoCpl /\ verdict' = verdict
      /\ active' = [valid |-> TRUE, tag |-> pending.tag]
      /\ engine' = engine /\ residue' = residue
  BY AtEntry DEF StartEnd, outsideVars
<1>2. pending.class = "CONTROL" /\ pending.end /\ pending.legal
  BY <1>1, VerdictFacts DEF StartEnd
<1>3. (ControllerTypeOK /\ OutsideTypeOK)'
  BY <1>1, ActionFacts, ErrorFlag, RogueFlag
  DEF ActionIInv, ControllerTypeOK, OutsideTypeOK, StartEnd
<1>4. OneActionInFlight'
  BY <1>1, ActionFacts DEF OneActionInFlight, Admits, ControllerBusy
<1>5. (OkIsEarned /\ WaitsForItsOwn)'
  BY <1>1, <1>2, EngineNames DEF OkIsEarned, WaitsForItsOwn
<1>6. NoOrphanCommand'
  BY <1>1, EngineNames, ErrorFlag, RogueFlag
  DEF ActionIInv, NoOrphanCommand, StartEnd
<1> QED BY <1>3, <1>4, <1>5, <1>6 DEF ActionIInv

LEMMA FinishEndInv ==
  ASSUME ActionIInv, NEW stray \in BOOLEAN, NEW clear \in BOOLEAN,
         FinishEnd(Drained, stray, clear), Blame(stray),
         UNCHANGED <<pending, verdict, outsideVars>>
  PROVE  ActionIInv'
<1>1. /\ ctrl = "WAIT_END" /\ ctrl # "IDLE" /\ ctrl' = "IDLE"
      /\ canonical' = canonical /\ active' = NoTag /\ pending' = pending
      /\ verdict' = verdict /\ engine' = engine /\ residue' = residue
      /\ Complete("CONTROL", active.tag, "OK", TRUE)
  BY DEF FinishEnd, outsideVars
<1>2. /\ canonical = NoAction /\ pending \in Action /\ active.tag \in Tags
      /\ active.tag = pending.tag
      /\ pending.class = "CONTROL" /\ pending.end /\ pending.legal
  BY <1>1, AtController DEF ActionIInv, WaitsForItsOwn
<1>3. /\ cpl' # NoCpl /\ cpl'.class = pending.class
      /\ cpl'.tag = pending.tag /\ cpl'.end = TRUE
      /\ cpl' \in [class : Classes, tag : Tags, status : Statuses,
                   end : BOOLEAN]
  BY <1>1, <1>2, EngineNames, CompleteFacts DEF Statuses
<1>4. (ControllerTypeOK /\ OutsideTypeOK)'
  BY <1>1, <1>2, <1>3, ErrorFlag, RogueFlag
  DEF ActionIInv, ControllerTypeOK, OutsideTypeOK, FinishEnd
<1>5. OneActionInFlight'
  BY <1>1, <1>2, <1>3, ActionFacts
  DEF OneActionInFlight, Admits, ControllerBusy, NoTag
<1>6. (OkIsEarned /\ WaitsForItsOwn)'
  BY <1>1, <1>2, <1>3, EngineNames DEF OkIsEarned, WaitsForItsOwn
<1>7. NoOrphanCommand'
  BY <1>1, EngineNames, ErrorFlag, RogueFlag
  DEF ActionIInv, NoOrphanCommand, FinishEnd
<1> QED BY <1>4, <1>5, <1>6, <1>7 DEF ActionIInv

LEMMA RetireInv ==
  ASSUME ActionIInv, NEW stray \in BOOLEAN, NEW clear \in BOOLEAN,
         RetireAction(stray, clear), pending' = NoAction, verdict' = "NONE",
         Blame(stray), UNCHANGED outsideVars
  PROVE  ActionIInv'
<1>1. /\ cpl # NoCpl /\ cpl' = NoCpl /\ canonical' = canonical
      /\ ctrl' = ctrl /\ active' = active
      /\ engine' = engine /\ residue' = residue
  BY DEF RetireAction, outsideVars
<1>2. canonical = NoAction /\ ctrl = "IDLE" /\ ~active.valid
  BY <1>1 DEF ActionIInv, OneActionInFlight, Admits
<1>3. (ControllerTypeOK /\ OutsideTypeOK)'
  BY <1>1, ErrorFlag, RogueFlag
  DEF ActionIInv, ControllerTypeOK, OutsideTypeOK, RetireAction
<1>4. OneActionInFlight'
  BY <1>1, <1>2 DEF OneActionInFlight, Admits, ControllerBusy
<1>5. (OkIsEarned /\ WaitsForItsOwn)'
  BY <1>1, <1>2, EngineNames DEF OkIsEarned, WaitsForItsOwn
<1>6. NoOrphanCommand'
  BY <1>1, ErrorFlag, RogueFlag DEF ActionIInv, NoOrphanCommand, RetireAction
<1> QED BY <1>3, <1>4, <1>5, <1>6 DEF ActionIInv

LEMMA ActionStepInv == ActionIInv /\ [ActionNext]_actionVars => ActionIInv'
<1> SUFFICES ASSUME ActionIInv, [ActionNext]_actionVars
             PROVE  ActionIInv'
  OBVIOUS
<1>1. CASE UNCHANGED actionVars
  <2>1. UNCHANGED <<canonical, ctrl, active, cpl, ctrlError, engine, residue,
                    pending, verdict, rogue>>
    BY <1>1 DEF actionVars, controllerVars, outsideVars, historyVars
  <2>2. (ControllerTypeOK /\ OutsideTypeOK)'
    BY <2>1 DEF ActionIInv, ControllerTypeOK, OutsideTypeOK
  <2>3. OneActionInFlight'
    BY <2>1 DEF ActionIInv, OneActionInFlight, Admits, ControllerBusy
  <2>4. (OkIsEarned /\ WaitsForItsOwn /\ NoOrphanCommand)'
    BY <2>1 DEF ActionIInv, OkIsEarned, WaitsForItsOwn, NoOrphanCommand
  <2> QED BY <2>2, <2>3, <2>4 DEF ActionIInv
<1>2. CASE Offer
  BY <1>2, OfferInv DEF Offer
<1>3. CASE Reject
  BY <1>3, RejectInv DEF Reject
<1>4. CASE Accept
  BY <1>4, AcceptInv DEF Accept
<1>5. CASE AcceptAndAnswer
  BY <1>5, AcceptAndAnswerInv DEF AcceptAndAnswer
<1>6. CASE Answer
  BY <1>6, AnswerInv DEF Answer
<1>7. CASE LateAnswer
  BY <1>7, LateAnswerInv DEF LateAnswer
<1>8. CASE FalseAnswer
  BY <1>8, FalseAnswerInv DEF FalseAnswer
<1>9. CASE End
  BY <1>9, StartEndInv, FinishEndInv DEF End
<1>10. CASE Retire
  BY <1>10, RetireInv DEF Retire
<1>11. CASE Idle
  BY <1>11, IdleInv DEF Idle
<1> QED
  BY <1>1, <1>2, <1>3, <1>4, <1>5, <1>6, <1>7, <1>8, <1>9, <1>10, <1>11
  DEF ActionNext

LEMMA ActionInductive == ActionSpec => []ActionIInv
BY ActionInitInv, ActionStepInv, PTL DEF ActionSpec

\* The registers of the admission point keep their declared ranges.
THEOREM ControllerTypeCorrect == ActionSpec => []ControllerTypeOK
<1>1. ActionIInv => ControllerTypeOK
  BY DEF ActionIInv
<1> QED BY <1>1, ActionInductive, PTL

\* One action is in flight, in one place, under its own class and tag,
\* whatever the engines answer.
THEOREM InFlightCorrect == ActionSpec => []OneActionInFlight
<1>1. ActionIInv => OneActionInFlight
  BY DEF ActionIInv
<1> QED BY <1>1, ActionInductive, PTL

\* Only an answer to this very command, without an error, makes it OK.
THEOREM OkCorrect == ActionSpec => []OkIsEarned
<1>1. ActionIInv => OkIsEarned
  BY DEF ActionIInv
<1> QED BY <1>1, ActionInductive, PTL

\* With engines that answer what they were asked and nothing else, the
\* controller and the engines always agree and no error is reported.
THEOREM OrphanCorrect == ActionSpec => []NoOrphanCommand
<1>1. ActionIInv => NoOrphanCommand
  BY DEF ActionIInv
<1> QED BY <1>1, ActionInductive, PTL
============================================================================
