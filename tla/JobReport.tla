------------------------------ MODULE JobReport ------------------------------
(***************************************************************************)
(* What software is promised about a job.  A job is submitted, retires     *)
(* actions, may lose and regain its instruction stream (a fetch fault on a *)
(* path that a redirect then leaves), may meet protocol errors, ends, and  *)
(* is reported once.  A job can end well and be reported an error.  The    *)
(* report is a function of everything the job did, it stands until it is   *)
(* acknowledged, and no job is submitted before that.                      *)
(***************************************************************************)
EXTENDS Naturals, Sequences

CONSTANT CountRange  \* values of the counter of completions

VARIABLES
  job,      \* "NONE", "OPEN" or "ENDED"
  log,      \* the completions of the job, [bad, fault, info], oldest first
  broken,   \* the current path has met a fetch fault
  troubles, \* protocol errors: "HELD" till the end, "PATH" while on the path
  verdict,  \* [done, failed]
  report,   \* what software can read, or NoReport
  notices   \* pending interrupt events

reportVars == <<job, log, broken, troubles, verdict, report, notices>>

NoReport == [valid |-> FALSE, done |-> FALSE, failed |-> FALSE, error |-> FALSE,
             retired |-> [count |-> 0, error |-> <<>>, fault |-> <<>>],
             fetchFault |-> FALSE]
NoVerdict == [done |-> FALSE, failed |-> FALSE]

ReportInit ==
  /\ job = "NONE" /\ log = << >> /\ broken = FALSE /\ troubles = {}
  /\ verdict = NoVerdict /\ report = NoReport /\ notices = {}

\* The position of the first completion in l with a property, 0 if none has.
FirstOf(l, P(_)) ==
  IF \E i \in DOMAIN l : P(l[i])
  THEN CHOOSE i \in DOMAIN l : P(l[i]) /\ \A j \in 1..(i - 1) : ~P(l[j])
  ELSE 0

\* What the completion at a position says, nothing for position 0.
SaidAt(l, i) == IF i = 0 THEN <<>> ELSE <<l[i].info>>

\* The count is that of a counter that wraps.
Report(l, fetchFault, errors, v) ==
  LET error == FirstOf(l, LAMBDA c : c.bad)
      fault == FirstOf(l, LAMBDA c : c.fault)
  IN  [valid |-> TRUE, done |-> v.done, failed |-> v.failed,
       error |-> (v.failed \/ fetchFault \/ errors # {} \/ error # 0 \/ fault # 0),
       retired |-> [count |-> Len(l) % CountRange,
                    error |-> SaidAt(l, error), fault |-> SaidAt(l, fault)],
       fetchFault |-> fetchFault]

\* In any cycle at most one completion comes, and software may clear
\* notices; one raised in that very cycle stays.
Extends(old, new) ==
  \/ new = old
  \/ Len(new) = Len(old) + 1 /\ SubSeq(new, 1, Len(old)) = old

Notifies(raised) == notices' \subseteq notices \cup raised /\ raised \subseteq notices'

Submit ==
  /\ job = "NONE" /\ report = NoReport
  /\ job' = "OPEN" /\ log' = << >> /\ verdict' = NoVerdict
  /\ Notifies({}) /\ UNCHANGED <<broken, troubles, report>>

\* broken' is free while the job runs: faults come and redirects undo them.
\* So do the errors of the path; the others last.
Work ==
  /\ job = "OPEN" /\ job' = "OPEN"
  /\ troubles \ {"PATH"} \subseteq troubles'
  /\ Extends(log, log')
  /\ Notifies({}) /\ UNCHANGED <<verdict, report>>

End ==
  /\ job = "OPEN" /\ job' = "ENDED"
  /\ Extends(log, log')
  /\ verdict'.done # verdict'.failed
  /\ Notifies({}) /\ UNCHANGED <<broken, troubles, report>>

Drain ==
  /\ job = "ENDED" /\ job' = "ENDED"
  /\ Extends(log, log')
  /\ Notifies({}) /\ UNCHANGED <<broken, troubles, verdict, report>>

Publish ==
  /\ job = "ENDED" /\ job' = "NONE"
  /\ Extends(log, log')
  /\ report' = Report(log', broken, troubles, verdict)
  /\ broken' = FALSE /\ troubles' = {} /\ UNCHANGED verdict
  /\ Notifies({"COMPLETE"} \cup (IF report'.error THEN {"ERROR"} ELSE {}))

Acknowledge ==
  /\ job = "NONE" /\ report' = NoReport /\ log' = << >>
  /\ verdict' = NoVerdict
  /\ Notifies({}) /\ UNCHANGED <<job, broken, troubles>>

Manage ==
  /\ Notifies({"MANAGEMENT"}) /\ UNCHANGED <<job, log, broken, troubles, verdict, report>>

Clear ==
  /\ Notifies({}) /\ UNCHANGED <<job, log, broken, troubles, verdict, report>>

ReportNext ==
  \/ Submit \/ Work \/ End \/ Drain \/ Publish \/ Acknowledge \/ Manage \/ Clear

ReportSpec == ReportInit /\ [][ReportNext]_reportVars
=============================================================================
