------------------------- MODULE CompletionTracker -------------------------
(***************************************************************************)
(* simd_group_completion_tracker: one entry for each command in the groups.*)
(* It collects the completion of every group, remembers which results the  *)
(* collector has taken, reports the command once, and keeps the command's  *)
(* context and tag busy until nothing of it can still arrive.              *)
(***************************************************************************)
EXTENDS IssueFrontend

CONSTANTS EntryCount

ASSUME TrackerAssumption == EntryCount \in Nat \ {0}

Entries == 0 .. EntryCount - 1

VARIABLES
  entry,        \* entry_*_q: what is known of a command, <<>> when free
  doneHold,     \* done_hold_valid_q, done_hold_index_q
  doneNext,     \* done_rr_q
  trackerError  \* protocol_error_o

trackerVars == <<entry, doneHold, doneNext, trackerError>>

Used == {e \in Entries : entry[e] # <<>>}
FreeEntries == Entries \ Used

SameKey(x, y) == x.context = y.context /\ x.tag = y.tag

\* Context and tag belong to a command whose completion or results are owed.
Busy(command) == \E e \in Used : SameKey(entry[e][1], command)

----------------------------------------------------------------------------
(* Allocation.  Only commands that could go but for an entry are offered,  *)
(* lower slots first.  Slots show different contexts, so two offers never  *)
(* have the same key.                                                      *)
Wanting(shown, offered) == {s \in offered : ~Busy(shown[s][1])}
Before(wanting, s) == Cardinality({t \in wanting : t < s})

Granted(shown, offered) ==
  {s \in Wanting(shown, offered) :
     Before(Wanting(shown, offered), s) < Cardinality(FreeEntries)}

\* The entry of the n-th command taken, in order of entries.
Spot(n) ==
  CHOOSE e \in FreeEntries : Cardinality({f \in FreeEntries : f < e}) = n

NewEntry(command, results) ==
  [context |-> command.context, tag |-> command.tag,
   groups |-> command.groups, results |-> results,
   pending |-> command.groups, seen |-> {}, illegal |-> {},
   reported |-> FALSE]

----------------------------------------------------------------------------
(* What groups and collector report: "reports" and "retired" map the groups*)
(* heard from at this edge to what they say.                               *)
Found(message) == {e \in Used : SameKey(entry[e][1], message)}
About(message, e) ==
  e \in Found(message) /\ \A f \in Found(message) : e =< f

Reporting(e, reports) ==
  {g \in DOMAIN reports : About(reports[g], e) /\ g \in entry[e][1].pending}

Retiring(e, retired) ==
  {g \in DOMAIN retired : About(retired[g], e) /\ g \in entry[e][1].groups}

Mismatched(e, reports) ==
  {g \in Reporting(e, reports) :
     reports[g].result # (g \in entry[e][1].results)}

\* A message nobody expects is consumed and leaves the sticky error.
Expected(e, reports, retired) ==
  /\ Mismatched(e, reports) = {}
  /\ Retiring(e, retired) \subseteq entry[e][1].results \ entry[e][1].seen

Faulty(reports, retired) ==
  \/ \E g \in DOMAIN reports : \A e \in Used : g \notin Reporting(e, reports)
  \/ \E g \in DOMAIN retired : \A e \in Used : g \notin Retiring(e, retired)
  \/ \E e \in Used : ~Expected(e, reports, retired)

----------------------------------------------------------------------------
(* The command completion, held while it is not taken *)
Complete(e) ==
  e \in Used /\ entry[e][1].pending = {} /\ ~entry[e][1].reported

Done ==
  IF doneHold # <<>> THEN doneHold
  ELSE FirstFrom(doneNext, EntryCount, {e \in Entries : Complete(e)})

----------------------------------------------------------------------------
(* The clock edge: "fired" is the completion taken, "placed" maps entries  *)
(* to the commands issued.                                                 *)
Heard(e, reports, retired, fired) ==
  LET x == entry[e][1]
      done == Reporting(e, reports)
  IN  [x EXCEPT !.pending = @ \ done,
                !.results = (@ \ done) \cup {g \in done : reports[g].result},
                !.seen = @ \cup Retiring(e, retired),
                !.illegal = @ \cup {g \in done : reports[g].illegal}
                              \cup Mismatched(e, reports),
                !.reported = Bit(@ \/ fired = <<e>>)]

(* (mutant) an entry is freed with its report, results or not *)
FreedWithCompletion(e, retired, fired) == fired = <<e>>

\* An entry is free when it is reported and no result is still to come.
Freed(e, retired, fired) ==
  /\ entry[e][1].reported \/ fired = <<e>>
  /\ entry[e][1].results \subseteq entry[e][1].seen \cup Retiring(e, retired)

TrackerEdge(reports, retired, fired, placed, clear) ==
  /\ entry' = [e \in Entries |->
                 IF e \in DOMAIN placed THEN <<placed[e]>>
                 ELSE IF e \notin Used \/ Freed(e, retired, fired) THEN <<>>
                 ELSE <<Heard(e, reports, retired, fired)>>]
  /\ doneHold' = IF fired # <<>> THEN <<>> ELSE Done
  /\ doneNext' = IF fired = <<>> THEN doneNext
                 ELSE After(fired[1], EntryCount)
  /\ trackerError' = Sticky(trackerError, Faulty(reports, retired), clear)

TrackerInit ==
  /\ entry = [e \in Entries |-> <<>>]
  /\ doneHold = <<>> /\ doneNext = 0 /\ trackerError = FALSE
============================================================================
