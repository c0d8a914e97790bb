---------------------------- MODULE ClusterExec ----------------------------
(***************************************************************************)
(* simd_cluster_exec: the issue front end and the completion tracker around*)
(* SIMD groups.  Every group has an ingress buffer and is modelled by the  *)
(* control of simd_group_wrapper alone: an operand stage, a result stage,  *)
(* a completion and a response register; what it computes is the business  *)
(* of GroupPipeline.  The collector merges the responses of the groups, a  *)
(* one-entry buffer keeps refused commands, and one output register merges *)
(* their completions with those of the tracker.  State writes share the    *)
(* groups' completion registers; state reads have return registers of their*)
(* own and only take a group's turn.                                       *)
(***************************************************************************)
EXTENDS CompletionTracker, Bags

CONSTANTS
  ResultOps,   \* operations that promise a result record
  RefusedOps,  \* operations a group reports as illegal
  Writes,      \* external: state writes the memory engine may send
  Grants       \* external: grants the outer resource arbiter may give

ASSUME ClusterAssumption ==
  /\ ResultOps \subseteq Ops /\ RefusedOps \subseteq Ops
  /\ Grants \subseteq SUBSET Slots
  /\ Writes \subseteq [group : Groups, context : Contexts, tag : Tags, illegal : BOOLEAN]

VARIABLES
  ingress,                \* ingress_*_q
  pipe, res,              \* the stages of each group
  cpl, rsp,               \* completion and response register of each group
  stateHold, stateNext,   \* state_cpl_hold_*_q, state_rr_q
  collected, collectNext, \* result_*_q, rr_group_q
  reject,                 \* reject_*_q
  completion,             \* completion_*_q
  preferReject            \* prefer_reject_q

groupVars == <<ingress, pipe, res, cpl, rsp>>
returnVars == <<stateHold, stateNext, collected, collectNext>>
reportVars == <<reject, completion, preferReject>>
clusterVars == <<owner, frontendVars, trackerVars, groupVars, returnVars,
                 reportVars>>

----------------------------------------------------------------------------
(* The return side of the groups.  "taken" are the output channels whose   *)
(* consumer is ready.                                                      *)
Holding(register, kind) ==
  {g \in Groups : register[g] # <<>> /\ register[g][1].kind = kind}
Full(register) == {g \in Groups : register[g] # <<>>}

ChildCompletion(command) ==
  [kind |-> "EXEC", context |-> command.context, tag |-> command.tag,
   illegal |-> command.op \in RefusedOps, result |-> command.op \in ResultOps]
WriteCompletion(write) ==
  [kind |-> "WRITE", context |-> write.context, tag |-> write.tag,
   illegal |-> write.illegal, result |-> FALSE]
ResultRecord(g, command) ==
  [group |-> g, context |-> command.context, tag |-> command.tag,
   illegal |-> command.op \in RefusedOps]

StateSelected ==
  IF stateHold # <<>> THEN stateHold
  ELSE FirstFrom(stateNext, GroupCount, Holding(cpl, "WRITE"))
StateTaken(taken) == IF "STATE" \in taken THEN StateSelected ELSE <<>>

(* (mutant) completions of state writes reach the tracker, too *)
HeardOfEveryKind == Full(cpl)

\* The tracker always listens to completions of commands.
HeardGroups == Holding(cpl, "EXEC")
Reports == [g \in HeardGroups |-> cpl[g][1]]

Captured(taken) ==
  IF collected = <<>> \/ "RESULT" \in taken
  THEN FirstFrom(collectNext, GroupCount, Full(rsp)) ELSE <<>>
Retired(taken) ==
  [g \in {h \in Groups : <<h>> = Captured(taken)} |-> rsp[g][1]]

----------------------------------------------------------------------------
(* The stages of a group, with the return registers that are free by the   *)
(* end of the cycle.                                                       *)
CplFree(g, taken) == cpl[g] = <<>> \/ g \in HeardGroups \/ StateTaken(taken) = <<g>>
RspFree(g, taken) == rsp[g] = <<>> \/ Captured(taken) = <<g>>

Retires(g, taken) ==
  /\ res[g] # <<>> /\ CplFree(g, taken)
  /\ res[g][1].op \in ResultOps => RspFree(g, taken)
Advances(g, taken) == pipe[g] # <<>> /\ (res[g] = <<>> \/ Retires(g, taken))

\* A state request needs both stages empty; it takes the turn of the ingress.
Idle(g) == pipe[g] = <<>> /\ res[g] = <<>>
MayWrite(w, taken) == Idle(w.group) /\ CplFree(w.group, taken)

Drained(taken, turns) ==
  {g \in Full(ingress) \ turns : pipe[g] = <<>> \/ Advances(g, taken)}

IngressReady(taken, turns) ==
  (Groups \ Full(ingress)) \cup Drained(taken, turns)

Target(shown, issued, g) ==
  {s \in issued : g \in shown[s][1].groups}

GroupsEdge(taken, turns, written, shown, issued) ==
  /\ ingress' = [g \in Groups |->
       IF Target(shown, issued, g) # {}
       THEN shown[CHOOSE s \in Target(shown, issued, g) : TRUE]
       ELSE IF g \in Drained(taken, turns) THEN <<>> ELSE ingress[g]]
  /\ pipe' = [g \in Groups |->
       IF g \in Drained(taken, turns) THEN ingress[g]
       ELSE IF Advances(g, taken) THEN <<>> ELSE pipe[g]]
  /\ res' = [g \in Groups |->
       IF Advances(g, taken) THEN pipe[g]
       ELSE IF Retires(g, taken) THEN <<>> ELSE res[g]]
  /\ cpl' = [g \in Groups |->
       IF \E w \in written : w.group = g
       THEN <<WriteCompletion(CHOOSE w \in written : w.group = g)>>
       ELSE IF Retires(g, taken) THEN <<ChildCompletion(res[g][1])>>
       ELSE IF CplFree(g, taken) THEN <<>> ELSE cpl[g]]
  /\ rsp' = [g \in Groups |->
       IF Retires(g, taken) /\ res[g][1].op \in ResultOps
       THEN <<ResultRecord(g, res[g][1])>>
       ELSE IF RspFree(g, taken) THEN <<>> ELSE rsp[g]]

ReturnsEdge(taken) ==
  /\ stateHold' = IF "STATE" \in taken THEN <<>> ELSE StateSelected
  /\ stateNext' = IF StateTaken(taken) = <<>> THEN stateNext
                  ELSE After(StateTaken(taken)[1], GroupCount)
  /\ collected' = IF Captured(taken) # <<>> THEN rsp[Captured(taken)[1]]
                  ELSE IF "RESULT" \in taken THEN <<>> ELSE collected
  /\ collectNext' = IF Captured(taken) = <<>> THEN collectNext
                    ELSE After(Captured(taken)[1], GroupCount)

----------------------------------------------------------------------------
(* Completions: refused commands and reported entries take turns when they *)
(* compete for the output register.                                        *)
CanReport(taken) == completion = <<>> \/ "COMPLETION" \in taken

FromTracker(taken) ==
  CanReport(taken) /\ Done # <<>> /\ (reject = <<>> \/ ~preferReject)
FromReject(taken) ==
  CanReport(taken) /\ reject # <<>> /\ (Done = <<>> \/ preferReject)

Fired(taken) == IF FromTracker(taken) THEN Done ELSE <<>>

Report(x) ==
  [context |-> x.context, tag |-> x.tag, groups |-> x.groups,
   results |-> x.results, illegal |-> x.illegal, rejected |-> FALSE]
Rejection(command) ==
  [context |-> command.context, tag |-> command.tag, groups |-> command.groups,
   results |-> {}, illegal |-> command.groups, rejected |-> TRUE]

RejectCredit(taken) == reject = <<>> \/ FromReject(taken)

ReportsEdge(taken, shown, refused) ==
  /\ reject' = IF refused # {} THEN shown[CHOOSE s \in refused : TRUE]
               ELSE IF FromReject(taken) THEN <<>> ELSE reject
  /\ completion' = IF FromTracker(taken) THEN <<Report(entry[Done[1]][1])>>
                   ELSE IF FromReject(taken) THEN <<Rejection(reject[1])>>
                   ELSE IF CanReport(taken) THEN <<>> ELSE completion
  /\ preferReject' =
       IF FromTracker(taken) /\ reject # <<>> THEN TRUE
       ELSE IF FromReject(taken) /\ Done # <<>> THEN FALSE
       ELSE preferReject

----------------------------------------------------------------------------
(* One clock edge of the cluster *)
Placed(shown, issued) ==
  [e \in {Spot(Before(issued, s)) : s \in issued} |->
     LET s == CHOOSE t \in issued : Spot(Before(issued, t)) = e
     IN  NewEntry(shown[s][1], IF shown[s][1].op \in ResultOps
                               THEN shown[s][1].groups ELSE {})]

Cycle(taken, turns, written, granted, entering, clear) ==
  LET shown == Presented
      ready == IngressReady(taken, turns)
      issued == Granted(shown, Dispatchable(shown, ready, granted))
      refused == Refusable(shown, RejectCredit(taken))
      gone == issued \cup refused
  IN  /\ \A c \in Contexts : \A i \in DOMAIN entering :
           entering[i].context = c => MayEnter(entering[i], shown, gone)
      /\ FrontendEdge(shown, gone, entering)
      /\ TrackerEdge(Reports, Retired(taken), Fired(taken),
                     Placed(shown, issued), clear)
      /\ GroupsEdge(taken, turns, written, shown, issued)
      /\ ReturnsEdge(taken)
      /\ ReportsEdge(taken, shown, refused)
      /\ UNCHANGED owner

\* A ready consumer matters only where there is something to take.
Offered ==
  (IF completion # <<>> THEN {"COMPLETION"} ELSE {}) \cup
  (IF collected # <<>> THEN {"RESULT"} ELSE {}) \cup
  (IF StateSelected # <<>> THEN {"STATE"} ELSE {})

\* One write lane and one read lane; a group serves one request at an edge.
WriteTurns(taken) ==
  {{}} \cup {{w} : w \in {x \in Writes : MayWrite(x, taken)}}
ReadTurns == {{}} \cup {{g} : g \in {h \in Full(ingress) : Idle(h)}}
StateTurns(written, read) == \A w \in written : w.group \notin read

ClusterNext ==
  \E taken \in SUBSET Offered, granted \in Grants, clear \in BOOLEAN :
    \E written \in WriteTurns(taken), read \in ReadTurns :
      \E entering \in {<<>>} \cup {<<c>> : c \in Command} :
        /\ clear => trackerError
        /\ StateTurns(written, read)
        /\ Cycle(taken, read \cup {w.group : w \in written}, written, granted,
                 entering, clear)

ClusterInit ==
  /\ owner \in [Groups -> Contexts \cup {NoOwner}]
  /\ FrontendInit /\ TrackerInit
  /\ ingress = [g \in Groups |-> <<>>]
  /\ pipe = [g \in Groups |-> <<>>] /\ res = [g \in Groups |-> <<>>]
  /\ cpl = [g \in Groups |-> <<>>] /\ rsp = [g \in Groups |-> <<>>]
  /\ stateHold = <<>> /\ stateNext = 0
  /\ collected = <<>> /\ collectNext = 0
  /\ reject = <<>> /\ completion = <<>> /\ preferReject = FALSE

ClusterSpec == ClusterInit /\ [][ClusterNext]_clusterVars

----------------------------------------------------------------------------
(* Every register holds what it is declared for. *)
Holds(register, set) ==
  register = <<>> \/ (register = <<register[1]>> /\ register[1] \in set)
EachHolds(registers, index, set) ==
  /\ DOMAIN registers = index
  /\ \A i \in index : Holds(registers[i], set)

EntryType ==
  [context : Contexts, tag : Tags, groups : SUBSET Groups,
   results : SUBSET Groups, pending : SUBSET Groups, seen : SUBSET Groups,
   illegal : SUBSET Groups, reported : BOOLEAN]
ReportType ==
  [context : Contexts, tag : Tags, groups : SUBSET Groups,
   results : SUBSET Groups, illegal : SUBSET Groups, rejected : BOOLEAN]
ChildType ==
  [kind : {"EXEC", "WRITE"}, context : Contexts, tag : Tags,
   illegal : BOOLEAN, result : BOOLEAN]
ResultType ==
  [group : Groups, context : Contexts, tag : Tags, illegal : BOOLEAN]

ClusterTypeOK ==
  /\ owner \in [Groups -> Contexts \cup {NoOwner}]
  /\ queue \in [Contexts -> Seq(Command)]
  /\ \A c \in Contexts : Len(queue[c]) =< QueueDepth
  /\ EachHolds(shadow, Slots, Command) /\ rrBase \in Contexts
  /\ EachHolds(entry, Entries, EntryType)
  /\ Holds(doneHold, Entries) /\ doneNext \in Entries
  /\ trackerError \in BOOLEAN
  /\ EachHolds(ingress, Groups, Command) /\ EachHolds(pipe, Groups, Command)
  /\ EachHolds(res, Groups, Command) /\ EachHolds(cpl, Groups, ChildType)
  /\ EachHolds(rsp, Groups, ResultType)
  /\ Holds(stateHold, Groups) /\ stateNext \in Groups
  /\ Holds(collected, ResultType) /\ collectNext \in Groups
  /\ Holds(reject, Command) /\ Holds(completion, ReportType)
  /\ preferReject \in BOOLEAN

----------------------------------------------------------------------------
(* The tracker's account of the groups is exact.  A group still owes the   *)
(* completion of a command exactly if that command is somewhere in the     *)
(* group, and the results an entry waits for are those that are still to   *)
(* be made or to be collected; nothing in a group is unknown to the        *)
(* tracker, no two entries share a key, and no message is ever unexpected. *)
Inside(g) == res[g] \o pipe[g] \o ingress[g]

UnheardOf(g) == Inside(g) \o (IF g \in HeardGroups THEN cpl[g] ELSE <<>>)
Among(x, sequence) ==
  Cardinality({i \in DOMAIN sequence : SameKey(sequence[i], x)})

Promised(stage) ==
  IF stage # <<>> /\ stage[1].op \in ResultOps THEN stage ELSE <<>>
Promising(g) ==
  Promised(res[g]) \o Promised(pipe[g]) \o Promised(ingress[g]) \o rsp[g]

AccountsFor(x) ==
  \A g \in Groups :
    /\ Among(x, UnheardOf(g)) = IF g \in x.pending THEN 1 ELSE 0
    /\ Among(x, Promising(g)) = IF g \in x.results \ x.seen THEN 1 ELSE 0

Tracked(message) == \E e \in Used : SameKey(entry[e][1], message)

TrackerIsExact ==
  /\ \A e, f \in Used : SameKey(entry[e][1], entry[f][1]) => e = f
  /\ \A e \in Used : AccountsFor(entry[e][1])
  /\ \A g \in Groups :
       /\ \A i \in DOMAIN UnheardOf(g) : Tracked(UnheardOf(g)[i])
       /\ \A i \in DOMAIN rsp[g] : Tracked(rsp[g][i])
  /\ ~trackerError

(* (mutant) commands in the groups do not keep the cluster from being quiescent *)
QuiescentUntracked ==
  /\ \A c \in Contexts : queue[c] = <<>>
  /\ Full(ingress) = {} /\ reject = <<>> /\ completion = <<>>
  /\ Full(cpl) = {} /\ Full(rsp) = {}

Quiescent ==
  /\ \A c \in Contexts : queue[c] = <<>>
  /\ Full(ingress) = {} /\ Used = {} /\ reject = <<>> /\ completion = <<>>
  /\ Full(cpl) = {} /\ Full(rsp) = {}

(* When the cluster says it is quiescent, only a result that the collector *)
(* has already taken over can be left anywhere inside: neither the stages  *)
(* of the groups nor the held choices, none of which it looks at, are      *)
(* forgotten.                                                              *)
QuiescentMeansIdle ==
  Quiescent => /\ Locked = {} /\ Full(pipe) = {} /\ Full(res) = {}
               /\ doneHold = <<>> /\ stateHold = <<>>

----------------------------------------------------------------------------
(* The cluster keeps every promise of OrderedCluster. *)
Unreported == {e \in Used : ~entry[e][1].reported}

Verdicts(e) ==
  entry[e][1].illegal \cup
  {g \in HeardGroups : SameKey(cpl[g][1], entry[e][1]) /\ cpl[g][1].illegal}

BagOf(register) == SetToBag({register[i] : i \in DOMAIN register})

Promises == INSTANCE OrderedCluster WITH
  waiting <- queue,
  open <- {[Report(entry[e][1]) EXCEPT !.illegal = Verdicts(e)] : e \in Unreported},
  finished <- BagOf(completion)
              (+) BagOf(IF reject = <<>> THEN <<>> ELSE <<Rejection(reject[1])>>),
  work <- [g \in Groups |-> Inside(g)],
  owed <- [g \in Groups |->
            (IF collected # <<>> /\ collected[1].group = g THEN collected ELSE <<>>)
            \o rsp[g]]

KeepsItsPromises == Promises!Spec

----------------------------------------------------------------------------
(* A command that owns its groups, whose key is free and for which there is*)
(* an entry, is never blocked for good by commands that are not its own: in*)
(* a state which no edge changes while nobody takes a completion and all   *)
(* other consumers are ready, no such command waits.  In particular a      *)
(* malformed command that waits for its rejection does not hold the groups *)
(* it names.                                                               *)
(* That is so where every context has an issue slot; with fewer, malformed *)
(* commands may hold all slots until a completion is taken.                *)
Waits(c) ==
  /\ queue[c] # <<>> /\ Owned(Head(queue[c]))
  /\ ~Busy(Head(queue[c])) /\ FreeEntries # {}

Frozen ==
  ~ENABLED <<Cycle(Offered \ {"COMPLETION"}, {}, {}, Slots, <<>>, FALSE)>>_clusterVars

OwnerIsNotBlocked == (\E c \in Contexts : Waits(c)) => ~Frozen
============================================================================
