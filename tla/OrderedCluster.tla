--------------------------- MODULE OrderedCluster ---------------------------
(***************************************************************************)
(* What the cluster promises.  The commands of a context are taken in the  *)
(* order in which they came: a malformed one is reported as rejected and   *)
(* touches no group, any other is handed to all its groups at once.  Every *)
(* group executes what it was given in order and exactly once.  A command  *)
(* is reported once, after all its groups have executed it and with their  *)
(* verdicts, and every promised result is delivered once, in the order in  *)
(* which its group executed.                                               *)
(***************************************************************************)
EXTENDS Naturals, SequencesExt, Bags

CONSTANTS Contexts, NoOwner, Groups, Command, ResultOps, RefusedOps

VARIABLES
  owner,     \* owner of each group
  waiting,   \* commands of each context not yet taken
  open,      \* commands taken and not reported, with the verdicts so far
  finished,  \* reports not yet delivered
  work,      \* commands each group has yet to execute
  owed       \* results each group has yet to deliver

vars == <<owner, waiting, open, finished, work, owed>>

SameKey(x, y) == x.context = y.context /\ x.tag = y.tag

Owned(command) ==
  /\ command.groups # {}
  /\ \A g \in command.groups : owner[g] = command.context

Promise(command) ==
  [context |-> command.context, tag |-> command.tag, groups |-> command.groups,
   results |-> IF command.op \in ResultOps THEN command.groups ELSE {},
   illegal |-> {}, rejected |-> FALSE]
Rejection(command) ==
  [context |-> command.context, tag |-> command.tag, groups |-> command.groups,
   results |-> {}, illegal |-> command.groups, rejected |-> TRUE]
ResultRecord(g, command) ==
  [group |-> g, context |-> command.context, tag |-> command.tag,
   illegal |-> command.op \in RefusedOps]

Shortened(q, short) == IF short THEN Tail(q) ELSE q

----------------------------------------------------------------------------
Arrives(c, before, after) ==
  \/ after = before
  \/ /\ after # <<>> /\ Front(after) = before
     /\ Last(after) \in Command /\ Last(after).context = c

Queues(leaving) ==
  \A c \in Contexts :
    Arrives(c, Shortened(waiting[c], c \in leaving), waiting'[c])

\* "taken" are commands for disjoint groups, "ran" the groups that execute.
Groupwork(taken, ran) ==
  work' = [g \in Groups |->
    Shortened(work[g], g \in ran)
    \o (IF \E c \in taken : g \in c.groups
        THEN <<CHOOSE c \in taken : g \in c.groups>> ELSE <<>>)]

Results(ran, out) ==
  owed' = [g \in Groups |->
    Shortened(owed[g], <<g>> = out)
    \o (IF g \in ran /\ Head(work[g]).op \in ResultOps
        THEN <<ResultRecord(g, Head(work[g]))>> ELSE <<>>)]

Judged(x, ran) ==
  [x EXCEPT !.illegal = @ \cup {g \in ran : /\ SameKey(Head(work[g]), x)
                                            /\ Head(work[g]).op \in RefusedOps}]

Executed(x) == \A g \in Groups : \A i \in DOMAIN work[g] : ~SameKey(work[g][i], x)

Next ==
  /\ UNCHANGED owner
  /\ \E leaving \in SUBSET {c \in Contexts : waiting[c] # <<>>} :
       LET heads == {Head(waiting[c]) : c \in leaving}
           taken == {x \in heads : Owned(x)}
       IN  /\ Queues(leaving)
           /\ \A x \in taken, y \in open : ~SameKey(x, y)
           /\ \A x, y \in taken : x # y => x.groups \cap y.groups = {}
           /\ \E ran \in SUBSET {g \in Groups : work[g] # <<>>} :
                /\ Groupwork(taken, ran)
                /\ \E out \in {<<>>} \cup {<<g>> : g \in {h \in Groups : owed[h] # <<>>}} :
                     Results(ran, out)
                /\ \E closed \in {{}} \cup {{x} : x \in {y \in open : Executed(y)}},
                      told \in {{}} \cup {{x} : x \in BagToSet(finished)} :
                     /\ open' = {Judged(x, ran) : x \in open \ closed}
                                \cup {Promise(x) : x \in taken}
                     /\ finished' =
                          (finished (-) SetToBag(told)) (+) SetToBag(closed)
                          (+) SetToBag({Rejection(x) : x \in heads \ taken})

Init ==
  /\ owner \in [Groups -> Contexts \cup {NoOwner}]
  /\ waiting = [c \in Contexts |-> <<>>]
  /\ open = {} /\ finished = EmptyBag
  /\ work = [g \in Groups |-> <<>>] /\ owed = [g \in Groups |-> <<>>]

Spec == Init /\ [][Next]_vars
=============================================================================
