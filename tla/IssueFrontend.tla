--------------------------- MODULE IssueFrontend ---------------------------
(***************************************************************************)
(* simd_issue_queue, simd_cluster_issue_frontend and simd_issue_dispatch:  *)
(* one ordered queue per context, a rotating choice of queue heads for the *)
(* issue slots, and a dispatcher that hands a command to all the groups it *)
(* names at one clock edge or to none.  A head that is chosen and cannot go*)
(* is locked in its slot; it leaves its queue only when it goes.           *)
(*                                                                         *)
(* An operator marked (mutant) is a broken variant of the operator below   *)
(* it; no specification uses it.                                           *)
(***************************************************************************)
EXTENDS Naturals, Registers, Sequences, FiniteSets

CONSTANTS ContextCount, SlotCount, GroupCount, QueueDepth, Ops, Tags

ASSUME FrontendAssumption ==
  /\ ContextCount \in Nat \ {0} /\ SlotCount \in Nat \ {0}
  /\ QueueDepth \in Nat \ {0} /\ GroupCount \in Nat \ {0}
  /\ SlotCount =< ContextCount

Contexts == 0 .. ContextCount - 1
Slots == 0 .. SlotCount - 1
Groups == 0 .. GroupCount - 1

\* A command whose context names no queue is refused at the door.
Command == [context : Contexts, tag : Tags, groups : SUBSET Groups, op : Ops]

VARIABLES
  owner,    \* external: the stable ownership snapshot, NoOwner where invalid
  queue,    \* tag_mem, uword_mem, ... between read_ptr_q and write_ptr_q
  shadow,   \* slot_locked_q and shadow_*_q: the command locked in each slot
  rrBase    \* rr_base_q

frontendVars == <<queue, shadow, rrBase>>

NoOwner == ContextCount

----------------------------------------------------------------------------
(* The scan that the choice of queue heads, the tracker's and the result   *)
(* collector's arbiters share: of n positions, the first one waiting at or *)
(* after a base.                                                           *)
After(i, n) == (i + 1) % n
Steps(base, i, n) == (i + n - base) % n

FirstFrom(base, n, waiting) ==
  IF waiting = {} THEN <<>>
  ELSE <<CHOOSE i \in waiting :
           \A j \in waiting : Steps(base, i, n) =< Steps(base, j, n)>>

----------------------------------------------------------------------------
(* A command is malformed when it names no group or a group of another     *)
(* context.                                                                *)
Owned(command) ==
  /\ command.groups # {}
  /\ \A g \in command.groups : owner[g] = command.context

Locked == {s \in Slots : shadow[s] # <<>>}

(* (mutant) a malformed command waiting for its rejection holds its groups *)
ReservedByAnyLocked == UNION {shadow[s][1].groups : s \in Locked}

Reserved ==
  UNION {shadow[s][1].groups : s \in {t \in Locked : Owned(shadow[t][1])}}

\* Queues whose head an unlocked slot may take.
Candidates ==
  {c \in Contexts :
     /\ queue[c] # <<>>
     /\ \A s \in Locked : shadow[s][1].context # c
     /\ Head(queue[c]).groups \cap Reserved = {}}

Distance(c) == Steps(rrBase, c, ContextCount)
Turn(c) == Cardinality({d \in Candidates : Distance(d) < Distance(c)})

\* Unlocked slots, in order, take the candidates in order of rotation.
Selected(s) ==
  {c \in Candidates : Turn(c) = Cardinality({t \in Slots \ Locked : t < s})}

Presented ==
  [s \in Slots |->
     IF s \in Locked THEN shadow[s]
     ELSE IF Selected(s) = {} THEN <<>>
     ELSE <<Head(queue[CHOOSE c \in Selected(s) : TRUE])>>]

Showing(shown) == {s \in Slots : shown[s] # <<>>}
Live(shown) == Showing(shown) \ Locked

----------------------------------------------------------------------------
(* Dispatch.  Slots show commands of different contexts and a group has one*)
(* owner, so commands that pass the ownership check never overlap and the  *)
(* dispatcher's reservation of groups has nothing to refuse.               *)
Malformed(shown) == {s \in Showing(shown) : ~Owned(shown[s][1])}

\* Slots that may go as far as ownership, groups and grants decide.
Dispatchable(shown, ready, granted) ==
  {s \in Showing(shown) \cap granted :
     Owned(shown[s][1]) /\ shown[s][1].groups \subseteq ready}

\* At most one malformed command is consumed, the one in the lowest slot.
Refusable(shown, credit) ==
  {s \in Malformed(shown) : credit /\ \A t \in Malformed(shown) : s =< t}

----------------------------------------------------------------------------
(* The clock edge: the commands in the slots "gone" leave their queues.    *)
Popped(shown, gone) == {shown[s][1].context : s \in gone}

(* (mutant) a full queue takes a command when any queue is popped *)
MayEnterWhenAnyLeaves(command, shown, gone) ==
  \/ Len(queue[command.context]) < QueueDepth
  \/ Popped(shown, gone) # {}

MayEnter(command, shown, gone) ==
  \/ Len(queue[command.context]) < QueueDepth
  \/ command.context \in Popped(shown, gone)

\* The slot that chose last decides where the next choice begins.
Rotated(shown) ==
  IF Live(shown) = {} THEN rrBase
  ELSE LET last == CHOOSE s \in Live(shown) : \A t \in Live(shown) : t =< s
       IN  After(shown[last][1].context, ContextCount)

\* One command at most comes in at an edge.
Arriving(entering, c) ==
  IF entering # <<>> /\ entering[1].context = c THEN entering ELSE <<>>

FrontendEdge(shown, gone, entering) ==
  /\ queue' = [c \in Contexts |->
                 (IF c \in Popped(shown, gone)
                  THEN Tail(queue[c]) ELSE queue[c])
                 \o Arriving(entering, c)]
  /\ shadow' = [s \in Slots |-> IF s \in gone THEN <<>> ELSE shown[s]]
  /\ rrBase' = Rotated(shown)

FrontendInit ==
  /\ queue = [c \in Contexts |-> <<>>]
  /\ shadow = [s \in Slots |-> <<>>]
  /\ rrBase = 0
============================================================================
