------------------------- MODULE ClusterExec_proofs -------------------------
(***************************************************************************)
(* Proofs about ClusterExec, for any number of contexts, slots, groups and *)
(* tracker entries.  The invariant follows a command through the cluster:  *)
(* the slots show commands of different contexts, so what is issued finds  *)
(* free entries of its own (a count of ranks); a command in a group is     *)
(* awaited by the one entry with its key; messages with one key never meet *)
(* in a group; and what an entry waits for is somewhere in the group.  One *)
(* clock edge moves all of that together, and the counts of TrackerIsExact *)
(* follow from it.  On the same invariant rests the refinement: what the   *)
(* queues lose, what the groups hold and owe, the verdicts of the entries  *)
(* and the reports on their way move as one step of OrderedCluster.        *)
(***************************************************************************)
EXTENDS ClusterExec, FiniteSetTheorems, SequenceTheorems, WellFoundedInduction,
        TLAPS

\* A set of numbers has a least member: induction by counterexample.
LEMMA Least ==
  ASSUME NEW T \in SUBSET Nat, T # {}
  PROVE  \E m \in T : \A k \in T : m =< k
<1>1. \E m \in T : \A k \in T : <<k, m>> \notin OpToRel(<, Nat)
  BY WFMin, NatLessThanWellFounded
<1>2. PICK m \in T : \A k \in T : <<k, m>> \notin OpToRel(<, Nat)
  BY <1>1, Zenon
<1>3. \A k \in T : ~(k < m)
  BY <1>2, Zenon DEF OpToRel
<1>4. \A k \in T : m =< k
  BY <1>3
<1> QED BY <1>4

\* And a bounded one a greatest member.
LEMMA Greatest ==
  ASSUME NEW n \in Nat, NEW T \in SUBSET (0 .. n), T # {}
  PROVE  \E m \in T : \A k \in T : k =< m
<1> DEFINE Gaps == {d \in Nat : n - d \in T}
<1>1. Gaps \in SUBSET Nat
  OBVIOUS
<1>2. PICK x \in T : TRUE
  OBVIOUS
<1>3. \A k \in T : k \in Nat /\ n - k \in Gaps
  OBVIOUS
<1>4. Gaps # {}
  BY <1>2, <1>3
<1>5. PICK d \in Gaps : \A k \in Gaps : d =< k
  BY <1>1, <1>4, Least
<1>6. n - d \in T /\ d \in Nat
  BY <1>5
<1>7. \A k \in T : k =< n - d
  <2> TAKE k \in T
  <2>1. d =< n - k /\ k \in Nat
    BY <1>3, <1>5
  <2> QED BY <1>6, <2>1
<1> QED BY <1>6, <1>7

\* The members below one, and their number: the rank of a number in a set.
Rank(F, e) == Cardinality({f \in F : f < e})

\* A rank grows with the number it belongs to.
LEMMA RankGrows ==
  ASSUME NEW F \in SUBSET Nat, IsFiniteSet(F), NEW s \in F, NEW t \in Nat, s < t
  PROVE  /\ Rank(F, s) \in Nat /\ Rank(F, t) \in Nat
         /\ Rank(F, s) < Rank(F, t)
<1> DEFINE Low  == {f \in F : f < s}
           High == {f \in F : f < t}
<1>1. IsFiniteSet(Low) /\ IsFiniteSet(High)
  <2>1. Low \in SUBSET F /\ High \in SUBSET F
    OBVIOUS
  <2> QED BY <2>1, FS_Subset
<1>2. Cardinality(Low) \in Nat /\ Cardinality(High) \in Nat
  BY <1>1, FS_CardinalityType
<1>3. IsFiniteSet(Low \cup {s}) /\ Cardinality(Low \cup {s}) = Cardinality(Low) + 1
  <2>1. s \notin Low
    OBVIOUS
  <2> QED BY <1>1, <2>1, FS_AddElement
<1>4. Low \cup {s} \in SUBSET High
  <2>1. \A f \in F : f \in Nat
    OBVIOUS
  <2>2. \A f \in Low : f \in High
    BY <2>1
  <2>3. s \in High
    OBVIOUS
  <2> QED BY <2>2, <2>3
<1>5. Cardinality(Low) + 1 =< Cardinality(High)
  BY <1>1, <1>3, <1>4, FS_Subset
<1> QED BY <1>2, <1>5 DEF Rank

\* Ranks tell the members apart, and stay below the size of the set.
LEMMA RankInjective ==
  ASSUME NEW F \in SUBSET Nat, IsFiniteSet(F), NEW s \in F, NEW t \in F,
         Rank(F, s) = Rank(F, t)
  PROVE  s = t
<1>1. s \in Nat /\ t \in Nat
  OBVIOUS
<1>2. CASE s < t
  BY <1>1, <1>2, RankGrows
<1>3. CASE t < s
  BY <1>1, <1>3, RankGrows
<1> QED BY <1>1, <1>2, <1>3

\* A rank is below the size of the set.
LEMMA RankBound ==
  ASSUME NEW F \in SUBSET Nat, IsFiniteSet(F), NEW s \in F
  PROVE  /\ Cardinality(F) \in Nat
         /\ Rank(F, s) \in 0 .. (Cardinality(F) - 1)
<1> DEFINE Low == {f \in F : f < s}
<1>1. Low \in SUBSET F /\ Low # F
  OBVIOUS
<1>2. IsFiniteSet(Low) /\ Cardinality(Low) =< Cardinality(F) /\ Cardinality(Low) # Cardinality(F)
  BY <1>1, FS_Subset
<1>3. Cardinality(Low) \in Nat /\ Cardinality(F) \in Nat
  BY <1>2, FS_CardinalityType
<1> QED BY <1>2, <1>3 DEF Rank

\* Every number below the size is the rank of a member.
LEMMA RankReached ==
  ASSUME NEW F \in SUBSET Nat, IsFiniteSet(F), NEW n \in Nat, n < Cardinality(F)
  PROVE  \E e \in F : Rank(F, e) = n
<1> DEFINE N == Cardinality(F)
           Ranks == 0 .. (N - 1)
           f == [e \in F |-> Rank(F, e)]
<1>1. N \in Nat
  BY FS_CardinalityType
<1>2. \A e \in F : Rank(F, e) \in Ranks
  BY RankBound
<1>3. f \in Injection(F, Ranks)
  <2>1. f \in [F -> Ranks]
    BY <1>2
  <2>2. \A s, t \in F : f[s] = f[t] => s = t
    BY RankInjective
  <2> QED BY <2>1, <2>2, Zenon DEF Injection, IsInjective
<1>4. IsFiniteSet(Ranks) /\ Cardinality(Ranks) = N
  <2>1. 0 \in Int /\ N - 1 \in Int
    BY <1>1
  <2> QED BY <1>1, <2>1, FS_Interval
<1>5. f \in Surjection(F, Ranks)
  BY <1>3, <1>4, FS_Injection
<1>6. n \in Ranks
  BY <1>1
<1>7. \E e \in F : f[e] = n
  BY <1>5, <1>6 DEF Surjection
<1> QED BY <1>7

\* A rank in a subset is at most the rank in the set.
LEMMA RankMonotone ==
  ASSUME NEW F \in SUBSET Nat, IsFiniteSet(F), NEW G \in SUBSET F, NEW s \in Nat
  PROVE  Rank(G, s) \in Nat /\ Rank(F, s) \in Nat /\ Rank(G, s) =< Rank(F, s)
<1> DEFINE Few == {f \in G : f < s}
           Many == {f \in F : f < s}
<1>1. Few \in SUBSET Many /\ Many \in SUBSET F
  OBVIOUS
<1>2. IsFiniteSet(Few) /\ IsFiniteSet(Many) /\ Cardinality(Few) =< Cardinality(Many)
  BY <1>1, FS_Subset
<1> QED BY <1>2, FS_CardinalityType DEF Rank

\* The scan yields one of those that wait.
LEMMA ScanFinds ==
  ASSUME NEW n \in Nat \ {0}, NEW base \in 0 .. n - 1, NEW waiting \in SUBSET (0 .. n - 1)
  PROVE  \/ waiting = {} /\ FirstFrom(base, n, waiting) = <<>>
         \/ \E i \in waiting : FirstFrom(base, n, waiting) = <<i>>
<1>1. CASE waiting = {}
  BY <1>1 DEF FirstFrom
<1>2. CASE waiting # {}
  <2> DEFINE T == {d \in Nat : \E i \in waiting : Steps(base, i, n) = d}
  <2>1. \A i \in waiting : Steps(base, i, n) \in Nat
    BY DEF Steps
  <2>2. T \in SUBSET Nat /\ T # {}
    BY <1>2, <2>1
  <2>3. PICK d \in T : \A k \in T : d =< k
    BY <2>2, Least
  <2>4. PICK i \in waiting : Steps(base, i, n) = d
    BY <2>3
  <2>5. \A j \in waiting : Steps(base, i, n) =< Steps(base, j, n)
    BY <2>1, <2>3, <2>4
  <2> DEFINE Nearest == CHOOSE k \in waiting :
                          \A j \in waiting : Steps(base, k, n) =< Steps(base, j, n)
  <2>6. Nearest \in waiting
    BY <2>5, Zenon
  <2>7. FirstFrom(base, n, waiting) = <<Nearest>>
    BY <1>2, Zenon DEF FirstFrom
  <2> QED BY <2>6, <2>7, Zenon
<1> QED BY <1>1, <1>2

----------------------------------------------------------------------------
(* The front end shows every context at most once                          *)

QueueInv == \A c \in Contexts : \A i \in 1 .. Len(queue[c]) : queue[c][i].context = c

\* A locked slot holds the head of its queue, another slot that of another.
SlotInv ==
  /\ \A s \in Locked : /\ queue[shadow[s][1].context] # <<>>
                        /\ shadow[s][1] = Head(queue[shadow[s][1].context])
  /\ \A s, t \in Locked : shadow[s][1].context = shadow[t][1].context => s = t

FrontType ==
  /\ queue \in [Contexts -> Seq(Command)]
  /\ EachHolds(shadow, Slots, Command)

\* What the slots show: commands, each the head of a queue of its own.
WellShown(shown) ==
  /\ EachHolds(shown, Slots, Command)
  /\ \A s \in Showing(shown) : /\ shown[s][1] \in Command
                               /\ queue[shown[s][1].context] # <<>>
                               /\ shown[s][1] = Head(queue[shown[s][1].context])
  /\ \A s, t \in Showing(shown) : shown[s][1].context = shown[t][1].context => s = t

\* The bounds of the parameters.
LEMMA Geometry ==
  /\ Slots \in SUBSET Nat /\ IsFiniteSet(Slots)
  /\ Entries \in SUBSET Nat /\ IsFiniteSet(Entries)
  /\ Contexts \in SUBSET Nat /\ Groups \in SUBSET Nat
<1>1. SlotCount - 1 \in Int /\ EntryCount - 1 \in Int /\ 0 \in Int
  BY FrontendAssumption, TrackerAssumption
<1>2. IsFiniteSet(Slots) /\ IsFiniteSet(Entries)
  BY <1>1, FS_Interval DEF Slots, Entries
<1> QED BY <1>2, FrontendAssumption, TrackerAssumption DEF Slots, Entries, Contexts, Groups

\* Whatever is locked and whatever the rotation: every slot shows the head of
\* a queue of its own.
LEMMA PresentedWell ==
  ASSUME FrontType, QueueInv, SlotInv
  PROVE  WellShown(Presented)
<1> DEFINE Unlocked == Slots \ Locked
           Pick(s) == CHOOSE c \in Selected(s) : TRUE
<1>1. \A s \in Slots : Presented[s] = IF s \in Locked THEN shadow[s]
                                     ELSE IF Selected(s) = {} THEN <<>>
                                     ELSE <<Head(queue[Pick(s)])>>
  BY DEF Presented
<1>2. \A s \in Locked : /\ s \in Slots /\ shadow[s] = <<shadow[s][1]>>
                        /\ shadow[s][1] \in Command
  BY DEF FrontType, EachHolds, Holds, Locked
<1>3. \A s \in Slots : Selected(s) # {} =>
         /\ Pick(s) \in Candidates
         /\ Turn(Pick(s)) = Rank(Unlocked, s)
  BY Zenon DEF Selected, Rank
<1>4. \A c \in Candidates :
         /\ c \in Contexts /\ queue[c] # <<>>
         /\ Head(queue[c]) \in Command /\ Head(queue[c]).context = c
         /\ \A s \in Locked : shadow[s][1].context # c
  <2> TAKE c \in Candidates
  <2>1. c \in Contexts /\ queue[c] # <<>> /\ \A s \in Locked : shadow[s][1].context # c
    BY DEF Candidates
  <2>2. queue[c] \in Seq(Command)
    BY <2>1 DEF FrontType
  <2>3. Head(queue[c]) = queue[c][1] /\ 1 \in 1 .. Len(queue[c]) /\ queue[c][1] \in Command
    BY <2>1, <2>2
  <2> QED BY <2>1, <2>3 DEF QueueInv
\* A slot shows its locked command or the head of the queue it picked.
<1>5. \A s \in Showing(Presented) :
         \/ s \in Locked /\ Presented[s] = shadow[s]
         \/ /\ s \in Unlocked /\ Selected(s) # {} /\ Pick(s) \in Candidates
            /\ Presented[s] = <<Head(queue[Pick(s)])>>
            /\ Presented[s][1] = Head(queue[Pick(s)])
            /\ Presented[s][1].context = Pick(s)
  <2> TAKE s \in Showing(Presented)
  <2>1. s \in Slots /\ Presented[s] # <<>>
    BY DEF Showing
  <2>2. CASE s \in Locked
    BY <1>1, <2>1, <2>2
  <2>3. CASE s \notin Locked
    <3>1. Selected(s) # {} /\ Presented[s] = <<Head(queue[Pick(s)])>>
      BY <1>1, <2>1, <2>3
    <3>2. Presented[s][1] = Head(queue[Pick(s)])
      BY <3>1
    <3> QED BY <1>3, <1>4, <2>1, <2>3, <3>1, <3>2
  <2> QED BY <2>2, <2>3
<1>6. EachHolds(Presented, Slots, Command)
  <2>1. DOMAIN Presented = Slots
    BY DEF Presented
  <2>2. ASSUME NEW s \in Slots PROVE Holds(Presented[s], Command)
    <3>1. CASE Presented[s] = <<>>
      BY <3>1 DEF Holds
    <3>2. CASE Presented[s] # <<>>
      <4>1. s \in Showing(Presented)
        BY <3>2 DEF Showing
      <4> QED BY <1>2, <1>4, <1>5, <4>1 DEF Holds
    <3> QED BY <3>1, <3>2
  <2> QED BY <2>1, <2>2 DEF EachHolds
<1>7. \A s \in Showing(Presented) :
         /\ Presented[s][1] \in Command
         /\ queue[Presented[s][1].context] # <<>>
         /\ Presented[s][1] = Head(queue[Presented[s][1].context])
  BY <1>2, <1>4, <1>5 DEF SlotInv
<1>8. \A s, t \in Showing(Presented) :
         Presented[s][1].context = Presented[t][1].context => s = t
  <2> TAKE s, t \in Showing(Presented)
  <2> HAVE Presented[s][1].context = Presented[t][1].context
  <2>1. CASE s \in Locked /\ t \in Locked
    BY <1>5, <2>1 DEF SlotInv
  <2>2. CASE s \in Locked /\ t \notin Locked
    BY <1>4, <1>5, <2>2
  <2>3. CASE s \notin Locked /\ t \in Locked
    <3>1. Presented[t][1].context = shadow[t][1].context /\ t \in Locked
      BY <1>5, <2>3
    <3>2. Presented[s][1].context = Pick(s) /\ Pick(s) \in Candidates
      BY <1>5, <2>3
    <3>3. shadow[t][1].context # Pick(s)
      BY <1>4, <3>1, <3>2
    <3> QED BY <3>1, <3>2, <3>3
  <2>4. CASE s \notin Locked /\ t \notin Locked
    <3>1. Rank(Unlocked, s) = Rank(Unlocked, t) /\ s \in Unlocked /\ t \in Unlocked
      BY <1>3, <1>5, <2>4
    <3>2. Unlocked \in SUBSET Nat /\ IsFiniteSet(Unlocked)
      BY Geometry, FS_Difference
    <3> QED BY <3>1, <3>2, RankInjective
  <2> QED BY <2>1, <2>2, <2>3, <2>4
<1> QED BY <1>6, <1>7, <1>8 DEF WellShown

----------------------------------------------------------------------------
(* Dispatch and allocation                                                 *)

\* What may be issued at an edge: commands of different contexts, with all
\* their groups ready, for groups nobody else is given, and of a free key.
WellIssued(shown, issued, ready) ==
  /\ issued \subseteq Showing(shown)
  /\ \A s \in issued : /\ shown[s] = <<shown[s][1]>> /\ shown[s][1] \in Command
                       /\ Owned(shown[s][1]) /\ shown[s][1].groups \subseteq ready
                       /\ ~Busy(shown[s][1])
                       /\ Rank(issued, s) \in Nat /\ Rank(issued, s) < Cardinality(FreeEntries)
  /\ \A s, t \in issued : shown[s][1].context = shown[t][1].context => s = t
  /\ \A s, t \in issued : shown[s][1].groups \cap shown[t][1].groups # {} => s = t

\* What the tracker takes of the offers may be issued.
LEMMA IssueWell ==
  ASSUME NEW shown, WellShown(shown), NEW ready, NEW granted
  PROVE  WellIssued(shown, Granted(shown, Dispatchable(shown, ready, granted)), ready)
<1> DEFINE offered == Dispatchable(shown, ready, granted)
           wanting == Wanting(shown, offered)
           issued == Granted(shown, offered)
<1>1. issued \subseteq wanting /\ wanting \subseteq offered /\ offered \subseteq Showing(shown)
      /\ Showing(shown) \subseteq Slots
  BY DEF Granted, Wanting, Dispatchable, Showing
<1>2. wanting \in SUBSET Nat /\ IsFiniteSet(wanting) /\ issued \in SUBSET wanting
  <2>1. wanting \in SUBSET Slots /\ issued \in SUBSET wanting
    BY <1>1
  <2> QED BY <2>1, Geometry, FS_Subset
<1>3. ASSUME NEW s \in issued
      PROVE  /\ shown[s] = <<shown[s][1]>> /\ shown[s][1] \in Command
             /\ Owned(shown[s][1]) /\ shown[s][1].groups \subseteq ready
             /\ ~Busy(shown[s][1])
             /\ Rank(issued, s) \in Nat /\ Rank(issued, s) < Cardinality(FreeEntries)
  <2>1. s \in Showing(shown) /\ s \in Slots /\ s \in wanting /\ s \in offered /\ s \in Nat
    BY <1>1, Geometry
  <2>2. shown[s] = <<shown[s][1]>> /\ shown[s][1] \in Command
    BY <2>1 DEF WellShown, EachHolds, Holds, Showing
  <2>3. Owned(shown[s][1]) /\ shown[s][1].groups \subseteq ready
    BY <2>1 DEF Dispatchable
  <2>4. ~Busy(shown[s][1])
    BY <2>1 DEF Wanting
  <2>5. Rank(wanting, s) < Cardinality(FreeEntries)
    BY DEF Granted, Before, Rank
  <2>6. Rank(issued, s) \in Nat /\ Rank(wanting, s) \in Nat /\ Rank(issued, s) =< Rank(wanting, s)
    BY <1>2, <2>1, RankMonotone
  <2>7. Cardinality(FreeEntries) \in Nat
    BY Geometry, FS_Difference, FS_CardinalityType DEF FreeEntries
  <2> QED BY <2>2, <2>3, <2>4, <2>5, <2>6, <2>7
<1>4. \A s, t \in issued : shown[s][1].context = shown[t][1].context => s = t
  BY <1>1 DEF WellShown
<1>5. \A s, t \in issued : shown[s][1].groups \cap shown[t][1].groups # {} => s = t
  <2> TAKE s, t \in issued
  <2> HAVE shown[s][1].groups \cap shown[t][1].groups # {}
  <2>1. PICK g \in shown[s][1].groups \cap shown[t][1].groups : TRUE
    OBVIOUS
  <2>2. owner[g] = shown[s][1].context /\ owner[g] = shown[t][1].context
    BY <1>3, <2>1 DEF Owned
  <2> QED BY <1>4, <2>2
<1> HIDE DEF issued
<1>6. issued \subseteq Showing(shown)
  BY <1>1
<1> QED BY <1>3, <1>4, <1>5, <1>6 DEF WellIssued, issued

\* The n-th free entry, for every n below their number.
LEMMA SpotFree ==
  ASSUME NEW n \in Nat, n < Cardinality(FreeEntries)
  PROVE  Spot(n) \in FreeEntries /\ Rank(FreeEntries, Spot(n)) = n
<1>1. FreeEntries \in SUBSET Nat /\ IsFiniteSet(FreeEntries)
  BY Geometry, FS_Difference DEF FreeEntries
<1>2. \E e \in FreeEntries : Rank(FreeEntries, e) = n
  BY <1>1, RankReached
<1> QED BY <1>2, Zenon DEF Spot, Rank

New(command) == NewEntry(command, IF command.op \in ResultOps THEN command.groups ELSE {})

\* Free entries for the commands issued, one for each, with different keys.
WellPlaced(placed, shown, issued) ==
  /\ DOMAIN placed \subseteq FreeEntries
  /\ \A e \in DOMAIN placed : \E s \in issued : placed[e] = New(shown[s][1])
  /\ \A s \in issued : \E e \in DOMAIN placed : placed[e] = New(shown[s][1])
  /\ \A e, f \in DOMAIN placed : placed[e].context = placed[f].context => e = f

\* Every command issued finds a free entry of its own.
LEMMA PlacedWell ==
  ASSUME NEW shown, NEW issued, NEW ready, WellShown(shown), WellIssued(shown, issued, ready)
  PROVE  WellPlaced(Placed(shown, issued), shown, issued)
<1> DEFINE S(s) == Spot(Before(issued, s))
           placed == Placed(shown, issued)
           Which(e) == CHOOSE t \in issued : S(t) = e
<1>1. issued \in SUBSET Nat /\ IsFiniteSet(issued)
  <2>1. issued \in SUBSET Slots
    BY DEF WellIssued, Showing
  <2> QED BY <2>1, Geometry, FS_Subset
<1>2. \A s \in issued : S(s) \in FreeEntries /\ Rank(FreeEntries, S(s)) = Rank(issued, s)
  <2> TAKE s \in issued
  <2>1. Rank(issued, s) \in Nat /\ Rank(issued, s) < Cardinality(FreeEntries)
    BY DEF WellIssued
  <2>2. Before(issued, s) = Rank(issued, s)
    BY DEF Before, Rank
  <2> QED BY <2>1, <2>2, SpotFree
<1>3. \A s, t \in issued : S(s) = S(t) => s = t
  <2> TAKE s, t \in issued
  <2> HAVE S(s) = S(t)
  <2>1. Rank(issued, s) = Rank(issued, t)
    BY <1>2
  <2> QED BY <1>1, <2>1, RankInjective
<1>4. \A s \in issued : Which(S(s)) = s
  <2> HIDE DEF S
  <2> QED BY <1>3, Zenon
<1>5. placed = [e \in {S(s) : s \in issued} |-> New(shown[Which(e)][1])]
  BY DEF Placed, New
<1> HIDE DEF S, Which, placed
<1>6. DOMAIN placed = {S(s) : s \in issued}
  BY <1>5
<1>7. \A s \in issued : S(s) \in DOMAIN placed /\ placed[S(s)] = New(shown[s][1])
  BY <1>4, <1>5
<1>8. \A e \in DOMAIN placed : \E s \in issued : e = S(s) /\ placed[e] = New(shown[s][1])
  BY <1>6, <1>7
<1>9. \A command : New(command).context = command.context
  BY DEF New, NewEntry
<1>10. \A e, f \in DOMAIN placed : placed[e].context = placed[f].context => e = f
  <2> TAKE e, f \in DOMAIN placed
  <2> HAVE placed[e].context = placed[f].context
  <2>1. PICK s \in issued : e = S(s) /\ placed[e] = New(shown[s][1])
    BY <1>8
  <2>2. PICK t \in issued : f = S(t) /\ placed[f] = New(shown[t][1])
    BY <1>8
  <2>3. s = t
    BY <1>9, <2>1, <2>2 DEF WellIssued
  <2> QED BY <2>1, <2>2, <2>3
<1>11. DOMAIN placed \subseteq FreeEntries
  BY <1>2, <1>8
<1> QED BY <1>7, <1>8, <1>10, <1>11 DEF WellPlaced, placed

----------------------------------------------------------------------------
(* The registers of a group                                                *)

GroupType ==
  /\ EachHolds(ingress, Groups, Command) /\ EachHolds(pipe, Groups, Command)
  /\ EachHolds(res, Groups, Command) /\ EachHolds(cpl, Groups, ChildType)
  /\ EachHolds(rsp, Groups, ResultType)

\* The completion of a command in a group, if there is one.
ExecCpl(g) == IF g \in HeardGroups THEN cpl[g] ELSE <<>>

\* How an edge moves the messages of a group.
Moved(g, taken, turns, shown, issued) ==
  /\ g \in Drained(taken, turns) =>
       ingress[g] # <<>> /\ (pipe[g] = <<>> \/ Advances(g, taken))
  /\ Advances(g, taken) => pipe[g] # <<>> /\ (res[g] = <<>> \/ Retires(g, taken))
  /\ Retires(g, taken) => res[g] # <<>>
  /\ \/ /\ \A s \in issued : g \notin shown[s][1].groups
        /\ ingress'[g] = IF g \in Drained(taken, turns) THEN <<>> ELSE ingress[g]
     \/ /\ ingress[g] = <<>> \/ g \in Drained(taken, turns)
        /\ \E s \in issued : g \in shown[s][1].groups /\ ingress'[g] = shown[s]
  /\ pipe'[g] = IF g \in Drained(taken, turns) THEN ingress[g]
                ELSE IF Advances(g, taken) THEN <<>> ELSE pipe[g]
  /\ res'[g] = IF Advances(g, taken) THEN pipe[g]
               ELSE IF Retires(g, taken) THEN <<>> ELSE res[g]
  /\ ExecCpl(g)' = IF Retires(g, taken) THEN <<ChildCompletion(res[g][1])>> ELSE <<>>
  /\ rsp'[g] = IF Retires(g, taken) /\ res[g][1].op \in ResultOps
               THEN <<ResultRecord(g, res[g][1])>>
               ELSE IF Captured(taken) = <<g>> THEN <<>> ELSE rsp[g]
  /\ Retires(g, taken) /\ res[g][1].op \in ResultOps =>
       rsp[g] = <<>> \/ Captured(taken) = <<g>>

\* The edge moves the messages of every group in that way.
LEMMA GroupMoves ==
  ASSUME GroupType, NEW taken, NEW turns, NEW written \in WriteTurns(taken),
         NEW shown, NEW issued, WellIssued(shown, issued, IngressReady(taken, turns)),
         GroupsEdge(taken, turns, written, shown, issued), NEW g \in Groups
  PROVE  Moved(g, taken, turns, shown, issued)
<1>1. /\ g \in Drained(taken, turns) =>
           ingress[g] # <<>> /\ (pipe[g] = <<>> \/ Advances(g, taken))
      /\ Advances(g, taken) => pipe[g] # <<>> /\ (res[g] = <<>> \/ Retires(g, taken))
      /\ Retires(g, taken) =>
           /\ res[g] # <<>> /\ CplFree(g, taken)
           /\ res[g][1].op \in ResultOps => RspFree(g, taken)
  BY DEF Drained, Full, Advances, Retires
<1>2. \/ /\ \A s \in issued : g \notin shown[s][1].groups
         /\ ingress'[g] = IF g \in Drained(taken, turns) THEN <<>> ELSE ingress[g]
      \/ /\ ingress[g] = <<>> \/ g \in Drained(taken, turns)
         /\ \E s \in issued : g \in shown[s][1].groups /\ ingress'[g] = shown[s]
  <2>1. ingress'[g] = IF Target(shown, issued, g) # {}
                      THEN shown[CHOOSE s \in Target(shown, issued, g) : TRUE]
                      ELSE IF g \in Drained(taken, turns) THEN <<>> ELSE ingress[g]
    BY DEF GroupsEdge
  <2>2. CASE Target(shown, issued, g) = {}
    BY <2>1, <2>2 DEF Target
  <2>3. CASE Target(shown, issued, g) # {}
    <3> DEFINE s == CHOOSE s \in Target(shown, issued, g) : TRUE
    <3>1. s \in Target(shown, issued, g) /\ ingress'[g] = shown[s]
      BY <2>1, <2>3, Zenon
    <3> HIDE DEF s
    <3>2. s \in issued /\ g \in shown[s][1].groups
      BY <3>1 DEF Target
    <3>3. g \in IngressReady(taken, turns)
      BY <3>2 DEF WellIssued
    <3>4. ingress[g] = <<>> \/ g \in Drained(taken, turns)
      BY <3>3 DEF IngressReady, Full
    <3> QED BY <3>1, <3>2, <3>4
  <2> QED BY <2>2, <2>3
<1>3. /\ pipe'[g] = IF g \in Drained(taken, turns) THEN ingress[g]
                    ELSE IF Advances(g, taken) THEN <<>> ELSE pipe[g]
      /\ res'[g] = IF Advances(g, taken) THEN pipe[g]
                   ELSE IF Retires(g, taken) THEN <<>> ELSE res[g]
      /\ rsp'[g] = IF Retires(g, taken) /\ res[g][1].op \in ResultOps
                   THEN <<ResultRecord(g, res[g][1])>>
                   ELSE IF RspFree(g, taken) THEN <<>> ELSE rsp[g]
      /\ cpl'[g] = IF \E w \in written : w.group = g
                   THEN <<WriteCompletion(CHOOSE w \in written : w.group = g)>>
                   ELSE IF Retires(g, taken) THEN <<ChildCompletion(res[g][1])>>
                   ELSE IF CplFree(g, taken) THEN <<>> ELSE cpl[g]
  BY DEF GroupsEdge
<1>4. (\E w \in written : w.group = g) => ~Retires(g, taken)
  BY <1>1 DEF WriteTurns, MayWrite, Idle
<1>5. ExecCpl(g)' = IF Retires(g, taken) THEN <<ChildCompletion(res[g][1])>> ELSE <<>>
  <2>1. ExecCpl(g)' = IF cpl'[g] # <<>> /\ cpl'[g][1].kind = "EXEC" THEN cpl'[g] ELSE <<>>
    BY DEF ExecCpl, HeardGroups, Holding
  <2>2. CASE \E w \in written : w.group = g
    BY <1>3, <1>4, <2>1, <2>2 DEF WriteCompletion
  <2>3. CASE ~(\E w \in written : w.group = g) /\ Retires(g, taken)
    BY <1>3, <2>1, <2>3 DEF ChildCompletion
  <2>4. CASE ~(\E w \in written : w.group = g) /\ ~Retires(g, taken)
    <3>1. cpl'[g] = IF CplFree(g, taken) THEN <<>> ELSE cpl[g]
      BY <1>3, <2>4
    <3>2. ~CplFree(g, taken) => g \notin HeardGroups
      BY DEF CplFree
    <3>3. cpl'[g] = <<>> \/ cpl'[g][1].kind # "EXEC"
      BY <3>1, <3>2 DEF HeardGroups, Holding, CplFree
    <3> QED BY <2>1, <2>4, <3>3
  <2> QED BY <2>2, <2>3, <2>4
<1>6. /\ rsp'[g] = IF Retires(g, taken) /\ res[g][1].op \in ResultOps
                   THEN <<ResultRecord(g, res[g][1])>>
                   ELSE IF Captured(taken) = <<g>> THEN <<>> ELSE rsp[g]
      /\ Retires(g, taken) /\ res[g][1].op \in ResultOps =>
           rsp[g] = <<>> \/ Captured(taken) = <<g>>
  <2>1. RspFree(g, taken) <=> rsp[g] = <<>> \/ Captured(taken) = <<g>>
    BY DEF RspFree
  <2> QED BY <1>1, <1>3, <2>1
<1> QED BY <1>1, <1>2, <1>3, <1>5, <1>6, Zenon DEF Moved

----------------------------------------------------------------------------
(* The entries of the tracker                                              *)

X(e) == entry[e][1]
Has(register, x) == register # <<>> /\ SameKey(register[1], x)

EntryInv ==
  /\ EachHolds(entry, Entries, EntryType)
  /\ \A e, f \in Used : SameKey(X(e), X(f)) => e = f
  /\ \A e \in Used : /\ X(e).pending \subseteq X(e).groups /\ X(e).results \subseteq X(e).groups
                     /\ X(e).reported => X(e).pending = {}
DoneInv ==
  /\ Holds(doneHold, Entries) /\ doneNext \in Entries
  /\ doneHold # <<>> => Complete(doneHold[1])

\* A stage of a group is awaited by the entry that has its key.
Awaited(stage, g) ==
  stage # <<>> => \E e \in Used : /\ SameKey(X(e), stage[1]) /\ g \in X(e).pending
                                  /\ g \in X(e).results <=> stage[1].op \in ResultOps
                                  /\ g \notin X(e).seen
AwaitedCpl(child, g) ==
  child # <<>> => \E e \in Used : /\ SameKey(X(e), child[1]) /\ g \in X(e).pending
                                  /\ g \in X(e).results <=> child[1].result
AwaitedRsp(record, g) ==
  record # <<>> => \E e \in Used : /\ SameKey(X(e), record[1])
                                   /\ g \in X(e).results \ X(e).seen

ExpectedAt(g) ==
  /\ Awaited(ingress[g], g) /\ Awaited(pipe[g], g) /\ Awaited(res[g], g)
  /\ AwaitedCpl(ExecCpl(g), g) /\ AwaitedRsp(rsp[g], g)

\* Messages with one key do not meet in a group, except a completion and the
\* result that was made with it.
Apart(r, q) == r # <<>> /\ q # <<>> => ~SameKey(r[1], q[1])
ApartAt(g) ==
  /\ Apart(ingress[g], pipe[g]) /\ Apart(ingress[g], res[g]) /\ Apart(pipe[g], res[g])
  /\ Apart(ingress[g], ExecCpl(g)) /\ Apart(pipe[g], ExecCpl(g)) /\ Apart(res[g], ExecCpl(g))
  /\ Apart(Promised(ingress[g]), rsp[g]) /\ Apart(Promised(pipe[g]), rsp[g])
  /\ Apart(Promised(res[g]), rsp[g])

\* What an entry waits for is somewhere in the group.
InStages(g, x) == Has(ingress[g], x) \/ Has(pipe[g], x) \/ Has(res[g], x)
OwedAt(g) ==
  \A e \in Used :
    /\ g \in X(e).pending => InStages(g, X(e)) \/ Has(ExecCpl(g), X(e))
    /\ g \in X(e).results \ X(e).seen => InStages(g, X(e)) \/ Has(rsp[g], X(e))

MessagesInv == \A g \in Groups : ExpectedAt(g) /\ ApartAt(g) /\ OwedAt(g)

\* The collector takes a record that is there.
LEMMA CapturedRecord ==
  ASSUME collectNext \in Groups, NEW taken
  PROVE  \/ Captured(taken) = <<>>
         \/ \E g \in Groups : Captured(taken) = <<g>> /\ rsp[g] # <<>>
<1>1. CASE collected = <<>> \/ "RESULT" \in taken
  <2>1. GroupCount \in Nat \ {0} /\ collectNext \in 0 .. GroupCount - 1
        /\ Full(rsp) \in SUBSET (0 .. GroupCount - 1)
    BY FrontendAssumption DEF Groups, Full
  <2>2. \/ FirstFrom(collectNext, GroupCount, Full(rsp)) = <<>>
        \/ \E g \in Full(rsp) : FirstFrom(collectNext, GroupCount, Full(rsp)) = <<g>>
    BY <2>1, ScanFinds
  <2> QED BY <1>1, <2>2 DEF Captured, Full
<1>2. CASE ~(collected = <<>> \/ "RESULT" \in taken)
  BY <1>2 DEF Captured
<1> QED BY <1>1, <1>2

\* The completion on offer is that of an entry that is complete.
LEMMA DoneComplete ==
  ASSUME DoneInv
  PROVE  Done = <<>> \/ \E e \in Used : Done = <<e>> /\ Complete(e)
<1>1. CASE doneHold # <<>>
  BY <1>1 DEF DoneInv, Done, Holds, Complete
<1>2. CASE doneHold = <<>>
  <2> DEFINE C == {e \in Entries : Complete(e)}
  <2>1. EntryCount \in Nat \ {0} /\ doneNext \in 0 .. EntryCount - 1
        /\ C \in SUBSET (0 .. EntryCount - 1)
    BY TrackerAssumption DEF DoneInv, Entries
  <2>2. \/ FirstFrom(doneNext, EntryCount, C) = <<>>
        \/ \E e \in C : FirstFrom(doneNext, EntryCount, C) = <<e>>
    BY <2>1, ScanFinds
  <2>3. Done = FirstFrom(doneNext, EntryCount, C)
    BY <1>2 DEF Done
  <2> QED BY <2>2, <2>3 DEF Complete
<1> QED BY <1>1, <1>2

\* What becomes of an entry at an edge
Kept(e, taken) ==
  /\ e \in Used /\ e \in Used'
  /\ X(e)'.context = X(e).context /\ X(e)'.tag = X(e).tag
  /\ X(e)'.groups = X(e).groups /\ X(e)'.results = X(e).results
  /\ \A g \in Groups : g \in X(e)'.pending <=> g \in X(e).pending /\ ~Has(ExecCpl(g), X(e))
  /\ \A g \in Groups :
       g \in X(e)'.seen <=> g \in X(e).seen \/ (Captured(taken) = <<g>> /\ Has(rsp[g], X(e)))
  /\ X(e)'.reported <=> X(e).reported \/ Fired(taken) = <<e>>
Left(e, taken) ==
  /\ e \in Used /\ e \notin Used' /\ X(e).pending = {}
  /\ X(e).reported \/ Fired(taken) = <<e>>
  /\ \A g \in Groups : g \in X(e).results =>
       g \in X(e).seen \/ (Captured(taken) = <<g>> /\ Has(rsp[g], X(e)))
Fresh(e, command) == e \notin Used /\ e \in Used' /\ X(e)' = New(command)

EntriesMove(taken, shown, issued) ==
  /\ \A e \in Used : Kept(e, taken) \/ Left(e, taken)
  /\ \A e \in Used' \ Used : \E s \in issued : Fresh(e, shown[s][1])
  /\ \A s \in issued : \E e \in Used' \ Used : Fresh(e, shown[s][1])

\* Every message reaches the entry that expects it.
LEMMA Booked ==
  ASSUME EntryInv, MessagesInv, GroupType, collectNext \in Groups, NEW taken, NEW e \in Used
  PROVE  /\ Reporting(e, Reports) = {g \in Groups : Has(ExecCpl(g), X(e))}
         /\ \A g \in Reporting(e, Reports) : /\ g \in HeardGroups /\ g \in X(e).pending
                                             /\ Reports[g].result <=> g \in X(e).results
         /\ Retiring(e, Retired(taken)) =
              {g \in Groups : Captured(taken) = <<g>> /\ Has(rsp[g], X(e))}
         /\ Retiring(e, Retired(taken)) \subseteq X(e).results \ X(e).seen
<1>1. \A f \in Used : f \in Nat
  BY Geometry DEF Used
<1>2. \A message : About(message, e) <=> SameKey(X(e), message)
  <2>1. \A message : SameKey(X(e), message) =>
           e \in Found(message) /\ \A f \in Found(message) : f = e
    BY DEF EntryInv, Found, SameKey, X
  <2> QED BY <1>1, <2>1 DEF About, Found, X
<1>3. DOMAIN Reports = HeardGroups /\ HeardGroups \subseteq Groups
      /\ \A g \in HeardGroups : Reports[g] = cpl[g][1] /\ ExecCpl(g) = cpl[g] /\ cpl[g] # <<>>
  BY DEF Reports, HeardGroups, Holding, ExecCpl
<1>4. \A g \in Groups : ExecCpl(g) # <<>> => g \in HeardGroups
  BY DEF ExecCpl
<1>5. \A g \in HeardGroups : SameKey(X(e), cpl[g][1]) =>
         g \in X(e).pending /\ (cpl[g][1].result <=> g \in X(e).results)
  <2> TAKE g \in HeardGroups
  <2> HAVE SameKey(X(e), cpl[g][1])
  <2>1. AwaitedCpl(ExecCpl(g), g) /\ ExecCpl(g) # <<>> /\ ExecCpl(g)[1] = cpl[g][1]
    BY <1>3 DEF MessagesInv, ExpectedAt
  <2>2. PICK f \in Used : /\ SameKey(X(f), cpl[g][1]) /\ g \in X(f).pending
                          /\ g \in X(f).results <=> cpl[g][1].result
    BY <2>1 DEF AwaitedCpl
  <2>3. SameKey(X(f), cpl[g][1])
    BY <2>2, Zenon
  <2>4. SameKey(X(e), X(f))
    BY <2>3 DEF SameKey
  <2>5. e = f
    BY <2>4 DEF EntryInv
  <2> QED BY <2>2, <2>5, Zenon
<1>6. Reporting(e, Reports) = {g \in HeardGroups : SameKey(X(e), cpl[g][1])}
  <2>1. Reporting(e, Reports) = {g \in HeardGroups : SameKey(X(e), cpl[g][1]) /\ g \in X(e).pending}
    BY <1>2, <1>3 DEF Reporting, X
  <2> QED BY <1>5, <2>1
<1>7. Reporting(e, Reports) = {g \in Groups : Has(ExecCpl(g), X(e))}
  <2>1. \A g \in Groups : g \in HeardGroups /\ SameKey(X(e), cpl[g][1]) <=> Has(ExecCpl(g), X(e))
    BY <1>3, <1>4 DEF Has, SameKey
  <2> QED BY <1>3, <1>6, <2>1
<1>8. \A g \in Groups : Captured(taken) = <<g>> => rsp[g] # <<>>
  <2> TAKE g \in Groups
  <2> HAVE Captured(taken) = <<g>>
  <2>1. Captured(taken) # <<>>
    OBVIOUS
  <2>2. PICK h \in Groups : Captured(taken) = <<h>> /\ rsp[h] # <<>>
    BY <2>1, CapturedRecord
  <2>3. g = h
    BY <2>2
  <2> QED BY <2>2, <2>3
<1>9. /\ DOMAIN Retired(taken) = {g \in Groups : Captured(taken) = <<g>>}
      /\ \A g \in DOMAIN Retired(taken) : Retired(taken)[g] = rsp[g][1]
  BY DEF Retired
<1>10. \A g \in DOMAIN Retired(taken) : SameKey(X(e), rsp[g][1]) => g \in X(e).results \ X(e).seen
  <2> TAKE g \in DOMAIN Retired(taken)
  <2> HAVE SameKey(X(e), rsp[g][1])
  <2>1. AwaitedRsp(rsp[g], g) /\ rsp[g] # <<>>
    BY <1>8, <1>9 DEF MessagesInv, ExpectedAt
  <2>2. PICK f \in Used : SameKey(X(f), rsp[g][1]) /\ g \in X(f).results \ X(f).seen
    BY <2>1 DEF AwaitedRsp
  <2>3. SameKey(X(e), X(f))
    BY <2>2 DEF SameKey
  <2>4. e = f
    BY <2>3 DEF EntryInv
  <2> QED BY <2>2, <2>4
<1>11. Retiring(e, Retired(taken)) = {g \in DOMAIN Retired(taken) : SameKey(X(e), rsp[g][1])}
  <2>1. Retiring(e, Retired(taken)) =
          {g \in DOMAIN Retired(taken) : SameKey(X(e), rsp[g][1]) /\ g \in X(e).groups}
    BY <1>2, <1>9 DEF Retiring, X
  <2>2. X(e).results \subseteq X(e).groups
    BY DEF EntryInv
  <2> QED BY <1>10, <2>1, <2>2
<1>12. Retiring(e, Retired(taken)) =
         {g \in Groups : Captured(taken) = <<g>> /\ Has(rsp[g], X(e))}
  <2>1. \A g \in Groups : Captured(taken) = <<g>> =>
           (SameKey(X(e), rsp[g][1]) <=> Has(rsp[g], X(e)))
    BY <1>8 DEF Has, SameKey
  <2> QED BY <1>9, <1>11, <2>1
<1> QED BY <1>3, <1>5, <1>6, <1>7, <1>10, <1>11, <1>12

\* So the sticky error never has a reason.
LEMMA NoFault ==
  ASSUME EntryInv, MessagesInv, GroupType, collectNext \in Groups, NEW taken
  PROVE  /\ \A e \in Used : Mismatched(e, Reports) = {}
         /\ ~Faulty(Reports, Retired(taken))
<1>1. ASSUME NEW e \in Used PROVE Mismatched(e, Reports) = {}
  <2>1. ASSUME NEW g \in Reporting(e, Reports) PROVE Reports[g].result = (g \in X(e).results)
    <3>1. g \in HeardGroups /\ (Reports[g].result <=> g \in X(e).results)
      BY Booked
    <3>2. Reports[g].result \in BOOLEAN
      <4>1. g \in Groups /\ cpl[g] # <<>> /\ Reports[g] = cpl[g][1]
        BY <3>1 DEF HeardGroups, Holding, Reports
      <4> QED BY <4>1 DEF GroupType, EachHolds, Holds, ChildType
    <3> QED BY <3>1, <3>2
  <2> QED BY <2>1 DEF Mismatched, X
<1>2. \A e \in Used : Expected(e, Reports, Retired(taken))
  BY <1>1, Booked DEF Expected, X
<1>3. ASSUME NEW g \in DOMAIN Reports PROVE \E e \in Used : g \in Reporting(e, Reports)
  <2>1. g \in Groups /\ ExecCpl(g) # <<>> /\ AwaitedCpl(ExecCpl(g), g)
    BY DEF Reports, HeardGroups, Holding, ExecCpl, MessagesInv, ExpectedAt
  <2>2. PICK e \in Used : SameKey(X(e), ExecCpl(g)[1])
    BY <2>1 DEF AwaitedCpl
  <2>3. Has(ExecCpl(g), X(e))
    BY <2>1, <2>2 DEF Has, SameKey
  <2> QED BY <2>1, <2>3, Booked
<1>4. ASSUME NEW g \in DOMAIN Retired(taken) PROVE \E e \in Used : g \in Retiring(e, Retired(taken))
  <2>1. g \in Groups /\ Captured(taken) = <<g>>
    BY DEF Retired
  <2>2. rsp[g] # <<>>
    BY <2>1, CapturedRecord, SMTT(20)
  <2>3. AwaitedRsp(rsp[g], g)
    BY <2>1 DEF MessagesInv, ExpectedAt
  <2>4. PICK e \in Used : SameKey(X(e), rsp[g][1])
    BY <2>2, <2>3 DEF AwaitedRsp
  <2>5. Has(rsp[g], X(e))
    BY <2>2, <2>4 DEF Has, SameKey
  <2> QED BY <2>1, <2>5, Booked
<1> QED BY <1>1, <1>2, <1>3, <1>4 DEF Faulty

\* Every entry in use is kept or leaves with nothing owed, and every new one is
\* that of a command issued.
LEMMA EntriesStep ==
  ASSUME EntryInv, DoneInv, MessagesInv, GroupType, collectNext \in Groups,
         NEW taken, NEW shown, NEW issued, NEW placed, NEW clear,
         WellPlaced(placed, shown, issued),
         TrackerEdge(Reports, Retired(taken), Fired(taken), placed, clear)
  PROVE  EntriesMove(taken, shown, issued)
<1>1. \A e \in Entries :
        entry'[e] = IF e \in DOMAIN placed THEN <<placed[e]>>
                    ELSE IF e \notin Used \/ Freed(e, Retired(taken), Fired(taken)) THEN <<>>
                    ELSE <<Heard(e, Reports, Retired(taken), Fired(taken))>>
  BY DEF TrackerEdge
<1>2. Used \subseteq Entries /\ Used' \subseteq Entries
      /\ \A e \in Entries : (e \in Used <=> entry[e] # <<>>) /\ (e \in Used' <=> entry'[e] # <<>>)
  BY DEF Used
<1>3. ASSUME NEW e \in Used PROVE Kept(e, taken) \/ Left(e, taken)
  <2>1. e \notin DOMAIN placed /\ e \in Entries
    BY <1>2 DEF WellPlaced, FreeEntries
  <2>2. X(e) \in EntryType /\ X(e) = entry[e][1]
    BY <1>2 DEF EntryInv, EachHolds, Holds, X
  <2>3. CASE Freed(e, Retired(taken), Fired(taken))
    <3>1. e \notin Used'
      BY <1>1, <1>2, <2>1, <2>3
    <3>4. X(e).reported \/ Fired(taken) = <<e>>
      BY <2>2, <2>3 DEF Freed
    <3>2. X(e).pending = {}
      <4>2. CASE X(e).reported
        BY <4>2 DEF EntryInv
      <4>3. CASE Fired(taken) = <<e>>
        <5>1. Done = <<e>>
          BY <4>3 DEF Fired
        <5>2. Complete(e)
          BY <5>1, DoneComplete
        <5> QED BY <2>2, <5>2 DEF Complete
      <4> QED BY <3>4, <4>2, <4>3
    <3>3. X(e).results \subseteq X(e).seen \cup Retiring(e, Retired(taken))
      BY <2>2, <2>3 DEF Freed
    <3> QED BY <3>1, <3>2, <3>3, <3>4, Booked DEF Left
  <2>4. CASE ~Freed(e, Retired(taken), Fired(taken))
    <3>1. entry'[e] = <<Heard(e, Reports, Retired(taken), Fired(taken))>>
      BY <1>1, <2>1, <2>4
    <3>2. e \in Used' /\ X(e)' = Heard(e, Reports, Retired(taken), Fired(taken))
      BY <1>2, <2>1, <3>1 DEF X
    <3>3. /\ X(e)'.context = X(e).context /\ X(e)'.tag = X(e).tag /\ X(e)'.groups = X(e).groups
          /\ X(e)'.pending = X(e).pending \ Reporting(e, Reports)
          /\ X(e)'.seen = X(e).seen \cup Retiring(e, Retired(taken))
          /\ X(e)'.results = (X(e).results \ Reporting(e, Reports))
                             \cup {g \in Reporting(e, Reports) : Reports[g].result}
          /\ X(e)'.reported = Bit(X(e).reported \/ Fired(taken) = <<e>>)
      BY <2>2, <3>2 DEF Heard, EntryType
    <3>4. X(e)'.results = X(e).results
      <4>1. \A g \in Reporting(e, Reports) : Reports[g].result <=> g \in X(e).results
        BY Booked
      <4> QED BY <3>3, <4>1
    <3>5. X(e)'.reported <=> X(e).reported \/ Fired(taken) = <<e>>
      BY <3>3 DEF Bit
    <3>6. \A g \in Groups : g \in X(e)'.pending <=> g \in X(e).pending /\ ~Has(ExecCpl(g), X(e))
      BY <3>3, Booked
    <3>7. \A g \in Groups :
             g \in X(e)'.seen <=> g \in X(e).seen \/ (Captured(taken) = <<g>> /\ Has(rsp[g], X(e)))
      BY <3>3, Booked
    <3> QED BY <3>2, <3>3, <3>4, <3>5, <3>6, <3>7, Zenon DEF Kept
  <2> QED BY <2>3, <2>4
<1>4. \A e \in DOMAIN placed : e \in Used' \ Used /\ X(e)' = placed[e]
  <2> TAKE e \in DOMAIN placed
  <2>1. e \in Entries /\ e \notin Used
    BY DEF WellPlaced, FreeEntries
  <2>2. entry'[e] = <<placed[e]>>
    BY <1>1, <2>1
  <2>3. e \in Used'
    BY <1>2, <2>1, <2>2
  <2> QED BY <2>1, <2>2, <2>3 DEF X
<1>5. \A e \in Used' \ Used : e \in DOMAIN placed
  BY <1>1, <1>2
<1>6. \A e \in Used' \ Used : \E s \in issued : Fresh(e, shown[s][1])
  BY <1>4, <1>5 DEF WellPlaced, Fresh
<1>7. \A s \in issued : \E e \in Used' \ Used : Fresh(e, shown[s][1])
  BY <1>4 DEF WellPlaced, Fresh
<1> QED BY <1>3, <1>6, <1>7 DEF EntriesMove

----------------------------------------------------------------------------
(* The messages of a group                                                 *)

\* The same of a register of the next state.
AwaitedNext(stage, g) ==
  stage # <<>> => \E e \in Used' : /\ SameKey(X(e)', stage[1]) /\ g \in X(e)'.pending
                                   /\ g \in X(e)'.results <=> stage[1].op \in ResultOps
                                   /\ g \notin X(e)'.seen

\* Whatever is still in a stage keeps its entry.
StaysAwaited(r, g, taken) ==
  \E e \in Used : /\ Kept(e, taken) /\ SameKey(X(e), r[1]) /\ SameKey(X(e)', r[1])
                  /\ g \in X(e)'.pending
                  /\ g \in X(e)'.results <=> r[1].op \in ResultOps
                  /\ g \notin X(e)'.seen

\* A command in a stage keeps its entry waiting for it through any edge.
LEMMA StageStays ==
  ASSUME EntryInv, MessagesInv, NEW taken, NEW shown, NEW issued,
         EntriesMove(taken, shown, issued), NEW g \in Groups, NEW r,
         r = ingress[g] \/ r = pipe[g] \/ r = res[g], r # <<>>
  PROVE  StaysAwaited(r, g, taken)
<1>1. Awaited(r, g) /\ Apart(r, ExecCpl(g)) /\ Apart(Promised(r), rsp[g])
  BY Zenon DEF MessagesInv, ExpectedAt, ApartAt
<1>2. PICK e \in Used : /\ SameKey(X(e), r[1]) /\ g \in X(e).pending
                        /\ g \in X(e).results <=> r[1].op \in ResultOps
                        /\ g \notin X(e).seen
  BY <1>1 DEF Awaited
<1>3. Kept(e, taken)
  <2>1. X(e).pending # {}
    BY <1>2
  <2> QED BY <2>1 DEF EntriesMove, Left
<1>4. ~Has(ExecCpl(g), X(e))
  BY <1>1, <1>2 DEF Apart, Has, SameKey
<1>5. ~Has(rsp[g], X(e))
  <2>1. CASE r[1].op \in ResultOps
    <3>1. Apart(r, rsp[g])
      BY <1>1, <2>1 DEF Promised
    <3> QED BY <1>2, <3>1 DEF Apart, Has, SameKey
  <2>2. CASE r[1].op \notin ResultOps
    <3>1. SUFFICES ASSUME Has(rsp[g], X(e)) PROVE FALSE
      OBVIOUS
    <3>2. rsp[g] # <<>> /\ SameKey(rsp[g][1], X(e)) /\ AwaitedRsp(rsp[g], g)
      BY <3>1 DEF Has, MessagesInv, ExpectedAt
    <3>3. PICK f \in Used : SameKey(X(f), rsp[g][1]) /\ g \in X(f).results
      BY <3>2 DEF AwaitedRsp
    <3>4. e = f
      BY <3>2, <3>3 DEF EntryInv, SameKey
    <3> QED BY <1>2, <2>2, <3>3, <3>4
  <2> QED BY <2>1, <2>2
<1>6. SameKey(X(e)', r[1])
  BY <1>2, <1>3 DEF Kept, SameKey
<1>7. g \in X(e)'.pending /\ X(e)'.results = X(e).results /\ g \notin X(e)'.seen
  BY <1>2, <1>3, <1>4, <1>5 DEF Kept
<1> QED BY <1>2, <1>3, <1>6, <1>7 DEF StaysAwaited

\* So it is still awaited, wherever it is after the edge.
LEMMA StageGoesOn ==
  ASSUME EntryInv, MessagesInv, NEW taken, NEW shown, NEW issued,
         EntriesMove(taken, shown, issued), NEW g \in Groups, NEW r,
         r = ingress[g] \/ r = pipe[g] \/ r = res[g]
  PROVE  AwaitedNext(r, g)
<1> SUFFICES ASSUME r # <<>> PROVE AwaitedNext(r, g)
  BY DEF AwaitedNext
<1>1. StaysAwaited(r, g, taken)
  BY StageStays
<1> QED BY <1>1 DEF StaysAwaited, AwaitedNext, Kept

\* So does a command that has just been placed.
LEMMA NewAwaited ==
  ASSUME NEW taken, NEW shown, NEW issued, NEW ready, EntriesMove(taken, shown, issued),
         WellIssued(shown, issued, ready),
         NEW s \in issued, NEW g \in shown[s][1].groups
  PROVE  AwaitedNext(shown[s], g)
<1>1. PICK e \in Used' \ Used : Fresh(e, shown[s][1])
  BY DEF EntriesMove
<1>2. /\ X(e)'.context = shown[s][1].context /\ X(e)'.tag = shown[s][1].tag
      /\ X(e)'.pending = shown[s][1].groups /\ X(e)'.seen = {}
      /\ X(e)'.results = IF shown[s][1].op \in ResultOps THEN shown[s][1].groups ELSE {}
  BY <1>1 DEF Fresh, New, NewEntry
<1>3. SameKey(X(e)', shown[s][1]) /\ g \in X(e)'.pending /\ g \notin X(e)'.seen
      /\ (g \in X(e)'.results <=> shown[s][1].op \in ResultOps)
  BY <1>2 DEF SameKey
<1> QED BY <1>1, <1>3 DEF AwaitedNext

\* Every message of a group is still one its entry expects.
LEMMA ExpectedStep ==
  ASSUME EntryInv, MessagesInv, NEW taken, NEW turns, NEW shown, NEW issued, NEW ready,
         EntriesMove(taken, shown, issued), WellIssued(shown, issued, ready),
         NEW g \in Groups, Moved(g, taken, turns, shown, issued)
  PROVE  ExpectedAt(g)'
<1>1. AwaitedNext(ingress[g], g) /\ AwaitedNext(pipe[g], g) /\ AwaitedNext(res[g], g)
  BY StageGoesOn
<1>2. AwaitedNext(<<>>, g)
  BY DEF AwaitedNext
<1>3. AwaitedNext(ingress'[g], g)
  <2>1. CASE ingress'[g] = <<>> \/ ingress'[g] = ingress[g]
    BY <1>1, <1>2, <2>1, Zenon
  <2>2. CASE \E s \in issued : g \in shown[s][1].groups /\ ingress'[g] = shown[s]
    <3>1. PICK s \in issued : g \in shown[s][1].groups /\ ingress'[g] = shown[s]
      BY <2>2
    <3>2. AwaitedNext(shown[s], g)
      BY <3>1, NewAwaited
    <3> QED BY <3>1, <3>2, Zenon
  <2> QED BY <2>1, <2>2, Zenon DEF Moved
<1>4. AwaitedNext(pipe'[g], g)
  BY <1>1, <1>2, Zenon DEF Moved
<1>5. AwaitedNext(res'[g], g)
  BY <1>1, <1>2, Zenon DEF Moved
<1>6. Awaited(ingress[g], g)' /\ Awaited(pipe[g], g)' /\ Awaited(res[g], g)'
  BY <1>3, <1>4, <1>5 DEF Awaited, AwaitedNext
<1>7. Retires(g, taken) => StaysAwaited(res[g], g, taken)
  <2> HAVE Retires(g, taken)
  <2>1. res[g] # <<>>
    BY DEF Moved
  <2> QED BY <2>1, StageStays
<1>8. AwaitedCpl(ExecCpl(g), g)'
  <2>1. CASE ~Retires(g, taken)
    <3>1. ExecCpl(g)' = <<>>
      BY <2>1 DEF Moved
    <3> QED BY <3>1 DEF AwaitedCpl
  <2>2. CASE Retires(g, taken)
    <3>1. ExecCpl(g)' = <<ChildCompletion(res[g][1])>>
      BY <2>2 DEF Moved
    <3>2. PICK e \in Used : /\ Kept(e, taken) /\ SameKey(X(e)', res[g][1])
                            /\ g \in X(e)'.pending
                            /\ g \in X(e)'.results <=> res[g][1].op \in ResultOps
      BY <1>7, <2>2 DEF StaysAwaited
    <3>3. e \in Used'
      BY <3>2 DEF Kept
    <3>4. /\ SameKey(X(e)', ChildCompletion(res[g][1]))
          /\ g \in X(e)'.results <=> ChildCompletion(res[g][1]).result
      BY <3>2 DEF SameKey, ChildCompletion
    <3>5. ExecCpl(g)'[1] = ChildCompletion(res[g][1])
      BY <3>1
    <3> QED BY <3>2, <3>3, <3>4, <3>5 DEF AwaitedCpl
  <2> QED BY <2>1, <2>2
<1>9. AwaitedRsp(rsp[g], g)'
  <2>1. CASE Retires(g, taken) /\ res[g][1].op \in ResultOps
    <3>1. rsp'[g] = <<ResultRecord(g, res[g][1])>>
      BY <2>1 DEF Moved
    <3>2. PICK e \in Used : /\ Kept(e, taken) /\ SameKey(X(e)', res[g][1])
                            /\ g \in X(e)'.results /\ g \notin X(e)'.seen
      BY <1>7, <2>1 DEF StaysAwaited
    <3>3. e \in Used'
      BY <3>2 DEF Kept
    <3>4. SameKey(X(e)', ResultRecord(g, res[g][1]))
      BY <3>2 DEF SameKey, ResultRecord
    <3>5. rsp'[g][1] = ResultRecord(g, res[g][1])
      BY <3>1
    <3> QED BY <3>2, <3>3, <3>4, <3>5 DEF AwaitedRsp
  <2>2. CASE ~(Retires(g, taken) /\ res[g][1].op \in ResultOps)
    <3>1. CASE Captured(taken) = <<g>>
      <4>1. rsp'[g] = <<>>
        BY <2>2, <3>1 DEF Moved
      <4> QED BY <4>1 DEF AwaitedRsp
    <3>2. CASE Captured(taken) # <<g>>
      <4>1. rsp'[g] = rsp[g]
        BY <2>2, <3>2 DEF Moved
      <4>2. ASSUME rsp[g] # <<>>
            PROVE  \E e \in Used' : SameKey(X(e)', rsp[g][1]) /\ g \in X(e)'.results \ X(e)'.seen
        <5>1. AwaitedRsp(rsp[g], g)
          BY DEF MessagesInv, ExpectedAt
        <5>2. PICK e \in Used : SameKey(X(e), rsp[g][1]) /\ g \in X(e).results \ X(e).seen
          BY <4>2, <5>1 DEF AwaitedRsp
        <5>3. Kept(e, taken)
          BY <3>2, <5>2 DEF EntriesMove, Left
        <5>4. SameKey(X(e)', rsp[g][1]) /\ e \in Used'
          BY <5>2, <5>3 DEF Kept, SameKey
        <5>5. g \in X(e)'.results \ X(e)'.seen
          BY <3>2, <5>2, <5>3 DEF Kept
        <5> QED BY <5>4, <5>5
      <4> QED BY <4>1, <4>2 DEF AwaitedRsp
    <3> QED BY <3>1, <3>2
  <2> QED BY <2>1, <2>2
<1> QED BY <1>6, <1>8, <1>9 DEF ExpectedAt

\* Every message in a group has the key of an entry that is in use.
Known(r) == r # <<>> => \E e \in Used : SameKey(X(e), r[1])

\* That is so, since every message is expected.
LEMMA AllKnown ==
  ASSUME MessagesInv, NEW g \in Groups
  PROVE  Known(ingress[g]) /\ Known(pipe[g]) /\ Known(res[g]) /\ Known(rsp[g])
<1>1. Awaited(ingress[g], g) /\ Awaited(pipe[g], g) /\ Awaited(res[g], g) /\ AwaitedRsp(rsp[g], g)
  BY DEF MessagesInv, ExpectedAt
<1> QED BY <1>1 DEF Awaited, AwaitedRsp, Known

\* A command is issued only with a key that is free.
LEMMA NewApart ==
  ASSUME NEW shown, NEW issued, NEW ready, WellIssued(shown, issued, ready),
         NEW s \in issued, NEW r, Known(r)
  PROVE  Apart(shown[s], r) /\ Apart(r, shown[s])
<1>1. ~Busy(shown[s][1])
  BY DEF WellIssued
<1> QED BY <1>1 DEF Busy, Known, Apart, SameKey, X

\* Messages with one key still do not meet.
LEMMA ApartStep ==
  ASSUME MessagesInv, NEW taken, NEW turns, NEW shown, NEW issued, NEW ready,
         WellIssued(shown, issued, ready),
         NEW g \in Groups, Moved(g, taken, turns, shown, issued)
  PROVE  ApartAt(g)'
<1> DEFINE in == ingress'[g]  pi == pipe'[g]  re == res'[g]  rs == rsp'[g]
           cp == ExecCpl(g)'
           Came == \E s \in issued : in = shown[s]
           Made == Retires(g, taken) /\ res[g][1].op \in ResultOps
<1>1. /\ Apart(ingress[g], pipe[g]) /\ Apart(ingress[g], res[g]) /\ Apart(pipe[g], res[g])
      /\ Apart(Promised(ingress[g]), rsp[g]) /\ Apart(Promised(pipe[g]), rsp[g])
      /\ Apart(Promised(res[g]), rsp[g])
  BY DEF MessagesInv, ApartAt
<1>2. \A r : Apart(<<>>, r) /\ Apart(r, <<>>) /\ Apart(Promised(<<>>), r)
  BY DEF Apart, Promised
<1>3. \/ in = <<>>
      \/ in = ingress[g] /\ g \notin Drained(taken, turns)
      \/ Came
  BY DEF Moved
<1>4. \/ pi = <<>>
      \/ pi = pipe[g] /\ ~Advances(g, taken) /\ g \notin Drained(taken, turns)
      \/ pi = ingress[g] /\ g \in Drained(taken, turns)
  BY DEF Moved
<1>5. \/ re = <<>>
      \/ re = res[g] /\ ~Advances(g, taken) /\ ~Retires(g, taken)
      \/ re = pipe[g] /\ Advances(g, taken)
  BY DEF Moved
<1>6. cp = IF Retires(g, taken) THEN <<ChildCompletion(res[g][1])>> ELSE <<>>
  BY DEF Moved
<1>7. \/ rs = <<>>
      \/ rs = rsp[g] /\ ~Made
      \/ rs = <<ResultRecord(g, res[g][1])>> /\ Made
  BY DEF Moved
<1>8. Retires(g, taken) => res[g] # <<>>
  BY DEF Moved
<1> HIDE DEF in, pi, re, rs, cp
\* A new command shares its key with nothing that was there.
<1>9. Came => /\ Apart(in, ingress[g]) /\ Apart(in, pipe[g]) /\ Apart(in, res[g])
              /\ Apart(in, rsp[g])
  BY AllKnown, NewApart
<1>10. Apart(in, pi)
  BY <1>1, <1>2, <1>3, <1>4, <1>9, Zenon
<1>11. Apart(in, re)
  BY <1>1, <1>2, <1>3, <1>5, <1>9, Zenon
<1>12. Apart(pi, re)
  BY <1>1, <1>2, <1>4, <1>5, Zenon
\* What retires now is apart from what is left.
<1>13. Retires(g, taken) => Apart(in, res[g]) /\ Apart(pi, res[g]) /\ Apart(re, res[g])
  BY <1>1, <1>2, <1>3, <1>4, <1>5, <1>9, Zenon
<1>14. \A r : res[g] # <<>> /\ Apart(r, res[g]) =>
         Apart(r, <<ChildCompletion(res[g][1])>>) /\ Apart(r, <<ResultRecord(g, res[g][1])>>)
  BY DEF Apart, SameKey, ChildCompletion, ResultRecord
<1>15. Apart(in, cp) /\ Apart(pi, cp) /\ Apart(re, cp)
  BY <1>2, <1>6, <1>8, <1>13, <1>14
<1>16. \A r, q : Apart(r, q) => Apart(Promised(r), q)
  BY <1>2 DEF Promised
<1>17. CASE rs = <<>>
  BY <1>2, <1>10, <1>11, <1>12, <1>15, <1>17 DEF ApartAt, in, pi, re, rs, cp
<1>18. CASE rs = rsp[g]
  <2>1. Apart(Promised(in), rs)
    BY <1>1, <1>2, <1>3, <1>9, <1>16, <1>18, Zenon
  <2>2. Apart(Promised(pi), rs)
    BY <1>1, <1>2, <1>4, <1>18, Zenon
  <2>3. Apart(Promised(re), rs)
    BY <1>1, <1>2, <1>5, <1>18, Zenon
  <2> QED BY <1>10, <1>11, <1>12, <1>15, <2>1, <2>2, <2>3 DEF ApartAt, in, pi, re, rs, cp, Promised
<1>19. CASE rs = <<ResultRecord(g, res[g][1])>> /\ Made
  <2>1. Apart(Promised(in), rs) /\ Apart(Promised(pi), rs) /\ Apart(Promised(re), rs)
    BY <1>8, <1>13, <1>14, <1>16, <1>19
  <2> QED BY <1>10, <1>11, <1>12, <1>15, <2>1 DEF ApartAt, in, pi, re, rs, cp, Promised
<1> QED BY <1>7, <1>17, <1>18, <1>19

\* What is owed moves on with its command.
LEMMA OwedStep ==
  ASSUME EntryInv, MessagesInv, NEW taken, NEW turns, NEW shown, NEW issued, NEW ready,
         EntriesMove(taken, shown, issued), WellIssued(shown, issued, ready),
         NEW g \in Groups, Moved(g, taken, turns, shown, issued)
  PROVE  OwedAt(g)'
<1>1. SUFFICES ASSUME NEW e \in Used'
               PROVE  /\ g \in X(e)'.pending => InStages(g, X(e))' \/ Has(ExecCpl(g), X(e))'
                      /\ g \in X(e)'.results \ X(e)'.seen =>
                           InStages(g, X(e))' \/ Has(rsp[g], X(e))'
  BY DEF OwedAt
<1>2. CASE e \notin Used
  <2>1. PICK s \in issued : Fresh(e, shown[s][1])
    BY <1>1, <1>2 DEF EntriesMove
  <2>2. /\ X(e)'.context = shown[s][1].context /\ X(e)'.tag = shown[s][1].tag
        /\ X(e)'.pending = shown[s][1].groups
        /\ X(e)'.results \subseteq shown[s][1].groups
    BY <2>1 DEF Fresh, New, NewEntry
  <2>3. ASSUME g \in shown[s][1].groups PROVE Has(ingress[g], X(e))'
    <3>1. PICK t \in issued : g \in shown[t][1].groups /\ ingress'[g] = shown[t]
      BY <2>3 DEF Moved
    <3>2. s = t /\ shown[s] # <<>>
      BY <2>3, <3>1 DEF WellIssued, Showing
    <3>3. ingress'[g] # <<>> /\ SameKey(ingress'[g][1], X(e)')
      BY <2>2, <3>1, <3>2 DEF SameKey
    <3> QED BY <3>3 DEF Has, SameKey
  <2> QED BY <2>2, <2>3 DEF InStages
<1>3. CASE e \in Used
  <2>1. Kept(e, taken)
    BY <1>1, <1>3 DEF EntriesMove, Left
  <2>2. \A r : r # <<>> /\ SameKey(r[1], X(e)) => SameKey(r[1], X(e)')
    BY <2>1 DEF Kept, SameKey
  <2>3. Has(ingress[g], X(e)) => InStages(g, X(e))'
    <3>1. \/ ingress'[g] = ingress[g] \/ pipe'[g] = ingress[g] \/ ingress[g] = <<>>
      BY DEF Moved
    <3> QED BY <2>2, <3>1 DEF Has, InStages
  <2>4. Has(pipe[g], X(e)) => InStages(g, X(e))'
    <3>1. \/ pipe'[g] = pipe[g] \/ res'[g] = pipe[g] \/ pipe[g] = <<>>
      BY DEF Moved
    <3> QED BY <2>2, <3>1 DEF Has, InStages
  <2>5. Has(res[g], X(e)) => InStages(g, X(e))' \/ Retires(g, taken)
    <3>1. \/ res'[g] = res[g] \/ Retires(g, taken) \/ res[g] = <<>>
      BY DEF Moved
    <3> QED BY <2>2, <3>1 DEF Has, InStages
  <2>6. Has(res[g], X(e)) /\ Retires(g, taken) => Has(ExecCpl(g), X(e))'
    <3>1. Retires(g, taken) => ExecCpl(g)' = <<ChildCompletion(res[g][1])>>
      BY DEF Moved
    <3>2. SameKey(res[g][1], X(e)') => SameKey(ChildCompletion(res[g][1]), X(e)')
      BY DEF SameKey, ChildCompletion
    <3>3. \A r : <<r>> # <<>> /\ <<r>>[1] = r
      OBVIOUS
    <3> QED BY <2>2, <3>1, <3>2, <3>3 DEF Has
  <2>7. ASSUME g \in X(e)'.pending PROVE InStages(g, X(e))' \/ Has(ExecCpl(g), X(e))'
    <3>1. g \in X(e).pending /\ ~Has(ExecCpl(g), X(e))
      BY <2>1, <2>7 DEF Kept
    <3>2. InStages(g, X(e))
      BY <1>3, <3>1 DEF MessagesInv, OwedAt
    <3> QED BY <2>3, <2>4, <2>5, <2>6, <3>2 DEF InStages
  <2>8. ASSUME g \in X(e)'.results \ X(e)'.seen PROVE InStages(g, X(e))' \/ Has(rsp[g], X(e))'
    <3>1. g \in X(e).results \ X(e).seen /\ ~(Captured(taken) = <<g>> /\ Has(rsp[g], X(e)))
      BY <2>1, <2>8 DEF Kept
    <3>2. InStages(g, X(e)) \/ Has(rsp[g], X(e))
      BY <1>3, <3>1 DEF MessagesInv, OwedAt
    <3>3. CASE Has(rsp[g], X(e))
      <4>1. rsp'[g] = rsp[g]
        BY <3>1, <3>3 DEF Moved, Has
      <4> QED BY <2>2, <3>3, <4>1 DEF Has
    <3>4. CASE Has(res[g], X(e)) /\ Retires(g, taken)
      <4>1. Awaited(res[g], g) /\ res[g] # <<>>
        BY <3>4 DEF MessagesInv, ExpectedAt, Has
      <4>2. PICK f \in Used : /\ SameKey(X(f), res[g][1])
                              /\ g \in X(f).results <=> res[g][1].op \in ResultOps
        BY <4>1 DEF Awaited
      <4>3. e = f
        <5>1. SameKey(X(f), res[g][1]) /\ SameKey(res[g][1], X(e))
          BY <3>4, <4>2 DEF Has
        <5> QED BY <1>3, <5>1 DEF EntryInv, SameKey
      <4>4. rsp'[g] = <<ResultRecord(g, res[g][1])>>
        BY <3>1, <3>4, <4>2, <4>3 DEF Moved
      <4>5. SameKey(ResultRecord(g, res[g][1]), X(e)')
        BY <2>2, <3>4 DEF Has, SameKey, ResultRecord
      <4>6. rsp'[g] # <<>> /\ rsp'[g][1] = ResultRecord(g, res[g][1])
        BY <4>4
      <4> QED BY <4>5, <4>6 DEF Has
    <3> QED BY <2>3, <2>4, <2>5, <3>2, <3>3, <3>4 DEF InStages
  <2> QED BY <2>7, <2>8
<1> QED BY <1>2, <1>3

----------------------------------------------------------------------------
(* The entries at the clock edge                                           *)

\* A new entry is a proper one.
LEMMA NewEntryTyped ==
  ASSUME NEW command \in Command
  PROVE  /\ New(command) \in EntryType
         /\ New(command).pending \subseteq New(command).groups
         /\ New(command).results \subseteq New(command).groups
         /\ ~New(command).reported
BY DEF New, NewEntry, EntryType, Command

\* So is one that has heard of its groups.
LEMMA HeardTyped ==
  ASSUME EntryInv, MessagesInv, GroupType, collectNext \in Groups, NEW taken, NEW e \in Used
  PROVE  Heard(e, Reports, Retired(taken), Fired(taken)) \in EntryType
<1> DEFINE done == Reporting(e, Reports)
           back == Retiring(e, Retired(taken))
           bad == {g \in done : Reports[g].illegal} \cup Mismatched(e, Reports)
           good == {g \in done : Reports[g].result}
           told == Bit(X(e).reported \/ Fired(taken) = <<e>>)
<1>1. X(e) \in EntryType
  BY DEF EntryInv, EachHolds, Holds, Used, X
<1>2. done \in SUBSET Groups /\ back \in SUBSET Groups
  BY Booked
<1>3. bad \in SUBSET Groups /\ good \in SUBSET Groups
  BY <1>2 DEF Mismatched
<1>4. told \in BOOLEAN
  BY DEF Bit
<1>5. Heard(e, Reports, Retired(taken), Fired(taken)) =
        [X(e) EXCEPT !.pending = @ \ done, !.results = (@ \ done) \cup good,
                     !.seen = @ \cup back,
                     !.illegal = @ \cup {g \in done : Reports[g].illegal}
                                   \cup Mismatched(e, Reports),
                     !.reported = told]
  BY Zenon DEF Heard, X
<1>6. Heard(e, Reports, Retired(taken), Fired(taken)) =
        [context |-> X(e).context, tag |-> X(e).tag, groups |-> X(e).groups,
         results |-> (X(e).results \ done) \cup good, pending |-> X(e).pending \ done,
         seen |-> X(e).seen \cup back, illegal |-> X(e).illegal \cup bad,
         reported |-> told]
  <2>1. (X(e).illegal \cup {g \in done : Reports[g].illegal}) \cup Mismatched(e, Reports)
          = X(e).illegal \cup bad
    OBVIOUS
  <2> HIDE DEF done, back, bad, good, told
  <2> QED BY <1>1, <1>5, <2>1 DEF EntryType
<1> HIDE DEF done, back, bad, good, told
<1>7. /\ X(e).context \in Contexts /\ X(e).tag \in Tags /\ X(e).groups \in SUBSET Groups
      /\ (X(e).results \ done) \cup good \in SUBSET Groups
      /\ X(e).pending \ done \in SUBSET Groups
      /\ X(e).seen \cup back \in SUBSET Groups
      /\ X(e).illegal \cup bad \in SUBSET Groups
  BY <1>1, <1>2, <1>3 DEF EntryType
<1>8. PICK R, P, S, I \in SUBSET Groups :
        /\ R = (X(e).results \ done) \cup good /\ P = X(e).pending \ done
        /\ S = X(e).seen \cup back /\ I = X(e).illegal \cup bad
  BY <1>7
<1>9. PICK c \in Contexts, t \in Tags, G \in SUBSET Groups, b \in BOOLEAN :
        c = X(e).context /\ t = X(e).tag /\ G = X(e).groups /\ b = told
  BY <1>4, <1>7
<1>10. [context |-> c, tag |-> t, groups |-> G, results |-> R, pending |-> P,
        seen |-> S, illegal |-> I, reported |-> b] \in EntryType
  BY DEF EntryType
<1> QED BY <1>6, <1>8, <1>9, <1>10

\* Entries keep different keys, and wait for no group but their own.
LEMMA EntryStep ==
  ASSUME EntryInv, DoneInv, MessagesInv, GroupType, collectNext \in Groups,
         NEW taken, NEW shown, NEW issued, NEW ready, NEW placed, NEW clear,
         WellIssued(shown, issued, ready), WellPlaced(placed, shown, issued),
         TrackerEdge(Reports, Retired(taken), Fired(taken), placed, clear)
  PROVE  EntryInv'
<1>1. \A e \in Entries :
        entry'[e] = IF e \in DOMAIN placed THEN <<placed[e]>>
                    ELSE IF e \notin Used \/ Freed(e, Retired(taken), Fired(taken)) THEN <<>>
                    ELSE <<Heard(e, Reports, Retired(taken), Fired(taken))>>
  BY DEF TrackerEdge
<1>2. Used \subseteq Entries /\ Used' \subseteq Entries
      /\ \A e \in Entries : (e \in Used <=> entry[e] # <<>>) /\ (e \in Used' <=> entry'[e] # <<>>)
  BY DEF Used
<1>3. EntriesMove(taken, shown, issued)
  BY EntriesStep
<1>4. ASSUME NEW e \in DOMAIN placed
      PROVE  /\ e \in Entries /\ e \notin Used /\ entry'[e] = <<placed[e]>> /\ X(e)' = placed[e]
             /\ placed[e] \in EntryType
             /\ placed[e].pending \subseteq placed[e].groups
             /\ placed[e].results \subseteq placed[e].groups
             /\ ~placed[e].reported
             /\ \A f \in Used : ~SameKey(X(f), placed[e])
  <2>1. e \in Entries /\ e \notin Used /\ entry'[e] = <<placed[e]>>
    BY <1>1 DEF WellPlaced, FreeEntries
  <2>2. PICK s \in issued : placed[e] = New(shown[s][1])
    BY DEF WellPlaced
  <2>3. shown[s][1] \in Command /\ ~Busy(shown[s][1])
    BY DEF WellIssued
  <2>4. \A f \in Used : ~SameKey(X(f), placed[e])
    BY <2>2, <2>3 DEF Busy, SameKey, New, NewEntry, X
  <2>5. X(e)' = placed[e]
    BY <2>1 DEF X
  <2> QED BY <2>1, <2>2, <2>3, <2>4, <2>5, NewEntryTyped
<1>5. EachHolds(entry', Entries, EntryType)
  <2>1. DOMAIN entry' = Entries
    BY DEF TrackerEdge
  <2>2. ASSUME NEW e \in Entries PROVE Holds(entry'[e], EntryType)
    <3>1. CASE e \in DOMAIN placed
      BY <1>4, <3>1 DEF Holds
    <3>2. CASE entry'[e] = <<>>
      BY <3>2 DEF Holds
    <3>3. CASE e \in Used /\ entry'[e] = <<Heard(e, Reports, Retired(taken), Fired(taken))>>
      BY <3>3, HeardTyped DEF Holds
    <3> QED BY <1>1, <3>1, <3>2, <3>3
  <2> QED BY <2>1, <2>2 DEF EachHolds
<1>6. \A e \in Used' : e \in DOMAIN placed \/ Kept(e, taken)
  BY <1>1, <1>2, <1>3 DEF EntriesMove, Left
<1>7. \A e, f \in Used' : SameKey(X(e)', X(f)') => e = f
  <2> TAKE e, f \in Used'
  <2> HAVE SameKey(X(e)', X(f)')
  <2>1. CASE e \in DOMAIN placed /\ f \in DOMAIN placed
    BY <1>4, <2>1 DEF WellPlaced, SameKey
  <2>2. CASE e \in DOMAIN placed /\ Kept(f, taken)
    BY <1>4, <2>2 DEF Kept, SameKey
  <2>3. CASE Kept(e, taken) /\ f \in DOMAIN placed
    BY <1>4, <2>3 DEF Kept, SameKey
  <2>4. CASE Kept(e, taken) /\ Kept(f, taken)
    BY <2>4 DEF EntryInv, Kept, SameKey
  <2> QED BY <1>6, <2>1, <2>2, <2>3, <2>4
<1>8. ASSUME NEW e \in Used'
      PROVE  /\ X(e)'.pending \subseteq X(e)'.groups /\ X(e)'.results \subseteq X(e)'.groups
             /\ X(e)'.reported => X(e)'.pending = {}
  <2>1. CASE e \in DOMAIN placed
    BY <1>4, <2>1
  <2>2. CASE Kept(e, taken)
    <3>1. X(e)'.pending \subseteq Groups
      BY <1>2, <1>5 DEF EachHolds, Holds, EntryType, X
    <3>2. X(e)'.pending \subseteq X(e).pending /\ e \in Used
      BY <2>2, <3>1 DEF Kept
    <3>3. X(e)'.pending \subseteq X(e)'.groups /\ X(e)'.results \subseteq X(e)'.groups
      BY <2>2, <3>2 DEF Kept, EntryInv
    <3>4. ASSUME X(e)'.reported PROVE X(e).pending = {}
      <4>1. X(e).reported \/ Fired(taken) = <<e>>
        BY <2>2, <3>4 DEF Kept
      <4>2. CASE X(e).reported
        BY <3>2, <4>2 DEF EntryInv
      <4>3. CASE Fired(taken) = <<e>>
        <5>1. Done = <<e>>
          BY <4>3 DEF Fired
        <5>2. Complete(e)
          BY <5>1, DoneComplete
        <5> QED BY <5>2 DEF Complete, X
      <4> QED BY <4>1, <4>2, <4>3
    <3> QED BY <3>2, <3>3, <3>4
  <2> QED BY <1>6, <2>1, <2>2
<1>9. \A e, f \in Used' : SameKey(X(e), X(f))' => e = f
  BY <1>7 DEF SameKey
<1> QED BY <1>5, <1>8, <1>9 DEF EntryInv

\* A held completion stays that of a complete entry, and no error is set.
LEMMA DoneStep ==
  ASSUME EntryInv, DoneInv, EntryInv', ~trackerError, MessagesInv, GroupType,
         collectNext \in Groups,
         NEW taken, NEW shown, NEW issued, NEW placed, NEW clear,
         EntriesMove(taken, shown, issued),
         TrackerEdge(Reports, Retired(taken), Fired(taken), placed, clear)
  PROVE  DoneInv' /\ trackerError' = FALSE
<1>1. /\ doneHold' = IF Fired(taken) # <<>> THEN <<>> ELSE Done
      /\ doneNext' = IF Fired(taken) = <<>> THEN doneNext
                     ELSE After(Fired(taken)[1], EntryCount)
      /\ trackerError' = Sticky(trackerError, Faulty(Reports, Retired(taken)), clear)
  BY DEF TrackerEdge
<1>2. trackerError' = FALSE
  BY <1>1, NoFault DEF Sticky, Bit
<1>3. Fired(taken) = <<>> \/ \E e \in Used : Fired(taken) = <<e>>
  BY DoneComplete DEF Fired
<1>4. doneNext' \in Entries
  <2>1. CASE Fired(taken) = <<>>
    BY <1>1, <2>1 DEF DoneInv
  <2>2. CASE \E e \in Used : Fired(taken) = <<e>>
    <3>1. PICK e \in Used : Fired(taken) = <<e>>
      BY <2>2
    <3>2. doneNext' = (e + 1) % EntryCount /\ e \in Nat
      BY <1>1, <3>1, Geometry DEF After, Used
    <3>3. EntryCount \in Nat /\ EntryCount > 0
      BY TrackerAssumption
    <3> QED BY <3>2, <3>3 DEF Entries
  <2> QED BY <1>3, <2>1, <2>2
<1>5. Holds(doneHold', Entries) /\ (doneHold' # <<>> => Complete(doneHold[1])')
  <2>1. CASE Fired(taken) # <<>> \/ Done = <<>>
    <3>1. doneHold' = <<>>
      BY <1>1, <2>1
    <3> QED BY <3>1 DEF Holds
  <2>2. CASE Fired(taken) = <<>> /\ Done # <<>>
    <3>1. PICK e \in Used : Done = <<e>> /\ Complete(e)
      BY <2>2, DoneComplete
    <3>2. doneHold' = <<e>> /\ doneHold'[1] = e /\ e \in Entries
      BY <1>1, <2>2, <3>1 DEF Used
    <3>3. X(e).pending = {} /\ ~X(e).reported /\ Fired(taken) # <<e>>
      BY <2>2, <3>1 DEF Complete, X
    <3>4. Kept(e, taken)
      BY <3>3 DEF EntriesMove, Left
    <3>5. e \in Used' /\ ~X(e)'.reported
      BY <3>3, <3>4 DEF Kept
    <3>6. X(e)'.pending \subseteq Groups
      BY <3>5 DEF EntryInv, EachHolds, Holds, EntryType, Used, X
    <3>7. X(e)'.pending = {}
      BY <3>3, <3>4, <3>6 DEF Kept
    <3>8. Complete(doneHold[1])'
      BY <3>2, <3>5, <3>7 DEF Complete, X
    <3> QED BY <3>2, <3>8 DEF Holds
  <2> QED BY <2>1, <2>2
<1> QED BY <1>2, <1>4, <1>5 DEF DoneInv

----------------------------------------------------------------------------
(* The front end at the clock edge                                         *)

QueueBound == \A c \in Contexts : Len(queue[c]) =< QueueDepth

\* A queue after the edge: without its head if that left, with what came in.
Rest(c, shown, gone) == IF c \in Popped(shown, gone) THEN Tail(queue[c]) ELSE queue[c]

\* What stays in a queue stays in order, and a queue popped was not empty.
LEMMA RestWell ==
  ASSUME FrontType, QueueInv, NEW shown, NEW gone, WellShown(shown),
         gone \subseteq Showing(shown), NEW c \in Contexts
  PROVE  /\ Rest(c, shown, gone) \in Seq(Command)
         /\ \A i \in 1 .. Len(Rest(c, shown, gone)) : Rest(c, shown, gone)[i].context = c
         /\ Len(queue[c]) \in Nat
         /\ c \in Popped(shown, gone) => Len(Rest(c, shown, gone)) = Len(queue[c]) - 1
         /\ c \notin Popped(shown, gone) => Rest(c, shown, gone) = queue[c]
<1>1. queue[c] \in Seq(Command)
  BY DEF FrontType
<1>2. \A i \in 1 .. Len(queue[c]) : queue[c][i].context = c
  BY DEF QueueInv
<1>3. CASE c \in Popped(shown, gone)
  <2>1. queue[c] # <<>>
    BY <1>3 DEF Popped, WellShown
  <2>2. Rest(c, shown, gone) = Tail(queue[c])
    BY <1>3 DEF Rest
  <2>3. /\ Tail(queue[c]) \in Seq(Command) /\ Len(Tail(queue[c])) = Len(queue[c]) - 1
        /\ \A i \in 1 .. Len(Tail(queue[c])) : Tail(queue[c])[i] = queue[c][i + 1]
    BY <1>1, <2>1
  <2>4. Len(queue[c]) \in Nat
    BY <1>1
  <2>5. \A i \in 1 .. Len(Tail(queue[c])) : Tail(queue[c])[i].context = c
    <3> TAKE i \in 1 .. Len(Tail(queue[c]))
    <3>1. i + 1 \in 1 .. Len(queue[c])
      BY <2>3, <2>4
    <3> QED BY <1>2, <2>3, <3>1
  <2> QED BY <1>3, <2>2, <2>3, <2>4, <2>5
<1>4. CASE c \notin Popped(shown, gone)
  <2>1. Rest(c, shown, gone) = queue[c] /\ Len(queue[c]) \in Nat
    BY <1>1, <1>4 DEF Rest
  <2> QED BY <1>1, <1>2, <1>4, <2>1
<1> QED BY <1>3, <1>4

\* What comes in comes into the queue of its context.
LEMMA ArrivingWell ==
  ASSUME NEW entering \in {<<>>} \cup {<<m>> : m \in Command}, NEW c
  PROVE  \/ Arriving(entering, c) = <<>>
         \/ /\ entering # <<>> /\ entering[1] \in Command /\ entering[1].context = c
            /\ Arriving(entering, c) = <<entering[1]>>
<1>1. entering = <<>> \/ (entering = <<entering[1]>> /\ entering[1] \in Command)
  OBVIOUS
<1> QED BY <1>1 DEF Arriving

\* A queue keeps its context's commands, within its depth.
LEMMA QueueStep ==
  ASSUME FrontType, QueueInv, QueueBound, NEW shown, NEW gone, WellShown(shown),
         gone \subseteq Showing(shown),
         NEW entering \in {<<>>} \cup {<<m>> : m \in Command},
         \A c \in Contexts : \A i \in DOMAIN entering :
           entering[i].context = c => MayEnter(entering[i], shown, gone),
         FrontendEdge(shown, gone, entering), NEW c \in Contexts
  PROVE  /\ queue'[c] \in Seq(Command) /\ Len(queue'[c]) =< QueueDepth
         /\ \A i \in 1 .. Len(queue'[c]) : queue'[c][i].context = c
         /\ c \notin Popped(shown, gone) /\ queue[c] # <<>> =>
              queue'[c] # <<>> /\ Head(queue'[c]) = Head(queue[c])
<1> DEFINE r == Rest(c, shown, gone)
           a == Arriving(entering, c)
<1>1. queue'[c] = r \o a
  BY DEF FrontendEdge, Rest
<1>2. /\ r \in Seq(Command) /\ \A i \in 1 .. Len(r) : r[i].context = c
      /\ Len(queue[c]) \in Nat
      /\ c \in Popped(shown, gone) => Len(r) = Len(queue[c]) - 1
      /\ c \notin Popped(shown, gone) => r = queue[c]
  BY RestWell
<1>3. Len(queue[c]) =< QueueDepth /\ QueueDepth \in Nat
  BY FrontendAssumption DEF QueueBound
<1>4. a = <<>> \/ /\ entering # <<>> /\ entering[1] \in Command /\ entering[1].context = c
                  /\ a = <<entering[1]>>
  BY ArrivingWell
<1>5. a # <<>> => Len(queue[c]) < QueueDepth \/ c \in Popped(shown, gone)
  <2> HAVE a # <<>>
  <2>1. entering = <<entering[1]>> /\ entering[1].context = c
    BY <1>4
  <2>2. 1 \in DOMAIN entering
    BY <2>1
  <2>3. MayEnter(entering[1], shown, gone)
    BY <2>1, <2>2
  <2> QED BY <2>1, <2>3 DEF MayEnter
<1> HIDE DEF r, a
<1>6. a \in Seq(Command) /\ Len(a) \in 0 .. 1 /\ (a # <<>> => Len(a) = 1 /\ a[1].context = c)
      /\ (a = <<>> => Len(a) = 0)
  <2>1. CASE a = <<>>
    BY <2>1
  <2>2. CASE a # <<>>
    <3>1. PICK m \in Command : a = <<m>> /\ m.context = c
      BY <1>4, <2>2
    <3>2. a \in Seq(Command) /\ Len(a) = 1 /\ a[1] = m
      BY <3>1
    <3> QED BY <2>2, <3>1, <3>2
  <2> QED BY <2>1, <2>2
<1>7. /\ r \o a \in Seq(Command) /\ Len(r \o a) = Len(r) + Len(a)
      /\ \A i \in 1 .. Len(r) + Len(a) :
           (r \o a)[i] = IF i =< Len(r) THEN r[i] ELSE a[i - Len(r)]
  BY <1>2, <1>6, ConcatProperties, Zenon
<1>8. Len(r) \in Nat
  BY <1>2
<1> DEFINE q == r \o a
<1>9. /\ q \in Seq(Command) /\ Len(q) = Len(r) + Len(a)
      /\ \A i \in 1 .. Len(r) + Len(a) :
           q[i] = IF i =< Len(r) THEN r[i] ELSE a[i - Len(r)]
  BY <1>7
<1>10. queue'[c] = q
  BY <1>1
<1> HIDE DEF q
<1>11. \A i \in 1 .. Len(q) : q[i].context = c
  <2> TAKE i \in 1 .. Len(q)
  <2>1. CASE i =< Len(r)
    BY <1>2, <1>8, <1>9, <2>1
  <2>2. CASE ~(i =< Len(r))
    <3>1. i = Len(r) + 1 /\ Len(a) = 1
      BY <1>6, <1>8, <1>9, <2>2
    <3>2. q[i] = a[1] /\ a # <<>>
      BY <1>6, <1>8, <1>9, <2>2, <3>1
    <3> QED BY <1>6, <3>2
  <2> QED BY <2>1, <2>2
<1>12. Len(q) =< QueueDepth
  <2>1. CASE a = <<>>
    BY <1>2, <1>3, <1>6, <1>9, <2>1
  <2>2. CASE a # <<>>
    <3>1. Len(r) < QueueDepth /\ Len(a) = 1
      BY <1>2, <1>3, <1>5, <1>6, <2>2
    <3> QED BY <1>3, <1>8, <1>9, <3>1
  <2> QED BY <2>1, <2>2
<1>13. c \notin Popped(shown, gone) /\ queue[c] # <<>> =>
          q # <<>> /\ Head(q) = Head(queue[c])
  <2> HAVE c \notin Popped(shown, gone) /\ queue[c] # <<>>
  <2>1. r # <<>> /\ Len(r) # 0 /\ Head(r) = r[1] /\ r = queue[c]
    BY <1>2
  <2>2. Len(q) # 0 /\ q[1] = r[1]
    BY <1>6, <1>8, <1>9, <2>1
  <2>3. q # <<>> /\ Head(q) = q[1]
    BY <1>9, <2>2
  <2> QED BY <2>1, <2>2, <2>3
<1> QED BY <1>9, <1>10, <1>11, <1>12, <1>13

\* Queues, slots and rotation after the edge.
LEMMA FrontStep ==
  ASSUME FrontType, QueueInv, SlotInv, QueueBound, rrBase \in Contexts,
         NEW shown, NEW gone, WellShown(shown), gone \subseteq Showing(shown),
         NEW entering \in {<<>>} \cup {<<m>> : m \in Command},
         \A c \in Contexts : \A i \in DOMAIN entering :
           entering[i].context = c => MayEnter(entering[i], shown, gone),
         FrontendEdge(shown, gone, entering)
  PROVE  FrontType' /\ QueueInv' /\ SlotInv' /\ QueueBound' /\ rrBase' \in Contexts
<1>1. \A c \in Contexts :
         /\ queue'[c] \in Seq(Command) /\ Len(queue'[c]) =< QueueDepth
         /\ \A i \in 1 .. Len(queue'[c]) : queue'[c][i].context = c
         /\ c \notin Popped(shown, gone) /\ queue[c] # <<>> =>
              queue'[c] # <<>> /\ Head(queue'[c]) = Head(queue[c])
  BY QueueStep
<1>2. queue' \in [Contexts -> Seq(Command)]
  <2>1. \E q : queue' = [c \in Contexts |-> q[c]]
    <3>1. queue' = [c \in Contexts |-> queue'[c]]
      <4> DEFINE f(c) == (IF c \in Popped(shown, gone) THEN Tail(queue[c]) ELSE queue[c])
                         \o Arriving(entering, c)
      <4>1. queue' = [c \in Contexts |-> f(c)]
        BY DEF FrontendEdge
      <4> HIDE DEF f
      <4> QED BY <4>1
    <3> QED BY <3>1
  <2> QED BY <1>1, <2>1
<1>3. /\ DOMAIN shadow' = Slots
      /\ \A s \in Slots : shadow'[s] = IF s \in gone THEN <<>> ELSE shown[s]
  BY DEF FrontendEdge
<1>4. EachHolds(shadow', Slots, Command)
  BY <1>3 DEF WellShown, EachHolds, Holds
<1>5. \A s \in Locked' : s \in Showing(shown) /\ s \notin gone /\ shadow'[s] = shown[s]
  BY <1>3 DEF Locked, Showing
<1>6. \A s \in Locked' : /\ queue'[shadow'[s][1].context] # <<>>
                         /\ shadow'[s][1] = Head(queue'[shadow'[s][1].context])
  <2> TAKE s \in Locked'
  <2> DEFINE c == shown[s][1].context
  <2>1. s \in Showing(shown) /\ s \notin gone /\ shadow'[s] = shown[s]
    BY <1>5
  <2>2. c \in Contexts /\ queue[c] # <<>> /\ shown[s][1] = Head(queue[c])
    BY <2>1 DEF WellShown, Command
  <2>3. c \notin Popped(shown, gone)
    BY <2>1 DEF WellShown, Popped
  <2> QED BY <1>1, <2>1, <2>2, <2>3
<1>7. \A s, t \in Locked' : shadow'[s][1].context = shadow'[t][1].context => s = t
  BY <1>5 DEF WellShown
<1>8. rrBase' \in Contexts
  <2>1. rrBase' = Rotated(shown)
    BY DEF FrontendEdge
  <2>2. CASE Live(shown) = {}
    BY <2>1, <2>2 DEF Rotated
  <2>3. CASE Live(shown) # {}
    <3> DEFINE last == CHOOSE s \in Live(shown) : \A t \in Live(shown) : t =< s
    <3>1. SlotCount - 1 \in Nat /\ Live(shown) \in SUBSET (0 .. SlotCount - 1)
      BY FrontendAssumption DEF Live, Showing, Slots
    <3>2. \E s \in Live(shown) : \A t \in Live(shown) : t =< s
      BY <2>3, <3>1, Greatest
    <3>3. last \in Live(shown)
      BY <3>2, Zenon
    <3>4. rrBase' = After(shown[last][1].context, ContextCount)
      BY <2>1, <2>3, Zenon DEF Rotated
    <3> HIDE DEF last
    <3>5. shown[last][1].context \in Nat
      BY <3>3, Geometry DEF Live, WellShown, Command
    <3>6. ContextCount \in Nat /\ ContextCount > 0
      BY FrontendAssumption
    <3> QED BY <3>4, <3>5, <3>6 DEF After, Contexts
  <2> QED BY <2>2, <2>3
<1> QED BY <1>1, <1>2, <1>4, <1>6, <1>7, <1>8 DEF FrontType, QueueInv, SlotInv, QueueBound

----------------------------------------------------------------------------
(* The other registers keep their types                                    *)

ReturnType ==
  /\ Holds(stateHold, Groups) /\ stateNext \in Groups
  /\ Holds(collected, ResultType) /\ collectNext \in Groups
ReportsType ==
  /\ Holds(reject, Command) /\ Holds(completion, ReportType)
  /\ preferReject \in BOOLEAN

\* The groups' registers after the edge.
LEMMA GroupTypeStep ==
  ASSUME GroupType, NEW taken, NEW turns, NEW written \in WriteTurns(taken),
         NEW shown, NEW issued, WellShown(shown), issued \subseteq Showing(shown),
         GroupsEdge(taken, turns, written, shown, issued)
  PROVE  GroupType'
<1>1. \A g \in Groups : /\ Holds(ingress[g], Command) /\ Holds(pipe[g], Command)
                        /\ Holds(res[g], Command) /\ Holds(cpl[g], ChildType)
                        /\ Holds(rsp[g], ResultType)
  BY DEF GroupType, EachHolds
<1>2. \A s \in issued : Holds(shown[s], Command)
  BY DEF WellShown, EachHolds, Showing
<1>3. \A set : Holds(<<>>, set)
  BY DEF Holds
<1>4. /\ DOMAIN ingress' = Groups /\ DOMAIN pipe' = Groups /\ DOMAIN res' = Groups
      /\ DOMAIN cpl' = Groups /\ DOMAIN rsp' = Groups
  BY DEF GroupsEdge
<1>5. ASSUME NEW g \in Groups PROVE Holds(ingress'[g], Command)
  <2>1. ingress'[g] = IF Target(shown, issued, g) # {}
                      THEN shown[CHOOSE s \in Target(shown, issued, g) : TRUE]
                      ELSE IF g \in Drained(taken, turns) THEN <<>> ELSE ingress[g]
    BY DEF GroupsEdge
  <2>2. Target(shown, issued, g) # {} =>
          (CHOOSE s \in Target(shown, issued, g) : TRUE) \in issued
    <3>1. Target(shown, issued, g) \subseteq issued
      BY DEF Target
    <3> QED BY <3>1
  <2> QED BY <1>1, <1>2, <1>3, <2>1, <2>2
<1>6. \A g \in Groups : Holds(pipe'[g], Command) /\ Holds(res'[g], Command)
  BY <1>1, <1>3 DEF GroupsEdge
<1>7. \A g \in Groups : Retires(g, taken) => res[g][1] \in Command
  BY <1>1 DEF Retires, Holds
<1>8. \A command \in Command : Holds(<<ChildCompletion(command)>>, ChildType)
  <2> TAKE command \in Command
  <2>1. (command.op \in RefusedOps) \in BOOLEAN /\ (command.op \in ResultOps) \in BOOLEAN
    OBVIOUS
  <2>2. PICK b, d \in BOOLEAN : b = (command.op \in RefusedOps) /\ d = (command.op \in ResultOps)
    BY <2>1
  <2>3. [kind |-> "EXEC", context |-> command.context, tag |-> command.tag,
         illegal |-> b, result |-> d] \in ChildType
    BY DEF ChildType, Command
  <2>4. ChildCompletion(command) = [kind |-> "EXEC", context |-> command.context,
                                   tag |-> command.tag, illegal |-> b, result |-> d]
    BY <2>2, Zenon DEF ChildCompletion
  <2> QED BY <2>3, <2>4 DEF Holds
<1>9. \A g \in Groups : \A command \in Command : Holds(<<ResultRecord(g, command)>>, ResultType)
  <2> TAKE g \in Groups
  <2> TAKE command \in Command
  <2>1. (command.op \in RefusedOps) \in BOOLEAN
    OBVIOUS
  <2>2. PICK b \in BOOLEAN : b = (command.op \in RefusedOps)
    BY <2>1
  <2>3. [group |-> g, context |-> command.context, tag |-> command.tag, illegal |-> b]
          \in ResultType
    BY DEF ResultType, Command
  <2>4. ResultRecord(g, command) = [group |-> g, context |-> command.context,
                                   tag |-> command.tag, illegal |-> b]
    BY <2>2, Zenon DEF ResultRecord
  <2> QED BY <2>3, <2>4 DEF Holds
<1>10. \A w \in written : Holds(<<WriteCompletion(w)>>, ChildType)
  <2> TAKE w \in written
  <2>1. w \in Writes
    BY DEF WriteTurns
  <2>2. w \in [group : Groups, context : Contexts, tag : Tags, illegal : BOOLEAN]
    BY <2>1, ClusterAssumption
  <2>3. WriteCompletion(w) \in ChildType
    BY <2>2 DEF WriteCompletion, ChildType
  <2> QED BY <2>3 DEF Holds
<1>11. ASSUME NEW g \in Groups PROVE Holds(cpl'[g], ChildType)
  <2>1. cpl'[g] = IF \E w \in written : w.group = g
                  THEN <<WriteCompletion(CHOOSE w \in written : w.group = g)>>
                  ELSE IF Retires(g, taken) THEN <<ChildCompletion(res[g][1])>>
                  ELSE IF CplFree(g, taken) THEN <<>> ELSE cpl[g]
    BY DEF GroupsEdge
  <2>2. (\E w \in written : w.group = g) => (CHOOSE w \in written : w.group = g) \in written
    BY Zenon
  <2> QED BY <1>1, <1>3, <1>7, <1>8, <1>10, <2>1, <2>2
<1>12. \A g \in Groups : Holds(rsp'[g], ResultType)
  <2> TAKE g \in Groups
  <2>1. rsp'[g] = IF Retires(g, taken) /\ res[g][1].op \in ResultOps
                  THEN <<ResultRecord(g, res[g][1])>>
                  ELSE IF RspFree(g, taken) THEN <<>> ELSE rsp[g]
    BY DEF GroupsEdge
  <2> QED BY <1>1, <1>3, <1>7, <1>9, <2>1
<1> QED BY <1>4, <1>5, <1>6, <1>11, <1>12 DEF GroupType, EachHolds

\* A result names the group it came from.
NamedInv == \A g \in Groups : rsp[g] # <<>> => rsp[g][1].group = g

\* So does a new one.
LEMMA NamedStep ==
  ASSUME NamedInv, NEW taken, NEW turns, NEW shown, NEW issued,
         \A g \in Groups : Moved(g, taken, turns, shown, issued)
  PROVE  NamedInv'
<1> SUFFICES ASSUME NEW g \in Groups, rsp'[g] # <<>> PROVE rsp'[g][1].group = g
  BY DEF NamedInv
<1>1. \/ rsp'[g] = <<ResultRecord(g, res[g][1])>>
      \/ rsp'[g] = rsp[g]
  BY DEF Moved
<1> QED BY <1>1 DEF NamedInv, ResultRecord

\* The scan's next base
LEMMA AfterGroup ==
  ASSUME NEW g \in Groups
  PROVE  After(g, GroupCount) \in Groups
<1>1. GroupCount \in Nat /\ GroupCount > 0 /\ g \in Nat
  BY FrontendAssumption, Geometry
<1> QED BY <1>1 DEF After, Groups

\* The return registers after the edge.
LEMMA ReturnStep ==
  ASSUME ReturnType, GroupType, NEW taken, ReturnsEdge(taken)
  PROVE  ReturnType'
<1>1. /\ Holds(stateHold, Groups) /\ stateNext \in Groups
      /\ Holds(collected, ResultType) /\ collectNext \in Groups
  BY DEF ReturnType
<1>2. StateSelected = <<>> \/ \E g \in Groups : StateSelected = <<g>>
  <2>1. CASE stateHold # <<>>
    BY <1>1, <2>1 DEF StateSelected, Holds
  <2>2. CASE stateHold = <<>>
    <3>1. StateSelected = FirstFrom(stateNext, GroupCount, Holding(cpl, "WRITE"))
      BY <2>2 DEF StateSelected
    <3>2. GroupCount \in Nat \ {0} /\ stateNext \in 0 .. GroupCount - 1
          /\ Holding(cpl, "WRITE") \in SUBSET (0 .. GroupCount - 1)
      BY <1>1, FrontendAssumption DEF Groups, Holding
    <3>3. \/ FirstFrom(stateNext, GroupCount, Holding(cpl, "WRITE")) = <<>>
          \/ \E g \in Holding(cpl, "WRITE") :
               FirstFrom(stateNext, GroupCount, Holding(cpl, "WRITE")) = <<g>>
      BY <3>2, ScanFinds
    <3> QED BY <3>1, <3>3 DEF Holding
  <2> QED BY <2>1, <2>2
<1>3. Holds(stateHold', Groups)
  BY <1>2 DEF ReturnsEdge, Holds
<1>4. stateNext' \in Groups
  <2>1. stateNext' = IF StateTaken(taken) = <<>> THEN stateNext
                     ELSE After(StateTaken(taken)[1], GroupCount)
    BY DEF ReturnsEdge
  <2>2. StateTaken(taken) = <<>> \/ \E g \in Groups : StateTaken(taken) = <<g>>
    BY <1>2 DEF StateTaken
  <2>3. StateTaken(taken) # <<>> => StateTaken(taken)[1] \in Groups
    BY <2>2
  <2> QED BY <1>1, <2>1, <2>3, AfterGroup
<1>5. Captured(taken) # <<>> => Captured(taken)[1] \in Groups /\ rsp[Captured(taken)[1]] # <<>>
  BY <1>1, CapturedRecord
<1>6. collectNext' \in Groups
  <2>1. collectNext' = IF Captured(taken) = <<>> THEN collectNext
                       ELSE After(Captured(taken)[1], GroupCount)
    BY DEF ReturnsEdge
  <2> QED BY <1>1, <1>5, <2>1, AfterGroup
<1>7. Holds(collected', ResultType)
  <2>1. collected' = IF Captured(taken) # <<>> THEN rsp[Captured(taken)[1]]
                     ELSE IF "RESULT" \in taken THEN <<>> ELSE collected
    BY DEF ReturnsEdge
  <2>2. \A g \in Groups : Holds(rsp[g], ResultType)
    BY DEF GroupType, EachHolds
  <2>3. Holds(<<>>, ResultType)
    BY DEF Holds
  <2> QED BY <1>1, <1>5, <2>1, <2>2, <2>3
<1> QED BY <1>3, <1>4, <1>6, <1>7 DEF ReturnType

\* The reject buffer and the output register after the edge.
LEMMA ReportStep ==
  ASSUME ReportsType, EntryInv, DoneInv, NEW taken, NEW shown, NEW refused,
         WellShown(shown), refused \subseteq Showing(shown),
         ReportsEdge(taken, shown, refused)
  PROVE  ReportsType'
<1>1. Holds(reject, Command) /\ Holds(completion, ReportType) /\ preferReject \in BOOLEAN
  BY DEF ReportsType
<1>2. Holds(<<>>, Command) /\ Holds(<<>>, ReportType)
  BY DEF Holds
<1>3. Holds(reject', Command)
  <2>1. reject' = IF refused # {} THEN shown[CHOOSE s \in refused : TRUE]
                  ELSE IF FromReject(taken) THEN <<>> ELSE reject
    BY DEF ReportsEdge
  <2>2. refused # {} => (CHOOSE s \in refused : TRUE) \in refused
    OBVIOUS
  <2>3. \A s \in refused : Holds(shown[s], Command)
    BY DEF WellShown, EachHolds, Showing
  <2> QED BY <1>1, <1>2, <2>1, <2>2, <2>3
<1>4. FromTracker(taken) => Report(entry[Done[1]][1]) \in ReportType
  <2> HAVE FromTracker(taken)
  <2>1. PICK e \in Used : Done = <<e>>
    BY DoneComplete DEF FromTracker
  <2>2. entry[e][1] \in EntryType /\ Done[1] = e
    BY <2>1 DEF EntryInv, EachHolds, Holds, Used
  <2> QED BY <2>2 DEF Report, ReportType, EntryType
<1>5. FromReject(taken) => Rejection(reject[1]) \in ReportType
  BY <1>1 DEF FromReject, Holds, Rejection, ReportType, Command
<1>6. Holds(completion', ReportType)
  <2>1. completion' = IF FromTracker(taken) THEN <<Report(entry[Done[1]][1])>>
                      ELSE IF FromReject(taken) THEN <<Rejection(reject[1])>>
                      ELSE IF CanReport(taken) THEN <<>> ELSE completion
    BY DEF ReportsEdge
  <2>2. \A r \in ReportType : Holds(<<r>>, ReportType)
    BY DEF Holds
  <2> QED BY <1>1, <1>2, <1>4, <1>5, <2>1, <2>2
<1>7. preferReject' \in BOOLEAN
  BY <1>1 DEF ReportsEdge
<1> QED BY <1>3, <1>6, <1>7 DEF ReportsType

----------------------------------------------------------------------------
(* The inductive invariant                                                 *)

ClusterInv ==
  /\ owner \in [Groups -> Contexts \cup {NoOwner}]
  /\ FrontType /\ QueueInv /\ SlotInv /\ QueueBound /\ rrBase \in Contexts
  /\ EntryInv /\ DoneInv /\ trackerError = FALSE
  /\ GroupType /\ MessagesInv /\ NamedInv
  /\ ReturnType /\ ReportsType

\* The invariant holds at reset,
LEMMA ClusterInvInit == ClusterInit => ClusterInv
<1> SUFFICES ASSUME ClusterInit PROVE ClusterInv
  OBVIOUS
<1> USE DEF ClusterInit, FrontendInit, TrackerInit
<1>1. \A set : Holds(<<>>, set)
  BY DEF Holds
<1>2. \A set, index : EachHolds([i \in index |-> <<>>], index, set)
  BY <1>1 DEF EachHolds
<1>3. 0 \in Contexts /\ 0 \in Groups /\ 0 \in Entries /\ QueueDepth \in Nat
  BY FrontendAssumption, TrackerAssumption DEF Contexts, Groups, Entries
<1>4. <<>> \in Seq(Command) /\ Len(<<>>) = 0
  OBVIOUS
<1>5. /\ FrontType /\ QueueInv /\ SlotInv /\ QueueBound
  <2>1. queue \in [Contexts -> Seq(Command)] /\ \A c \in Contexts : queue[c] = <<>>
    BY <1>4
  <2>2. Locked = {}
    BY DEF Locked
  <2> QED BY <1>2, <1>3, <1>4, <2>1, <2>2 DEF FrontType, QueueInv, SlotInv, QueueBound
<1>6. Used = {}
  BY DEF Used
<1>7. EntryInv /\ DoneInv
  BY <1>1, <1>2, <1>3, <1>6 DEF EntryInv, DoneInv
<1>8. GroupType /\ ReturnType /\ ReportsType
  BY <1>1, <1>2, <1>3 DEF GroupType, ReturnType, ReportsType
<1>9. MessagesInv
  <2>1. \A g \in Groups : /\ ingress[g] = <<>> /\ pipe[g] = <<>> /\ res[g] = <<>>
                          /\ ExecCpl(g) = <<>> /\ rsp[g] = <<>>
    BY DEF ExecCpl
  <2> QED BY <1>6, <2>1 DEF MessagesInv, ExpectedAt, Awaited, AwaitedCpl, AwaitedRsp,
                            ApartAt, Apart, Promised, OwedAt
<1>10. NamedInv
  BY DEF NamedInv
<1> QED BY <1>3, <1>5, <1>7, <1>8, <1>9, <1>10 DEF ClusterInv

\* What an edge does, with the commands shown, issued and refused at it
Edge(taken, turns, written, entering, clear, shown, ready, issued, refused, placed) ==
  /\ \A c \in Contexts : \A i \in DOMAIN entering :
       entering[i].context = c => MayEnter(entering[i], shown, issued \cup refused)
  /\ FrontendEdge(shown, issued \cup refused, entering)
  /\ TrackerEdge(Reports, Retired(taken), Fired(taken), placed, clear)
  /\ GroupsEdge(taken, turns, written, shown, issued)
  /\ ReturnsEdge(taken)
  /\ ReportsEdge(taken, shown, refused)
  /\ UNCHANGED owner

\* and what is known of it
WellDone(taken, turns, shown, ready, issued, refused, placed) ==
  /\ WellShown(shown) /\ WellIssued(shown, issued, ready)
  /\ WellPlaced(placed, shown, issued)
  /\ issued \subseteq Showing(shown)
  /\ refused = Refusable(shown, RejectCredit(taken)) /\ refused \subseteq Showing(shown)
  /\ \A g \in Groups : Moved(g, taken, turns, shown, issued)
  /\ EntriesMove(taken, shown, issued)

\* Every edge is of that kind.
LEMMA EdgeParts ==
  ASSUME ClusterInv, NEW taken, NEW turns, NEW written \in WriteTurns(taken), NEW granted,
         NEW entering, NEW clear, Cycle(taken, turns, written, granted, entering, clear)
  PROVE  \E shown, ready, issued, refused, placed :
           /\ Edge(taken, turns, written, entering, clear, shown, ready, issued, refused, placed)
           /\ WellDone(taken, turns, shown, ready, issued, refused, placed)
<1>1. PICK shown : shown = Presented
  OBVIOUS
<1>2. PICK ready : ready = IngressReady(taken, turns)
  OBVIOUS
<1>3. PICK issued : issued = Granted(shown, Dispatchable(shown, ready, granted))
  OBVIOUS
<1>4. PICK refused : refused = Refusable(shown, RejectCredit(taken))
  OBVIOUS
<1>5. PICK placed : placed = Placed(shown, issued)
  OBVIOUS
<1>6. Edge(taken, turns, written, entering, clear, shown, ready, issued, refused, placed)
  BY <1>1, <1>2, <1>3, <1>4, <1>5, Zenon DEF Cycle, Edge
<1>7. WellShown(shown)
  BY <1>1, PresentedWell DEF ClusterInv
<1>8. WellIssued(shown, issued, ready)
  BY <1>3, <1>7, IssueWell
<1>9. WellPlaced(placed, shown, issued)
  BY <1>5, <1>7, <1>8, PlacedWell
<1>10. issued \subseteq Showing(shown) /\ refused \subseteq Showing(shown)
  BY <1>4, <1>8 DEF WellIssued, Refusable, Malformed
<1>11. collectNext \in Groups
  BY DEF ClusterInv, ReturnType
<1>12. EntriesMove(taken, shown, issued)
  BY <1>6, <1>9, <1>11, EntriesStep DEF ClusterInv, Edge
<1>13. \A g \in Groups : Moved(g, taken, turns, shown, issued)
  BY <1>2, <1>6, <1>8, GroupMoves DEF ClusterInv, Edge
<1>14. WellDone(taken, turns, shown, ready, issued, refused, placed)
  BY <1>4, <1>7, <1>8, <1>9, <1>10, <1>12, <1>13, Zenon DEF WellDone
<1> QED BY <1>6, <1>14

\* One clock edge
LEMMA EdgeKeeps ==
  ASSUME ClusterInv, NEW taken, NEW turns, NEW written \in WriteTurns(taken), NEW granted,
         NEW entering \in {<<>>} \cup {<<m>> : m \in Command}, NEW clear,
         Cycle(taken, turns, written, granted, entering, clear)
  PROVE  ClusterInv'
<1>1. PICK shown, ready, issued, refused, placed :
        /\ Edge(taken, turns, written, entering, clear, shown, ready, issued, refused, placed)
        /\ WellDone(taken, turns, shown, ready, issued, refused, placed)
  BY EdgeParts
<1>2. PICK gone : gone = issued \cup refused
  OBVIOUS
<1>3. /\ \A c \in Contexts : \A i \in DOMAIN entering :
           entering[i].context = c => MayEnter(entering[i], shown, gone)
      /\ FrontendEdge(shown, gone, entering)
      /\ TrackerEdge(Reports, Retired(taken), Fired(taken), placed, clear)
      /\ GroupsEdge(taken, turns, written, shown, issued)
      /\ ReturnsEdge(taken)
      /\ ReportsEdge(taken, shown, refused)
      /\ UNCHANGED owner
  BY <1>1, <1>2, Zenon DEF Edge
<1>4. /\ WellShown(shown) /\ WellIssued(shown, issued, ready)
      /\ WellPlaced(placed, shown, issued)
      /\ issued \subseteq Showing(shown) /\ refused \subseteq Showing(shown)
      /\ \A g \in Groups : Moved(g, taken, turns, shown, issued)
      /\ EntriesMove(taken, shown, issued)
  BY <1>1, Zenon DEF WellDone
<1>5. gone \subseteq Showing(shown)
  BY <1>2, <1>4
<1>6. collectNext \in Groups
  BY DEF ClusterInv, ReturnType
<1>7. FrontType' /\ QueueInv' /\ SlotInv' /\ QueueBound' /\ rrBase' \in Contexts
  BY <1>3, <1>4, <1>5, FrontStep DEF ClusterInv
<1>8. EntryInv'
  BY <1>3, <1>4, <1>6, EntryStep DEF ClusterInv
<1>9. DoneInv' /\ trackerError' = FALSE
  BY <1>3, <1>4, <1>6, <1>8, DoneStep DEF ClusterInv
<1>10. GroupType'
  BY <1>3, <1>4, GroupTypeStep DEF ClusterInv
<1>11. MessagesInv'
  <2>1. ASSUME NEW g \in Groups PROVE ExpectedAt(g)' /\ ApartAt(g)' /\ OwedAt(g)'
    <3>1. Moved(g, taken, turns, shown, issued)
      BY <1>4
    <3>2. ExpectedAt(g)'
      BY <1>4, <3>1, ExpectedStep DEF ClusterInv
    <3>3. ApartAt(g)'
      BY <1>4, <3>1, ApartStep DEF ClusterInv
    <3>4. OwedAt(g)'
      BY <1>4, <3>1, OwedStep DEF ClusterInv
    <3> QED BY <3>2, <3>3, <3>4
  <2> QED BY <2>1 DEF MessagesInv
<1>12. NamedInv'
  BY <1>4, NamedStep DEF ClusterInv
<1>13. ReturnType'
  BY <1>3, ReturnStep DEF ClusterInv
<1>14. ReportsType'
  BY <1>3, <1>4, ReportStep DEF ClusterInv
<1>15. owner' \in [Groups -> Contexts \cup {NoOwner}]
  BY <1>3 DEF ClusterInv, NoOwner
<1> QED BY <1>7, <1>8, <1>9, <1>10, <1>11, <1>12, <1>13, <1>14, <1>15 DEF ClusterInv

\* and every step keeps it.
LEMMA ClusterInvNext == ClusterInv /\ [ClusterNext]_clusterVars => ClusterInv'
<1>1. ASSUME ClusterInv, ClusterNext PROVE ClusterInv'
  <2>1. PICK taken \in SUBSET Offered, granted \in Grants, clear \in BOOLEAN :
          \E written \in WriteTurns(taken), read \in ReadTurns :
            \E entering \in {<<>>} \cup {<<c>> : c \in Command} :
              Cycle(taken, read \cup {w.group : w \in written}, written, granted,
                    entering, clear)
    BY <1>1, Zenon DEF ClusterNext
  <2>2. PICK written \in WriteTurns(taken), read \in ReadTurns :
          \E entering \in {<<>>} \cup {<<c>> : c \in Command} :
            Cycle(taken, read \cup {w.group : w \in written}, written, granted,
                  entering, clear)
    BY <2>1, Zenon
  <2>3. PICK turns : turns = read \cup {w.group : w \in written}
    OBVIOUS
  <2>4. PICK entering \in {<<>>} \cup {<<c>> : c \in Command} :
          Cycle(taken, turns, written, granted, entering, clear)
    BY <2>2, <2>3, Zenon
  <2> QED BY <1>1, <2>4, EdgeKeeps
<1>2. ASSUME ClusterInv, UNCHANGED clusterVars PROVE ClusterInv'
  <2> USE <1>2 DEF clusterVars, frontendVars, trackerVars, groupVars, returnVars, reportVars
  <2>1. FrontType' /\ QueueInv' /\ SlotInv' /\ QueueBound'
    BY DEF ClusterInv, FrontType, QueueInv, SlotInv, QueueBound, Locked
  <2>2. EntryInv' /\ DoneInv'
    BY DEF ClusterInv, EntryInv, DoneInv, Used, X, Complete
  <2>3. GroupType' /\ ReturnType' /\ ReportsType'
    BY DEF ClusterInv, GroupType, ReturnType, ReportsType
  <2>4. MessagesInv'
    BY DEF ClusterInv, MessagesInv, ExpectedAt, Awaited, AwaitedCpl, AwaitedRsp, ApartAt,
           OwedAt, InStages, Has, Used, X, ExecCpl, HeardGroups, Holding
  <2>5. NamedInv'
    BY DEF ClusterInv, NamedInv
  <2> QED BY <2>1, <2>2, <2>3, <2>4, <2>5 DEF ClusterInv
<1> QED BY <1>1, <1>2

\* The invariant holds in every state the cluster reaches.
THEOREM ClusterInvHolds == ClusterSpec => []ClusterInv
BY ClusterInvInit, ClusterInvNext, PTL DEF ClusterSpec

\* Every register of the cluster holds what it is declared for, whatever the
\* number of groups, contexts, slots and entries: queues never exceed their
\* depth, and each register is empty or holds one record of its kind
\* (simd_cluster_exec.sv with its front end, tracker and collector).
THEOREM ClusterTypeCorrect == ClusterSpec => []ClusterTypeOK
<1>1. ClusterInv => ClusterTypeOK
  BY DEF ClusterInv, ClusterTypeOK, FrontType, QueueBound, EntryInv, DoneInv, GroupType,
         ReturnType, ReportsType
<1> QED BY <1>1, ClusterInvHolds, PTL

----------------------------------------------------------------------------
(* Counting messages in a row of registers                                 *)

Hit(register, x) == IF Has(register, x) THEN 1 ELSE 0
Spots(x, s) == {i \in DOMAIN s : SameKey(s[i], x)}

\* Among counts the spots of a message.
LEMMA AmongCounts ==
  ASSUME NEW U, NEW s \in Seq(U), NEW x
  PROVE  IsFiniteSet(Spots(x, s)) /\ Among(x, s) = Cardinality(Spots(x, s)) /\ Among(x, s) \in Nat
<1>1. Spots(x, s) \in SUBSET (1 .. Len(s)) /\ Len(s) \in Nat
  BY DEF Spots
<1>2. IsFiniteSet(1 .. Len(s))
  BY <1>1, FS_Interval
<1>3. IsFiniteSet(Spots(x, s))
  BY <1>1, <1>2, FS_Subset
<1> QED BY <1>3, FS_CardinalityType DEF Among, Spots

\* A register is a sequence of one message or none.
LEMMA RegisterRow ==
  ASSUME NEW U, NEW t, Holds(t, U)
  PROVE  t \in Seq(U) /\ (t # <<>> => t = <<t[1]>> /\ t[1] \in U /\ Len(t) = 1)
<1>1. CASE t = <<>>
  BY <1>1
<1>2. CASE t # <<>>
  <2>1. PICK m \in U : t = <<m>> /\ m = t[1]
    BY <1>2 DEF Holds
  <2>2. <<m>> \in Seq(U) /\ Len(<<m>>) = 1
    OBVIOUS
  <2> QED BY <2>1, <2>2
<1> QED BY <1>1, <1>2

\* One register more adds one message or none.
LEMMA AmongGrows ==
  ASSUME NEW U, NEW s \in Seq(U), NEW t, Holds(t, U), NEW x
  PROVE  s \o t \in Seq(U) /\ Among(x, s \o t) = Among(x, s) + Hit(t, x)
<1>1. IsFiniteSet(Spots(x, s)) /\ Among(x, s) = Cardinality(Spots(x, s)) /\ Among(x, s) \in Nat
  BY AmongCounts
<1>2. CASE t = <<>>
  <2>1. s \o t = s
    BY <1>2, ConcatEmptySeq
  <2>2. Hit(t, x) = 0
    BY <1>2 DEF Hit, Has
  <2> QED BY <1>1, <2>1, <2>2
<1>3. CASE t # <<>>
  <2>1. t = <<t[1]>> /\ t[1] \in U /\ t \in Seq(U) /\ Len(t) = 1
    BY <1>3, RegisterRow
  <2> DEFINE q == s \o t
             n == Len(s) + 1
  <2>2. /\ q \in Seq(U) /\ Len(q) = Len(s) + Len(t)
        /\ \A i \in 1 .. Len(s) + Len(t) : q[i] = IF i =< Len(s) THEN s[i] ELSE t[i - Len(s)]
    BY <2>1, ConcatProperties
  <2> HIDE DEF q
  <2>3. /\ Len(s) \in Nat /\ DOMAIN s = 1 .. Len(s) /\ DOMAIN q = 1 .. n
        /\ \A i \in 1 .. Len(s) : q[i] = s[i]
        /\ q[n] = t[1]
    BY <2>1, <2>2
  <2>4. n \notin Spots(x, s)
    BY <2>3 DEF Spots
  <2>5. CASE SameKey(t[1], x)
    <3>1. Spots(x, q) = Spots(x, s) \cup {n}
      BY <2>3, <2>5 DEF Spots
    <3>2. Cardinality(Spots(x, q)) = Cardinality(Spots(x, s)) + 1
      BY <1>1, <2>4, <3>1, FS_AddElement
    <3>3. Among(x, q) = Cardinality(Spots(x, q))
      BY <2>2, AmongCounts
    <3>4. Hit(t, x) = 1
      BY <1>3, <2>5 DEF Hit, Has
    <3> QED BY <1>1, <2>2, <3>2, <3>3, <3>4 DEF q
  <2>6. CASE ~SameKey(t[1], x)
    <3>1. Spots(x, q) = Spots(x, s)
      <4>1. \A i \in 1 .. n : i \in 1 .. Len(s) \/ i = n
        BY <2>3
      <4>2. \A i \in 1 .. Len(s) : i \in 1 .. n
        BY <2>3
      <4> QED BY <2>3, <2>6, <4>1, <4>2 DEF Spots
    <3>2. Among(x, q) = Cardinality(Spots(x, q))
      BY <2>2, AmongCounts
    <3>3. Hit(t, x) = 0
      BY <2>6 DEF Hit, Has
    <3> QED BY <1>1, <2>2, <3>1, <3>2, <3>3 DEF q
  <2> QED BY <2>5, <2>6
<1> QED BY <1>2, <1>3

\* Four registers in a row
LEMMA FourRegisters ==
  ASSUME NEW a, NEW b, NEW c, NEW d, NEW U,
         Holds(a, U), Holds(b, U), Holds(c, U), Holds(d, U), NEW x
  PROVE  /\ ((a \o b) \o c) \o d \in Seq(U)
         /\ Among(x, ((a \o b) \o c) \o d) = Hit(a, x) + Hit(b, x) + Hit(c, x) + Hit(d, x)
<1>1. a \in Seq(U) /\ <<>> \in Seq(U)
  BY RegisterRow
<1>2. PICK none \in Seq(U) : none = <<>>
  BY <1>1
<1>3. none \o a = a /\ Among(x, none) = 0
  <2>1. Spots(x, none) = {}
    BY <1>2 DEF Spots
  <2>2. Among(x, none) = 0
    BY <2>1, FS_EmptySet DEF Among, Spots
  <2> QED BY <1>1, <1>2, <2>2, ConcatEmptySeq
<1>4. PICK p : p = a \o b
  OBVIOUS
<1>5. p \in Seq(U) /\ Among(x, p) = Among(x, a) + Hit(b, x)
  BY <1>1, <1>4, AmongGrows
<1>6. PICK q : q = p \o c
  OBVIOUS
<1>7. q \in Seq(U) /\ Among(x, q) = Among(x, p) + Hit(c, x)
  BY <1>5, <1>6, AmongGrows
<1>8. q \o d \in Seq(U) /\ Among(x, q \o d) = Among(x, q) + Hit(d, x)
  BY <1>7, AmongGrows
<1>9. Hit(a, x) \in Nat /\ Hit(b, x) \in Nat /\ Hit(c, x) \in Nat /\ Hit(d, x) \in Nat
  BY DEF Hit
<1>10. Among(x, a) = Hit(a, x)
  <2>1. Among(x, none \o a) = Among(x, none) + Hit(a, x)
    BY AmongGrows
  <2> QED BY <1>3, <1>9, <2>1
<1>11. Among(x, q) = Hit(a, x) + Hit(b, x) + Hit(c, x)
  BY <1>5, <1>7, <1>10
<1>12. Among(x, q \o d) = Hit(a, x) + Hit(b, x) + Hit(c, x) + Hit(d, x)
  BY <1>8, <1>11
<1>13. ((a \o b) \o c) \o d = q \o d
  BY <1>4, <1>6
<1> QED BY <1>8, <1>12, <1>13

\* Of registers that are apart at most one has a key.
LEMMA OneOfFour ==
  ASSUME NEW a, NEW b, NEW c, NEW d, NEW x, NEW due \in BOOLEAN,
         Apart(a, b), Apart(a, c), Apart(a, d), Apart(b, c), Apart(b, d), Apart(c, d),
         due <=> Has(a, x) \/ Has(b, x) \/ Has(c, x) \/ Has(d, x)
  PROVE  Hit(a, x) + Hit(b, x) + Hit(c, x) + Hit(d, x) = IF due THEN 1 ELSE 0
<1>1. \A r, q : Apart(r, q) => ~(Has(r, x) /\ Has(q, x))
  BY DEF Apart, Has, SameKey
<1>2. /\ ~(Has(a, x) /\ Has(b, x)) /\ ~(Has(a, x) /\ Has(c, x)) /\ ~(Has(a, x) /\ Has(d, x))
      /\ ~(Has(b, x) /\ Has(c, x)) /\ ~(Has(b, x) /\ Has(d, x)) /\ ~(Has(c, x) /\ Has(d, x))
  BY <1>1, Zenon
<1> QED BY <1>2 DEF Hit

----------------------------------------------------------------------------
(* The tracker is exact                                                    *)

\* What is in a group at an entry's key, and what the entry expects.
LEMMA GroupOwes ==
  ASSUME ClusterInv, NEW e \in Used, NEW g \in Groups
  PROVE  /\ g \in X(e).pending <=>
              \/ Has(res[g], X(e)) \/ Has(pipe[g], X(e)) \/ Has(ingress[g], X(e))
              \/ Has(ExecCpl(g), X(e))
         /\ g \in X(e).results \ X(e).seen <=>
              \/ Has(Promised(res[g]), X(e)) \/ Has(Promised(pipe[g]), X(e))
              \/ Has(Promised(ingress[g]), X(e)) \/ Has(rsp[g], X(e))
<1>1. EntryInv /\ ExpectedAt(g) /\ OwedAt(g)
  BY DEF ClusterInv, MessagesInv
<1>2. \A f \in Used : \A m : SameKey(X(f), m) /\ SameKey(m, X(e)) => f = e
  BY <1>1 DEF EntryInv, SameKey
<1>3. \A r : Awaited(r, g) /\ Has(r, X(e)) =>
         /\ g \in X(e).pending /\ g \notin X(e).seen
         /\ g \in X(e).results <=> r[1].op \in ResultOps
  BY <1>2 DEF Awaited, Has
<1>4. Awaited(ingress[g], g) /\ Awaited(pipe[g], g) /\ Awaited(res[g], g)
  BY <1>1 DEF ExpectedAt
<1>5. Has(ExecCpl(g), X(e)) => g \in X(e).pending
  <2>1. AwaitedCpl(ExecCpl(g), g)
    BY <1>1 DEF ExpectedAt
  <2> QED BY <1>2, <2>1 DEF AwaitedCpl, Has
<1>6. Has(rsp[g], X(e)) => g \in X(e).results \ X(e).seen
  <2>1. AwaitedRsp(rsp[g], g)
    BY <1>1 DEF ExpectedAt
  <2> QED BY <1>2, <2>1 DEF AwaitedRsp, Has
<1>7. \A r : Has(Promised(r), X(e)) <=> Has(r, X(e)) /\ r[1].op \in ResultOps
  BY DEF Promised, Has
<1>8. g \in X(e).pending => InStages(g, X(e)) \/ Has(ExecCpl(g), X(e))
  BY <1>1 DEF OwedAt
<1>9. g \in X(e).results \ X(e).seen => InStages(g, X(e)) \/ Has(rsp[g], X(e))
  BY <1>1 DEF OwedAt
<1>10. g \in X(e).pending <=>
         \/ Has(res[g], X(e)) \/ Has(pipe[g], X(e)) \/ Has(ingress[g], X(e))
         \/ Has(ExecCpl(g), X(e))
  BY <1>3, <1>4, <1>5, <1>8 DEF InStages
<1>11. g \in X(e).results \ X(e).seen <=>
         \/ Has(Promised(res[g]), X(e)) \/ Has(Promised(pipe[g]), X(e))
         \/ Has(Promised(ingress[g]), X(e)) \/ Has(rsp[g], X(e))
  BY <1>3, <1>4, <1>6, <1>7, <1>9 DEF InStages
<1> QED BY <1>10, <1>11, Zenon

\* Messages that may be in a group
Messages == Command \cup ChildType \cup ResultType

\* The registers of a group as rows of messages.
LEMMA GroupHolds ==
  ASSUME ClusterInv, NEW g \in Groups
  PROVE  /\ Holds(ingress[g], Messages) /\ Holds(pipe[g], Messages) /\ Holds(res[g], Messages)
         /\ Holds(ExecCpl(g), Messages) /\ Holds(rsp[g], Messages)
         /\ Holds(Promised(ingress[g]), Messages) /\ Holds(Promised(pipe[g]), Messages)
         /\ Holds(Promised(res[g]), Messages)
<1>1. GroupType
  BY DEF ClusterInv
<1>2. \A r, S : S \subseteq Messages /\ Holds(r, S) => Holds(r, Messages) /\ Holds(Promised(r), Messages)
  BY DEF Holds, Promised
<1>3. Command \subseteq Messages /\ ChildType \subseteq Messages /\ ResultType \subseteq Messages
  BY DEF Messages
<1>4. /\ Holds(ingress[g], Command) /\ Holds(pipe[g], Command) /\ Holds(res[g], Command)
      /\ Holds(cpl[g], ChildType) /\ Holds(rsp[g], ResultType)
  BY <1>1 DEF GroupType, EachHolds
<1>5. Holds(ExecCpl(g), ChildType)
  BY <1>4 DEF ExecCpl, Holds
<1> QED BY <1>2, <1>3, <1>4, <1>5, Zenon

\* The count of a group's messages is the entry's account of it.
LEMMA Accounted ==
  ASSUME ClusterInv, NEW e \in Used
  PROVE  AccountsFor(X(e))
<1> SUFFICES ASSUME NEW g \in Groups
             PROVE  /\ Among(X(e), UnheardOf(g)) = IF g \in X(e).pending THEN 1 ELSE 0
                    /\ Among(X(e), Promising(g)) = IF g \in X(e).results \ X(e).seen THEN 1 ELSE 0
  BY DEF AccountsFor
<1>1. ApartAt(g)
  BY DEF ClusterInv, MessagesInv
<1>2. \A r, q : Apart(r, q) => Apart(q, r)
  BY DEF Apart, SameKey
<1>3. \A r, q : Apart(r, q) => Apart(Promised(r), Promised(q))
  BY DEF Apart, Promised
<1>4. UnheardOf(g) = ((res[g] \o pipe[g]) \o ingress[g]) \o ExecCpl(g)
  BY DEF UnheardOf, Inside, ExecCpl
<1>5. Promising(g) = ((Promised(res[g]) \o Promised(pipe[g])) \o Promised(ingress[g])) \o rsp[g]
  BY DEF Promising
<1>6. Among(X(e), UnheardOf(g)) = Hit(res[g], X(e)) + Hit(pipe[g], X(e))
                                  + Hit(ingress[g], X(e)) + Hit(ExecCpl(g), X(e))
  BY <1>4, FourRegisters, GroupHolds
<1>7. Among(X(e), Promising(g)) = Hit(Promised(res[g]), X(e)) + Hit(Promised(pipe[g]), X(e))
                                  + Hit(Promised(ingress[g]), X(e)) + Hit(rsp[g], X(e))
  BY <1>5, FourRegisters, GroupHolds
<1>8. PICK due \in BOOLEAN : due <=> g \in X(e).pending
  OBVIOUS
<1>9. PICK owing \in BOOLEAN : owing <=> g \in X(e).results \ X(e).seen
  OBVIOUS
<1>10. Among(X(e), UnheardOf(g)) = IF due THEN 1 ELSE 0
  <2>1. /\ Apart(res[g], pipe[g]) /\ Apart(res[g], ingress[g]) /\ Apart(pipe[g], ingress[g])
        /\ Apart(res[g], ExecCpl(g)) /\ Apart(pipe[g], ExecCpl(g)) /\ Apart(ingress[g], ExecCpl(g))
    BY <1>1, <1>2, Zenon DEF ApartAt
  <2>2. due <=> Has(res[g], X(e)) \/ Has(pipe[g], X(e)) \/ Has(ingress[g], X(e))
                \/ Has(ExecCpl(g), X(e))
    BY <1>8, GroupOwes, Zenon
  <2> QED BY <1>6, <2>1, <2>2, OneOfFour
<1>11. Among(X(e), Promising(g)) = IF owing THEN 1 ELSE 0
  <2>1. /\ Apart(Promised(res[g]), Promised(pipe[g])) /\ Apart(Promised(res[g]), Promised(ingress[g]))
        /\ Apart(Promised(pipe[g]), Promised(ingress[g]))
        /\ Apart(Promised(res[g]), rsp[g]) /\ Apart(Promised(pipe[g]), rsp[g])
        /\ Apart(Promised(ingress[g]), rsp[g])
    BY <1>1, <1>2, <1>3, Zenon DEF ApartAt
  <2>2. owing <=> Has(Promised(res[g]), X(e)) \/ Has(Promised(pipe[g]), X(e))
                  \/ Has(Promised(ingress[g]), X(e)) \/ Has(rsp[g], X(e))
    BY <1>9, GroupOwes, Zenon
  <2> QED BY <1>7, <2>1, <2>2, OneOfFour
<1> QED BY <1>8, <1>9, <1>10, <1>11

\* And every message in a group belongs to an entry.
LEMMA EveryTracked ==
  ASSUME ClusterInv, NEW g \in Groups
  PROVE  /\ \A i \in DOMAIN UnheardOf(g) : Tracked(UnheardOf(g)[i])
         /\ \A i \in DOMAIN rsp[g] : Tracked(rsp[g][i])
<1> DEFINE known == {m \in Messages : \E f \in Used : SameKey(X(f), m)}
<1>1. ExpectedAt(g)
  BY DEF ClusterInv, MessagesInv
<1>2. /\ Holds(ingress[g], known) /\ Holds(pipe[g], known) /\ Holds(res[g], known)
      /\ Holds(ExecCpl(g), known) /\ Holds(rsp[g], known)
  <2>1. /\ Holds(ingress[g], Messages) /\ Holds(pipe[g], Messages) /\ Holds(res[g], Messages)
        /\ Holds(ExecCpl(g), Messages) /\ Holds(rsp[g], Messages)
    BY GroupHolds
  <2> QED BY <1>1, <2>1 DEF Holds, ExpectedAt, Awaited, AwaitedCpl, AwaitedRsp
<1>3. \A m \in known : Tracked(m)
  BY DEF Tracked, X
<1> HIDE DEF known
<1>4. UnheardOf(g) = ((res[g] \o pipe[g]) \o ingress[g]) \o ExecCpl(g)
  BY DEF UnheardOf, Inside, ExecCpl
<1>5. UnheardOf(g) \in Seq(known)
  BY <1>2, <1>4, FourRegisters
<1>6. \A i \in DOMAIN UnheardOf(g) : UnheardOf(g)[i] \in known
  BY <1>5
<1>7. rsp[g] \in Seq(known)
  BY <1>2, RegisterRow
<1>8. \A i \in DOMAIN rsp[g] : rsp[g][i] \in known
  BY <1>7
<1> QED BY <1>3, <1>6, <1>8

\* The tracker's account of the groups is exact for any number of groups,
\* contexts, slots and entries: an entry waits for a group's completion or
\* result exactly while the group still has it to give, two entries never share
\* a context and tag, nothing in a group is unknown to the tracker, and the
\* sticky protocol error stays clear (simd_group_completion_tracker.sv inside
\* simd_cluster_exec.sv).
THEOREM TrackerExact == ClusterSpec => []TrackerIsExact
<1>1. ClusterInv => TrackerIsExact
  <2> SUFFICES ASSUME ClusterInv PROVE TrackerIsExact
    OBVIOUS
  <2>1. \A e, f \in Used : SameKey(entry[e][1], entry[f][1]) => e = f
    BY DEF ClusterInv, EntryInv, X
  <2>2. \A e \in Used : AccountsFor(entry[e][1])
    BY Accounted DEF X
  <2>3. ~trackerError
    BY DEF ClusterInv
  <2> QED BY <2>1, <2>2, <2>3, EveryTracked DEF TrackerIsExact
<1> QED BY <1>1, ClusterInvHolds, PTL

----------------------------------------------------------------------------
(* Quiescence                                                              *)

\* A state completion held for its consumer stays in its group's register.
HeldInv == stateHold # <<>> => stateHold[1] \in Holding(cpl, "WRITE")

\* What is on offer to the memory engine is the completion of a state write.
LEMMA SelectedHeld ==
  ASSUME ReturnType, HeldInv
  PROVE  StateSelected = <<>> \/ \E g \in Holding(cpl, "WRITE") : StateSelected = <<g>>
<1>1. CASE stateHold # <<>>
  BY <1>1 DEF ReturnType, HeldInv, StateSelected, Holds
<1>2. CASE stateHold = <<>>
  <2>1. GroupCount \in Nat \ {0} /\ stateNext \in 0 .. GroupCount - 1
        /\ Holding(cpl, "WRITE") \in SUBSET (0 .. GroupCount - 1)
    BY FrontendAssumption DEF ReturnType, Groups, Holding
  <2>2. \/ FirstFrom(stateNext, GroupCount, Holding(cpl, "WRITE")) = <<>>
        \/ \E g \in Holding(cpl, "WRITE") :
             FirstFrom(stateNext, GroupCount, Holding(cpl, "WRITE")) = <<g>>
    BY <2>1, ScanFinds
  <2> QED BY <1>2, <2>2 DEF StateSelected
<1> QED BY <1>1, <1>2

\* A register that is not taken is not overwritten, by a command or by a write.
LEMMA HeldStep ==
  ASSUME ReturnType, GroupType, HeldInv, NEW taken, NEW turns, NEW written \in WriteTurns(taken),
         NEW shown, NEW issued, GroupsEdge(taken, turns, written, shown, issued),
         ReturnsEdge(taken)
  PROVE  HeldInv'
<1> SUFFICES ASSUME stateHold' # <<>> PROVE stateHold'[1] \in Holding(cpl, "WRITE")'
  BY DEF HeldInv
<1>1. "STATE" \notin taken /\ stateHold' = StateSelected
  BY DEF ReturnsEdge
<1>2. PICK g \in Holding(cpl, "WRITE") : stateHold' = <<g>>
  BY <1>1, SelectedHeld
<1>3. g \in Groups /\ cpl[g] # <<>> /\ cpl[g][1].kind = "WRITE"
  BY DEF Holding
<1>4. ~CplFree(g, taken)
  BY <1>1, <1>3 DEF CplFree, HeardGroups, Holding, StateTaken
<1>5. ~Retires(g, taken) /\ ~\E w \in written : w.group = g
  BY <1>4 DEF Retires, WriteTurns, MayWrite
<1>6. cpl'[g] = cpl[g]
  BY <1>3, <1>4, <1>5 DEF GroupsEdge
<1> QED BY <1>2, <1>3, <1>6 DEF Holding

\* So the held completion stands in every state the cluster reaches.
LEMMA HeldHolds == ClusterSpec => [](ClusterInv /\ HeldInv)
<1>1. ClusterInit => HeldInv
  BY DEF ClusterInit, HeldInv
<1>2. ClusterInv /\ HeldInv /\ [ClusterNext]_clusterVars => HeldInv'
  <2>1. ASSUME ClusterInv, HeldInv, ClusterNext PROVE HeldInv'
    <3>1. PICK taken \in SUBSET Offered, granted \in Grants, clear \in BOOLEAN :
            \E written \in WriteTurns(taken), read \in ReadTurns :
              \E entering \in {<<>>} \cup {<<c>> : c \in Command} :
                Cycle(taken, read \cup {w.group : w \in written}, written, granted,
                      entering, clear)
      BY <2>1, Zenon DEF ClusterNext
    <3>2. PICK written \in WriteTurns(taken) : \E turns, shown, issued :
            /\ GroupsEdge(taken, turns, written, shown, issued)
            /\ ReturnsEdge(taken)
      BY <3>1, Zenon DEF Cycle
    <3> QED BY <2>1, <3>2, HeldStep DEF ClusterInv
  <2>2. ASSUME HeldInv, UNCHANGED clusterVars PROVE HeldInv'
    BY <2>2 DEF HeldInv, Holding, clusterVars, groupVars, returnVars
  <2> QED BY <2>1, <2>2
<1> QED BY <1>1, <1>2, ClusterInvInit, ClusterInvNext, PTL DEF ClusterSpec

\* When quiescent_o is set, no slot is locked, nothing is in the stages of a
\* group, and no completion is held for its consumer: the terms it joins
\* (simd_cluster_exec.sv:1169) account for everything that can still act.
THEOREM QuiescenceSound == ClusterSpec => []QuiescentMeansIdle
<1>1. ClusterInv /\ HeldInv => QuiescentMeansIdle
  <2> SUFFICES ASSUME ClusterInv, HeldInv, Quiescent
               PROVE  /\ Locked = {} /\ Full(pipe) = {} /\ Full(res) = {}
                      /\ doneHold = <<>> /\ stateHold = <<>>
    BY DEF QuiescentMeansIdle
  <2>1. Used = {} /\ Full(cpl) = {} /\ \A c \in Contexts : queue[c] = <<>>
    BY DEF Quiescent
  <2>2. Locked = {}
    <3> SUFFICES ASSUME NEW s \in Locked PROVE FALSE
      OBVIOUS
    <3>1. shadow[s][1].context \in Contexts
      BY DEF ClusterInv, FrontType, EachHolds, Holds, Locked, Command
    <3> QED BY <2>1, <3>1 DEF ClusterInv, SlotInv
  <2>3. \A g \in Groups : pipe[g] = <<>> /\ res[g] = <<>>
    BY <2>1 DEF ClusterInv, MessagesInv, ExpectedAt, Awaited
  <2>4. doneHold = <<>>
    BY <2>1 DEF ClusterInv, DoneInv, Complete
  <2>5. stateHold = <<>>
    BY <2>1 DEF HeldInv, Holding, Full
  <2> QED BY <2>2, <2>3, <2>4, <2>5 DEF Full
<1> QED BY <1>1, HeldHolds, PTL

----------------------------------------------------------------------------
(* No standstill                                                           *)

\* The edge on which everybody is ready but the consumer of completions.
Withheld == Offered \ {"COMPLETION"}
Standstill ==
  /\ Cycle(Withheld, {}, {}, Slots, <<>>, FALSE)
  /\ UNCHANGED clusterVars

\* A scan over somebody waiting finds somebody.
LEMMA ScanMisses ==
  ASSUME NEW n \in Nat \ {0}, NEW base \in 0 .. n - 1, NEW waiting \in SUBSET (0 .. n - 1),
         FirstFrom(base, n, waiting) = <<>>
  PROVE  waiting = {}
BY Zenon, ScanFinds DEF FirstFrom

\* No completion of a state write stands in a group, for it would be taken.
LEMMA NoWriteStands ==
  ASSUME ClusterInv, HeldInv, Standstill
  PROVE  StateSelected = <<>> /\ \A g \in Groups : cpl[g] # <<>> => g \in HeardGroups
<1>1. /\ ReturnType /\ GroupType
      /\ \E shown, issued : GroupsEdge(Withheld, {}, {}, shown, issued)
  BY Zenon DEF ClusterInv, Standstill, Cycle
<1>2. PICK shown, issued : GroupsEdge(Withheld, {}, {}, shown, issued)
  BY <1>1
<1>3. cpl' = cpl
  BY DEF Standstill, clusterVars, groupVars
<1>4. StateSelected = <<>>
  <2> SUFFICES ASSUME StateSelected # <<>> PROVE FALSE
    OBVIOUS
  <2>1. PICK g \in Holding(cpl, "WRITE") : StateSelected = <<g>>
    BY <1>1, SelectedHeld
  <2>2. g \in Groups /\ cpl[g] # <<>> /\ cpl[g][1].kind = "WRITE"
    BY DEF Holding
  <2>3. StateTaken(Withheld) = <<g>>
    BY <2>1 DEF StateTaken, Withheld, Offered
  <2>4. CplFree(g, Withheld)
    BY <2>3 DEF CplFree
  <2>5. cpl'[g] = IF Retires(g, Withheld) THEN <<ChildCompletion(res[g][1])>> ELSE <<>>
    BY <1>2, <2>2, <2>4 DEF GroupsEdge
  <2>6. ChildCompletion(res[g][1]).kind = "EXEC"
    BY DEF ChildCompletion
  <2>7. CASE Retires(g, Withheld)
    <3>1. cpl[g][1] = ChildCompletion(res[g][1])
      BY <1>3, <2>5, <2>7
    <3> QED BY <2>2, <2>6, <3>1
  <2>8. CASE ~Retires(g, Withheld)
    BY <1>3, <2>2, <2>5, <2>8
  <2> QED BY <2>7, <2>8
<1>5. Holding(cpl, "WRITE") = {}
  <2>1. FirstFrom(stateNext, GroupCount, Holding(cpl, "WRITE")) = <<>>
    BY <1>4 DEF StateSelected
  <2>2. GroupCount \in Nat \ {0} /\ stateNext \in 0 .. GroupCount - 1
        /\ Holding(cpl, "WRITE") \in SUBSET (0 .. GroupCount - 1)
    BY <1>1, FrontendAssumption DEF ReturnType, Groups, Holding
  <2> QED BY <2>1, <2>2, ScanMisses
<1>6. ASSUME NEW g \in Groups, cpl[g] # <<>> PROVE g \in HeardGroups
  <2>1. cpl[g][1].kind \in {"EXEC", "WRITE"}
    BY <1>1, <1>6 DEF GroupType, EachHolds, Holds, ChildType
  <2> QED BY <1>5, <1>6, <2>1 DEF Holding, HeardGroups
<1> QED BY <1>4, <1>6

\* Nothing stands in a group or in its return registers: the collector takes
\* what it finds, the tracker listens, so every stage would move.
LEMMA GroupsDrain ==
  ASSUME ClusterInv, HeldInv, Standstill, NEW g \in Groups
  PROVE  /\ ingress[g] = <<>> /\ pipe[g] = <<>> /\ res[g] = <<>>
         /\ cpl[g] = <<>> /\ rsp[g] = <<>>
<1>1. Cycle(Withheld, {}, {}, Slots, <<>>, FALSE) /\ {} \in WriteTurns(Withheld)
  BY DEF Standstill, WriteTurns
<1>2. PICK shown, ready, issued, refused, placed :
        WellDone(Withheld, {}, shown, ready, issued, refused, placed)
  BY <1>1, EdgeParts
<1>3. \A h \in Groups : Moved(h, Withheld, {}, shown, issued)
  BY <1>2 DEF WellDone
<1>4. /\ ingress' = ingress /\ pipe' = pipe /\ res' = res /\ cpl' = cpl /\ rsp' = rsp
  BY DEF Standstill, clusterVars, groupVars
<1>5. \A h \in Groups : ExecCpl(h)' = ExecCpl(h) /\ CplFree(h, Withheld)
  BY <1>4, NoWriteStands DEF ExecCpl, HeardGroups, Holding, CplFree
<1>6. \A h \in Groups : ApartAt(h)
  BY DEF ClusterInv, MessagesInv
<1>7. \A h \in Groups : rsp[h] = <<>>
  <2> SUFFICES ASSUME NEW h \in Groups, rsp[h] # <<>> PROVE FALSE
    OBVIOUS
  <2>1. collected = <<>> \/ "RESULT" \in Withheld
    BY DEF Withheld, Offered
  <2>2. Captured(Withheld) = FirstFrom(collectNext, GroupCount, Full(rsp))
    BY <2>1 DEF Captured
  <2>3. GroupCount \in Nat \ {0} /\ collectNext \in 0 .. GroupCount - 1
        /\ Full(rsp) \in SUBSET (0 .. GroupCount - 1) /\ Full(rsp) # {}
    BY FrontendAssumption DEF ClusterInv, ReturnType, Groups, Full
  <2>4. PICK k \in Full(rsp) : Captured(Withheld) = <<k>>
    BY <2>2, <2>3, ScanFinds
  <2>5. k \in Groups /\ rsp[k] # <<>>
    BY DEF Full
  <2>6. rsp'[k] = IF Retires(k, Withheld) /\ res[k][1].op \in ResultOps
                  THEN <<ResultRecord(k, res[k][1])>> ELSE <<>>
    BY <1>3, <2>4, <2>5 DEF Moved
  <2>7. Retires(k, Withheld) /\ res[k][1].op \in ResultOps
        /\ rsp[k] = <<ResultRecord(k, res[k][1])>>
    BY <1>4, <2>5, <2>6
  <2>8. Promised(res[k]) = res[k] /\ res[k] # <<>>
    BY <2>7 DEF Retires, Promised
  <2>9. SameKey(res[k][1], rsp[k][1])
    BY <2>7 DEF SameKey, ResultRecord
  <2> QED BY <1>6, <2>5, <2>8, <2>9 DEF ApartAt, Apart
<1>8. res[g] = <<>>
  <2> SUFFICES ASSUME res[g] # <<>> PROVE FALSE
    OBVIOUS
  <2>1. Retires(g, Withheld)
    BY <1>5, <1>7 DEF Retires, RspFree
  <2>2. ExecCpl(g) = <<ChildCompletion(res[g][1])>>
    BY <1>3, <1>5, <2>1 DEF Moved
  <2>3. SameKey(res[g][1], ExecCpl(g)[1])
    BY <2>2 DEF SameKey, ChildCompletion
  <2> QED BY <1>6, <2>2, <2>3 DEF ApartAt, Apart
<1>9. pipe[g] = <<>>
  <2> SUFFICES ASSUME pipe[g] # <<>> PROVE FALSE
    OBVIOUS
  <2>1. Advances(g, Withheld)
    BY <1>8 DEF Advances
  <2> QED BY <1>3, <1>4, <1>8, <2>1 DEF Moved
<1>10. ingress[g] = <<>>
  <2> SUFFICES ASSUME ingress[g] # <<>> PROVE FALSE
    OBVIOUS
  <2>1. g \in Drained(Withheld, {})
    BY <1>9 DEF Drained, Full
  <2> QED BY <1>3, <1>4, <1>9, <2>1 DEF Moved
<1>11. cpl[g] = <<>>
  <2>1. ExecCpl(g) = <<>>
    BY <1>3, <1>5, <1>8 DEF Moved, Retires
  <2> QED BY <2>1, NoWriteStands DEF ExecCpl
<1> QED BY <1>7, <1>8, <1>9, <1>10, <1>11

\* What loses its head is another sequence.
LEMMA TailDiffers ==
  ASSUME NEW S, NEW q \in Seq(S), q # <<>>
  PROVE  Tail(q) \o <<>> # q
<1>1. Len(q) \in Nat /\ Tail(q) \in Seq(S) /\ Len(Tail(q)) = Len(q) - 1
  OBVIOUS
<1>2. Tail(q) \o <<>> = Tail(q)
  BY <1>1, ConcatEmptySeq, Zenon
<1>3. \A n \in Nat : n - 1 # n
  OBVIOUS
<1>4. Len(Tail(q)) # Len(q)
  BY <1>1, <1>3, Zenon
<1> QED BY <1>2, <1>4, Zenon

\* No command leaves the front end, so every command shown is a locked one.
LEMMA SlotsStand ==
  ASSUME ClusterInv, Standstill
  PROVE  /\ Presented = shadow
         /\ Granted(shadow, Dispatchable(shadow, IngressReady(Withheld, {}), Slots)) = {}
<1> DEFINE issued == Granted(Presented, Dispatchable(Presented, IngressReady(Withheld, {}), Slots))
           gone == issued \cup Refusable(Presented, RejectCredit(Withheld))
<1>1. FrontendEdge(Presented, gone, <<>>)
  BY Zenon DEF Standstill, Cycle
<1>2. queue' = queue /\ shadow' = shadow
  BY DEF Standstill, clusterVars, frontendVars
<1>3. WellShown(Presented) /\ FrontType
  BY PresentedWell DEF ClusterInv
<1>4. gone \subseteq Showing(Presented)
  BY DEF Granted, Wanting, Dispatchable, Refusable, Malformed
<1> HIDE DEF issued
<1>5. gone = {}
  <2> SUFFICES ASSUME NEW s \in gone PROVE FALSE
    OBVIOUS
  <2> DEFINE c == Presented[s][1].context
  <2>1. c \in Contexts /\ queue[c] # <<>> /\ c \in Popped(Presented, gone)
    BY <1>3, <1>4 DEF WellShown, Command, Popped
  <2>2. queue'[c] = Tail(queue[c]) \o Arriving(<<>>, c)
    BY <1>1, <2>1 DEF FrontendEdge
  <2>3. queue[c] \in Seq(Command) /\ Arriving(<<>>, c) = <<>>
    BY <1>3, <2>1 DEF FrontType, Arriving
  <2> HIDE DEF c
  <2> QED BY <1>2, <2>1, <2>2, <2>3, TailDiffers
<1>6. Presented = shadow
  <2>1. shadow' = [s \in Slots |-> IF s \in gone THEN <<>> ELSE Presented[s]]
    BY <1>1, Zenon DEF FrontendEdge
  <2>2. shadow' = [s \in Slots |-> Presented[s]]
    BY <1>5, <2>1
  <2>3. Presented = [s \in Slots |-> Presented[s]]
    BY DEF Presented
  <2> QED BY <1>2, <2>2, <2>3, Zenon
<1> QED BY <1>5, <1>6 DEF issued

\* Of the commands locked in the slots none could go.
LEMMA LockedStuck ==
  ASSUME ClusterInv, HeldInv, Standstill, NEW s \in Locked, FreeEntries # {}
  PROVE  Owned(shadow[s][1]) => Busy(shadow[s][1])
<1> SUFFICES ASSUME Owned(shadow[s][1]), ~Busy(shadow[s][1]) PROVE FALSE
  OBVIOUS
<1> DEFINE offered == Dispatchable(shadow, IngressReady(Withheld, {}), Slots)
           wanting == Wanting(shadow, offered)
<1>1. s \in Slots /\ shadow[s] # <<>> /\ shadow[s][1].groups \subseteq Groups
  BY DEF Locked, ClusterInv, FrontType, EachHolds, Holds, Command
<1>2. IngressReady(Withheld, {}) = Groups
  <2>1. Full(ingress) = {}
    BY GroupsDrain DEF Full
  <2> QED BY <2>1 DEF IngressReady, Drained
<1>3. s \in wanting /\ wanting \subseteq Slots
  BY <1>1, <1>2 DEF Wanting, Dispatchable, Showing
<1>4. wanting \in SUBSET Nat /\ wanting # {} /\ IsFiniteSet(FreeEntries)
  BY <1>3, Geometry, FS_Difference DEF FreeEntries
<1>5. PICK t \in wanting : \A u \in wanting : t =< u
  BY <1>4, Least
<1>6. Before(wanting, t) = 0
  <2>1. {u \in wanting : u < t} = {}
    BY <1>4, <1>5
  <2> QED BY <2>1, FS_EmptySet DEF Before
<1>7. Cardinality(FreeEntries) \in Nat /\ Cardinality(FreeEntries) # 0
  BY <1>4, FS_EmptySet, FS_CardinalityType
<1>8. t \in Granted(shadow, offered)
  BY <1>6, <1>7 DEF Granted
<1> QED BY <1>8, SlotsStand

\* An unlocked slot takes some head that no locked slot stands in the way of.
LEMMA NoCandidate ==
  ASSUME ClusterInv, Standstill, Locked # Slots
  PROVE  Candidates = {}
<1> SUFFICES ASSUME Candidates # {} PROVE FALSE
  OBVIOUS
<1>1. PICK s \in Slots \ Locked : \A t \in Slots \ Locked : s =< t
  <2>1. Slots \ Locked \in SUBSET Nat /\ Slots \ Locked # {}
    BY Geometry DEF Locked
  <2> QED BY <2>1, Least
<1>2. ContextCount \in Nat \ {0} /\ rrBase \in 0 .. ContextCount - 1
      /\ Candidates \in SUBSET (0 .. ContextCount - 1)
  BY FrontendAssumption DEF ClusterInv, Contexts, Candidates
<1>3. \A c \in Candidates : Distance(c) \in Nat
  BY <1>2 DEF Distance, Steps
<1> DEFINE D == {Distance(c) : c \in Candidates}
<1>4. PICK d \in D : \A k \in D : d =< k
  <2>1. D \in SUBSET Nat /\ D # {}
    BY <1>3
  <2> QED BY <2>1, Least
<1>5. PICK c \in Candidates : Distance(c) = d
  BY <1>4
<1>6. Turn(c) = 0
  <2>1. {e \in Candidates : Distance(e) < Distance(c)} = {}
    BY <1>3, <1>4, <1>5
  <2> QED BY <2>1, FS_EmptySet DEF Turn
<1>7. Cardinality({t \in Slots \ Locked : t < s}) = 0
  <2>1. {t \in Slots \ Locked : t < s} = {}
    <3>1. \A t \in Slots \ Locked : t \in Nat /\ s \in Nat /\ s =< t
      BY <1>1, Geometry
    <3> QED BY <3>1
  <2> QED BY <2>1, FS_EmptySet
<1>8. c \in Selected(s)
  BY <1>6, <1>7 DEF Selected
<1>9. Presented[s] # <<>>
  <2>1. Presented[s] = IF s \in Locked THEN shadow[s]
                       ELSE IF Selected(s) = {} THEN <<>>
                       ELSE <<Head(queue[CHOOSE k \in Selected(s) : TRUE])>>
    BY DEF Presented
  <2> QED BY <1>8, <2>1
<1>10. shadow[s] = <<>>
  BY DEF Locked
<1> QED BY <1>9, <1>10, SlotsStand

\* When the cluster stands still, a command that owns its groups, whose key is
\* free and for which there is an entry waits at the head of its queue only
\* while every issue slot is locked by a command of another context that is
\* malformed (its rejection finds no room) or has a key that is still busy.
THEOREM StandstillHasCause ==
  ASSUME ClusterInv, HeldInv, Standstill, NEW c \in Contexts, Waits(c)
  PROVE  /\ Locked = Slots
         /\ \A s \in Slots :
              /\ shadow[s][1].context # c
              /\ Owned(shadow[s][1]) => Busy(shadow[s][1])
<1> DEFINE h == Head(queue[c])
<1>1. queue[c] # <<>> /\ Owned(h) /\ ~Busy(h) /\ FreeEntries # {}
  BY DEF Waits
<1>2. ASSUME NEW s \in Locked PROVE shadow[s][1].context # c
  <2> SUFFICES ASSUME shadow[s][1].context = c PROVE FALSE
    OBVIOUS
  <2>1. shadow[s][1] = h
    BY DEF ClusterInv, SlotInv
  <2> QED BY <1>1, <2>1, LockedStuck
<1>3. h.context = c
  <2>1. queue[c] \in Seq(Command) /\ queue[c] # <<>>
    BY <1>1 DEF ClusterInv, FrontType
  <2>2. h = queue[c][1] /\ 1 \in 1 .. Len(queue[c])
    BY <2>1
  <2> QED BY <2>2 DEF ClusterInv, QueueInv
<1> HIDE DEF h
<1>4. h.groups \cap Reserved = {}
  <2> SUFFICES ASSUME NEW g \in h.groups, g \in Reserved PROVE FALSE
    OBVIOUS
  <2>1. PICK s \in Locked : Owned(shadow[s][1]) /\ g \in shadow[s][1].groups
    BY DEF Reserved
  <2>2. owner[g] = shadow[s][1].context /\ owner[g] = c
    BY <1>1, <1>3, <2>1 DEF Owned
  <2> QED BY <1>2, <2>2
<1>5. c \in Candidates
  BY <1>1, <1>2, <1>4 DEF Candidates, h
<1>6. Locked = Slots
  BY <1>5, NoCandidate
<1> QED BY <1>1, <1>2, <1>6, LockedStuck

\* With an issue slot for every context nobody can be locked out: whoever waits
\* in that way, the next edge changes something.  This is OwnerIsNotBlocked
\* with the enabled edge spelt out; with fewer slots it does not hold, since
\* malformed commands that cannot be rejected may occupy all of them.
THEOREM OwnerMoves ==
  ASSUME SlotCount = ContextCount, ClusterInv, HeldInv,
         Cycle(Withheld, {}, {}, Slots, <<>>, FALSE), NEW c \in Contexts, Waits(c)
  PROVE  clusterVars' # clusterVars
<1> SUFFICES ASSUME UNCHANGED clusterVars PROVE FALSE
  OBVIOUS
<1>1. Standstill
  BY DEF Standstill
<1>2. Locked = Slots /\ \A s \in Slots : shadow[s][1].context # c
  BY <1>1, StandstillHasCause, Zenon
<1> DEFINE f == [s \in Slots |-> shadow[s][1].context]
<1>3. Slots = Contexts /\ IsFiniteSet(Contexts)
  BY Geometry DEF Slots, Contexts
<1>4. f \in Injection(Slots, Contexts)
  <2>1. \A s \in Slots : shadow[s][1].context \in Contexts
    BY <1>2 DEF ClusterInv, FrontType, EachHolds, Holds, Locked, Command
  <2>2. \A s, t \in Slots : shadow[s][1].context = shadow[t][1].context => s = t
    BY <1>2 DEF ClusterInv, SlotInv
  <2> QED BY <2>1, <2>2 DEF Injection, IsInjective
<1>5. f \in Surjection(Slots, Contexts)
  BY <1>3, <1>4, FS_Injection
<1>6. \E s \in Slots : f[s] = c
  BY <1>5 DEF Surjection
<1> QED BY <1>2, <1>6

----------------------------------------------------------------------------
(* Bags of reports                                                         *)

\* How often an element is in a bag, and what the operators do to that.
LEMMA BagFacts ==
  /\ \A A : DOMAIN SetToBag(A) = A /\ \A e \in A : SetToBag(A)[e] = 1
  /\ \A A : SetToBag(A) = [e \in A |-> 1]
BY DEF SetToBag

\* What was put in can be taken out.
LEMMA BagTake ==
  ASSUME NEW A, NEW B
  PROVE  (SetToBag(A) (+) SetToBag(B)) (-) SetToBag(A) = SetToBag(B)
<1> DEFINE S == SetToBag(A) (+) SetToBag(B)
<1>1. S = [e \in A \cup B |-> (IF e \in A THEN 1 ELSE 0) + (IF e \in B THEN 1 ELSE 0)]
  BY BagFacts DEF (+)
<1>2. DOMAIN S = A \cup B
      /\ \A e \in A \cup B : S[e] = (IF e \in A THEN 1 ELSE 0) + (IF e \in B THEN 1 ELSE 0)
  BY <1>1
<1> HIDE DEF S
<1> DEFINE d == [e \in DOMAIN S |-> IF e \in A THEN S[e] - SetToBag(A)[e] ELSE S[e]]
<1>3. S (-) SetToBag(A) = [e \in {x \in DOMAIN d : d[x] > 0} |-> d[e]]
  BY BagFacts DEF (-)
<1>4. DOMAIN d = A \cup B /\ \A e \in A \cup B : d[e] = IF e \in B THEN 1 ELSE 0
  BY <1>2, BagFacts
<1> HIDE DEF d
<1>5. {x \in DOMAIN d : d[x] > 0} = B
  BY <1>4
<1>6. S (-) SetToBag(A) = [e \in B |-> 1]
  BY <1>3, <1>4, <1>5
<1> QED BY <1>6, BagFacts DEF S

\* A sum of two sets, element by element
LEMMA BagSum ==
  ASSUME NEW C, NEW D
  PROVE  /\ SetToBag(C) (+) SetToBag(D)
              = [e \in C \cup D |-> (IF e \in C THEN 1 ELSE 0) + (IF e \in D THEN 1 ELSE 0)]
         /\ DOMAIN (SetToBag(C) (+) SetToBag(D)) = C \cup D
         /\ \A e \in C \cup D : /\ (SetToBag(C) (+) SetToBag(D))[e] \in Nat
                                /\ (SetToBag(C) (+) SetToBag(D))[e] > 0
<1>1. SetToBag(C) (+) SetToBag(D)
        = [e \in C \cup D |-> (IF e \in C THEN 1 ELSE 0) + (IF e \in D THEN 1 ELSE 0)]
  BY BagFacts DEF (+)
<1> QED BY <1>1

\* Nothing taken out, nothing put in
LEMMA BagNone ==
  ASSUME NEW A, NEW B
  PROVE  /\ (SetToBag(A) (+) SetToBag(B)) (-) SetToBag({}) = SetToBag(A) (+) SetToBag(B)
         /\ (SetToBag(A) (+) SetToBag(B)) (+) SetToBag({}) = SetToBag(A) (+) SetToBag(B)
         /\ SetToBag(A) (+) SetToBag({}) = SetToBag(A)
         /\ SetToBag({}) (+) SetToBag(A) = SetToBag(A)
         /\ SetToBag(A) (+) SetToBag(B) = SetToBag(B) (+) SetToBag(A)
<1> DEFINE S == SetToBag(A) (+) SetToBag(B)
<1>1. /\ S = [e \in A \cup B |-> S[e]] /\ DOMAIN S = A \cup B
      /\ \A e \in A \cup B : S[e] \in Nat /\ S[e] > 0
  <2>1. S = [e \in A \cup B |-> (IF e \in A THEN 1 ELSE 0) + (IF e \in B THEN 1 ELSE 0)]
    BY BagSum
  <2>2. DOMAIN S = A \cup B /\ \A e \in A \cup B : S[e] \in Nat /\ S[e] > 0
    BY BagSum
  <2> HIDE DEF S
  <2> QED BY <2>1, <2>2
<1>2. SetToBag(A) (+) SetToBag({}) = SetToBag(A)
  <2>1. SetToBag(A) (+) SetToBag({})
          = [e \in A \cup {} |-> (IF e \in A THEN 1 ELSE 0) + (IF e \in {} THEN 1 ELSE 0)]
    BY BagSum
  <2>2. SetToBag(A) (+) SetToBag({}) = [e \in A |-> 1]
    BY <2>1
  <2> QED BY <2>2, BagFacts
<1>3. S = SetToBag(B) (+) SetToBag(A)
  <2>1. S = [e \in A \cup B |-> (IF e \in A THEN 1 ELSE 0) + (IF e \in B THEN 1 ELSE 0)]
    BY BagSum
  <2>2. SetToBag(B) (+) SetToBag(A)
          = [e \in B \cup A |-> (IF e \in B THEN 1 ELSE 0) + (IF e \in A THEN 1 ELSE 0)]
    BY BagSum
  <2> HIDE DEF S
  <2> QED BY <2>1, <2>2
<1>4. SetToBag({}) (+) SetToBag(A) = SetToBag(A)
  <2>1. SetToBag({}) (+) SetToBag(A)
          = [e \in {} \cup A |-> (IF e \in {} THEN 1 ELSE 0) + (IF e \in A THEN 1 ELSE 0)]
    BY BagSum
  <2>2. SetToBag({}) (+) SetToBag(A) = [e \in A |-> 1]
    BY <2>1
  <2> QED BY <2>2, BagFacts
<1> HIDE DEF S
<1>5. S (+) SetToBag({}) = S
  <2>1. S (+) SetToBag({}) = [e \in (DOMAIN S) \cup {} |->
          (IF e \in DOMAIN S THEN S[e] ELSE 0) + (IF e \in {} THEN SetToBag({})[e] ELSE 0)]
    BY BagFacts DEF (+)
  <2>2. S (+) SetToBag({}) = [e \in A \cup B |-> S[e]]
    BY <1>1, <2>1
  <2> QED BY <1>1, <2>2
<1>6. S (-) SetToBag({}) = S
  <2> DEFINE d == [e \in DOMAIN S |-> IF e \in {} THEN S[e] - SetToBag({})[e] ELSE S[e]]
  <2>1. S (-) SetToBag({}) = [e \in {x \in DOMAIN d : d[x] > 0} |-> d[e]]
    BY BagFacts DEF (-)
  <2>2. DOMAIN d = A \cup B /\ \A e \in A \cup B : d[e] = S[e]
    BY <1>1
  <2> HIDE DEF d
  <2>3. {x \in DOMAIN d : d[x] > 0} = A \cup B
    BY <1>1, <2>2
  <2> QED BY <1>1, <2>1, <2>2, <2>3
<1> QED BY <1>2, <1>3, <1>4, <1>5, <1>6 DEF S

\* What a register of at most one report holds
In(register) == IF register = <<>> THEN {} ELSE {register[1]}
Rejected == IF reject = <<>> THEN {} ELSE {Rejection(reject[1])}

\* The bag of what a register holds
LEMMA RegisterBag ==
  ASSUME NEW U, NEW r, Holds(r, U)
  PROVE  /\ BagOf(r) = SetToBag(In(r))
         /\ BagOf(IF r = <<>> THEN <<>> ELSE <<Rejection(r[1])>>)
              = SetToBag(IF r = <<>> THEN {} ELSE {Rejection(r[1])})
<1>1. \A x : {<<x>>[i] : i \in DOMAIN <<x>>} = {x}
  <2> TAKE x
  <2>1. DOMAIN <<x>> = {1} /\ <<x>>[1] = x
    OBVIOUS
  <2> QED BY <2>1
<1>2. {<<>>[i] : i \in DOMAIN <<>>} = {}
  OBVIOUS
<1>3. CASE r = <<>>
  BY <1>2, <1>3 DEF BagOf, In
<1>4. CASE r # <<>>
  <2>1. PICK x, y : x = r[1] /\ y = Rejection(r[1])
    OBVIOUS
  <2>2. r = <<x>>
    BY <1>4, <2>1 DEF Holds
  <2>3. In(r) = {x}
    BY <1>4, <2>1 DEF In
  <2>4. BagOf(r) = SetToBag(In(r))
    BY <1>1, <2>2, <2>3 DEF BagOf
  <2>5. PICK q : q = IF r = <<>> THEN <<>> ELSE <<Rejection(r[1])>>
    OBVIOUS
  <2>6. q = <<y>>
    BY <1>4, <2>1, <2>5
  <2>7. BagOf(q) = SetToBag({y})
    BY <1>1, <2>6 DEF BagOf
  <2>8. (IF r = <<>> THEN {} ELSE {Rejection(r[1])}) = {y}
    BY <1>4, <2>1
  <2> QED BY <2>4, <2>5, <2>7, <2>8
<1> QED BY <1>3, <1>4

\* The bag of the reports on their way, before the edge and after it
OnTheirWay == BagOf(completion) (+) BagOf(IF reject = <<>> THEN <<>> ELSE <<Rejection(reject[1])>>)

\* It holds what the two registers hold.
LEMMA ReportsAre ==
  /\ ReportsType => OnTheirWay = SetToBag(In(completion)) (+) SetToBag(Rejected)
  /\ ReportsType' => OnTheirWay' = SetToBag(In(completion')) (+) SetToBag(Rejected')
<1>1. ASSUME ReportsType
      PROVE  OnTheirWay = SetToBag(In(completion)) (+) SetToBag(Rejected)
  <2>1. Holds(completion, ReportType) /\ Holds(reject, Command)
    BY <1>1 DEF ReportsType
  <2>2. BagOf(completion) = SetToBag(In(completion))
    BY <2>1, RegisterBag
  <2>3. BagOf(IF reject = <<>> THEN <<>> ELSE <<Rejection(reject[1])>>) = SetToBag(Rejected)
    BY <2>1, RegisterBag DEF Rejected
  <2> QED BY <2>2, <2>3 DEF OnTheirWay
<1>2. ASSUME ReportsType'
      PROVE  OnTheirWay' = SetToBag(In(completion')) (+) SetToBag(Rejected')
  <2>1. Holds(completion', ReportType) /\ Holds(reject', Command)
    BY <1>2 DEF ReportsType
  <2>2. BagOf(completion') = SetToBag(In(completion'))
    BY <2>1, RegisterBag
  <2>3. BagOf(IF reject' = <<>> THEN <<>> ELSE <<Rejection(reject'[1])>>) = SetToBag(Rejected')
    BY <2>1, RegisterBag DEF Rejected
  <2> QED BY <2>2, <2>3 DEF OnTheirWay
<1> QED BY <1>1, <1>2

\* One command at most is refused, and only when the buffer can take it.
LEMMA RefusedOnce ==
  ASSUME NEW taken, NEW shown, NEW refused, refused = Refusable(shown, RejectCredit(taken))
  PROVE  \/ refused = {}
         \/ \E s \in Malformed(shown) : refused = {s} /\ RejectCredit(taken)
<1> SUFFICES ASSUME refused # {}
             PROVE  \E s \in Malformed(shown) : refused = {s} /\ RejectCredit(taken)
  OBVIOUS
<1>1. PICK s : s \in refused
  OBVIOUS
<1>2. /\ refused \subseteq Malformed(shown) /\ RejectCredit(taken)
      /\ \A t \in refused : \A u \in Malformed(shown) : t =< u
  BY <1>1 DEF Refusable
<1>3. Malformed(shown) \in SUBSET Nat
  BY Geometry DEF Malformed, Showing
<1>4. \A t \in refused : t = s
  <2> TAKE t \in refused
  <2>1. t =< s /\ s =< t
    BY <1>1, <1>2
  <2>2. t \in Nat /\ s \in Nat
    BY <1>1, <1>2, <1>3
  <2> QED BY <2>1, <2>2
<1> QED BY <1>1, <1>2, <1>4

\* The reports after an edge: those before it without the one delivered, and
\* with the one the tracker gives up and the command that is refused.
Told(taken) == IF "COMPLETION" \in taken THEN In(completion) ELSE {}
Closing(taken) == IF FromTracker(taken) THEN {Report(X(Done[1]))} ELSE {}
NowRejected(shown, refused) == {Rejection(shown[s][1]) : s \in refused}

\* So the bag changes as OrderedCluster says.
LEMMA ReportsMove ==
  ASSUME ReportsType, NEW taken, taken \subseteq Offered, NEW shown, NEW refused,
         refused = Refusable(shown, RejectCredit(taken)), WellShown(shown),
         ReportsEdge(taken, shown, refused)
  PROVE  SetToBag(In(completion')) (+) SetToBag(Rejected')
           = (((SetToBag(In(completion)) (+) SetToBag(Rejected)) (-) SetToBag(Told(taken)))
              (+) SetToBag(Closing(taken))) (+) SetToBag(NowRejected(shown, refused))
<1>1. refused = {} \/ \E s \in Malformed(shown) : refused = {s} /\ RejectCredit(taken)
  BY RefusedOnce
<1> DEFINE N == NowRejected(shown, refused)
<1>2. \/ refused = {} /\ N = {}
      \/ /\ refused # {} /\ RejectCredit(taken)
         /\ \E s \in Malformed(shown) :
              refused = {s} /\ N = {Rejection(shown[s][1])} /\ shown[s] = <<shown[s][1]>>
  <2>1. CASE refused = {}
    BY <2>1 DEF NowRejected
  <2>2. CASE refused # {}
    <3>1. PICK s \in Malformed(shown) : refused = {s} /\ RejectCredit(taken)
      BY <1>1, <2>2
    <3>2. N = {Rejection(shown[s][1])}
      BY <3>1 DEF NowRejected
    <3>3. shown[s] = <<shown[s][1]>>
      BY <3>1 DEF WellShown, EachHolds, Holds, Malformed, Showing
    <3> QED BY <2>2, <3>1, <3>2, <3>3
  <2> QED BY <2>1, <2>2
<1>3. reject' = IF refused # {} THEN shown[CHOOSE s \in refused : TRUE]
                ELSE IF FromReject(taken) THEN <<>> ELSE reject
  BY DEF ReportsEdge
<1>4. Rejected' = IF refused # {} THEN N ELSE IF FromReject(taken) THEN {} ELSE Rejected
  <2>1. CASE refused = {}
    BY <1>3, <2>1 DEF Rejected
  <2>2. CASE refused # {}
    <3>1. PICK s \in Malformed(shown) :
            refused = {s} /\ N = {Rejection(shown[s][1])} /\ shown[s] = <<shown[s][1]>>
      BY <1>2, <2>2
    <3>2. reject' = shown[s]
      BY <1>3, <3>1
    <3>3. reject' # <<>> /\ reject'[1] = shown[s][1]
      BY <3>1, <3>2
    <3> QED BY <2>2, <3>1, <3>3 DEF Rejected
  <2> QED BY <2>1, <2>2
<1>5. completion' = IF FromTracker(taken) THEN <<Report(entry[Done[1]][1])>>
                    ELSE IF FromReject(taken) THEN <<Rejection(reject[1])>>
                    ELSE IF CanReport(taken) THEN <<>> ELSE completion
  BY DEF ReportsEdge
<1>6. In(completion') = IF FromTracker(taken) THEN Closing(taken)
                        ELSE IF FromReject(taken) THEN Rejected
                        ELSE IF CanReport(taken) THEN {} ELSE In(completion)
  <2>1. CASE FromTracker(taken)
    BY <1>5, <2>1 DEF In, Closing, X
  <2>2. CASE ~FromTracker(taken) /\ FromReject(taken)
    <3>1. reject # <<>>
      BY <2>2 DEF FromReject
    <3> QED BY <1>5, <2>2, <3>1 DEF In, Rejected
  <2>3. CASE ~FromTracker(taken) /\ ~FromReject(taken)
    BY <1>5, <2>3 DEF In
  <2> QED BY <2>1, <2>2, <2>3
<1>7. /\ FromTracker(taken) => CanReport(taken) /\ ~FromReject(taken)
      /\ FromReject(taken) => CanReport(taken)
      /\ refused # {} => reject = <<>> \/ FromReject(taken)
  BY <1>2 DEF FromTracker, FromReject, RejectCredit
<1>8. (reject = <<>>) => Rejected = {}
  BY DEF Rejected
<1>9. CanReport(taken) => Told(taken) = In(completion)
  BY DEF CanReport, Told, In
<1>10. ~CanReport(taken) => Told(taken) = {}
  BY DEF CanReport, Told
<1>11. ~FromTracker(taken) => Closing(taken) = {}
  BY DEF Closing
<1> HIDE DEF N
<1> DEFINE C == In(completion)
           R == Rejected
           K == Closing(taken)
           left == (SetToBag(C) (+) SetToBag(R)) (-) SetToBag(Told(taken))
<1>12. left = IF CanReport(taken) THEN SetToBag(R) ELSE SetToBag(C) (+) SetToBag(R)
  BY <1>9, <1>10, BagTake, BagNone
<1>13. SetToBag(In(completion')) (+) SetToBag(Rejected') = (left (+) SetToBag(K)) (+) SetToBag(N)
  <2> HIDE DEF C, R, K, left
  <2>1. CASE FromTracker(taken)
    <3>1. In(completion') = K /\ left = SetToBag(R)
      BY <1>6, <1>7, <1>12, <2>1 DEF K
    <3>2. CASE refused = {}
      <4>1. N = {} /\ Rejected' = R
        BY <1>2, <1>4, <1>7, <2>1, <3>2 DEF R
      <4> QED BY <3>1, <4>1, BagNone
    <3>3. CASE refused # {}
      <4>1. R = {} /\ Rejected' = N
        BY <1>4, <1>7, <1>8, <2>1, <3>3 DEF R
      <4> QED BY <3>1, <4>1, BagNone
    <3> QED BY <3>2, <3>3
  <2>2. CASE FromReject(taken)
    <3>1. In(completion') = R /\ left = SetToBag(R) /\ K = {}
      BY <1>6, <1>7, <1>11, <1>12, <2>2 DEF K, R
    <3>2. Rejected' = N
      BY <1>2, <1>4, <2>2
    <3> QED BY <3>1, <3>2, BagNone
  <2>3. CASE ~FromTracker(taken) /\ ~FromReject(taken) /\ CanReport(taken)
    <3>1. In(completion') = {} /\ left = SetToBag(R) /\ K = {}
      BY <1>6, <1>11, <1>12, <2>3 DEF K
    <3>2. \/ N = {} /\ Rejected' = R
          \/ R = {} /\ Rejected' = N
      BY <1>2, <1>4, <1>7, <1>8, <2>3 DEF R
    <3> QED BY <3>1, <3>2, BagNone
  <2>4. CASE ~CanReport(taken)
    <3>1. In(completion') = C /\ left = SetToBag(C) (+) SetToBag(R) /\ K = {}
      BY <1>6, <1>7, <1>11, <1>12, <2>4 DEF K, C
    <3>2. \/ N = {} /\ Rejected' = R
          \/ R = {} /\ Rejected' = N
      BY <1>2, <1>4, <1>7, <1>8, <2>4 DEF R
    <3> QED BY <3>1, <3>2, BagNone
  <2> QED BY <2>1, <2>2, <2>3, <2>4
<1> QED BY <1>13 DEF N

----------------------------------------------------------------------------
(* Verdicts                                                                *)

\* The verdict of an entry that stays has heard every group it hears now.
LEMMA VerdictHeard ==
  ASSUME EntryInv, MessagesInv, GroupType, collectNext \in Groups,
         NEW taken, NEW shown, NEW issued, NEW placed, NEW clear,
         WellPlaced(placed, shown, issued),
         TrackerEdge(Reports, Retired(taken), Fired(taken), placed, clear),
         NEW e \in Used, e \in Used'
  PROVE  X(e)'.illegal = Verdicts(e)
<1>1. e \in Entries /\ e \notin DOMAIN placed /\ entry[e] # <<>> /\ entry'[e] # <<>>
  BY DEF Used, WellPlaced, FreeEntries
<1>2. entry'[e] = <<Heard(e, Reports, Retired(taken), Fired(taken))>>
  BY <1>1 DEF TrackerEdge
<1>3. X(e)' = Heard(e, Reports, Retired(taken), Fired(taken))
  BY <1>2 DEF X
<1>4. X(e) \in EntryType /\ X(e) = entry[e][1]
  BY <1>1 DEF EntryInv, EachHolds, Holds, X
<1>5. X(e)'.illegal = X(e).illegal
                      \cup {g \in Reporting(e, Reports) : Reports[g].illegal}
                      \cup Mismatched(e, Reports)
  BY <1>3, <1>4 DEF Heard, EntryType
<1>6. Mismatched(e, Reports) = {}
  BY NoFault
<1>7. Reporting(e, Reports) = {g \in Groups : Has(ExecCpl(g), X(e))}
  BY Booked
<1>8. {g \in Reporting(e, Reports) : Reports[g].illegal}
      = {g \in HeardGroups : SameKey(cpl[g][1], entry[e][1]) /\ cpl[g][1].illegal}
  <2>1. \A g \in HeardGroups : Reports[g] = cpl[g][1] /\ g \in Groups /\ cpl[g] # <<>>
    BY DEF Reports, HeardGroups, Holding
  <2>2. \A g \in Groups : Has(ExecCpl(g), X(e)) <=>
          g \in HeardGroups /\ SameKey(cpl[g][1], entry[e][1])
    BY <1>4, <2>1 DEF ExecCpl, Has
  <2> QED BY <1>7, <2>1, <2>2
<1> QED BY <1>4, <1>5, <1>6, <1>8 DEF Verdicts

\* The oldest command of a group is the one in its result stage.
LEMMA OldestFirst ==
  ASSUME GroupType, NEW g \in Groups, res[g] # <<>>
  PROVE  Inside(g) # <<>> /\ Head(Inside(g)) = res[g][1] /\ Tail(Inside(g)) = pipe[g] \o ingress[g]
<1>1. PICK a, b, c : a = res[g] /\ b = pipe[g] /\ c = ingress[g]
  OBVIOUS
<1>2. Holds(a, Command) /\ Holds(b, Command) /\ Holds(c, Command) /\ a # <<>>
  BY <1>1 DEF GroupType, EachHolds
<1>3. a \in Seq(Command) /\ b \in Seq(Command) /\ c \in Seq(Command)
  BY <1>2, RegisterRow
<1>4. PICK m \in Command : a = <<m>>
  BY <1>2 DEF Holds
<1>5. PICK r : r = b \o c
  OBVIOUS
<1>6. r \in Seq(Command) /\ (a \o b) \o c = <<m>> \o r
  BY <1>3, <1>4, <1>5
<1>7. <<m>> \o r # <<>> /\ Head(<<m>> \o r) = m /\ Tail(<<m>> \o r) = r
  BY <1>6
<1>8. Inside(g) = (a \o b) \o c
  BY <1>1, Zenon DEF Inside
<1>9. r = pipe[g] \o ingress[g]
  BY <1>1, <1>5, Zenon
<1>10. res[g][1] = m
  BY <1>1, <1>4
<1>11. Inside(g) = <<m>> \o r
  BY <1>6, <1>8, Zenon
<1> QED BY <1>7, <1>9, <1>10, <1>11, Zenon

\* The groups that execute at an edge
Running(taken) == {g \in Groups : Retires(g, taken)}

\* To the verdict of a command an edge adds the groups that refuse it now.
LEMMA VerdictMoves ==
  ASSUME GroupType, NEW taken, NEW turns, NEW shown, NEW issued,
         \A g \in Groups : Moved(g, taken, turns, shown, issued),
         NEW e \in Used, Kept(e, taken), X(e)'.illegal = Verdicts(e)
  PROVE  Verdicts(e)' = Verdicts(e) \cup
           {g \in Running(taken) : /\ SameKey(Head(Inside(g)), X(e))
                                   /\ Head(Inside(g)).op \in RefusedOps}
<1>1. \A g \in Groups : ExecCpl(g)' = IF Retires(g, taken)
                                      THEN <<ChildCompletion(res[g][1])>> ELSE <<>>
  BY DEF Moved
<1>2. \A g \in HeardGroups' : g \in Groups /\ cpl'[g] # <<>> /\ ExecCpl(g)' = cpl'[g]
  BY DEF HeardGroups, Holding, ExecCpl
<1>3. \A g \in Groups : g \notin HeardGroups' => ExecCpl(g)' = <<>>
  BY DEF ExecCpl
<1>4. \A g \in Groups : g \in HeardGroups' <=> Retires(g, taken)
  BY <1>1, <1>2, <1>3
<1>5. \A g \in HeardGroups' : /\ Retires(g, taken) /\ res[g] # <<>>
                              /\ cpl'[g][1] = ChildCompletion(res[g][1])
                              /\ Head(Inside(g)) = res[g][1]
  <2> TAKE g \in HeardGroups'
  <2>1. g \in Groups /\ Retires(g, taken) /\ cpl'[g] = <<ChildCompletion(res[g][1])>>
    BY <1>1, <1>2, <1>4
  <2>2. res[g] # <<>>
    BY <2>1 DEF Retires
  <2>3. cpl'[g][1] = ChildCompletion(res[g][1])
    BY <2>1
  <2> QED BY <2>1, <2>2, <2>3, OldestFirst
<1>6. \A m : SameKey(m, X(e)') <=> SameKey(m, X(e))
  BY DEF Kept, SameKey
<1>7. \A g \in HeardGroups' :
        SameKey(cpl'[g][1], X(e)') /\ cpl'[g][1].illegal <=>
        SameKey(Head(Inside(g)), X(e)) /\ Head(Inside(g)).op \in RefusedOps
  <2> TAKE g \in HeardGroups'
  <2>1. PICK m : m = res[g][1]
    OBVIOUS
  <2>2. cpl'[g][1] = ChildCompletion(m) /\ Head(Inside(g)) = m
    BY <1>5, <2>1
  <2>3. cpl'[g][1].illegal <=> m.op \in RefusedOps
    <3>1. ChildCompletion(m).illegal = (m.op \in RefusedOps)
      BY DEF ChildCompletion
    <3> QED BY <2>2, <3>1, Zenon
  <2>4. SameKey(cpl'[g][1], X(e)) <=> SameKey(m, X(e))
    BY <2>2 DEF ChildCompletion, SameKey
  <2> QED BY <1>6, <2>2, <2>3, <2>4
<1>8. Verdicts(e)' = X(e)'.illegal \cup
        {g \in HeardGroups' : SameKey(cpl'[g][1], X(e)') /\ cpl'[g][1].illegal}
  BY DEF Verdicts, X
<1>9. HeardGroups' = Running(taken)
  BY <1>2, <1>4 DEF Running
<1> QED BY <1>7, <1>8, <1>9

----------------------------------------------------------------------------
(* Rows                                                                    *)

\* Two rows, one behind the other
Join(r, s) == r \o s

\* Joining is associative.
LEMMA Joins ==
  ASSUME NEW U
  PROVE  /\ \A r, s, t \in Seq(U) : Join(Join(r, s), t) = Join(r, Join(s, t))
         /\ \A r, s \in Seq(U) : Join(r, s) \in Seq(U)
BY DEF Join

\* An empty row adds nothing.
LEMMA JoinsNothing ==
  ASSUME NEW U, NEW s \in Seq(U)
  PROVE  <<>> \o s = s /\ s \o <<>> = s
OBVIOUS

\* Three registers in a row: the first may leave, each of the others may move
\* into a free one before it, and a new element comes in behind.
RowStep(U, a, b, c, n, a2, b2, c2, t, up, drained) ==
  /\ a \in Seq(U) /\ b \in Seq(U) /\ c \in Seq(U) /\ n \in Seq(U)
  /\ a2 \in Seq(U) /\ b2 \in Seq(U) /\ c2 \in Seq(U) /\ t \in Seq(U)
  /\ up => t = <<>> /\ a2 = b
  /\ ~up => a2 = t
  /\ drained => (b = <<>> \/ up) /\ b2 = c
  /\ ~drained /\ up => b2 = <<>>
  /\ ~drained /\ ~up => b2 = b
  /\ n # <<>> => (c = <<>> \/ drained) /\ c2 = n
  /\ n = <<>> /\ drained => c2 = <<>>
  /\ n = <<>> /\ ~drained => c2 = c

\* So the row loses its first element, if that leaves, and gains the new one.
LEMMA RowMoves ==
  ASSUME NEW U, NEW a, NEW b, NEW c, NEW n, NEW a2, NEW b2, NEW c2, NEW t,
         NEW up \in BOOLEAN, NEW drained \in BOOLEAN,
         RowStep(U, a, b, c, n, a2, b2, c2, t, up, drained)
  PROVE  Join(Join(a2, b2), c2) = Join(Join(Join(t, b), c), n)
<1>1. <<>> \in Seq(U)
  OBVIOUS
<1>9. /\ a \in Seq(U) /\ b \in Seq(U) /\ c \in Seq(U) /\ n \in Seq(U)
      /\ a2 \in Seq(U) /\ b2 \in Seq(U) /\ c2 \in Seq(U) /\ t \in Seq(U)
  BY Zenon DEF RowStep
<1>2. PICK b1 : b1 \in Seq(U) /\ (up => b1 = <<>>) /\ (~up => b1 = b)
  BY <1>9, <1>1
<1>3. PICK c1 : c1 \in Seq(U) /\ (drained => c1 = <<>>) /\ (~drained => c1 = c)
  BY <1>9, <1>1
<1>4. \A r \in Seq(U) : Join(<<>>, r) = r /\ Join(r, <<>>) = r
  BY JoinsNothing, Zenon DEF Join
<1>5. Join(a2, b1) = Join(t, b)
  <2>1. CASE up
    BY <1>9, <1>2, <1>4, <2>1, Zenon DEF RowStep
  <2>2. CASE ~up
    BY <1>2, <2>2, Zenon DEF RowStep
  <2> QED BY <2>1, <2>2
<1>6. Join(b2, c1) = Join(b1, c)
  <2>1. CASE drained
    <3>1. b1 = <<>>
      BY <1>2, <2>1 DEF RowStep
    <3> QED BY <1>9, <1>3, <1>4, <2>1, <3>1, Zenon DEF RowStep
  <2>2. CASE ~drained
    <3>1. b2 = b1 /\ c1 = c
      BY <1>2, <1>3, <2>2 DEF RowStep
    <3> QED BY <3>1, Zenon
  <2> QED BY <2>1, <2>2
<1>7. c2 = Join(c1, n)
  <2>1. CASE n = <<>>
    <3>1. c2 = c1
      BY <1>3, <2>1 DEF RowStep
    <3> QED BY <1>9, <1>4, <2>1, <3>1, Zenon
  <2>2. CASE n # <<>>
    <3>1. c2 = n /\ c1 = <<>>
      BY <1>3, <2>2 DEF RowStep
    <3> QED BY <1>9, <1>4, <3>1, Zenon
  <2> QED BY <2>1, <2>2
<1>8. Join(Join(a2, b2), Join(c1, n)) = Join(Join(Join(t, b), c), n)
  <2>1. /\ \A r, q, u \in Seq(U) : Join(Join(r, q), u) = Join(r, Join(q, u))
        /\ \A r, q \in Seq(U) : Join(r, q) \in Seq(U)
    BY Joins
  <2>2. Join(Join(a2, b2), Join(c1, n)) = Join(Join(Join(a2, b2), c1), n)
    <3>1. Join(a2, b2) \in Seq(U)
      BY <1>9, <2>1, Zenon
    <3> QED BY <1>9, <1>3, <2>1, <3>1
  <2>3. Join(Join(a2, b2), c1) = Join(a2, Join(b2, c1))
    BY <1>9, <1>3, <2>1
  <2>4. Join(a2, Join(b1, c)) = Join(Join(a2, b1), c)
    BY <1>9, <1>2, <2>1
  <2> QED BY <1>5, <1>6, <2>2, <2>3, <2>4, Zenon
<1> QED BY <1>7, <1>8, Zenon

\* What a group does not execute at an edge
Rested(g, taken) == IF Retires(g, taken) THEN Tail(Inside(g)) ELSE Inside(g)

\* What a group is given at an edge: nothing or the command of one slot
Gets(g, n, shown, issued) ==
  /\ n \in Seq(Command)
  /\ \/ n = <<>> /\ \A s \in issued : g \notin shown[s][1].groups
     \/ \E s \in issued : g \in shown[s][1].groups /\ n = shown[s]

\* The commands inside a group after an edge
LEMMA InsideMoves ==
  ASSUME GroupType, NEW taken, NEW turns, NEW shown, NEW issued, NEW ready,
         WellIssued(shown, issued, ready), NEW g \in Groups,
         Moved(g, taken, turns, shown, issued), NEW n, Gets(g, n, shown, issued)
  PROVE  Inside(g)' = Join(Rested(g, taken), n)
<1>1. PICK a, b, c : a = res[g] /\ b = pipe[g] /\ c = ingress[g]
  OBVIOUS
<1>2. a \in Seq(Command) /\ b \in Seq(Command) /\ c \in Seq(Command)
  <2>1. Holds(a, Command) /\ Holds(b, Command) /\ Holds(c, Command)
    BY <1>1 DEF GroupType, EachHolds
  <2> QED BY <2>1, RegisterRow
<1>3. PICK newA, newB, newC : newA = res'[g] /\ newB = pipe'[g] /\ newC = ingress'[g]
  OBVIOUS
<1>4. PICK up, drained :
        /\ up \in BOOLEAN /\ drained \in BOOLEAN
        /\ up <=> Advances(g, taken)
        /\ drained <=> g \in Drained(taken, turns)
  OBVIOUS
<1>5. PICK t : t \in Seq(Command) /\
        (Retires(g, taken) => t = <<>>) /\ (~Retires(g, taken) => t = a)
  <2>1. <<>> \in Seq(Command)
    OBVIOUS
  <2>2. CASE Retires(g, taken)
    BY <2>1, <2>2
  <2>3. CASE ~Retires(g, taken)
    BY <1>2, <2>3
  <2> QED BY <2>2, <2>3
<1>6. /\ up => a = <<>> \/ Retires(g, taken)
      /\ up => newA = b
      /\ ~up => newA = IF Retires(g, taken) THEN <<>> ELSE a
  BY <1>1, <1>3, <1>4 DEF Moved
<1>7. /\ up => t = <<>>
      /\ ~up => newA = t
  BY <1>5, <1>6
<1>8. /\ drained => b = <<>> \/ up
      /\ drained => newB = c
      /\ ~drained => newB = IF up THEN <<>> ELSE b
  BY <1>1, <1>3, <1>4 DEF Moved
<1>9. /\ n # <<>> => c = <<>> \/ drained
      /\ n # <<>> => newC = n
      /\ n = <<>> => newC = IF drained THEN <<>> ELSE c
  <2>1. CASE n = <<>> /\ \A s \in issued : g \notin shown[s][1].groups
    BY <1>1, <1>3, <1>4, <2>1 DEF Moved
  <2>2. CASE \E s \in issued : g \in shown[s][1].groups /\ n = shown[s]
    <3>1. PICK s \in issued : g \in shown[s][1].groups /\ n = shown[s]
      BY <2>2
    <3>2. /\ c = <<>> \/ drained
          /\ \E u \in issued : g \in shown[u][1].groups /\ newC = shown[u]
      BY <1>1, <1>3, <1>4, <2>2 DEF Moved
    <3>3. PICK u \in issued : g \in shown[u][1].groups /\ newC = shown[u]
      BY <3>2
    <3>4. s = u /\ shown[s] # <<>>
      BY <3>1, <3>3 DEF WellIssued, Showing
    <3> QED BY <3>1, <3>2, <3>3, <3>4
  <2> QED BY <2>1, <2>2 DEF Gets
<1>10. newA \in Seq(Command) /\ newB \in Seq(Command) /\ newC \in Seq(Command)
  <2>1. <<>> \in Seq(Command)
    OBVIOUS
  <2>2. n \in Seq(Command)
    BY DEF Gets
  <2> QED BY <1>2, <1>5, <1>7, <1>6, <1>8, <1>9, <2>1, <2>2
<1>11. Join(Join(newA, newB), newC) = Join(Join(Join(t, b), c), n)
  <2>1. RowStep(Command, a, b, c, n, newA, newB, newC, t, up, drained)
    BY <1>2, <1>5, <1>6, <1>7, <1>8, <1>9, <1>10, Zenon DEF RowStep, Gets
  <2> QED BY <1>4, <2>1, RowMoves
<1>12. Inside(g)' = Join(Join(newA, newB), newC) /\ Inside(g) = Join(Join(a, b), c)
  BY <1>1, <1>3, Zenon DEF Inside, Join
<1>13. CASE Retires(g, taken)
  <2>1. t = <<>> /\ res[g] # <<>>
    BY <1>5, <1>13 DEF Retires
  <2>2. Join(t, b) = b
    BY <1>2, <2>1, JoinsNothing, Zenon DEF Join
  <2>3. Tail(Inside(g)) = Join(b, c)
    BY <1>1, <2>1, OldestFirst, Zenon DEF Join
  <2> QED BY <1>11, <1>12, <1>13, <2>2, <2>3, Zenon DEF Rested
<1>14. CASE ~Retires(g, taken)
  <2>1. t = a
    BY <1>5, <1>14
  <2> QED BY <1>11, <1>12, <1>14, <2>1, Zenon DEF Rested
<1> QED BY <1>13, <1>14, Zenon

----------------------------------------------------------------------------
(* Queues                                                                  *)

\* A row and one element behind it
LEMMA FrontAndLast ==
  ASSUME NEW U, NEW r \in Seq(U), NEW m \in U
  PROVE  /\ r \o <<m>> # <<>>
         /\ Promises!Front(r \o <<m>>) = r
         /\ Promises!Last(r \o <<m>>) = m
<1> DEFINE q == r \o <<m>>
<1>1. <<m>> \in Seq(U) /\ Len(<<m>>) = 1 /\ <<m>>[1] = m
  OBVIOUS
<1>2. /\ q \in Seq(U) /\ Len(q) = Len(r) + 1 /\ Len(r) \in Nat
      /\ \A i \in 1 .. Len(r) + 1 : q[i] = IF i =< Len(r) THEN r[i] ELSE <<m>>[i - Len(r)]
  BY <1>1, ConcatProperties, LenProperties
<1> HIDE DEF q
<1>3. q # <<>>
  BY <1>2
<1>4. q[Len(q)] = m
  BY <1>1, <1>2
<1>5. SubSeq(q, 1, Len(q) - 1) = r
  <2>1. /\ Len(q) - 1 = Len(r) /\ 1 \in Int /\ Len(q) - 1 \in Int
        /\ \A i \in 1 .. Len(q) - 1 : q[i] \in U
    BY <1>2
  <2>2. /\ SubSeq(q, 1, Len(q) - 1) \in Seq(U)
        /\ Len(SubSeq(q, 1, Len(q) - 1)) = IF 1 =< Len(q) - 1 THEN Len(q) - 1 - 1 + 1 ELSE 0
        /\ \A i \in 1 .. Len(q) - 1 - 1 + 1 : SubSeq(q, 1, Len(q) - 1)[i] = q[1 + i - 1]
    BY <2>1, SubSeqProperties
  <2>3. Len(SubSeq(q, 1, Len(q) - 1)) = Len(r)
    BY <1>2, <2>1, <2>2
  <2>4. \A i \in 1 .. Len(r) : SubSeq(q, 1, Len(q) - 1)[i] = r[i]
    BY <1>2, <2>1, <2>2
  <2> QED BY <2>2, <2>3, <2>4, SeqEqual
<1> QED BY <1>3, <1>4, <1>5 DEF q, Promises!Front, Promises!Last

\* The queues let go of the commands of the slots that leave, and take in what
\* arrives.
LEMMA QueuesMove ==
  ASSUME FrontType, QueueInv, NEW shown, NEW gone, WellShown(shown),
         gone \subseteq Showing(shown),
         NEW entering \in {<<>>} \cup {<<m>> : m \in Command},
         FrontendEdge(shown, gone, entering), NEW leaving, leaving = Popped(shown, gone)
  PROVE  Promises!Queues(leaving)
<1> SUFFICES ASSUME NEW c \in Contexts
             PROVE  Promises!Arrives(c, Promises!Shortened(queue[c], c \in leaving), queue'[c])
  BY DEF Promises!Queues
<1>1. PICK r : r = Rest(c, shown, gone)
  OBVIOUS
<1>2. r \in Seq(Command)
  BY <1>1, RestWell
<1>3. Promises!Shortened(queue[c], c \in leaving) = r
  BY <1>1 DEF Rest, Promises!Shortened
<1>4. PICK a : a = Arriving(entering, c)
  OBVIOUS
<1>5. queue'[c] = r \o a
  BY <1>1, <1>4 DEF FrontendEdge, Rest
<1>6. CASE a = <<>>
  <2>1. r \o a = r
    BY <1>2, <1>6, ConcatEmptySeq
  <2> QED BY <1>3, <1>5, <2>1, Zenon DEF Promises!Arrives
<1>7. CASE a # <<>>
  <2>1. PICK m : a = <<m>> /\ m \in Command /\ m.context = c
    BY <1>4, <1>7, ArrivingWell
  <2>2. /\ r \o <<m>> # <<>> /\ Promises!Front(r \o <<m>>) = r /\ Promises!Last(r \o <<m>>) = m
    BY <1>2, <2>1, FrontAndLast
  <2>3. queue'[c] = r \o <<m>>
    BY <1>5, <2>1, Zenon
  <2> QED BY <1>3, <2>1, <2>2, <2>3, Zenon DEF Promises!Arrives
<1> QED BY <1>6, <1>7

\* What leaves the queues are the commands in those slots.
LEMMA HeadsLeaving ==
  ASSUME NEW shown, NEW gone, WellShown(shown), gone \subseteq Showing(shown)
  PROVE  /\ Popped(shown, gone) \in SUBSET {c \in Contexts : queue[c] # <<>>}
         /\ {Head(queue[c]) : c \in Popped(shown, gone)} = {shown[s][1] : s \in gone}
<1>1. \A s \in gone : /\ shown[s][1].context \in Contexts
                      /\ queue[shown[s][1].context] # <<>>
                      /\ shown[s][1] = Head(queue[shown[s][1].context])
  BY DEF WellShown, Command
<1> QED BY <1>1 DEF Popped

----------------------------------------------------------------------------
(* Work and results                                                        *)

\* Every group works on what it had, without what it executed, and on what it
\* is given.
LEMMA WorkMoves ==
  ASSUME GroupType, NEW taken, NEW turns, NEW shown, NEW issued, NEW ready,
         WellIssued(shown, issued, ready),
         \A g \in Groups : Moved(g, taken, turns, shown, issued),
         NEW T, T = {shown[s][1] : s \in issued}, NEW ran, ran = Running(taken)
  PROVE  Promises!Groupwork(T, ran)
<1> DEFINE N(g) == IF \E c \in T : g \in c.groups
                   THEN <<CHOOSE c \in T : g \in c.groups>> ELSE <<>>
<1>1. ASSUME NEW g \in Groups
      PROVE  Inside(g)' = Promises!Shortened(Inside(g), g \in ran) \o N(g)
  <2>1. PICK n : n = N(g)
    OBVIOUS
  <2>2. Gets(g, n, shown, issued)
    <3>1. CASE \E c \in T : g \in c.groups
      <4>1. PICK m : m = CHOOSE c \in T : g \in c.groups
        OBVIOUS
      <4>2. m \in T /\ g \in m.groups /\ n = <<m>>
        BY <2>1, <3>1, <4>1, Zenon
      <4>3. PICK s \in issued : m = shown[s][1]
        BY <4>2
      <4>4. shown[s] = <<m>> /\ m \in Command
        BY <4>3 DEF WellIssued
      <4>5. <<m>> \in Seq(Command)
        BY <4>4
      <4>6. g \in shown[s][1].groups /\ n = shown[s] /\ n \in Seq(Command)
        BY <4>2, <4>3, <4>4, <4>5, Zenon
      <4> QED BY <4>6 DEF Gets
    <3>2. CASE ~ \E c \in T : g \in c.groups
      <4>1. n = <<>>
        BY <2>1, <3>2, Zenon
      <4>2. \A s \in issued : g \notin shown[s][1].groups
        BY <3>2
      <4>3. <<>> \in Seq(Command)
        OBVIOUS
      <4> QED BY <4>1, <4>2, <4>3 DEF Gets
    <3> QED BY <3>1, <3>2, Zenon
  <2> HIDE DEF N
  <2>3. Moved(g, taken, turns, shown, issued)
    OBVIOUS
  <2>4. Inside(g)' = Join(Rested(g, taken), n)
    BY <2>2, <2>3, InsideMoves
  <2>5. Promises!Shortened(Inside(g), g \in ran) = Rested(g, taken)
    BY DEF Promises!Shortened, Running, Rested
  <2> QED BY <2>1, <2>4, <2>5, Zenon DEF Join
<1> QED BY <1>1 DEF Promises!Groupwork

\* The result of a group that the collector holds, and what the group owes.
Held(g) == IF collected # <<>> /\ collected[1].group = g THEN collected ELSE <<>>
Owing(g) == Held(g) \o rsp[g]
Given(taken) == IF "RESULT" \in taken THEN <<collected[1].group>> ELSE <<>>

\* The collector keeps what it does not give, or takes over from the group.
LEMMA HeldMoves ==
  ASSUME ReturnType, GroupType, NamedInv, NEW taken, taken \subseteq Offered,
         ReturnsEdge(taken), NEW g \in Groups
  PROVE  /\ Given(taken) = <<g>> => Held(g) # <<>>
         /\ Captured(taken) = <<g>> =>
              Held(g)' = rsp[g] /\ (Given(taken) = <<g>> \/ Held(g) = <<>>)
         /\ Captured(taken) # <<g>> /\ Given(taken) = <<g>> => Held(g)' = <<>>
         /\ Captured(taken) # <<g>> /\ Given(taken) # <<g>> => Held(g)' = Held(g)
<1>1. "RESULT" \in taken => collected # <<>>
  BY DEF Offered
<1>2. collected' = IF Captured(taken) # <<>> THEN rsp[Captured(taken)[1]]
                   ELSE IF "RESULT" \in taken THEN <<>> ELSE collected
  BY DEF ReturnsEdge
<1>3. \/ Captured(taken) = <<>>
      \/ \E h \in Groups : Captured(taken) = <<h>> /\ rsp[h] # <<>>
  BY CapturedRecord DEF ReturnType
<1>4. Captured(taken) # <<>> => collected = <<>> \/ "RESULT" \in taken
  BY DEF Captured
<1>5. Given(taken) = <<g>> <=> "RESULT" \in taken /\ collected[1].group = g
  BY DEF Given
<1>6. Held(g) = IF collected # <<>> /\ collected[1].group = g THEN collected ELSE <<>>
  BY DEF Held
<1>7. Held(g)' = IF collected' # <<>> /\ collected'[1].group = g THEN collected' ELSE <<>>
  BY DEF Held
<1>8. CASE Captured(taken) = <<>>
  <2>1. collected' = IF "RESULT" \in taken THEN <<>> ELSE collected
    BY <1>2, <1>8
  <2>2. Captured(taken) # <<g>>
    BY <1>8
  <2>3. CASE "RESULT" \in taken
    BY <1>1, <1>5, <1>6, <1>7, <2>1, <2>2, <2>3
  <2>4. CASE "RESULT" \notin taken
    BY <1>5, <1>6, <1>7, <2>1, <2>2, <2>4
  <2> QED BY <2>3, <2>4
<1>9. CASE Captured(taken) # <<>>
  <2>1. PICK h \in Groups : Captured(taken) = <<h>> /\ rsp[h] # <<>>
    BY <1>3, <1>9
  <2>2. collected' = rsp[h] /\ rsp[h][1].group = h /\ rsp[h] # <<>>
    BY <1>2, <2>1 DEF NamedInv
  <2>3. Captured(taken) = <<g>> <=> h = g
    BY <2>1
  <2>4. collected = <<>> \/ "RESULT" \in taken
    BY <1>4, <1>9
  <2> QED BY <1>1, <1>5, <1>6, <1>7, <2>2, <2>3, <2>4
<1> QED BY <1>8, <1>9

\* A group owes what it owed, without what was given, and what it makes now.
LEMMA OwingMoves ==
  ASSUME ReturnType, GroupType, NamedInv, NEW taken, taken \subseteq Offered,
         ReturnsEdge(taken), NEW turns, NEW shown, NEW issued,
         NEW g \in Groups, Moved(g, taken, turns, shown, issued)
  PROVE  Owing(g)' = Promises!Shortened(Owing(g), <<g>> = Given(taken))
           \o (IF g \in Running(taken) /\ Head(Inside(g)).op \in ResultOps
               THEN <<Promises!ResultRecord(g, Head(Inside(g)))>> ELSE <<>>)
<1> DEFINE makes == Retires(g, taken) /\ res[g][1].op \in ResultOps
<1>1. PICK n : n = IF makes THEN <<ResultRecord(g, res[g][1])>> ELSE <<>>
  OBVIOUS
<1>2. (IF g \in Running(taken) /\ Head(Inside(g)).op \in ResultOps
       THEN <<Promises!ResultRecord(g, Head(Inside(g)))>> ELSE <<>>) = n
  <2>1. g \in Running(taken) <=> Retires(g, taken)
    BY DEF Running
  <2>2. Retires(g, taken) => Head(Inside(g)) = res[g][1]
    BY OldestFirst DEF Retires
  <2>3. \A m : Promises!ResultRecord(g, m) = ResultRecord(g, m)
    BY DEF Promises!ResultRecord, ResultRecord
  <2>4. CASE makes
    BY <1>1, <2>1, <2>2, <2>3, <2>4
  <2>5. CASE ~makes
    BY <1>1, <2>1, <2>2, <2>5
  <2> QED BY <2>4, <2>5
<1>3. PICK h, r : h = Held(g) /\ r = rsp[g]
  OBVIOUS
<1>4. PICK h2, r2 : h2 = Held(g)' /\ r2 = rsp'[g]
  OBVIOUS
<1>5. Holds(h, ResultType) /\ Holds(r, ResultType)
  <2>1. Holds(collected, ResultType) /\ Holds(rsp[g], ResultType) /\ Holds(<<>>, ResultType)
    BY DEF ReturnType, GroupType, EachHolds, Holds
  <2> QED BY <1>3, <2>1 DEF Held
<1>6. h \in Seq(ResultType) /\ r \in Seq(ResultType)
  BY <1>5, RegisterRow
<1>7. n = <<>> \/ (n \in Seq(ResultType) /\ n # <<>> /\ makes)
  <2>1. CASE ~makes
    BY <1>1, <2>1
  <2>2. CASE makes
    <3>1. res[g][1] \in Command
      BY <2>2 DEF Retires, GroupType, EachHolds, Holds
    <3>2. PICK m : m = ResultRecord(g, res[g][1])
      OBVIOUS
    <3>3. m \in ResultType
      BY <3>1, <3>2 DEF ResultRecord, ResultType, Command
    <3>4. n = <<m>>
      BY <1>1, <2>2, <3>2
    <3>5. <<m>> \in Seq(ResultType) /\ <<m>> # <<>>
      BY <3>3
    <3> QED BY <2>2, <3>4, <3>5
  <2> QED BY <2>1, <2>2
<1>8. n \in Seq(ResultType)
  <2>1. <<>> \in Seq(ResultType)
    OBVIOUS
  <2> QED BY <1>7, <2>1
<1>9. /\ n # <<>> => r2 = n /\ (r = <<>> \/ Captured(taken) = <<g>>)
      /\ n = <<>> /\ Captured(taken) = <<g>> => r2 = <<>>
      /\ n = <<>> /\ Captured(taken) # <<g>> => r2 = r
  <2>1. /\ rsp'[g] = IF makes THEN <<ResultRecord(g, res[g][1])>>
                     ELSE IF Captured(taken) = <<g>> THEN <<>> ELSE rsp[g]
        /\ makes => rsp[g] = <<>> \/ Captured(taken) = <<g>>
    BY Zenon DEF Moved
  <2>2. makes => n = <<ResultRecord(g, res[g][1])>> /\ n # <<>>
    BY <1>1
  <2>3. ~makes => n = <<>>
    BY <1>1
  <2> QED BY <1>3, <1>4, <2>1, <2>2, <2>3
<1> HIDE DEF makes
<1>10. PICK t : t = IF <<g>> = Given(taken) THEN <<>> ELSE h
  OBVIOUS
<1>11. t \in Seq(ResultType) /\ (<<g>> = Given(taken) => t = <<>>) /\ (<<g>> # Given(taken) => t = h)
  BY <1>6, <1>10
<1>12. Promises!Shortened(Owing(g), <<g>> = Given(taken)) = Join(t, r)
  <2>1. Owing(g) = Join(h, r)
    BY <1>3, Zenon DEF Owing, Join
  <2>2. CASE <<g>> = Given(taken)
    <3>1. h # <<>>
      BY <1>3, <2>2, HeldMoves
    <3>2. PICK m : h = <<m>> /\ m \in ResultType
      BY <1>5, <3>1 DEF Holds
    <3>3. Tail(<<m>> \o r) = r
      BY <1>6, <3>2
    <3>4. Tail(Join(h, r)) = r
      BY <3>2, <3>3, Zenon DEF Join
    <3>5. Join(t, r) = r
      BY <1>6, <1>11, <2>2, JoinsNothing, Zenon DEF Join
    <3> QED BY <2>1, <2>2, <3>4, <3>5, Zenon DEF Promises!Shortened
  <2>3. CASE <<g>> # Given(taken)
    BY <1>11, <2>1, <2>3, Zenon DEF Promises!Shortened
  <2> QED BY <2>2, <2>3
<1>13. Owing(g)' = Join(h2, r2)
  BY <1>4, Zenon DEF Owing, Join
<1>14. Join(h2, r2) = Join(Join(t, r), n)
  <2>1. \A q \in Seq(ResultType) : Join(<<>>, q) = q /\ Join(q, <<>>) = q
    BY JoinsNothing, Zenon DEF Join
  <2>2. Join(t, r) \in Seq(ResultType)
    BY <1>6, <1>11, Joins
  <2>3. CASE Captured(taken) = <<g>>
    <3>1. h2 = r /\ t = <<>>
      BY <1>3, <1>4, <1>11, <2>3, HeldMoves
    <3>2. r2 = n
      BY <1>9, <2>3
    <3>3. Join(t, r) = r
      BY <1>6, <2>1, <3>1, Zenon
    <3> QED BY <3>1, <3>2, <3>3, Zenon
  <2>4. CASE Captured(taken) # <<g>>
    <3>1. h2 = t
      BY <1>3, <1>4, <1>11, <2>4, HeldMoves
    <3>2. CASE n = <<>>
      <4>1. r2 = r
        BY <1>9, <2>4, <3>2
      <4> QED BY <2>1, <2>2, <3>1, <3>2, <4>1, Zenon
    <3>3. CASE n # <<>>
      <4>1. r2 = n /\ r = <<>>
        BY <1>9, <2>4, <3>3
      <4> QED BY <1>11, <2>1, <3>1, <4>1, Zenon
    <3> QED BY <3>2, <3>3
  <2> QED BY <2>3, <2>4
<1> QED BY <1>2, <1>12, <1>13, <1>14, Zenon DEF Join

\* What is given is the first of what a group owes.
LEMMA ResultsMove ==
  ASSUME ReturnType, GroupType, NamedInv, NEW taken, taken \subseteq Offered,
         ReturnsEdge(taken), NEW turns, NEW shown, NEW issued,
         \A g \in Groups : Moved(g, taken, turns, shown, issued),
         NEW ran, ran = Running(taken), NEW out, out = Given(taken)
  PROVE  /\ Promises!Results(ran, out)
         /\ out = <<>> \/ \E g \in Groups : out = <<g>> /\ Owing(g) # <<>>
<1>1. ASSUME NEW g \in Groups
      PROVE  Owing(g)' = Promises!Shortened(Owing(g), <<g>> = out)
               \o (IF g \in ran /\ Head(Inside(g)).op \in ResultOps
                   THEN <<Promises!ResultRecord(g, Head(Inside(g)))>> ELSE <<>>)
  <2>1. Moved(g, taken, turns, shown, issued)
    OBVIOUS
  <2> QED BY <2>1, OwingMoves, Zenon
<1>2. Promises!Results(ran, out)
  BY <1>1 DEF Promises!Results, Owing, Held
<1>3. ASSUME Given(taken) # <<>>
      PROVE  \E g \in Groups : Given(taken) = <<g>> /\ Owing(g) # <<>>
  <2>1. "RESULT" \in taken /\ Given(taken) = <<collected[1].group>>
    BY <1>3 DEF Given
  <2>2. collected # <<>> /\ Holds(collected, ResultType)
    BY <2>1 DEF Offered, ReturnType
  <2>3. PICK g \in Groups : collected[1].group = g
    BY <2>2 DEF Holds, ResultType
  <2>4. Holds(rsp[g], ResultType)
    BY DEF GroupType, EachHolds
  <2>5. Held(g) = collected
    BY <2>2, <2>3 DEF Held
  <2>6. PICK m : collected = <<m>> /\ m \in ResultType
    BY <2>2 DEF Holds
  <2>7. PICK r : r = rsp[g]
    OBVIOUS
  <2>8. r \in Seq(ResultType)
    BY <2>4, <2>7, RegisterRow
  <2>9. <<m>> \o r # <<>>
    BY <2>6, <2>8
  <2>10. Owing(g) # <<>>
    BY <2>5, <2>6, <2>7, <2>9, Zenon DEF Owing
  <2> QED BY <2>1, <2>3, <2>10
<1> QED BY <1>2, <1>3

----------------------------------------------------------------------------
(* Open commands                                                           *)

\* What the cluster knows of a command that it has not reported.
Account(e) ==
  [context |-> X(e).context, tag |-> X(e).tag, groups |-> X(e).groups,
   results |-> X(e).results, illegal |-> Verdicts(e), rejected |-> FALSE]
Open == {Account(e) : e \in Unreported}

\* A report whose verdicts are replaced
LEMMA ReportIs ==
  ASSUME NEW x, NEW v
  PROVE  [Report(x) EXCEPT !.illegal = v] =
           [context |-> x.context, tag |-> x.tag, groups |-> x.groups,
            results |-> x.results, illegal |-> v, rejected |-> FALSE]
<1>1. PICK no : no = FALSE
  OBVIOUS
<1>2. PICK r : r = [context |-> x.context, tag |-> x.tag, groups |-> x.groups,
                    results |-> x.results, illegal |-> x.illegal, rejected |-> no]
  OBVIOUS
<1>3. [r EXCEPT !.illegal = v] =
        [context |-> x.context, tag |-> x.tag, groups |-> x.groups,
         results |-> x.results, illegal |-> v, rejected |-> no]
  BY <1>2
<1>4. Report(x) = r
  BY <1>1, <1>2, Zenon DEF Report
<1> QED BY <1>1, <1>3, <1>4, Zenon

\* That is how the refinement mapping puts it, before the edge and after it.
LEMMA OpenIs ==
  /\ {[Report(entry[e][1]) EXCEPT !.illegal = Verdicts(e)] : e \in Unreported} = Open
  /\ {[Report(entry[e][1]) EXCEPT !.illegal = Verdicts(e)] : e \in Unreported}' = Open'
<1>1. \A e : [Report(entry[e][1]) EXCEPT !.illegal = Verdicts(e)] = Account(e)
  BY ReportIs, Zenon DEF Account, X
<1>2. \A e : [Report(entry'[e][1]) EXCEPT !.illegal = Verdicts(e)'] = Account(e)'
  BY ReportIs, Zenon DEF Account, X
<1>3. {[Report(entry[e][1]) EXCEPT !.illegal = Verdicts(e)] : e \in Unreported} = Open
  BY <1>1 DEF Open
<1>4. {[Report(entry[e][1]) EXCEPT !.illegal = Verdicts(e)] : e \in Unreported}' = Open'
  BY <1>2 DEF Open
<1> QED BY <1>3, <1>4

\* An entry that stays is judged by the groups that execute now.
LEMMA AccountKept ==
  ASSUME EntryInv, MessagesInv, GroupType, collectNext \in Groups,
         NEW taken, NEW turns, NEW shown, NEW issued, NEW placed, NEW clear,
         WellPlaced(placed, shown, issued),
         TrackerEdge(Reports, Retired(taken), Fired(taken), placed, clear),
         \A g \in Groups : Moved(g, taken, turns, shown, issued),
         NEW e \in Used, Kept(e, taken)
  PROVE  Account(e)' = Promises!Judged(Account(e), Running(taken))
<1>1. X(e)'.illegal = Verdicts(e)
  BY VerdictHeard DEF Kept
<1> DEFINE refuse == {g \in Running(taken) : /\ SameKey(Head(Inside(g)), X(e))
                                             /\ Head(Inside(g)).op \in RefusedOps}
           Work == [g \in Groups |-> Inside(g)]
<1>2. Verdicts(e)' = Verdicts(e) \cup refuse
  BY <1>1, VerdictMoves
<1>3. refuse = {g \in Running(taken) : /\ Promises!SameKey(Head(Work[g]), Account(e))
                                       /\ Head(Work[g]).op \in RefusedOps}
  <2>1. \A m : Promises!SameKey(m, Account(e)) <=> SameKey(m, X(e))
    BY DEF Promises!SameKey, SameKey, Account
  <2>2. \A g \in Running(taken) : Work[g] = Inside(g)
    BY DEF Running
  <2> HIDE DEF Work
  <2> QED BY <2>1, <2>2
<1>4. Promises!Judged(Account(e), Running(taken))
        = [Account(e) EXCEPT !.illegal = Verdicts(e) \cup refuse]
  <2>1. Promises!Judged(Account(e), Running(taken))
          = [Account(e) EXCEPT !.illegal = @ \cup
              {g \in Running(taken) : /\ Promises!SameKey(Head(Work[g]), Account(e))
                                      /\ Head(Work[g]).op \in RefusedOps}]
    BY DEF Promises!Judged
  <2>2. Account(e).illegal = Verdicts(e)
    BY DEF Account
  <2> HIDE DEF refuse, Work
  <2> QED BY <1>3, <2>1, <2>2, Zenon
<1> HIDE DEF refuse
<1>5. /\ X(e)'.context = X(e).context /\ X(e)'.tag = X(e).tag
      /\ X(e)'.groups = X(e).groups /\ X(e)'.results = X(e).results
  BY DEF Kept
<1>6. Account(e)' = [context |-> X(e)'.context, tag |-> X(e)'.tag, groups |-> X(e)'.groups,
                     results |-> X(e)'.results, illegal |-> Verdicts(e)', rejected |-> FALSE]
  BY DEF Account
<1> QED BY <1>2, <1>4, <1>5, <1>6 DEF Account

\* A new entry is the promise for its command: no group has judged it yet.
LEMMA AccountFresh ==
  ASSUME MessagesInv, GroupType, NEW taken, NEW turns, NEW shown, NEW issued, NEW ready,
         WellIssued(shown, issued, ready),
         \A g \in Groups : Moved(g, taken, turns, shown, issued),
         NEW s \in issued, NEW e, Fresh(e, shown[s][1])
  PROVE  Account(e)' = Promises!Promise(shown[s][1])
<1>1. PICK m : m = shown[s][1]
  OBVIOUS
<1>2. X(e)' = New(m) /\ ~Busy(m)
  BY <1>1 DEF Fresh, WellIssued
<1>3. /\ New(m).context = m.context /\ New(m).tag = m.tag /\ New(m).groups = m.groups
      /\ New(m).results = (IF m.op \in ResultOps THEN m.groups ELSE {})
      /\ New(m).illegal = {}
  BY DEF New, NewEntry
<1>4. \A g \in HeardGroups' : ~SameKey(cpl'[g][1], X(e)')
  <2> SUFFICES ASSUME NEW g \in HeardGroups', SameKey(cpl'[g][1], X(e)') PROVE FALSE
    OBVIOUS
  <2>1. g \in Groups /\ cpl'[g] # <<>> /\ ExecCpl(g)' = cpl'[g]
    BY DEF HeardGroups, Holding, ExecCpl
  <2>2. ExecCpl(g)' = (IF Retires(g, taken) THEN <<ChildCompletion(res[g][1])>> ELSE <<>>)
        /\ (Retires(g, taken) => res[g] # <<>>)
    BY <2>1 DEF Moved
  <2>3. Retires(g, taken) /\ res[g] # <<>> /\ cpl'[g] = <<ChildCompletion(res[g][1])>>
    BY <2>1, <2>2
  <2>4. cpl'[g][1] = ChildCompletion(res[g][1])
    BY <2>3
  <2>5. SameKey(res[g][1], m)
    BY <1>2, <1>3, <2>4 DEF SameKey, ChildCompletion
  <2>6. PICK f \in Used : SameKey(X(f), res[g][1])
    BY <2>1, <2>3, AllKnown DEF Known
  <2> QED BY <1>2, <2>5, <2>6 DEF Busy, SameKey, X
<1>5. Verdicts(e)' = {}
  <2>1. Verdicts(e)' = X(e)'.illegal \cup
          {g \in HeardGroups' : SameKey(cpl'[g][1], X(e)') /\ cpl'[g][1].illegal}
    BY DEF Verdicts, X
  <2> QED BY <1>2, <1>3, <1>4, <2>1
<1>6. Account(e)' = [context |-> X(e)'.context, tag |-> X(e)'.tag, groups |-> X(e)'.groups,
                     results |-> X(e)'.results, illegal |-> Verdicts(e)', rejected |-> FALSE]
  BY DEF Account
<1>7. Promises!Promise(m) =
        [context |-> m.context, tag |-> m.tag, groups |-> m.groups,
         results |-> IF m.op \in ResultOps THEN m.groups ELSE {},
         illegal |-> {}, rejected |-> FALSE]
  BY DEF Promises!Promise
<1>8. Account(e)' = Promises!Promise(m)
  BY <1>2, <1>3, <1>5, <1>6, <1>7
<1> QED BY <1>1, <1>8

\* A command is reported when all its groups have executed it, and with all
\* their verdicts.
LEMMA CloseWell ==
  ASSUME ClusterInv, NEW e \in Used, Complete(e)
  PROVE  /\ e \in Unreported /\ Account(e) = Report(X(e))
         /\ Promises!Executed(Account(e))
<1>1. X(e).pending = {} /\ e \in Unreported
  BY DEF Complete, Unreported, X
<1>2. \A g \in Groups : /\ ~Has(res[g], X(e)) /\ ~Has(pipe[g], X(e)) /\ ~Has(ingress[g], X(e))
                        /\ ~Has(ExecCpl(g), X(e))
  BY <1>1, GroupOwes
<1>3. Verdicts(e) = X(e).illegal
  <2>1. \A g \in HeardGroups : g \in Groups /\ ExecCpl(g) = cpl[g] /\ cpl[g] # <<>>
    BY DEF HeardGroups, Holding, ExecCpl
  <2>2. \A g \in HeardGroups : ~SameKey(cpl[g][1], X(e))
    BY <1>2, <2>1 DEF Has
  <2> QED BY <2>2 DEF Verdicts, X
<1>4. Account(e) = Report(X(e))
  BY <1>3 DEF Account, Report
<1>5. \A g \in Groups : \A i \in DOMAIN Inside(g) : ~SameKey(Inside(g)[i], X(e))
  <2> TAKE g \in Groups
  <2> DEFINE others == {m \in Command : ~SameKey(m, X(e))}
  <2>1. Holds(res[g], Command) /\ Holds(pipe[g], Command) /\ Holds(ingress[g], Command)
    BY DEF ClusterInv, GroupType, EachHolds
  <2>2. Holds(res[g], others) /\ Holds(pipe[g], others) /\ Holds(ingress[g], others)
    BY <1>2, <2>1 DEF Holds, Has
  <2>3. \A m \in others : ~SameKey(m, X(e))
    OBVIOUS
  <2> HIDE DEF others
  <2>4. PICK a, b, c : a = res[g] /\ b = pipe[g] /\ c = ingress[g]
    OBVIOUS
  <2>5. a \in Seq(others) /\ b \in Seq(others) /\ c \in Seq(others)
    BY <2>2, <2>4, RegisterRow
  <2>6. PICK q : q = Join(Join(a, b), c)
    OBVIOUS
  <2>7. q \in Seq(others)
    <3>1. Join(a, b) \in Seq(others)
      BY <2>5, Joins
    <3> QED BY <2>5, <2>6, <3>1, Joins
  <2>8. Inside(g) = q
    BY <2>4, <2>6, Zenon DEF Inside, Join
  <2>9. \A i \in DOMAIN q : q[i] \in others
    BY <2>7
  <2> QED BY <2>3, <2>8, <2>9, Zenon
<1>6. Promises!Executed(Account(e))
  <2>1. \A m : Promises!SameKey(m, Account(e)) <=> SameKey(m, X(e))
    BY DEF Promises!SameKey, SameKey, Account
  <2> QED BY <1>5, <2>1 DEF Promises!Executed
<1> QED BY <1>1, <1>4, <1>6

\* No two open commands have one key, and none has that of a command issued.
LEMMA OpenApart ==
  ASSUME EntryInv, NEW e \in Unreported, NEW f \in Unreported, Account(e) = Account(f)
  PROVE  e = f
<1>1. Account(e).context = X(e).context /\ Account(e).tag = X(e).tag
      /\ Account(f).context = X(f).context /\ Account(f).tag = X(f).tag
  BY DEF Account
<1>2. SameKey(X(e), X(f)) /\ e \in Used /\ f \in Used
  BY <1>1 DEF SameKey, Unreported
<1> QED BY <1>2 DEF EntryInv

\* The command that is reported, if there is one, is an open one.
LEMMA ClosingOne ==
  ASSUME ClusterInv, NEW taken
  PROVE  /\ \/ Closing(taken) = {}
            \/ \E x \in Open : Promises!Executed(x) /\ Closing(taken) = {x}
         /\ \A e \in Unreported : Account(e) \in Closing(taken) <=> Fired(taken) = <<e>>
<1>1. EntryInv /\ DoneInv
  BY DEF ClusterInv
<1>2. CASE ~FromTracker(taken)
  <2>1. Closing(taken) = {} /\ Fired(taken) = <<>>
    BY <1>2 DEF Closing, Fired
  <2> QED BY <2>1
<1>3. CASE FromTracker(taken)
  <2>1. PICK e \in Used : Done = <<e>> /\ Complete(e)
    BY <1>1, <1>3, DoneComplete DEF FromTracker
  <2>2. Fired(taken) = <<e>> /\ Done[1] = e
    BY <1>3, <2>1 DEF Fired
  <2>3. e \in Unreported /\ Account(e) = Report(X(e)) /\ Promises!Executed(Account(e))
    BY <2>1, CloseWell
  <2>4. Closing(taken) = {Account(e)}
    BY <1>3, <2>2, <2>3 DEF Closing
  <2>5. \A f \in Unreported : Account(f) = Account(e) => f = e
    BY <1>1, <2>3, OpenApart
  <2>6. \A f \in Unreported : Account(f) \in Closing(taken) <=> Fired(taken) = <<f>>
    <3> TAKE f \in Unreported
    <3>1. Fired(taken) = <<f>> <=> f = e
      BY <2>2
    <3> QED BY <2>4, <2>5, <3>1
  <2>7. Account(e) \in Open
    BY <2>3 DEF Open
  <2> QED BY <2>3, <2>4, <2>6, <2>7
<1> QED BY <1>2, <1>3

\* Which entries are open after an edge
LEMMA UnreportedMoves ==
  ASSUME NEW taken, NEW shown, NEW issued, EntriesMove(taken, shown, issued)
  PROVE  /\ \A e \in Unreported : Fired(taken) # <<e>> => Kept(e, taken) /\ e \in Unreported'
         /\ \A e \in Unreported' :
              \/ e \in Unreported /\ Fired(taken) # <<e>>
              \/ \E s \in issued : Fresh(e, shown[s][1])
         /\ \A s \in issued : \E e \in Unreported' : Fresh(e, shown[s][1])
<1>1. /\ \A e : e \in Unreported <=> e \in Used /\ ~X(e).reported
      /\ \A e : e \in Unreported' <=> e \in Used' /\ ~X(e)'.reported
  BY DEF Unreported, X
<1>2. \A e \in Used : Kept(e, taken) \/ Left(e, taken)
  BY DEF EntriesMove
<1>3. \A e, m : Fresh(e, m) => e \in Unreported'
  <2> SUFFICES ASSUME NEW e, NEW m, Fresh(e, m) PROVE e \in Unreported'
    OBVIOUS
  <2>1. e \in Used' /\ X(e)' = New(m)
    BY DEF Fresh
  <2>2. New(m).reported = FALSE
    BY DEF New, NewEntry
  <2> QED BY <1>1, <2>1, <2>2
<1>4. \A e \in Unreported : Fired(taken) # <<e>> => Kept(e, taken) /\ e \in Unreported'
  <2> TAKE e \in Unreported
  <2> HAVE Fired(taken) # <<e>>
  <2>1. e \in Used /\ ~X(e).reported
    BY <1>1
  <2>2. Kept(e, taken)
    BY <1>2, <2>1 DEF Left
  <2>3. e \in Used' /\ (X(e)'.reported <=> X(e).reported \/ Fired(taken) = <<e>>)
    BY <2>2, Zenon DEF Kept
  <2> QED BY <1>1, <2>1, <2>2, <2>3
<1>5. \A e \in Used : e \in Unreported' => e \in Unreported /\ Fired(taken) # <<e>>
  <2> TAKE e \in Used
  <2> HAVE e \in Unreported'
  <2>1. e \in Used' /\ ~X(e)'.reported
    BY <1>1
  <2>2. Kept(e, taken)
    BY <1>2, <2>1 DEF Left
  <2>3. X(e)'.reported <=> X(e).reported \/ Fired(taken) = <<e>>
    BY <2>2, Zenon DEF Kept
  <2> QED BY <1>1, <2>1, <2>3
<1>6. \A e \in Unreported' \ Used : \E s \in issued : Fresh(e, shown[s][1])
  BY <1>1 DEF EntriesMove
<1>7. \A s \in issued : \E e \in Unreported' : Fresh(e, shown[s][1])
  BY <1>3 DEF EntriesMove
<1> QED BY <1>4, <1>5, <1>6, <1>7

\* The open commands after an edge: those before it without the one reported,
\* judged by the groups that execute, and those issued.
OpenAfter(ran, closed, accepted) ==
  {Promises!Judged(x, ran) : x \in Open \ closed} \cup {Promises!Promise(x) : x \in accepted}

\* That is what an edge makes of them.
LEMMA OpenMoves ==
  ASSUME ClusterInv, NEW taken, NEW turns, NEW written, NEW entering, NEW clear,
         NEW shown, NEW ready, NEW issued, NEW refused, NEW placed,
         Edge(taken, turns, written, entering, clear, shown, ready, issued, refused, placed),
         WellDone(taken, turns, shown, ready, issued, refused, placed),
         NEW accepted, accepted = {shown[s][1] : s \in issued},
         NEW ran, ran = Running(taken), NEW closed, closed = Closing(taken)
  PROVE  Open' = OpenAfter(ran, closed, accepted)
<1>1. EntryInv /\ MessagesInv /\ GroupType /\ collectNext \in Groups
  BY DEF ClusterInv, ReturnType
<1>8. /\ WellIssued(shown, issued, ready) /\ WellPlaced(placed, shown, issued)
      /\ TrackerEdge(Reports, Retired(taken), Fired(taken), placed, clear)
      /\ \A g \in Groups : Moved(g, taken, turns, shown, issued)
      /\ EntriesMove(taken, shown, issued)
  BY Zenon DEF Edge, WellDone
<1>2. ASSUME NEW e \in Unreported, Fired(taken) # <<e>>
      PROVE  /\ e \in Unreported' /\ Account(e) \in Open \ Closing(taken)
             /\ Account(e)' = Promises!Judged(Account(e), Running(taken))
  <2>1. e \in Used /\ Kept(e, taken) /\ e \in Unreported'
    BY <1>8, <1>2, UnreportedMoves DEF Unreported
  <2>2. Account(e) \in Open \ Closing(taken)
    BY <1>2, ClosingOne DEF Open
  <2>3. Account(e)' = Promises!Judged(Account(e), Running(taken))
    BY <1>8, <1>1, <2>1, AccountKept
  <2> QED BY <2>1, <2>2, <2>3
<1>3. ASSUME NEW s \in issued, NEW e, Fresh(e, shown[s][1])
      PROVE  Account(e)' = Promises!Promise(shown[s][1])
  BY <1>8, <1>1, <1>3, AccountFresh
<1>4. Open' = {Account(e)' : e \in Unreported'}
  BY DEF Open
<1>5. ASSUME NEW y \in Open'
      PROVE  \/ \E x \in Open \ Closing(taken) : y = Promises!Judged(x, Running(taken))
             \/ \E s \in issued : y = Promises!Promise(shown[s][1])
  <2>1. PICK e : e \in Unreported' /\ y = Account(e)'
    BY <1>4
  <2>2. CASE e \in Unreported /\ Fired(taken) # <<e>>
    BY <1>2, <2>1, <2>2
  <2>3. CASE \E s \in issued : Fresh(e, shown[s][1])
    BY <1>3, <2>1, <2>3
  <2> QED BY <1>8, <2>1, <2>2, <2>3, UnreportedMoves
<1>6. ASSUME NEW x \in Open \ Closing(taken)
      PROVE  Promises!Judged(x, Running(taken)) \in Open'
  <2>1. PICK e \in Unreported : x = Account(e)
    BY DEF Open
  <2>2. Fired(taken) # <<e>>
    BY <2>1, ClosingOne
  <2> QED BY <1>2, <1>4, <2>1, <2>2
<1>7. ASSUME NEW s \in issued
      PROVE  Promises!Promise(shown[s][1]) \in Open'
  <2>1. PICK e : e \in Unreported' /\ Fresh(e, shown[s][1])
    BY <1>8, UnreportedMoves
  <2> QED BY <1>3, <1>4, <2>1
<1> QED BY <1>5, <1>6, <1>7 DEF OpenAfter

----------------------------------------------------------------------------
(* The refinement                                                          *)

\* The bags of OrderedCluster are those of this module.
LEMMA SameBags ==
  /\ \A A, B : Promises!(+)(A, B) = A (+) B
  /\ \A A, B : Promises!(-)(A, B) = A (-) B
  /\ \A A : Promises!SetToBag(A) = SetToBag(A)
  /\ \A A : Promises!BagToSet(A) = DOMAIN A
  /\ Promises!EmptyBag = SetToBag({})
BY DEF Promises!(+), Promises!(-), Promises!SetToBag, Promises!BagToSet, Promises!EmptyBag,
       (+), (-), SetToBag

\* The names of the refinement mapping: what the groups work on and owe.
Work == [g \in Groups |-> Inside(g)]
OwedBy == [g \in Groups |->
            (IF collected # <<>> /\ collected[1].group = g THEN collected ELSE <<>>)
            \o rsp[g]]

\* The heads that leave are accepted or refused by ownership alone.
Sorted(leaving, accepted, refused) ==
  /\ leaving \in SUBSET {c \in Contexts : queue[c] # <<>>}
  /\ accepted = {x \in {Head(queue[c]) : c \in leaving} : Promises!Owned(x)}
  /\ refused = {Promises!Rejection(x) : x \in {Head(queue[c]) : c \in leaving} \ accepted}

\* A step of OrderedCluster, with the choices it leaves open named.
StepBy(leaving, accepted, refused, ran, out, closed, told) ==
  /\ UNCHANGED owner
  /\ Sorted(leaving, accepted, refused)
  /\ Promises!Queues(leaving)
  /\ \A x \in accepted, y \in Open : ~Promises!SameKey(x, y)
  /\ \A x, y \in accepted : x # y => x.groups \cap y.groups = {}
  /\ ran \in SUBSET {g \in Groups : Work[g] # <<>>}
  /\ Promises!Groupwork(accepted, ran)
  /\ out \in {<<>>} \cup {<<g>> : g \in {h \in Groups : OwedBy[h] # <<>>}}
  /\ Promises!Results(ran, out)
  /\ closed \in {{}} \cup {{x} : x \in {y \in Open : Promises!Executed(y)}}
  /\ told \in {{}} \cup {{x} : x \in DOMAIN OnTheirWay}
  /\ Open' = OpenAfter(ran, closed, accepted)
  /\ OnTheirWay' = ((OnTheirWay (-) SetToBag(told)) (+) SetToBag(closed)) (+) SetToBag(refused)

\* Such a step is one of OrderedCluster.
LEMMA StepIsNext ==
  ASSUME NEW leaving, NEW accepted, NEW refused, NEW ran, NEW out, NEW closed, NEW told,
         StepBy(leaving, accepted, refused, ran, out, closed, told)
  PROVE  Promises!Next
<1> DEFINE heads == {Head(queue[c]) : c \in leaving}
           open == {[Report(entry[e][1]) EXCEPT !.illegal = Verdicts(e)] : e \in Unreported}
           accept == {x \in heads : Promises!Owned(x)}
           finish == BagOf(completion)
                     (+) BagOf(IF reject = <<>> THEN <<>> ELSE <<Rejection(reject[1])>>)
<1>1. accepted = accept /\ refused = {Promises!Rejection(x) : x \in heads \ accept}
  BY DEF StepBy, Sorted
<1>2. open = Open /\ open' = Open' /\ finish = OnTheirWay /\ finish' = OnTheirWay'
  BY OpenIs DEF OnTheirWay
<1>3. /\ UNCHANGED owner
      /\ leaving \in SUBSET {c \in Contexts : queue[c] # <<>>}
      /\ Promises!Queues(leaving)
      /\ \A x \in accept, y \in open : ~Promises!SameKey(x, y)
      /\ \A x, y \in accept : x # y => x.groups \cap y.groups = {}
      /\ ran \in SUBSET {g \in Groups : [h \in Groups |-> Inside(h)][g] # <<>>}
      /\ Promises!Groupwork(accept, ran)
      /\ Promises!Results(ran, out)
  <2> HIDE DEF accept, open
  <2> QED BY <1>1, <1>2, Zenon DEF StepBy, Sorted, Work
<1>4. /\ out \in {<<>>} \cup {<<g>> : g \in {h \in Groups :
           [g \in Groups |->
            (IF collected # <<>> /\ collected[1].group = g THEN collected ELSE <<>>)
            \o rsp[g]][h] # <<>>}}
      /\ closed \in {{}} \cup {{x} : x \in {y \in open : Promises!Executed(y)}}
      /\ told \in {{}} \cup {{x} : x \in Promises!BagToSet(finish)}
  <2> HIDE DEF open, finish
  <2> QED BY <1>2, SameBags, Zenon DEF StepBy, OwedBy
<1>5. /\ open' = {Promises!Judged(x, ran) : x \in open \ closed}
                 \cup {Promises!Promise(x) : x \in accept}
      /\ finish' = Promises!(+)(Promises!(+)(Promises!(-)(finish, Promises!SetToBag(told)),
                                             Promises!SetToBag(closed)),
                                Promises!SetToBag({Promises!Rejection(x) : x \in heads \ accept}))
  <2> HIDE DEF open, finish, accept, heads
  <2> QED BY <1>1, <1>2, SameBags, Zenon DEF StepBy, OpenAfter
<1> QED BY <1>3, <1>4, <1>5, Zenon DEF Promises!Next

\* What is taken of the heads that leave is what is issued; the rest is refused.
LEMMA TakenAndRefused ==
  ASSUME NEW taken, NEW turns, NEW shown, NEW ready, NEW issued, NEW refused, NEW placed,
         WellDone(taken, turns, shown, ready, issued, refused, placed),
         NEW leaving, leaving = Popped(shown, issued \cup refused),
         NEW accepted, accepted = {shown[s][1] : s \in issued},
         NEW rejected, rejected = NowRejected(shown, refused)
  PROVE  Sorted(leaving, accepted, rejected)
<1>1. /\ WellShown(shown) /\ WellIssued(shown, issued, ready)
      /\ issued \subseteq Showing(shown)
      /\ refused = Refusable(shown, RejectCredit(taken)) /\ refused \subseteq Showing(shown)
  BY Zenon DEF WellDone
<1> DEFINE heads == {Head(queue[c]) : c \in leaving}
<1>2. /\ leaving \in SUBSET {c \in Contexts : queue[c] # <<>>}
      /\ heads = {shown[s][1] : s \in issued \cup refused}
  <2>1. issued \cup refused \subseteq Showing(shown)
    BY <1>1
  <2> QED BY <1>1, <2>1, HeadsLeaving
<1>3. \A s \in issued : Owned(shown[s][1])
  BY <1>1 DEF WellIssued
<1>4. \A s \in refused : ~Owned(shown[s][1])
  BY <1>1 DEF Refusable, Malformed
<1>5. \A x : Promises!Owned(x) <=> Owned(x)
  BY DEF Promises!Owned, Owned
<1>6. \A x : Promises!Rejection(x) = Rejection(x)
  BY DEF Promises!Rejection, Rejection
<1> HIDE DEF heads
<1>7. accepted = {x \in heads : Promises!Owned(x)}
  BY <1>2, <1>3, <1>4, <1>5
<1>8. heads \ accepted = {shown[s][1] : s \in refused}
  BY <1>2, <1>3, <1>4
<1>9. rejected = {Promises!Rejection(x) : x \in heads \ accepted}
  BY <1>6, <1>8 DEF NowRejected
<1> QED BY <1>2, <1>7, <1>9 DEF heads, Sorted

\* Every clock edge keeps the promises.
LEMMA EdgePromises ==
  ASSUME ClusterInv, NEW taken, taken \subseteq Offered, NEW turns,
         NEW written \in WriteTurns(taken), NEW granted,
         NEW entering \in {<<>>} \cup {<<m>> : m \in Command}, NEW clear,
         Cycle(taken, turns, written, granted, entering, clear)
  PROVE  Promises!Next
<1>1. PICK shown, ready, issued, refused, placed :
        /\ Edge(taken, turns, written, entering, clear, shown, ready, issued, refused, placed)
        /\ WellDone(taken, turns, shown, ready, issued, refused, placed)
  BY EdgeParts
<1>2. PICK gone, leaving, accepted, rejected, ran, out, closed, told :
        /\ gone = issued \cup refused /\ leaving = Popped(shown, issued \cup refused)
        /\ accepted = {shown[s][1] : s \in issued} /\ rejected = NowRejected(shown, refused)
        /\ ran = Running(taken) /\ out = Given(taken)
        /\ closed = Closing(taken) /\ told = Told(taken)
  OBVIOUS
<1>3. /\ FrontendEdge(shown, gone, entering)
      /\ TrackerEdge(Reports, Retired(taken), Fired(taken), placed, clear)
      /\ ReturnsEdge(taken) /\ ReportsEdge(taken, shown, refused)
      /\ UNCHANGED owner
  BY <1>1, <1>2, Zenon DEF Edge
<1>4. /\ WellShown(shown) /\ WellIssued(shown, issued, ready)
      /\ WellPlaced(placed, shown, issued)
      /\ refused = Refusable(shown, RejectCredit(taken))
      /\ \A g \in Groups : Moved(g, taken, turns, shown, issued)
      /\ EntriesMove(taken, shown, issued)
  BY <1>1, Zenon DEF WellDone
<1>5. gone \subseteq Showing(shown)
  BY <1>1, <1>2 DEF WellDone
<1>6. /\ FrontType /\ QueueInv /\ GroupType /\ ReturnType /\ ReportsType /\ NamedInv /\ EntryInv
      /\ ReportsType'
  BY EdgeKeeps DEF ClusterInv
<1>7. Sorted(leaving, accepted, rejected)
  BY <1>1, <1>2, TakenAndRefused
<1>8. Promises!Queues(leaving)
  BY <1>2, <1>3, <1>4, <1>5, <1>6, QueuesMove
<1>9. \A x \in accepted, y \in Open : ~Promises!SameKey(x, y)
  <2>1. \A s \in issued : ~Busy(shown[s][1])
    BY <1>4 DEF WellIssued
  <2>2. \A y \in Open : \E e \in Used : \A m : Promises!SameKey(m, y) => SameKey(X(e), m)
    BY DEF Open, Account, Unreported, Promises!SameKey, SameKey
  <2> QED BY <1>2, <2>1, <2>2 DEF Busy, X
<1>10. \A x, y \in accepted : x # y => x.groups \cap y.groups = {}
  BY <1>2, <1>4 DEF WellIssued
<1>11. Promises!Groupwork(accepted, ran)
  BY <1>2, <1>4, <1>6, WorkMoves, Zenon
<1>12. ran \in SUBSET {g \in Groups : Work[g] # <<>>}
  <2>1. \A g \in ran : g \in Groups /\ Inside(g) # <<>>
    BY <1>2, <1>6, OldestFirst DEF Running, Retires
  <2> QED BY <2>1 DEF Work
<1>13. /\ Promises!Results(ran, out)
       /\ out = <<>> \/ \E g \in Groups : out = <<g>> /\ Owing(g) # <<>>
  BY <1>2, <1>3, <1>4, <1>6, ResultsMove
<1>14. out \in {<<>>} \cup {<<g>> : g \in {h \in Groups : OwedBy[h] # <<>>}}
  <2>1. \A h \in Groups : OwedBy[h] = Owing(h)
    BY DEF OwedBy, Owing, Held
  <2> QED BY <1>13, <2>1
<1>15. closed \in {{}} \cup {{x} : x \in {y \in Open : Promises!Executed(y)}}
  BY <1>2, ClosingOne
<1>16. told \in {{}} \cup {{x} : x \in DOMAIN OnTheirWay}
  <2>1. DOMAIN OnTheirWay = In(completion) \cup Rejected
    BY <1>6, ReportsAre, BagSum
  <2>2. told = {} \/ (told = In(completion) /\ completion # <<>>)
    BY <1>2 DEF Told, Offered
  <2>3. completion # <<>> => \E x : In(completion) = {x}
    BY DEF In
  <2> QED BY <2>1, <2>2, <2>3
<1>17. Open' = OpenAfter(ran, closed, accepted)
  BY <1>1, <1>2, OpenMoves
<1>18. OnTheirWay' = ((OnTheirWay (-) SetToBag(told)) (+) SetToBag(closed))
                     (+) SetToBag(rejected)
  <2>1. /\ OnTheirWay = SetToBag(In(completion)) (+) SetToBag(Rejected)
        /\ OnTheirWay' = SetToBag(In(completion')) (+) SetToBag(Rejected')
    BY <1>6, ReportsAre
  <2>2. SetToBag(In(completion')) (+) SetToBag(Rejected')
          = (((SetToBag(In(completion)) (+) SetToBag(Rejected)) (-) SetToBag(Told(taken)))
             (+) SetToBag(Closing(taken))) (+) SetToBag(NowRejected(shown, refused))
    BY <1>3, <1>4, <1>6, ReportsMove
  <2> QED BY <1>2, <2>1, <2>2, Zenon
<1>19. StepBy(leaving, accepted, rejected, ran, out, closed, told)
  BY <1>3, <1>7, <1>8, <1>9, <1>10, <1>11, <1>12, <1>13, <1>14, <1>15, <1>16, <1>17, <1>18,
     Zenon DEF StepBy
<1> QED BY <1>19, StepIsNext

\* The cluster keeps every promise of OrderedCluster, for any number of groups,
\* contexts, slots and entries: at every clock edge it takes commands only from
\* the heads of their queues, rejects the malformed ones and hands any other to
\* all its groups at once; every group executes what it was given in order and
\* once; a command is reported once, after all its groups have executed it and
\* with their verdicts; and no promised result is lost, made twice or delivered
\* out of its group's order (simd_cluster_exec.sv).
THEOREM ClusterRefinement == ClusterSpec => KeepsItsPromises
<1>1. ClusterInit => Promises!Init
  <2> SUFFICES ASSUME ClusterInit PROVE Promises!Init
    OBVIOUS
  <2> USE DEF ClusterInit, FrontendInit, TrackerInit
  <2>1. owner \in [Groups -> Contexts \cup {NoOwner}] /\ queue = [c \in Contexts |-> <<>>]
    OBVIOUS
  <2>2. {[Report(entry[e][1]) EXCEPT !.illegal = Verdicts(e)] : e \in Unreported} = {}
    BY DEF Unreported, Used
  <2>3. BagOf(completion) (+) BagOf(IF reject = <<>> THEN <<>> ELSE <<Rejection(reject[1])>>)
          = Promises!EmptyBag
    <3>1. ReportsType
      BY ClusterInvInit DEF ClusterInv
    <3>2. In(completion) = {} /\ Rejected = {}
      BY DEF In, Rejected
    <3>3. OnTheirWay = SetToBag({}) (+) SetToBag({})
      BY <3>1, <3>2, ReportsAre
    <3>4. OnTheirWay = SetToBag({})
      BY <3>3, BagNone
    <3> QED BY <3>4, SameBags DEF OnTheirWay
  <2>4. <<>> \o <<>> = <<>>
    OBVIOUS
  <2>5. \A g \in Groups : Inside(g) = <<>>
    <3> TAKE g \in Groups
    <3>1. res[g] = <<>> /\ pipe[g] = <<>> /\ ingress[g] = <<>>
      OBVIOUS
    <3> QED BY <2>4, <3>1, Zenon DEF Inside
  <2>6. \A g \in Groups :
          (IF collected # <<>> /\ collected[1].group = g THEN collected ELSE <<>>) \o rsp[g] = <<>>
    <3> TAKE g \in Groups
    <3>1. rsp[g] = <<>> /\ (IF collected # <<>> /\ collected[1].group = g
                            THEN collected ELSE <<>>) = <<>>
      OBVIOUS
    <3> QED BY <2>4, <3>1, Zenon
  <2> QED BY <2>1, <2>2, <2>3, <2>5, <2>6 DEF Promises!Init
<1>2. ClusterInv /\ [ClusterNext]_clusterVars => [Promises!Next]_(Promises!vars)
  <2>1. ASSUME ClusterInv, ClusterNext PROVE Promises!Next
    <3>1. PICK taken \in SUBSET Offered, granted \in Grants, clear \in BOOLEAN :
            \E written \in WriteTurns(taken), read \in ReadTurns :
              \E entering \in {<<>>} \cup {<<c>> : c \in Command} :
                Cycle(taken, read \cup {w.group : w \in written}, written, granted,
                      entering, clear)
      BY <2>1, Zenon DEF ClusterNext
    <3>2. PICK written \in WriteTurns(taken), read \in ReadTurns :
            \E entering \in {<<>>} \cup {<<c>> : c \in Command} :
              Cycle(taken, read \cup {w.group : w \in written}, written, granted,
                    entering, clear)
      BY <3>1, Zenon
    <3>3. PICK turns : turns = read \cup {w.group : w \in written}
      OBVIOUS
    <3>4. PICK entering \in {<<>>} \cup {<<c>> : c \in Command} :
            Cycle(taken, turns, written, granted, entering, clear)
      BY <3>2, <3>3, Zenon
    <3>5. taken \subseteq Offered /\ written \in WriteTurns(taken)
          /\ entering \in {<<>>} \cup {<<c>> : c \in Command}
      BY <3>1, <3>2, <3>4
    <3> QED BY <2>1, <3>4, <3>5, EdgePromises
  <2>2. ASSUME UNCHANGED clusterVars PROVE UNCHANGED Promises!vars
    BY <2>2 DEF clusterVars, frontendVars, trackerVars, groupVars, returnVars, reportVars,
                Promises!vars, Inside, Verdicts, HeardGroups, Holding, Unreported, Used
  <2> QED BY <2>1, <2>2
<1> QED BY <1>1, <1>2, ClusterInvHolds, PTL DEF ClusterSpec, KeepsItsPromises, Promises!Spec
============================================================================
