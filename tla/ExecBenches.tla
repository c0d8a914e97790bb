----------------------------- MODULE ExecBenches -----------------------------
(***************************************************************************)
(* The benches of the EXEC path: simd_issue_queue_tb and its variant of    *)
(* depth one, simd_issue_dispatch_tb and its wide variant,                 *)
(* simd_cluster_issue_frontend_tb, simd_group_completion_tracker_tb,       *)
(* simd_cluster_result_collector_tb, simd_cluster_exec_tb and its variant  *)
(* with one tracker entry.                                                 *)
(*                                                                         *)
(* A directed section is a script of lines: what the bench drives in a     *)
(* cycle (in) and the outputs it demands before the edge (see).  A random  *)
(* section drives stimuli that depend on the cycle and keeps the           *)
(* transaction model of the bench beside the unit.                         *)
(*                                                                         *)
(* Three contexts and issue slots serve every bench: where a bench has two *)
(* of each, the third queue stays empty and the third slot, which is the   *)
(* last to choose, shows nothing.                                          *)
(***************************************************************************)
EXTENDS ClusterExec, SequencesExt

Line(in, see) == [in |-> in, see |-> see]
Nothing == <<>>
Await(in, see) == [in |-> in, see |-> see, await |-> TRUE]
Times(n, l) == [i \in 1 .. n |-> l]

To(context, tag, groups, op) ==
  [context |-> context, tag |-> tag, groups |-> groups, op |-> op]

\* Fixed noise: the k-th choice of cycle n among m.
Dice(n, k, m) ==
  LET h == (n * 7919 + k * 15401 + 12345) % 46337
  IN  (((h * h) % 46337) \div 7) % m

Pick(set, n, k) ==
  LET i == Dice(n, k, Cardinality(set))
  IN  CHOOSE x \in set : Cardinality({y \in set : y < x}) = i

----------------------------------------------------------------------------
(* The issue queue.  A head that is ready leaves whatever it asks for.      *)

QueueQuiet == [enter |-> <<>>, ready |-> {}]
Heads == [s \in Slots |-> IF queue[s] = <<>> THEN <<>> ELSE <<Head(queue[s])>>]
Leaving(in) == {s \in in.ready : queue[s] # <<>>}

Room(enter, shown, gone) ==
  \A i \in DOMAIN enter : /\ enter[i].context \in Contexts
                          /\ MayEnter(enter[i], shown, gone)

QueuePlay(in) ==
  /\ FrontendEdge(Heads, Leaving(in),
                  IF Room(in.enter, Heads, Leaving(in)) THEN in.enter ELSE <<>>)
  /\ UNCHANGED <<owner, trackerVars, groupVars, returnVars, reportVars>>

QueueView(in) ==
  [valid |-> {c \in Contexts : queue[c] # <<>>},
   heads |-> [c \in Contexts |-> IF queue[c] = <<>> THEN <<>> ELSE <<Head(queue[c]).tag>>],
   full |-> {c \in Contexts : Len(queue[c]) = QueueDepth},
   occupancy |-> [c \in Contexts |-> Len(queue[c])],
   ready |-> Room(in.enter, Heads, Leaving(in))]

QueueSees(see) == Line(QueueQuiet, see)
Push(c, tag, see) == Line([QueueQuiet EXCEPT !.enter = <<To(c, tag, {}, "ADD")>>], see)
Exchange(c, tag, ready, see) == Line([enter |-> <<To(c, tag, {}, "ADD")>>, ready |-> ready], see)
PopAll(ready, see) == Line([QueueQuiet EXCEPT !.ready = ready], see)

Three(a, b, c) == 0 :> a @@ 1 :> b @@ 2 :> c

\* An entry is not seen in the cycle it enters, and a held head is stable.
\* A full queue takes an entry in the cycle its head leaves.
HeldAndReplaced ==
  <<Exchange(0, 16, {0}, [valid |-> {}, ready |-> TRUE])>>
  \o Times(4, QueueSees([heads |-> Three(<<16>>, <<>>, <<>>)]))
  \o <<Push(0, 17, [ready |-> TRUE]), Push(0, 18, [ready |-> TRUE]),
       Push(0, 19, [ready |-> FALSE, full |-> {0}]),
       Exchange(0, 19, {0}, [ready |-> TRUE, heads |-> Three(<<16>>, <<>>, <<>>)]),
       QueueSees([full |-> {0}, heads |-> Three(<<17>>, <<>>, <<>>)])>>

\* Contexts pop together, and there is no queue for context 3.
PopsTogether ==
  <<Push(0, 17, Nothing), Push(1, 80, Nothing), Push(2, 81, Nothing),
    PopAll({1, 2}, [valid |-> {0, 1, 2}]),
    Push(3, 170, [ready |-> FALSE, valid |-> {0}]),
    QueueSees([valid |-> {0}, occupancy |-> Three(1, 0, 0)])>>

\* Every context filled and drained, eight times.
Wraps(round, i) ==
  IF i < 9 THEN Push(i \div 3, 32 * round + i, [ready |-> TRUE])
  ELSE PopAll(Contexts, [heads |-> [c \in Contexts |-> <<32 * round + 3 * c + (i - 9)>>]])
DrainAndRefill ==
  [i \in 1 .. 96 |-> Wraps((i - 1) \div 12, (i - 1) % 12)]

\* One entry per queue: no fall-through, refusal, replacement, pop.
SingleEntry ==
  <<QueueSees([valid |-> {}]), Exchange(0, 16, {0}, [ready |-> TRUE, valid |-> {}]),
    Push(0, 32, [ready |-> FALSE, heads |-> Three(<<16>>, <<>>, <<>>), full |-> {0}]),
    Exchange(0, 48, {0}, [ready |-> TRUE, heads |-> Three(<<16>>, <<>>, <<>>)]),
    PopAll({0}, [heads |-> Three(<<48>>, <<>>, <<>>), full |-> {0}]),
    Push(0, 64, [valid |-> {}, heads |-> Three(<<>>, <<>>, <<>>)]),
    QueueSees([heads |-> Three(<<64>>, <<>>, <<>>), full |-> {0}])>>

\* The random section.  A refused request is held until it is taken; now and
\* then a request for context 3 stays for one cycle.
QueueStart == [model |-> [c \in Contexts |-> <<>>], pending |-> <<>>, covered |-> {}]

QueueOffer(n, gold) ==
  IF gold.pending # <<>> THEN gold.pending
  ELSE IF Dice(n, 1, 16) = 0 THEN <<To(3, n, {}, "ADD")>>
  ELSE IF Dice(n, 2, 4) # 0 THEN <<To(Dice(n, 3, 3), n, {}, "ADD")>>
  ELSE <<>>
QueueStimulus(n, gold) ==
  [enter |-> QueueOffer(n, gold),
   ready |-> {c \in Contexts : Dice(n, 4 + c, 2) = 0 /\ Dice(n \div 12, 9, 3) # 0}]

QueuePops(in, model) == {c \in in.ready : model[c] # <<>>}
QueueTakes(in, model) ==
  /\ in.enter # <<>> /\ in.enter[1].context \in Contexts
  /\ \/ Len(model[in.enter[1].context]) < 3
     \/ in.enter[1].context \in QueuePops(in, model)

QueueAgrees(in, gold) ==
  LET view == QueueView(in)
  IN  /\ \A c \in Contexts :
           view.heads[c] = IF gold.model[c] = <<>> THEN <<>> ELSE <<Head(gold.model[c])>>
      /\ \A c \in Contexts : view.occupancy[c] = Len(gold.model[c])
      /\ in.enter # <<>> => view.ready = QueueTakes(in, gold.model)

QueueEvents(in, model, pops, takes) ==
  {e \in {"push", "pop", "backpressure", "replacement", "pops", "invalid"} :
     CASE e = "push" -> takes
       [] e = "pop" -> pops # {}
       [] e = "pops" -> Cardinality(pops) > 1
       [] e = "backpressure" -> in.enter # <<>> /\ ~takes /\ in.enter[1].context < 3
       [] e = "replacement" -> takes /\ Len(model[in.enter[1].context]) = 3
       [] e = "invalid" -> in.enter # <<>> /\ in.enter[1].context = 3}

QueueGold(in, gold) ==
  LET pops == QueuePops(in, gold.model)
      takes == QueueTakes(in, gold.model)
  IN  [model |-> [c \in Contexts |->
         (IF c \in pops THEN Tail(gold.model[c]) ELSE gold.model[c])
         \o (IF takes /\ in.enter[1].context = c THEN <<in.enter[1].tag>> ELSE <<>>)],
       pending |-> IF takes \/ (in.enter # <<>> /\ in.enter[1].context = 3)
                   THEN <<>> ELSE in.enter,
       covered |-> gold.covered \cup QueueEvents(in, gold.model, pops, takes)]
QueueCovered == {"push", "pop", "backpressure", "replacement", "pops", "invalid"}

----------------------------------------------------------------------------
(* The dispatcher, with offers that may overlap.                            *)

\* A slot that may go goes unless a lower one that goes takes a group of it.
Overlaps(offer, s, t) == offer[s][1].groups \cap offer[t][1].groups # {}
Accepted(offer, able) ==
  CHOOSE gone \in SUBSET able :
    \A s \in able : s \in gone <=> \A t \in gone : t < s => ~Overlaps(offer, s, t)

DispatchOut(offer, ready, granted, credit) ==
  LET able == Dispatchable(offer, ready, granted)
      gone == Accepted(offer, able)
      wrong == Malformed(offer)
  IN  [accept |-> gone, reject |-> wrong \cap credit,
       groups |-> [g \in UNION {offer[s][1].groups : s \in gone} |->
                     CHOOSE s \in gone : g \in offer[s][1].groups],
       empty |-> {s \in wrong : offer[s][1].groups = {}},
       mismatch |-> {s \in wrong : offer[s][1].groups # {}},
       backpressured |-> Showing(offer) \ (wrong \cup able),
       conflict |-> able \ gone]

\* The reference of the bench: slot by slot, reserving groups.
RefSlot(out, s, command, ready, granted, credit) ==
  LET requested == command.groups
      match == \A g \in requested : owner[g] = command.context
      allReady == requested \subseteq ready
      error == requested = {} \/ ~match
      overlaps == requested \cap out.reserved # {}
      can == ~error /\ allReady /\ s \in granted /\ ~overlaps
      If(cond) == IF cond THEN {s} ELSE {}
  IN  [accept |-> out.accept \cup If(can),
       reject |-> out.reject \cup If(error /\ s \in credit),
       groups |-> IF can THEN [g \in requested |-> s] @@ out.groups ELSE out.groups,
       empty |-> out.empty \cup If(requested = {}),
       mismatch |-> out.mismatch \cup If(requested # {} /\ ~match),
       backpressured |-> out.backpressured
                         \cup If(~error /\ ~(allReady /\ s \in granted)),
       conflict |-> out.conflict \cup If(~error /\ allReady /\ s \in granted /\ overlaps),
       reserved |-> out.reserved \cup (IF can THEN requested ELSE {})]

RefStart ==
  [accept |-> {}, reject |-> {}, groups |-> <<>>, empty |-> {}, mismatch |-> {},
   backpressured |-> {}, conflict |-> {}, reserved |-> {}]
RefDispatch(offer, ready, granted, credit) ==
  FoldLeft(LAMBDA out, s : IF offer[s - 1] = <<>> THEN out
                           ELSE RefSlot(out, s - 1, offer[s - 1][1], ready, granted, credit),
           RefStart, [i \in 1 .. SlotCount |-> i])

DispatchAgrees(offer, ready, granted, credit) ==
  LET ref == RefDispatch(offer, ready, granted, credit)
      out == DispatchOut(offer, ready, granted, credit)
  IN  \A field \in DOMAIN out : out[field] = ref[field]

\* Two groups, two slots: every owner, offer, readiness and credit.
Offers2(valid, contexts, masks) ==
  [s \in Slots |-> IF s \in valid THEN <<To(contexts[s], 0, masks[s], "ADD")>> ELSE <<>>]
EveryDispatch ==
  \A valid, granted, credit \in SUBSET {0, 1}, ready \in SUBSET {0, 1} :
    \A contexts \in [{0, 1} -> {0, 1}], masks \in [{0, 1} -> SUBSET {0, 1}] :
      DispatchAgrees(Offers2(valid, contexts, masks), ready, granted, credit)
OwnerState(n) ==
  [g \in Groups |-> IF g > 1 THEN NoOwner ELSE
     <<NoOwner, 0, 1>>[((IF g = 0 THEN n ELSE n \div 3) % 3) + 1]]

\* Three slots and contexts, four groups, at random.
RandomSet(set, n, k) == {x \in set : Dice(n, k + x, 2) = 0}
WideDispatch(n) ==
  \A i \in 0 .. 19 :
    LET k == 100 * i
    IN  DispatchAgrees(
          [s \in Slots |-> IF Dice(n, k + s, 4) = 0 THEN <<>>
             ELSE <<To(Dice(n, k + 3 + s, 3), 0,
                       {g \in Groups : Dice(n, k + 10 + 4 * s + g, 3) = 0}, "ADD")>>],
          {g \in Groups : Dice(n, k + 30 + g, 4) # 0},
          {s \in Slots : Dice(n, k + 40 + s, 4) # 0}, RandomSet(Slots, n, k + 50))
AnyOwners(n) ==
  [g \in Groups |-> IF Dice(n, 60 + g, 5) = 0 THEN NoOwner ELSE Dice(n, 70 + g, 3)]

----------------------------------------------------------------------------
(* The issue front end.                                                     *)

FrontQuiet ==
  [enter |-> <<>>, ready |-> {}, granted |-> {0, 1}, credit |-> {0, 1}]
FrontAccepts(in) == Dispatchable(Presented, in.ready, in.granted)
FrontRejects(in) == Malformed(Presented) \cap in.credit
FrontRoom(in, gone) == Room(in.enter, Presented, gone)

FrontEdgeWith(in, gone) ==
  FrontendEdge(Presented, gone, IF FrontRoom(in, gone) THEN in.enter ELSE <<>>)
FrontPlay(in, owners) ==
  /\ FrontEdgeWith(in, FrontAccepts(in) \cup FrontRejects(in))
  /\ owner' = owners
  /\ UNCHANGED <<trackerVars, groupVars, returnVars, reportVars>>

FrontView(in) ==
  [locked |-> Locked # {}, accepted |-> Cardinality(FrontAccepts(in)),
   rejected |-> Cardinality(FrontRejects(in)),
   popped |-> {Presented[s][1].context : s \in FrontAccepts(in) \cup FrontRejects(in)},
   waiting |-> {c \in Contexts : queue[c] # <<>>},
   room |-> FrontRoom(in, FrontAccepts(in) \cup FrontRejects(in))]

Enqueue(c, tag, groups, ready) ==
  Line([FrontQuiet EXCEPT !.enter = <<To(c, tag, groups, "ADD")>>, !.ready = ready],
       [room |-> TRUE])
FrontReady(ready, see) == Line([FrontQuiet EXCEPT !.ready = ready], see)

\* Two disjoint cohorts go together.
DualIssue ==
  <<Enqueue(0, 16, {0, 1}, {}), Enqueue(1, 17, {2, 3}, {}),
    FrontReady(Groups, [accepted |-> 2, popped |-> {0, 1}])>>

\* Without its resource a command is locked, and goes once with it.
ResourceDenied ==
  <<Line([FrontQuiet EXCEPT !.enter = <<To(0, 18, {0, 1}, "ADD")>>, !.ready = Groups,
                            !.granted = {}], [room |-> TRUE]),
    Line([FrontQuiet EXCEPT !.ready = Groups, !.granted = {}], [accepted |-> 0]),
    Line([FrontQuiet EXCEPT !.ready = Groups, !.granted = {0}],
         [locked |-> TRUE, accepted |-> 1, popped |-> {0}])>>

\* A multicast waits for all its groups.
PartlyReady ==
  <<Enqueue(0, 34, {0, 1}, {}), FrontReady({0}, [accepted |-> 0])>>
  \o Times(4, FrontReady({0}, [locked |-> TRUE, accepted |-> 0]))
  \o <<FrontReady({0, 1}, [locked |-> TRUE, accepted |-> 1]),
       FrontReady({0, 1}, [waiting |-> {}])>>

\* A command of another's group waits for the credit of its rejection.
CreditedReject ==
  LET Poor == [FrontQuiet EXCEPT !.ready = Groups, !.granted = {}, !.credit = {}]
  IN  <<Line([Poor EXCEPT !.enter = <<To(1, 51, {0}, "ADD")>>], [room |-> TRUE]),
        Line(Poor, [rejected |-> 0])>>
      \o Times(3, Line(Poor, [locked |-> TRUE, rejected |-> 0]))
      \o <<Line([Poor EXCEPT !.credit = {0, 1}], [rejected |-> 1, popped |-> {1}])>>

\* While it waits it does not block the owner of that group.
MalformedIsIsolated ==
  LET Poor == [FrontQuiet EXCEPT !.ready = {0}, !.credit = {}]
  IN  <<Line([Poor EXCEPT !.enter = <<To(0, 52, {0}, "ADD")>>], [room |-> TRUE]),
        Line(Poor, [rejected |-> 0]),
        Line([Poor EXCEPT !.enter = <<To(1, 53, {0}, "ADD")>>], [locked |-> TRUE]),
        Line(Poor, [accepted |-> 1, popped |-> {1}]),
        Line([Poor EXCEPT !.credit = {0, 1}],
             [waiting |-> {0}, rejected |-> 1, popped |-> {0}])>>

\* Behind a locked head a full queue takes an entry as the head goes.
FullReplacement ==
  <<Enqueue(0, 64, {0, 1}, {}), Enqueue(0, 65, {0, 1}, {}), Enqueue(0, 66, {0, 1}, {})>>
  \o <<Line([FrontQuiet EXCEPT !.enter = <<To(0, 67, {0, 1}, "ADD")>>], [room |-> FALSE]),
       Line([FrontQuiet EXCEPT !.enter = <<To(0, 67, {0, 1}, "ADD")>>, !.ready = {0, 1}],
            [room |-> TRUE, accepted |-> 1, popped |-> {0}]),
       FrontReady(Groups, [accepted |-> 1]), FrontReady(Groups, [accepted |-> 1]),
       FrontReady(Groups, [accepted |-> 1]), FrontReady(Groups, [waiting |-> {}])>>

\* The random section: owners, readiness, resources, credit and commands
\* change in every cycle, the model of the bench holds the queues alone.
FrontStart ==
  [model |-> [c \in Contexts |-> <<>>], pending |-> <<>>, held |-> <<>>, covered |-> {}]
RandomOwners(n) ==
  LET k == n \div 6
  IN  [g \in Groups |-> IF Dice(k, 20 + g, 5) = 0 THEN NoOwner ELSE Dice(k, 24 + g, 2)]

FrontOffer(n, gold) ==
  IF gold.pending # <<>> THEN gold.pending
  ELSE IF Dice(n, 1, 4) = 0 THEN <<>>
  ELSE <<To(Dice(n, 2, 2), n, {g \in Groups : Dice(n, 3 + g, 4) = 0}, "ADD")>>
FrontStimulus(n, gold) ==
  [enter |-> FrontOffer(n, gold), ready |-> {g \in Groups : Dice(n, 8 + g, 4) # 0},
   granted |-> {s \in {0, 1} : Dice(n, 12 + s, 4) # 0}, credit |-> RandomSet({0, 1}, n, 16)]

\* What a slot shows is the head of a queue no other slot shows, a locked one
\* still shows what it did, and what leaves has its owners, groups, resource
\* or credit.
SlotAgrees(in, gold, shown, s) ==
  LET command == shown[s][1]
      owned == /\ command.groups # {}
               /\ \A g \in command.groups : owner[g] = command.context
  IN  /\ gold.model[command.context] # <<>>
      /\ command = Head(gold.model[command.context])
      /\ \A t \in Showing(shown) : shown[t][1].context = command.context => t = s
      /\ s \in Locked => <<s, command>> \in gold.held
      /\ s \in FrontAccepts(in) =>
           owned /\ command.groups \subseteq in.ready /\ s \in in.granted
      /\ s \in FrontRejects(in) => ~owned /\ s \in in.credit

FrontTakes(in, gold, popped) ==
  /\ in.enter # <<>>
  /\ \/ Len(gold.model[in.enter[1].context]) < 3
     \/ in.enter[1].context \in popped

FrontAgrees(in, gold) ==
  /\ \A s \in Showing(Presented) : SlotAgrees(in, gold, Presented, s)
  /\ \A c \in Contexts : queue[c] = gold.model[c]
  /\ in.enter # <<>> => FrontView(in).room = FrontTakes(in, gold, FrontView(in).popped)

FrontEvents(in, model, view) ==
  {e \in {"push", "accept", "reject", "dual", "lock", "replacement"} :
     CASE e = "push" -> in.enter # <<>> /\ view.room
       [] e = "accept" -> view.accepted > 0
       [] e = "reject" -> view.rejected > 0
       [] e = "dual" -> view.accepted = 2
       [] e = "lock" -> view.locked
       [] e = "replacement" -> /\ in.enter # <<>> /\ view.room
                               /\ Len(model[in.enter[1].context]) = 3}
FrontCovered == {"push", "accept", "reject", "dual", "lock", "replacement"}

FrontGold(in, gold) ==
  LET view == FrontView(in)
      takes == FrontTakes(in, gold, view.popped)
      shown == Presented
  IN  [model |-> [c \in Contexts |->
         (IF c \in view.popped THEN Tail(gold.model[c]) ELSE gold.model[c])
         \o (IF takes /\ in.enter[1].context = c THEN in.enter ELSE <<>>)],
       pending |-> IF takes THEN <<>> ELSE in.enter,
       held |-> {<<s, shown[s][1]>> : s \in Showing(shown)},
       covered |-> gold.covered \cup FrontEvents(in, gold.model, view)]

----------------------------------------------------------------------------
(* The completion tracker.  Every command for which there is an entry is    *)
(* issued in the same cycle, unless a line says otherwise.                  *)

TrackerQuiet ==
  [alloc |-> <<>>, commit |-> TRUE, cpl |-> <<>>, rsp |-> <<>>, ready |-> FALSE,
   clear |-> FALSE]
Asked(in) == [s \in Slots |-> IF s \in DOMAIN in.alloc THEN <<in.alloc[s]>> ELSE <<>>]
Allowed(in) == Granted(Asked(in), DOMAIN in.alloc)

AllocAt(in, allowed) ==
  [e \in {Spot(Before(allowed, s)) : s \in allowed} |->
     LET s == CHOOSE t \in allowed : Spot(Before(allowed, t)) = e
     IN  NewEntry(in.alloc[s], in.alloc[s].results)]

TrackerPlay(in) ==
  /\ TrackerEdge(in.cpl, in.rsp, IF in.ready THEN Done ELSE <<>>,
                 IF in.commit THEN AllocAt(in, Allowed(in)) ELSE <<>>, in.clear)
  /\ UNCHANGED <<owner, frontendVars, groupVars, returnVars, reportVars>>

Visible(e) ==
  LET x == entry[e][1]
  IN  [context |-> x.context, tag |-> x.tag, groups |-> x.groups,
       results |-> x.results, illegal |-> x.illegal]
TrackerView(in) ==
  [allowed |-> Allowed(in), busyTag |-> {s \in DOMAIN in.alloc : Busy(in.alloc[s])},
   occupancy |-> Cardinality(Used),
   executing |-> {entry[e][1].context : e \in {f \in Used : entry[f][1].pending # {}}},
   tagBusy |-> {entry[e][1].context : e \in Used},
   done |-> IF Done = <<>> THEN <<>> ELSE <<Visible(Done[1])>>,
   finished |-> {Visible(e) : e \in {f \in Entries : Complete(f)}},
   error |-> trackerError]

Alloc(c, tag, groups, results) ==
  [context |-> c, tag |-> tag, groups |-> groups, results |-> results]
Told(c, tag, groups, results, illegal) ==
  [context |-> c, tag |-> tag, groups |-> groups, results |-> results, illegal |-> illegal]
CplOf(c, tag, groups, illegal, results) ==
  [g \in groups |-> [context |-> c, tag |-> tag, illegal |-> g \in illegal,
                     result |-> g \in results]]
RspOf(c, tag, groups) == [g \in groups |-> [context |-> c, tag |-> tag]]

TrackerSees(see) == <<Line(TrackerQuiet, see)>>
Allocate(c, tag, groups, results) ==
  <<Line([TrackerQuiet EXCEPT !.alloc = 0 :> Alloc(c, tag, groups, results)],
         [allowed |-> {0}])>>
SendCpl(c, tag, groups, illegal, results) ==
  <<Line([TrackerQuiet EXCEPT !.cpl = CplOf(c, tag, groups, illegal, results)], Nothing)>>
SendRsp(c, tag, groups) ==
  <<Line([TrackerQuiet EXCEPT !.rsp = RspOf(c, tag, groups)], Nothing)>>
Consume(told) == <<Line([TrackerQuiet EXCEPT !.ready = TRUE], [done |-> <<told>>])>>
ClearTracker ==
  <<Line([TrackerQuiet EXCEPT !.clear = TRUE], [error |-> TRUE])>>
  \o TrackerSees([error |-> FALSE])

\* A candidate that is not issued leaves no entry.
Uncommitted ==
  <<Line([TrackerQuiet EXCEPT !.alloc = 0 :> Alloc(0, 15, {0}, {}), !.commit = FALSE],
         [allowed |-> {0}, occupancy |-> 0])>>
  \o TrackerSees([occupancy |-> 0]) \o Allocate(0, 15, {0}, {})
  \o SendCpl(0, 15, {0}, {}, {}) \o Consume(Told(0, 15, {0}, {}, {}))

\* The last of four groups shows the command, which is held as it is.
AnyOrder ==
  Allocate(0, 16, Groups, {}) \o TrackerSees([occupancy |-> 1, executing |-> {0}])
  \o SendCpl(0, 16, {2}, {}, {}) \o SendCpl(0, 16, {0}, {}, {})
  \o SendCpl(0, 16, {3}, {3}, {}) \o TrackerSees([done |-> <<>>])
  \o SendCpl(0, 16, {1}, {}, {})
  \o Times(4, TrackerSees([done |-> <<Told(0, 16, Groups, {}, {3})>>])[1])
  \o Consume(Told(0, 16, Groups, {}, {3}))
  \o TrackerSees([occupancy |-> 0, tagBusy |-> {}])
  \o Allocate(1, 17, Groups, {}) \o SendCpl(1, 17, Groups, {}, {})
  \o Consume(Told(1, 17, Groups, {}, {}))

\* Two commands at once, their completions interleaved, in either order.
DualAllocation ==
  <<Line([TrackerQuiet EXCEPT !.alloc = 0 :> Alloc(0, 32, {0, 1}, {})
                                        @@ 1 :> Alloc(1, 33, {2, 3}, {})],
         [allowed |-> {0, 1}])>>
  \o SendCpl(0, 32, {0}, {}, {}) \o SendCpl(1, 33, {2}, {}, {})
  \o <<Line([TrackerQuiet EXCEPT !.cpl = CplOf(0, 32, {1}, {}, {}) @@ CplOf(1, 33, {3}, {}, {})],
            Nothing),
       Line([TrackerQuiet EXCEPT !.ready = TRUE],
            [finished |-> {Told(0, 32, {0, 1}, {}, {}), Told(1, 33, {2, 3}, {}, {})}]),
       Line([TrackerQuiet EXCEPT !.ready = TRUE], [occupancy |-> 1])>>
  \o TrackerSees([occupancy |-> 0])

\* The tag stays busy until the last result is collected, before or after
\* the completion.
LateAndEarlyResults ==
  Allocate(0, 48, {0, 1}, {0, 1}) \o SendCpl(0, 48, {0, 1}, {}, {0, 1})
  \o Consume(Told(0, 48, {0, 1}, {0, 1}, {}))
  \o TrackerSees([occupancy |-> 1, executing |-> {}, tagBusy |-> {0}])
  \o <<Line([TrackerQuiet EXCEPT !.alloc = 0 :> Alloc(0, 48, {0}, {})],
            [allowed |-> {}, busyTag |-> {0}])>>
  \o TrackerSees([error |-> FALSE])
  \o SendRsp(0, 48, {1}) \o TrackerSees([occupancy |-> 1]) \o SendRsp(0, 48, {0})
  \o TrackerSees([occupancy |-> 0])
  \o Allocate(1, 49, {2, 3}, {2, 3}) \o SendRsp(1, 49, {2, 3})
  \o TrackerSees([executing |-> {1}]) \o SendCpl(1, 49, {2, 3}, {}, {2, 3})
  \o Consume(Told(1, 49, {2, 3}, {2, 3}, {})) \o TrackerSees([occupancy |-> 0])

\* Messages nobody expects are consumed and leave the sticky error: a group
\* outside the command, a second time, an unknown key.
Diagnostics ==
  Allocate(0, 64, {0}, {0}) \o SendCpl(0, 64, {1}, {}, {})
  \o TrackerSees([error |-> TRUE, done |-> <<>>])
  \o SendCpl(0, 64, {0}, {}, {}) \o TrackerSees([done |-> <<Told(0, 64, {0}, {}, {0})>>])
  \o SendCpl(0, 64, {0}, {}, {}) \o SendCpl(1, 238, {2}, {}, {})
  \o SendRsp(0, 64, {1}) \o SendRsp(1, 239, {2}) \o SendRsp(0, 64, {0})
  \o SendRsp(0, 64, {0}) \o TrackerSees([error |-> TRUE, occupancy |-> 1])
  \o Consume(Told(0, 64, {0}, {}, {0})) \o TrackerSees([occupancy |-> 0]) \o ClearTracker

\* A result that is missing does not keep the tag, one that was not declared
\* does; either makes the command illegal.
WrongResults ==
  Allocate(0, 65, {2}, {2}) \o SendCpl(0, 65, {2}, {}, {})
  \o Consume(Told(0, 65, {2}, {}, {2})) \o TrackerSees([occupancy |-> 0]) \o ClearTracker
  \o Allocate(1, 66, {3}, {}) \o SendCpl(1, 66, {3}, {}, {3})
  \o Consume(Told(1, 66, {3}, {3}, {3})) \o TrackerSees([occupancy |-> 1])
  \o SendRsp(1, 66, {3}) \o TrackerSees([occupancy |-> 0]) \o ClearTracker

\* A full table refuses, also in the cycle that frees an entry.
FullTable ==
  LET Pair(t, g) == 0 :> Alloc(0, t, {g}, {}) @@ 1 :> Alloc(1, t + 1, {g + 1}, {})
      Fifth == 0 :> Alloc(0, 84, {0}, {})
  IN  <<Line([TrackerQuiet EXCEPT !.alloc = Pair(80, 0)], [allowed |-> {0, 1}]),
        Line([TrackerQuiet EXCEPT !.alloc = Pair(82, 2)], [allowed |-> {0, 1}]),
        Line([TrackerQuiet EXCEPT !.alloc = Fifth],
             [occupancy |-> 4, allowed |-> {}, busyTag |-> {}])>>
      \o SendCpl(0, 80, {0}, {}, {})
      \o <<Line([TrackerQuiet EXCEPT !.alloc = Fifth, !.ready = TRUE],
                [done |-> <<Told(0, 80, {0}, {}, {})>>, allowed |-> {}])>>
      \o TrackerSees([occupancy |-> 3])

\* The random section with the bench's own account of the commands.
GoldStart ==
  [live |-> <<>>, offers |-> [s \in {0, 1} |-> <<>>], held |-> <<>>, covered |-> {}]
GoldOffers(n, gold) ==
  [s \in {0, 1} |->
     IF gold.offers[s] # <<>> THEN gold.offers[s]
     ELSE IF Dice(n, s, 4) = 0 THEN <<>>
     ELSE LET groups == {0} \cup {g \in Groups : Dice(n, 2 + 4 * s + g, 2) = 0}
          IN  <<Alloc(Dice(n, 10 + s, 2), 2 * n + s, groups,
                      {g \in groups : Dice(n, 12 + 4 * s + g, 2) = 0})>>]

Owing(live, field, g) == {i \in DOMAIN live : g \in live[i][field]}
RandomCpl(n, live) ==
  [g \in {h \in Groups : Owing(live, "pendingCpl", h) # {} /\ Dice(n, 20 + h, 3) = 0} |->
     LET x == live[Pick(Owing(live, "pendingCpl", g), n, 24 + g)]
     IN  [context |-> x.context, tag |-> x.tag, illegal |-> Dice(n, 28 + g, 8) = 0,
          result |-> g \in x.results]]
RandomRsp(n, live) ==
  [g \in {h \in Groups : Owing(live, "pendingRsp", h) # {} /\ Dice(n, 32 + h, 3) = 0} |->
     LET x == live[Pick(Owing(live, "pendingRsp", g), n, 36 + g)]
     IN  [context |-> x.context, tag |-> x.tag]]

TrackerStimulus(n, gold) ==
  LET offers == GoldOffers(n, gold)
  IN  [alloc |-> [s \in {t \in {0, 1} : offers[t] # <<>>} |-> offers[s][1]], commit |-> TRUE,
       cpl |-> RandomCpl(n, gold.live), rsp |-> RandomRsp(n, gold.live),
       ready |-> Dice(n, 40, 2) = 0, clear |-> FALSE]

\* As many offers as entries are free before the edge, lower slots first.
GoldAllowed(in, gold) ==
  {s \in DOMAIN in.alloc :
     Cardinality({t \in DOMAIN in.alloc : t < s}) < 4 - Len(gold.live)}

Same(x, y) == x.context = y.context /\ x.tag = y.tag
Finishes(x, told) ==
  /\ Same(x, told) /\ x.pendingCpl = {} /\ ~x.reported
  /\ told = Told(x.context, x.tag, x.groups, x.results, x.illegal)

TrackerAgrees(in, gold) ==
  LET view == TrackerView(in)
  IN  /\ view.occupancy = Len(gold.live) /\ view.busyTag = {} /\ ~view.error
      /\ view.executing = {gold.live[i].context :
                             i \in {j \in DOMAIN gold.live : gold.live[j].pendingCpl # {}}}
      /\ view.tagBusy = {gold.live[i].context : i \in DOMAIN gold.live}
      /\ view.allowed = GoldAllowed(in, gold)
      /\ IF view.done # <<>>
         THEN /\ \E i \in DOMAIN gold.live : Finishes(gold.live[i], view.done[1])
              /\ gold.held # <<>> => view.done = gold.held
         ELSE /\ gold.held = <<>>
              /\ \A i \in DOMAIN gold.live : gold.live[i].pendingCpl # {} \/ gold.live[i].reported

GoldHeard(x, in, fired) ==
  LET completed == {g \in DOMAIN in.cpl : Same(in.cpl[g], x)}
      collects == {g \in DOMAIN in.rsp : Same(in.rsp[g], x)}
  IN  [x EXCEPT !.pendingCpl = @ \ completed, !.pendingRsp = @ \ collects,
                !.illegal = @ \cup {g \in completed : in.cpl[g].illegal},
                !.reported = @ \/ (fired # <<>> /\ Same(fired[1], x))]
GoldNew(x) ==
  [context |-> x.context, tag |-> x.tag, groups |-> x.groups, results |-> x.results,
   pendingCpl |-> x.groups, pendingRsp |-> x.results, illegal |-> {}, reported |-> FALSE]

TrackerEvents(in, allowed, done) ==
  {e \in {"alloc", "cpl", "rsp", "report", "dual", "multi", "stall"} :
     CASE e = "alloc" -> allowed # {}
       [] e = "cpl" -> in.cpl # <<>>
       [] e = "rsp" -> in.rsp # <<>>
       [] e = "report" -> done # <<>> /\ in.ready
       [] e = "dual" -> allowed = {0, 1}
       [] e = "multi" -> Cardinality(DOMAIN in.cpl) > 1
       [] e = "stall" -> done # <<>> /\ ~in.ready}
TrackerCovered == {"alloc", "cpl", "rsp", "report", "dual", "multi", "stall"}

TrackerGold(in, gold) ==
  LET done == TrackerView(in).done
      fired == IF in.ready THEN done ELSE <<>>
      allowed == GoldAllowed(in, gold)
      heard == [i \in DOMAIN gold.live |-> GoldHeard(gold.live[i], in, fired)]
      New(s) == IF s \in allowed THEN <<GoldNew(in.alloc[s])>> ELSE <<>>
  IN  [live |-> SelectSeq(heard, LAMBDA x : ~x.reported \/ x.pendingRsp # {}) \o New(0) \o New(1),
       offers |-> [s \in {0, 1} |-> IF s \in DOMAIN in.alloc \ allowed
                                    THEN <<in.alloc[s]>> ELSE <<>>],
       held |-> IF in.ready THEN <<>> ELSE done,
       covered |-> gold.covered \cup TrackerEvents(in, allowed, done)]

----------------------------------------------------------------------------
(* The result collector.  "offers" are the responses of the groups in the   *)
(* next cycle.                                                              *)

CollectorQuiet == [ready |-> FALSE, offers |-> <<>>]
CollectorTaken(in) == IF in.ready THEN {"RESULT"} ELSE {}
CollectorPlay(in) ==
  /\ ReturnsEdge(CollectorTaken(in))
  /\ rsp' = [g \in Groups |-> IF g \in DOMAIN in.offers THEN <<in.offers[g]>> ELSE <<>>]
  /\ UNCHANGED <<owner, frontendVars, trackerVars, ingress, pipe, res, cpl, reportVars>>
CollectorView(in) ==
  [result |-> collected, retire |-> Retired(CollectorTaken(in))]

ResultOf(g, serial) ==
  [group |-> g, context |-> (serial + g) % 3, tag |-> (serial * 17 + g * 29) % 256,
   illegal |-> (serial + g) % 8 = 0]
Driving(serials) == [g \in DOMAIN serials |-> ResultOf(g, serials[g])]

\* A held record blocks the groups; it is popped and refilled in one cycle.
HeldResult ==
  LET first == [group |-> 2, context |-> 1, tag |-> 165, illegal |-> TRUE]
      blocked == ResultOf(1, 99)
      Stalled == Line([CollectorQuiet EXCEPT !.offers = 1 :> blocked],
                      [result |-> <<first>>, retire |-> <<>>])
  IN  <<Line([CollectorQuiet EXCEPT !.offers = 2 :> first], [result |-> <<>>, retire |-> <<>>]),
        Line([CollectorQuiet EXCEPT !.offers = 1 :> blocked], [retire |-> 2 :> first])>>
      \o Times(5, Stalled)
      \o <<Line([CollectorQuiet EXCEPT !.ready = TRUE],
                [result |-> <<first>>, retire |-> 1 :> blocked]),
           Line([CollectorQuiet EXCEPT !.ready = TRUE],
                [result |-> <<blocked>>, retire |-> <<>>]),
           Line(CollectorQuiet, [result |-> <<>>])>>

\* With all groups offering, each has its turn.
RoundRobin ==
  [i \in 1 .. 33 |->
     Line([ready |-> TRUE, offers |-> Driving([g \in Groups |-> i - 1])],
          IF i = 1 THEN [retire |-> <<>>]
          ELSE [retire |-> ((i - 2) % 4) :> ResultOf((i - 2) % 4, i - 2),
                result |-> IF i = 2 THEN <<>> ELSE <<ResultOf((i - 3) % 4, i - 3)>>])]

\* The random section: queues of unequal depth before the groups.
Supply(g) == SelectSeq([i \in 1 .. 24 |-> 999 + i],
                       LAMBDA serial : serial % (g + 2) # 0 \/ serial < 1008)
CollectorStart == [queues |-> [g \in Groups |-> <<>>], buffered |-> <<>>, turn |-> 0,
                   covered |-> {}]
Fronts(queues) ==
  [g \in {h \in Groups : queues[h] # <<>>} |-> ResultOf(g, Head(queues[g]))]

ExpectedSelect(gold, in) ==
  LET full == {g \in Groups : gold.queues[g] # <<>>}
  IN  IF full = {} \/ (gold.buffered # <<>> /\ ~in.ready) THEN <<>>
      ELSE <<CHOOSE g \in full : \A h \in full : (g + 4 - gold.turn) % 4 =< (h + 4 - gold.turn) % 4>>

CollectorAgrees(in, gold) ==
  LET selected == ExpectedSelect(gold, in)
      view == CollectorView(in)
  IN  /\ view.result = gold.buffered
      /\ view.retire = IF selected = <<>> THEN <<>>
                       ELSE selected[1] :> ResultOf(selected[1], Head(gold.queues[selected[1]]))

CollectorGold(n, in, gold) ==
  LET selected == ExpectedSelect(gold, in)
  IN  [queues |-> IF n = 0 THEN [g \in Groups |-> Supply(g)]
                  ELSE [g \in Groups |-> IF selected = <<g>> THEN Tail(gold.queues[g])
                                         ELSE gold.queues[g]],
       buffered |-> IF selected # <<>>
                    THEN <<ResultOf(selected[1], Head(gold.queues[selected[1]]))>>
                    ELSE IF in.ready THEN <<>> ELSE gold.buffered,
       turn |-> IF selected = <<>> THEN gold.turn ELSE (selected[1] + 1) % 4,
       covered |-> IF n > 0 /\ \A g \in Groups : gold.queues[g] = <<>> THEN {"drained"} ELSE {}]
CollectorStimulus(n, gold) == [ready |-> Dice(n, 1, 4) # 0, offers |-> <<>>]

----------------------------------------------------------------------------
(* The EXEC cluster: what the groups compute is left out, of state reads    *)
(* only the turn they take.                                                 *)

ExecQuiet == [ready |-> {}, enter |-> <<>>, write |-> {}, read |-> {}, grant |-> {0, 1}]
ExecTaken(in) == in.ready \cap Offered
ExecTurns(in) == in.read \cup {w.group : w \in in.write}

ExecPlay(in) ==
  /\ \A w \in in.write : MayWrite(w, ExecTaken(in))
  /\ \A g \in in.read : Idle(g)
  /\ Cycle(ExecTaken(in), ExecTurns(in), in.write, in.grant, in.enter, FALSE)

ExecIssued(in) ==
  Granted(Presented,
          Dispatchable(Presented, IngressReady(ExecTaken(in), ExecTurns(in)), in.grant))
ExecView(in) ==
  [reports |-> completion # <<>>, completion |-> completion,
   collects |-> collected # <<>>, result |-> collected,
   state |-> IF StateSelected = <<>> THEN <<>>
             ELSE <<StateSelected[1], cpl[StateSelected[1]][1].tag>>,
   written |-> StateSelected # <<>>, issued |-> ExecIssued(in),
   shown |-> {Presented[s][1].groups : s \in Showing(Presented)},
   both |-> Cardinality(Showing(Presented)) = 2,
   occupancy |-> Cardinality(Used), ingress |-> Full(ingress),
   fire |-> Drained(ExecTaken(in), ExecTurns(in)),
   empty |-> Used = {} /\ Full(ingress) = {}, quiescent |-> Quiescent,
   error |-> trackerError]

ExecSees(see) == <<Line(ExecQuiet, see)>>
Feed(c, tag, groups, op, grant) ==
  <<Line([ExecQuiet EXCEPT !.enter = <<To(c, tag, groups, op)>>, !.grant = grant], Nothing)>>
Taking(channel, see) == <<Line([ExecQuiet EXCEPT !.ready = {channel}], see)>>

IssueWrite(g, tag) ==
  <<Line([ExecQuiet EXCEPT !.write = {[group |-> g, context |-> 0, tag |-> tag,
                                       illegal |-> FALSE]}], Nothing)>>
WriteVrf(g, tag) ==
  IssueWrite(g, tag) \o <<Await(ExecQuiet, [written |-> TRUE])>>
  \o Taking("STATE", [state |-> <<g, tag>>])

WaitReport == <<Await(ExecQuiet, [reports |-> TRUE])>>
ReportAs(c, tag, groups, results, illegal, rejected) ==
  [context |-> c, tag |-> tag, groups |-> groups, results |-> results,
   illegal |-> illegal, rejected |-> rejected]
Reported(report) == WaitReport \o Taking("COMPLETION", [completion |-> <<report>>])
Normal(c, tag, groups, results) == Reported(ReportAs(c, tag, groups, results, {}, FALSE))

ConsumeResult(g, tag) ==
  <<Await(ExecQuiet, [collects |-> TRUE])>>
  \o Taking("RESULT", [result |-> <<[group |-> g, context |-> 0, tag |-> tag,
                                     illegal |-> FALSE]>>])
FourResults(tag) == FlattenSeq([i \in 1 .. 4 |-> ConsumeResult(i - 1, tag)])
Emptied == <<Await(ExecQuiet, [empty |-> TRUE])>>

\* The state completion that is shown stays shown while a lower group waits.
StateHeld ==
  FlattenSeq([i \in 1 .. 4 |-> WriteVrf(i - 1, 127 + i) \o WriteVrf(i - 1, 143 + i)])
  \o IssueWrite(2, 162) \o ExecSees([state |-> <<2, 162>>, quiescent |-> FALSE])
  \o IssueWrite(1, 161) \o Times(4, ExecSees([state |-> <<2, 162>>])[1])
  \o Taking("STATE", [state |-> <<2, 162>>])
  \o Taking("STATE", [state |-> <<1, 161>>, quiescent |-> FALSE])
  \o ExecSees([written |-> FALSE, quiescent |-> TRUE])

\* A multicast completes once; a multicast export leaves a result per group,
\* here in the order of the collector's turns.
MulticastAndExport ==
  ExecSees([occupancy |-> 0, ingress |-> {}, quiescent |-> TRUE, error |-> FALSE])
  \o <<Line([ExecQuiet EXCEPT !.read = {2}], [occupancy |-> 0])>>
  \o Feed(0, 1, Groups, "ADD", {0, 1}) \o ExecSees([quiescent |-> FALSE])
  \o WaitReport \o ExecSees([quiescent |-> FALSE])
  \o Normal(0, 1, Groups, {}) \o ExecSees([quiescent |-> TRUE])
  \o Feed(0, 2, Groups, "EXPORT", {0, 1}) \o Normal(0, 2, Groups, Groups)
  \o FourResults(2) \o Emptied

\* While results are owed the tag is busy: its next command stays queued.
BlockedResults ==
  Feed(0, 3, Groups, "EXPORT", {0, 1}) \o Normal(0, 3, Groups, Groups)
  \o Times(8, ExecSees([result |-> <<[group |-> 0, context |-> 0, tag |-> 3,
                                      illegal |-> FALSE]>>])[1])
  \o Feed(0, 3, {0}, "ADD", {0, 1}) \o Times(5, ExecSees([issued |-> {}])[1])
  \o FourResults(3) \o Normal(0, 3, {0}, {}) \o Emptied

\* Withheld grants keep both commands in their slots, then both go at once
\* and enter all four groups together.
SplitOwnership ==
  Feed(0, 10, {0, 1}, "ADD", {}) \o Feed(1, 11, {2, 3}, "ADD", {})
  \o Times(2, Line([ExecQuiet EXCEPT !.grant = {}], [issued |-> {}]))
  \o <<Line([ExecQuiet EXCEPT !.grant = {}], [issued |-> {}, shown |-> {{0, 1}, {2, 3}}])>>
  \o ExecSees([issued |-> {0, 1}]) \o ExecSees([ingress |-> Groups, fire |-> Groups])
  \o Normal(0, 10, {0, 1}, {}) \o Normal(1, 11, {2, 3}, {}) \o Emptied

\* Commands refused before they are issued, and one its group refuses.
Refusals ==
  Feed(0, 20, {}, "ADD", {0, 1}) \o Reported(ReportAs(0, 20, {}, {}, {}, TRUE))
  \o Feed(0, 21, {3}, "ADD", {0, 1}) \o Reported(ReportAs(0, 21, {3}, {}, {3}, TRUE))
  \o Feed(0, 22, {0}, "BAD", {0, 1}) \o Reported(ReportAs(0, 22, {0}, {}, {0}, FALSE))
  \o Emptied \o ExecSees([error |-> FALSE, occupancy |-> 0, ingress |-> {}])

\* The only entry goes to the slot that is granted, not to the lower one
\* that is not; when it is back the lower one goes.
SoleEntry ==
  LET Granting(grant, see) == <<Line([ExecQuiet EXCEPT !.grant = grant], see)>>
  IN  Granting({}, [occupancy |-> 0, error |-> FALSE])
      \o Feed(0, 65, {0}, "ADD", {}) \o Feed(1, 130, {2}, "ADD", {})
      \o <<Await([ExecQuiet EXCEPT !.grant = {}], [both |-> TRUE])>>
      \o Granting({1}, [issued |-> {1}, ingress |-> {}])
      \o <<Await([ExecQuiet EXCEPT !.grant = {1}], [occupancy |-> 1])>>
      \o Granting({1}, [ingress |-> {2}, shown |-> {{0}}])
      \o <<Await([ExecQuiet EXCEPT !.grant = {1}], [reports |-> TRUE]),
           Line([ExecQuiet EXCEPT !.grant = {1}, !.ready = {"COMPLETION"}],
                [completion |-> <<ReportAs(1, 130, {2}, {}, {}, FALSE)>>]),
           Await([ExecQuiet EXCEPT !.grant = {}], [occupancy |-> 0])>>
      \o Granting({0}, [issued |-> {0}]) \o Normal(0, 65, {0}, {})
      \o Emptied \o Granting({}, [error |-> FALSE, result |-> <<>>, shown |-> {}])

----------------------------------------------------------------------------
(* The benches by the unit they drive, and the owners each starts with.     *)
(* Those of "Small" are for queues of one command and a single entry.       *)

QueueScripts ==
  [queueHeld |-> HeldAndReplaced, queuePops |-> PopsTogether, queueWraps |-> DrainAndRefill]
FrontScripts ==
  [frontDual |-> DualIssue, frontResource |-> ResourceDenied, frontPartly |-> PartlyReady,
   frontReject |-> CreditedReject, frontIsolated |-> MalformedIsIsolated,
   frontFull |-> FullReplacement]
TrackerScripts ==
  [trackerUncommitted |-> Uncommitted, trackerOrder |-> AnyOrder, trackerDual |-> DualAllocation,
   trackerResults |-> LateAndEarlyResults, trackerDiagnostics |-> Diagnostics,
   trackerWrong |-> WrongResults, trackerFull |-> FullTable]
CollectorScripts == [collectorHeld |-> HeldResult, collectorTurns |-> RoundRobin]
ExecScripts ==
  [execState |-> StateHeld, execExport |-> MulticastAndExport, execBlocked |-> BlockedResults,
   execSplit |-> SplitOwnership, execRefusals |-> Refusals]
SmallQueueScripts == [queueSingle |-> SingleEntry]
SmallExecScripts == [execCredit |-> SoleEntry]

OneOwner == {"execState", "execExport", "execBlocked"}
OwnersOf(b) ==
  CASE b \in OneOwner -> [g \in Groups |-> 0]
    [] b = "frontIsolated" -> [g \in Groups |-> IF g = 0 THEN 1 ELSE 0]
    [] b = "frontRandom" -> RandomOwners(0)
    [] b = "dispatchAll" -> OwnerState(0)
    [] b = "dispatchWide" -> AnyOwners(0)
    [] OTHER -> [g \in Groups |-> g \div 2]

\* Random sections: how many cycles.
RandomCycles ==
  [queueRandom |-> 250, frontRandom |-> 300, trackerRandom |-> 250, collectorRandom |-> 150,
   dispatchAll |-> 9, dispatchWide |-> 60]
RandomStart ==
  [queueRandom |-> QueueStart, frontRandom |-> FrontStart, trackerRandom |-> GoldStart,
   collectorRandom |-> CollectorStart, dispatchAll |-> Nothing, dispatchWide |-> Nothing]

Stimulus(b, n, gold) ==
  CASE b = "queueRandom" -> QueueStimulus(n, gold)
    [] b = "frontRandom" -> FrontStimulus(n, gold)
    [] b = "trackerRandom" -> TrackerStimulus(n, gold)
    [] b = "collectorRandom" -> CollectorStimulus(n, gold)
    [] OTHER -> Nothing

Gold(b, n, in, gold) ==
  CASE b = "queueRandom" -> QueueGold(in, gold)
    [] b = "frontRandom" -> FrontGold(in, gold)
    [] b = "trackerRandom" -> TrackerGold(in, gold)
    [] b = "collectorRandom" -> CollectorGold(n, in, gold)
    [] OTHER -> Nothing

RandomPlay(b, n, in, gold) ==
  \/ b = "queueRandom" /\ QueuePlay(in)
  \/ b = "frontRandom" /\ FrontPlay(in, RandomOwners(n + 1))
  \/ b = "trackerRandom" /\ TrackerPlay(in)
  \/ b = "collectorRandom" /\ CollectorPlay([in EXCEPT !.offers = Fronts(gold.queues)])
  \/ /\ b \in {"dispatchAll", "dispatchWide"}
     /\ owner' = IF b = "dispatchAll" THEN OwnerState(n + 1) ELSE AnyOwners(n + 1)
     /\ UNCHANGED <<frontendVars, trackerVars, groupVars, returnVars, reportVars>>

RandomAgrees(b, n, in, gold) ==
  CASE b = "queueRandom" -> QueueAgrees(in, gold)
    [] b = "frontRandom" -> FrontAgrees(in, gold)
    [] b = "trackerRandom" -> TrackerAgrees(in, gold)
    [] b = "collectorRandom" -> CollectorAgrees(in, gold)
    [] b = "dispatchAll" -> EveryDispatch
    [] b = "dispatchWide" -> WideDispatch(n)

\* At its end a random section has met everything it is there for.
Covered(b, gold) ==
  CASE b = "queueRandom" -> gold.covered = QueueCovered
    [] b = "frontRandom" -> gold.covered = FrontCovered
    [] b = "trackerRandom" -> gold.covered = TrackerCovered
    [] b = "collectorRandom" -> gold.covered = {"drained"}
    [] OTHER -> TRUE
==============================================================================
