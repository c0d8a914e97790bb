# VSP SIMD Core: TLA+ models, checks and proofs

The VSP SIMD core is a sequencer and a cluster of SIMD groups, written in
SystemVerilog under `src/rtl`, with a host interface in front and C++ test benches
beside it.  This directory models its control - what happens between the fetch of
a bundle of instruction words and the retirement of the actions they describe,
between a vector memory command and its report, between the issue of a vector
operation and the collection of its results, between a job's submission and its
published result - and the arithmetic and the permutation networks of a group.
TLC checks the models on small instances and replays the repository's own benches
on them; TLAPS proves some of the results for every value of the constants.

Paths below are relative to the repository (`rtl/...` is `src/rtl/...`).

- [1 The system](#1-the-system)
- [2 How the models are built](#2-how-the-models-are-built)
- [3 Modules and code](#3-modules-and-code)
- [4 The checks](#4-the-checks)
- [5 The findings](#5-the-findings)
- [6 The proofs](#6-the-proofs)
- [7 Limits](#7-limits)
- [8 Plan](#8-plan)
- [9 Running it](#9-running-it)

## 1 The system

```
 host ──MMIO──> host control ──start/config/maintenance──> system wrappers
                                       │
          control store / I-fetch <─> program source ──bundles──> multi framer
                                            ▲                         │ records
                                            └── redirect ──┐          ▼
                              state engine, branch unit <─ cluster program wrapper
                                                                      │ one action
                                                        decoded action controller
                                                           │                 │
                                                     EXEC cluster   vector memory engine
                                                           │          │            │
                                             groups (pipelines, files)◄┘    data memory
```

All of it is synchronous to one clock; blocks talk through ready/valid
handshakes.  Concurrency is therefore not interleaving of threads but *which
handshakes fire on the same edge*, what is read combinationally from registers
that change on that edge, and answers that come many cycles after the request,
when the reason for the request may be gone.

### Components

| component | state it keeps | operations | hard behaviour | what makes it correct |
|---|---|---|---|---|
| **program source** `vsp_uword_program_source` | pc, range, one outstanding fetch, one bundle, poison bit, fault and error flags | launch, request, response, transfer, redirect | a redirect while an answer is out | only words of the current path leave; a poisoned answer leaves no trace |
| **multi framer** `vsp_uword_multi_framer` | a buffer of words with their base PC, END/EOF stops, expected PC | append, scan, prefix acceptance, abort, flush, restart | records cross bundles; acceptance of several slots; END, abort, flush and restart in one cycle | delivered records tile the stream, whatever the cuts; it can always take the bundle it needs |
| **cluster program wrapper** `vsp_uword_cluster_program_wrapper` | raw and decoded holding registers, tag, branch completion, life-cycle flags | launch, decode, dispatch, branch, terminal drain | speculation: words, END, EOF and faults prefetched behind a branch | exactly the sequential program is issued; a failure has a cause on the executed path |
| **action adapter, state engine, control store** | tag counter; registers and one completion; memory and one answer | decode; SMOVI/SADD/SADDI; read | the sampled MEMORY base | base equals register at dispatch |
| **decoded action controller** (in `vsp_cluster_controller_wrapper`) | canonical entry, FSM, active and completion registers, error flag | capture, reject, issue, finish, END, retire | engines that answer early, late, twice, with a foreign tag | one action in flight; OK is earned; END after drain; everything retires |
| **vector memory engine** `vsp_vector_memory_engine` | command, FSM, group/lane cursors, rows, masks, report | linear and indexed load/store | read completion and response in either order; a fault in the middle; an index row overwritten by its own gather | bytes moved and bytes reported agree with the abstract transfer |
| **SIMD group** `simd_group_wrapper` | operand stage, result stage, three register files, four return registers | execute, write, read | two producers in flight when a third reads; stalled return channels | as if one request at a time |
| **EXEC issue front end** (`simd_issue_queue`, `_issue_frontend`, `_issue_dispatch`) | a queue per context, locked slots, rotation | enter, show, lock, dispatch, reject | several slots, ownership, multicast, grants that move | see the cluster |
| **EXEC completion tracker** `simd_group_completion_tracker` | entries with what is still owed | allocate, account, report, free | messages of a re-used key, in any order | an entry owes exactly what is in flight |
| **EXEC result collector**, output merge (`simd_cluster_exec`) | output register, reject buffer, completion register | collect, merge | two sources for one register | reported and delivered exactly once |
| **register-file arbiter** `vsp_cluster_vrf_arbiter` | one owner, two seen bits, rotation | grant, route the answer | completion and response in either order | answers reach the client that asked |
| **cluster memory wrapper** | none of its own | wiring | composition over one register file | |
| **decode path** (`simd_issue_decode_stage`, expander, predecoder, decoders) | one register | field decoding | illegal encodings | |
| **lane arithmetic** (`rtl/units`) and **permutation networks** (`rtl/permute`, `rtl/interconnect`) | none, one phase counter | pure functions | carries, shifts and signs at element boundaries | equal to the arithmetic on elements |
| **ordered action window** `vsp_ordered_action_window` (not bound to the product) | window of actions with issued and done masks, locked views | admit, issue, complete, retire | partial issue and completion in one cycle, wrapping sequence numbers | retire in order, dependences respected |
| **register route path** (`vsp_route_*`, `vsp_cluster_register_route_engine`; not bound) | rendezvous entries, waves, terminal stage | pair, cancel, reject, launch | fragment, fault, flush and epoch change in one cycle | every fragment ends exactly once |
| **SIMD group datapath** `simd_datapath`, `simd_exec`, `simd_uop_legal` | three register files | one micro-operation on all lanes | an illegal operation must write nothing; rearrangement, reduction and mask share one write port | outputs and files are those of its bench |
| **host control** `vsp_host_control` | register file, phase, frozen result, retirement summary, interrupts | MMIO access, START, ACK, management | retirement in the publish cycle; events against write-one-to-clear | the published result is the job's |
| **uncached/device merge** | owner, locked choice | select, lock, route back | a stronger request arrives while one stalls | stalled request stable; answer to its asker |
| **memory system wrapper** `vsp_uword_memory_system_wrapper`, `vsp_mmio_system_wrapper` | fetch-fault record, phase of the MMU access | gates between program, MMU access and maintenance | three requests in one cycle; a fetch fault or an error on a path a redirect leaves | one owner at a time; nobody waits for ever |
| **instruction fetch client, data memory subsystem** | one fetch; none | wiring of external IP | external blocks are not in the repository | |
| **benches and image kernels** `sim/*_tb.cpp` | golden models, register files block after block | scripts, random stimuli, filters | tails of a block, files nobody clears | the model shows what the bench demands; a filter's pixels are the golden ones |

`PROJECT.json` lists them all with their sources, status and reason, and the
hazards of the code at the line where each bites.

### How they interact

- *Source → framer → wrapper.*  Bundles carry their base PC; the framer refuses
  one that is not contiguous.  A taken branch redirects the source and flushes
  framer and raw register in one cycle; an answer on its way is poisoned.
- *Wrapper → controller → engines.*  One action is in flight.  State and branch
  actions complete locally and share the completion port with the controller.
- *END.*  It is admitted like an action, waits for the quiescence of everything
  but the controller that holds it, and ends the program when it retires.
- *Termination.*  A program is done when its END has retired, failed when a
  fault, a bad boundary or the end of the stream is reached with everything
  drained.  The framer has to be cleared before the next launch.
- *EXEC.*  A command is shown by a slot, locked, given to all its groups and to a
  tracker entry at one edge; completions and results come back group by group.
- *Host.*  Software stages configurations and submits one command at a time: a
  job, an MMU access or a maintenance operation.  Host control counts what the
  program wrapper retires and publishes the summary once the program has ended and
  the memory system is quiescent.
- *Memory.*  The engine reads and writes rows through the same group ports as
  operations do (state reads and writes).

## 2 How the models are built

- **A step is a clock edge** on which something happens.  Where several blocks
  move on the same edge (the program wrapper, the cluster) the action is the
  conjunction of what each does on it: `ProgramWrapper` has one action for each
  thing the source can do in a cycle, and `ClusterExec` a single operator `Cycle`
  of five conjuncts.  Nothing the hardware does unconditionally on an edge is an
  action of its own.
- **A register with its valid bit** is a record with `valid`, or a sequence of at
  most one element where it is pushed and popped like a queue.
- **Environment.**  Ready signals, grants, answers, faults, redirects, launches
  and error clears are free choices in every step.  Endpoints that misbehave are
  included where the code checks for it (false answers, foreign tags, error and
  overlong responses).
- **Data.**  An instruction word is an address whose header (length, kind,
  legality, operation) an arbitrary constant `image` gives; a body word read as a
  header is therefore *wrong* and visible.  A command is a record of what the
  control looks at.  Data rows exist where a property is about them (group
  pipeline, vector memory).
- **Combinational units** are operators: a register is a function from its lanes,
  an element joins several slices, widths are constants.
- **Benches.**  A directed bench is a sequence of lines with the inputs it drives
  and the outputs it demands, played on the same operators the specifications use.
- **Mutants.**  Beside many operators stands a variant marked `(mutant)`, a
  plausible bug of the code.  No specification uses it; `PROJECT.json` says which
  property it breaks when it replaces the operator.

## 3 Modules and code

| module | models | composes |
|---|---|---|
| `Registers` | sticky flags, booleans as bits | |
| `ControlStream` | PCs, bundles, alignment | |
| `ProgramSource` | the source (`Source...`) and, as its environment, a store, a launcher, a consumer and a redirector (`Fetch...`) | `ControlStream`, `Registers` |
| `MultiFramer` | record scan and every update of the framer's registers | `ControlStream` |
| `FramerStream` | the framer between arbitrary bundles and arbitrary ready masks, with the received stream and the delivered records as history | `MultiFramer` |
| `ActionController` | canonical entry (from the controller wrapper) and decoded action controller | `Registers` |
| `ActionStream` | the controller between a sequencer, two engines and a consumer | `ActionController` |
| `ProgramWrapper` | every register of the program wrapper, adapter, state engine, branch unit; launches, engines and store as environment; the mapping to `OrderedProgram` and the properties | `ProgramSource`, `MultiFramer`, `ActionController`, `OrderedProgram` |
| `OrderedProgram` | abstract: a sequential machine that runs one record at a time | |
| `VectorCommands` | memory commands, geometry | |
| `VectorMemory` | the vector memory engine and its endpoints | `VectorCommands`, `Registers` |
| `VectorTransfer` | abstract: what a command does to memory, register file and report | `VectorCommands` |
| `GroupCommands` | requests of a group and what each does alone | |
| `GroupPipeline` | the group wrapper: stages, forwarding, write-back, return registers | `GroupCommands` |
| `OrderedGroup` | abstract: one request at a time, answers in order | `GroupCommands` |
| `IssueFrontend` | rotation, queues, slots, dispatch, rejection | |
| `CompletionTracker` | the tracker | `IssueFrontend` |
| `ClusterExec` | ingress buffers, the control of the groups, collector, reject buffer, completion merge | `CompletionTracker`, `OrderedCluster` |
| `OrderedCluster` | abstract: what the cluster promises its clients | |
| `JobReport` | abstract: what software is promised about a job | |
| `HostControl` | every register of the MMIO target, one operator per edge | `Registers` |
| `UncachedMerge` | choice, lock and owner of the merge, its endpoints and master | `Registers` |
| `MemorySystem` | the gates, readiness, quiescence and fetch-fault record of the memory system; program, translation, caches and maintenance as its environment | `UncachedMerge` |
| `HostSystem` | host control, or a test host, over the memory system; fairness and properties | `HostControl`, `MemorySystem`, `JobReport` |
| `LaneArithmetic` | lane, joined units, execution stage, mask unit, reduction, at widths `ElemW` and `AccW` | |
| `Permutation` | compactor, crossbar, route unit, Benes network, wide gather, word-first gather and its engine | |
| `Datapath` | `simd_datapath` with its files, and the legality of an operation | `LaneArithmetic`, `Permutation` |
| `UnitReferences` | the golden models of the unit benches, and what a bench demands | `Datapath` |
| `ControlBenches` | the scripts of host control, merge, source, framer and controller | `HostControl`, `UncachedMerge`, `ProgramSource`, `MultiFramer`, `ActionController` |
| `ExecBenches` | scripts, random sections and golden models of the EXEC path | `ClusterExec` |
| `VectorBenches` | commands, endpoints and golden transfers of the vector memory benches | `VectorMemory` |
| `MCBenches` | the scripts of the datapath and of the gather engine, four image filters and their golden models; the state machine that runs all benches | `UnitReferences`, the three above |
| `MC...` | constants for TLC | |
| `..._proofs` | theorems | |

How state and actions correspond, component by component:

**ProgramSource.**  Variables are the registers of the `always_ff` block
(`running`, `outstanding`, `pc`, `startPc`, `endPc`, `bundleValid`, `discard` for
`discard_response_q`, ...).  `SourceStart`, `SourceRequest`, `SourceResponse`,
`SourceTransfer`, `SourceRedirect` are its branches, in its priority;
`SourceQuiet` is an edge where only flags move.  A redirect that meets the answer
of the old path in one cycle is `SourceRedirect(t, TRUE, ...)`, with the answer
drained on that edge.

**MultiFramer.**  `words` and `basePc` are the buffer; `Records`, `Slot` and
`Accepted` are the combinational scan and the prefix rule; `FramerShift`,
`FramerAppend`, `FramerReject`, `FramerSwallow`, `FramerAbort`, `FramerFlush` are
the mutually exclusive outcomes of an edge, each with what leaves, what is kept
and which flags it touches.

**ActionController / ActionStream.**  The FSM states, canonical entry,
`active`, `cpl` and the error flag.  `StartEngine` is the acceptance, with or
without an answer on the same edge; `FinishEngine` takes the verdict from
answer and tag; an answer nobody waits for is the parameter `stray` of whatever
else happens on that edge.

**ProgramWrapper.**  `raw`, `decoded`, `branchCpl`, `stateCpl`, the life-cycle
registers and the error flags.  `FramerCycle`, `RawCycle`, `DecodeCycle`,
`TagCycle`, `StateCycle`, `BranchCycle`, `ClusterCycle`, `StoreCycle`,
`GlueCycle`, `ClosingCycle` and the life cycle are conjuncts of every edge.  Of
the sequencer's registers one is modelled beside register zero.  `due` is a
history variable: the PC of the record the sequential execution comes to next;
`cut` remembers a reason to fail on the executed path.

**VectorMemory.**  One action for each handshake of the FSM; the file and
memory endpoints decide on acceptance what they will answer (`OK`, `ERROR`, or
an identity of another request).  Read completion and response arrive
separately or together, in either order.

**GroupPipeline.**  `pipe` and `res` are the two stages, `cpl`, `rsp`, `rcpl`,
`rrsp` the return registers, `files` the register files.  An edge accepts at
most one request (`AcceptExec`, `AcceptWrite`, `AcceptRead`, `AcceptNothing`)
and in each case advances what advances.  `Captured` is the forwarding network:
result stage first, then operand stage on top, lane by lane.  `Datapath` is a
constant operator: the pipeline is right for any lanes.

**ClusterExec.**  `Cycle` conjoins `FrontendEdge`, `TrackerEdge`, `GroupsEdge`,
`ReturnsEdge` and `ReportsEdge`.  Its inputs are the consumers that are ready,
state reads and writes that take a group's turn, the grants, the command that
enters and the error clear.  Groups are their control alone.

**HostControl.**  `phase` is the state register; `staged` and `owned` are the
staging registers and the payload of the pending request; `retired` is the
retirement summary: a counter that wraps (`CountRange`, 2^32 in the code), and what
the first bad completion and the first memory fault said; `terminal` how the job ended,
`result` the frozen result, `mgmt` the status of the last management command.
`HostEdge(in)` conjoins what each of them does on an edge with the ports `in`.
The program error the product wires to the port is `program_error_o` of the program
wrapper, read when the job is published; that and the fetch fault make a job an error
that ended DONE and whose completions were all good.

**UncachedMerge / MemorySystem.**  `owner` and `lock` are the registers of the merge;
an accepted request owns the answer, a stalled one keeps the choice.  The memory
system is its gates over what the blocks behind report.  Translation unit, caches and
maintenance controller are external: they take what they are given and answer later, in
any order, at any time.  Of the program wrapper there is its face: `prog` (active, done,
failed) and `programErrors`, the registers ORed into `program_error_o`.  `"HELD"` is
`program_error_q`, which stands until the next launch or a clear between jobs; `"PATH"`
is the boundary error or transport failure, which a redirect undoes.  When a running
program meets a protocol error is left to the environment; a completion that is not OK
and a failing end raise `"HELD"` as well.  `ProgramCan` is wider than the wrapper: once
nothing is in flight both ends are possible, whatever the errors (a success of the
code looks at none but the boundary error).

**HostSystem.**  `mode` is constant in a behaviour: under `"HOST"` host control
drives the three ports; under `"DIRECT"` a test host does, with all three at a
time if it likes, and lowers a port for a cycle after it is taken.  The response
of the MMIO port is taken at once.  `Traffic` says which events of the environment
occur in which mode.  `log`, `pathBroken` and `troubled` are history for the
refinement: the completions of the job, whether its path has met a fetch fault, and the
protocol errors it has met and no redirect has undone.

**Benches.**  `MCBenches` has the variables of all models that keep state, of which
those of one `unit` move.  `script` holds the lines still to come.  A unit without
state is asked about a line of operands at a time (`reference`); a filter runs one
micro-operation per step (`kernel`); a script is played line by line; a line that
awaits its outputs lets up to `Patience` cycles pass; a random section drives
stimuli computed from the cycle and keeps the transaction model of its bench in
`dut`; a memory command runs to its report and is then compared with its line,
together with everything the two endpoints saw.  An input that the model refuses
is a deadlock, which TLC reports.

## 4 The checks

Every run below completes; states are distinct states.

| run | cfg | states | question |
|---|---|---|---|
| `program_source` | `ProgramSource.cfg` | 530 | is only the current path delivered? |
| `multi_framer` | `MCMultiFramer.cfg` | 6 306 | do records tile the stream under every cut? |
| `action_stream` | `ActionStream.cfg` | 5 330 | one action, its own completion, and does each retire? |
| `program_wrapper` | `MCProgramWrapper.cfg` | 24 578 | is the wrapper a sequential machine? |
| `program_live` | `MCProgramLive.cfg` | 5 489 | does every program close, and can the next start? |
| `vector_memory` | `MCVectorMemory.cfg` | 9 501 | are bytes and reports those of the abstract transfer? |
| `group_pipeline` | `MCGroupPipeline.cfg` | 60 352 | is the pipeline invisible? |
| `cluster_exec` | `MCClusterExec.cfg` | 130 248 | are commands reported and results delivered once? |
| `host_system` | `MCHostSystem.cfg` | 190 326 | is a job's report its own, and do host, MMU and maintenance stay apart? |
| `benches` | `MCBenches.cfg` | 11 880 | do the models do what the repository's benches demand of the code? |
| `restart_after_fault` | `MCRestart.cfg` | violated | may a program be launched after a faulting one? |
| `stale_error_abort` | `MCUncleared.cfg` | violated | may it be launched with an old error uncleared? |

**program_source.**  Bundles of two words on a range of up to four words, with a
misaligned address.  `BundleIsCurrentPath`: a held bundle is the next words of
the path the last launch or redirect chose.  `OneObligation`: source and store
agree on the outstanding request.  `FetchInRange`; `PoisonedAnswerIsSilent` (a
drained answer neither stops the new path nor raises its fault).  Two bundles are enough for an odd last fetch, a redirect between
them and a second redirect before the first has drained.

**multi_framer.**  Streams of up to six words cut into bundles of one or two
words, two slots.  First headers take every length one, two, four and END; later
ones make records that cross one and two boundaries, END inside bodies and a cut
last record.  `FramingIgnoresCuts`: the delivered records tile the received stream
from its first word, each as long as its header says, and none follows an END,
a statement that knows nothing of bundles; `NothingLost`: the
delivered words and the buffer are the stream; `CarryFits`: when no record is
complete the buffer has room for the next bundle (the reason it is
`BUNDLE_WORDS + 3` long); `StreamEnds` (a stream that has ended stays ended and its
last records leave; liveness).

**action_stream.**  Two tags, so that an answer may bear another command's tag.
`OneActionInFlight`, `OkIsEarned` (an OK follows from an answer of that engine to
that very command), `NoOrphanCommand` (as long as the engines behave, controller
and engines agree and no error is raised), `ActionsRetire` (every captured action leaves,
END included, which waits for the quiescence of a controller it occupies; liveness).
Commands form a chain of at most one, so that depth adds nothing.

**program_wrapper.**  Three images: a counted loop with a backward branch, a jump
over an END with a malformed branch before it, an early END with a record the
range cuts off.  Each is launched on every range between four addresses, bad and
empty ones included, again and again, with fetch faults on any bundle, stalls
and wrong engine answers.  `ExecutesInOrder` is the refinement to
`OrderedProgram`: nothing prefetched, poisoned, buffered or flushed is ever
visible.  `HoldsNextRecord`: both holding registers hold the *next* record of the
sequential program, and a body word is never taken for a header.
`DispatchesAtOnce`: a MEMORY base sampled at decode is still the register at
dispatch, and at no time do a local completion and one of the cluster exist
together.  `FailureHasCause`: a fault, END or end of file on a path
a branch left is no reason to fail.

**program_live.**  `ProgramsClose` (unless branches are taken forever),
`Restartable`.

**vector_memory.**  Two groups of two bytes over eight addresses.  Linear commands
with full and partial spans, at addresses below and above their base, and ones that the
span (none, or more than the groups hold), the alignment or either end of the memory
forbids; indexed ones with distinct, colliding and unaddressable
indices, and with their data row equal to their index row.  `MovesAndReports` is
the refinement to `VectorTransfer`; `NothingLeftOut`: no request of the engine is
outstanding when it reports; `CommandsReport` (liveness).

**group_pipeline.**  Two lanes of a bit, two vector rows, one accumulator row, one
mask row.  One comparison that makes a mask, one rearrangement under that mask,
one wide export that is refused; a masked write and a write of a row that does
not exist; a read.  `ExecutesInTurn` is the refinement to `OrderedGroup`, whose
abstract state is the register files *after everything accepted has retired* and
whose answers are what the stages still hold.  `OperandsUpToDate` says directly
that captured operands are those files.  Accumulator forwarding does not occur
with these operations; it is covered by the proof.

**cluster_exec.**  Two contexts, slots, groups and tracker entries, queues of one
command, four commands and writes in all (`MaxRequests`), at most one of them a
state write (`MaxWrites`) with the key of a command.  Context 0 owns both groups,
or each owns one, so the same commands are sometimes rejected.
`KeepsItsPromises` is the refinement to `OrderedCluster`; `TrackerIsExact`: an
entry owes exactly the completions and results that are still somewhere in the
groups or return registers, and nobody owes what no entry knows;
`QuiescentMeansIdle`: when the cluster reports itself quiescent, the stages of the
groups, the locked slots and the held choices, none of which its `quiescent` looks
at, are empty too; only a result that the collector has taken over can be left;
`OwnerIsNotBlocked`: a well-formed command with a free key and a free entry never
waits in a state that no edge changes, even when nobody takes a completion, provided
there is an issue slot for every context.  It is stated with `ENABLED` as an invariant,
since the liveness form needs fairness for each consumer and was out of reach at
this size.  Four requests let a key be reused while its first command still owes
a result and both entries are taken.

**host_system.**  A good and a bad configuration, at most two retirements in a job
(`MaxRetire`; each good, bad, or bad and a memory fault), a counter of two values, all
commands, a clear of the interrupt bits, clears of the protocol error.  `ReportsTheJob` is the refinement to `JobReport`: the published result is
the summary of everything between submission and publication, a retirement in the
very cycle of the publication included, and stands until it is acknowledged.  It is
marked an error exactly when the job failed, a completion was bad or a fault, its path
met a fetch fault, or the program met a protocol error, though it ended DONE
(`docs/integration/host-mmio.md:99-101`); a fetch fault and an error of the path count
only while the path has not been left, and nothing of the job before does.  Protocol
errors are drawn in cycles in which nothing else happens behind the ports, with a
redirect and with an end; a flag that nobody clears is an error the next job meets again.
`ExclusiveOwnership`: program, MMU access and maintenance do not overlap, though all
three may be requested in one cycle.  `AnswersReachTheirAsker`: owner and
outstanding request agree, nobody waits for an answer that will not come, and a
stalled request stays the one shown.  `NobodyWaitsForever` (liveness).  Host control
submits one thing at a time, so overlaps need the test host: the mode `"DIRECT"`
is the memory system wrapper as a product without host control would use it, and
the environment of its ports is more general than the product's; the data side and
its foreign answers run in that mode only.  With two retirements there is one before
and one in the cycle of the publication, a second bad one that must not replace the
first, and a counter of two values comes round.

**benches.**  `ComputesItsReference` compares units with the golden models of their
benches.  Two widths are exhaustive: elements of four bits with accumulators of
eight (every pair of operands under every operation, accumulators at the ends and
the middle of their range), and slices of two bits joined to elements of two,
four and eight (dynamic ALU, reduction, multiplication).  Carries, signs and
comparison results cross between slices at any width, so that two bits meet every
case; the directed datapath script runs at the real eight bits.  Accumulators have
30 bits there, not 32: TLC's integers have 32, and the two upper bits, which no
value of the bench needs, are left out.  The Benes network is checked on four
inputs for every setting, selection among sixteen lanes on spread patterns.  The
filters run on generated images with widths 1 to 14 (every tail of a block of
four), flat, impulse, ramp, step, checkerboard, zone plate, and fixed noise in
place of the random pixels.

`BenchesAgree` replays the directed benches.  Contexts, slots and groups are three,
three and four for every EXEC bench (where a bench has two of each, the third queue
stays empty).  The random sections of issue queue, front end, tracker and collector
keep their lengths and their transaction models, with noise computed from
the cycle in place of the generator; at the end of each the coverage the bench
counts must have been met (for instance: a queue was full and popped in one cycle).
The dispatcher is driven exhaustively with two groups and at random with four.
Vector memory commands are served by endpoints that fail where the bench's options
say; a byte is known by the place it came from, so what the endpoints see tells
addresses, lanes and order, and the demanded sequences are those of
`check_mapping`, `check_indexed_gather` and `check_indexed_scatter`.  Addresses of
the bench with four groups are taken modulo 512, those with sixteen are the
bench's; 120 of the 250 random commands are run.  This run is the evidence that
the models used in the other runs are the code's: an operator that misreads the
RTL contradicts a bench that passes on it.

Left out of the replay: resets in the middle of a bench (each section starts from
reset), drains between sections, stalls that only hold a request, the payload
returned by state reads (the turn they take is there), and the benches of the
wrappers of group, controller, program and memory system, of the expander and of
the cached blocks.

### Fairness

- *Source:* weak fairness of request, answer and transfer: store and consumer
  do not stall forever.  Nothing is assumed of launches and redirects.
- *Framer:* the consumer eventually takes the oldest record it is shown.
- *Controller:* weak fairness of its own transitions and of an engine's answer to
  a command it accepted.  Weak fairness suffices because an action, once enabled,
  stays so: valid and payload are held until the handshake.
- *Wrapper:* weak fairness of a completion being taken, of a controller
  transition, of a store step, and of the clock (an edge on which only the
  program moves).  Host launches are not fair.
- *Vector memory:* weak fairness of the engine's handshakes as a whole, that is,
  endpoints take and answer what they are asked.

- *Host system:* the paths become ready after reset, traffic that is left over
  drains, the translation unit and the maintenance controller take and answer what
  they are given, a port that may be taken is taken, and the clock runs.

They are the assumptions the ready/valid rules of the interfaces state; none is
strong fairness, and no arbiter is assumed fair.

### Launch assumptions

`ProgramWrapper` has two Boolean constants that describe how the host launches.
`HostClears`: the host clears old protocol errors before it launches
(`protocol_error_clear_i`).  `StaleLaunch`: it launches even though the framer
still expects the address at which an earlier fetch faulted.  The passing runs
take `HostClears = TRUE`, `StaleLaunch = FALSE`; the two other settings are the
findings.

## 5 The findings

**restart_after_fault** (`FailureHasCause` violated, kind code_bug).  A fetch fault
that leaves no partial record in the framer issues no stream abort, because the
framer is idle (`vsp_uword_cluster_program_wrapper.sv:1306`), so
`expected_bundle_pc_valid_q` survives.  `start_ready_o` is given, but the first
bundle of a launch at another PC is refused as not contiguous and the healthy
program fails.  The test bench says of a fault that "the frontend becomes
restartable" (`sim/vsp_uword_cluster_program_wrapper_tb.cpp:1018-1019`); it is, at
the same PC or after a fault that leaves a tail.

**stale_error_abort** (`HoldsNextRecord` violated, kind doc_code_divergence).
`transport_failure_now` (line 605) takes the sticky protocol errors as levels.  An
error left from an earlier run, or from a host write to the store, aborts the
framer of a healthy program as soon as no complete record is visible; the tail,
which the next bundle completes, is dropped and one of its body words is issued
as a header.  Lines 609-610 promise to "abort only the unframeable tail", and
`docs/design/instruction-delivery.md:75-77` that body words are opaque to the
framer.

## 6 The proofs

Eight modules hold theorems, for every value of the constants that meets the named
assumptions; `tlapm` proves all of them, without omitted steps (the number after a
module counts its obligations).  In each, the safety property is not inductive as
it stands; what is said of a module is mostly what had to be added, and why.

**ProgramSource_proofs** (381): `SourceTypeCorrect`, `BundleCorrect`,
`ObligationCorrect`, `RangeCorrect`, `SilenceCorrect`, for every bundle width and
every set of PCs.  That a bundle is of the current path follows from the *request*
having been for it, so `SourceIInv` adds `LiveRequest` (an outstanding request that
is not poisoned asks for the words at the current `pc`) and `PoisonedPathRuns`
(while an answer is poisoned the new path runs, unless it is empty).  One lemma per
action, under it one step per conjunct; `SilenceCorrect` is an action property
from the same invariant.

**FramerStream_proofs** (1852): `FramerTypeCorrect`, `FramerLosesNothing`,
`FramingIndependent`, `CarrySufficient`, `StopKept`, for every width, every number
of slots, every image and every stream.  The scan of the buffer is a recursive
function; it is unfolded once (`StartUnfolds`), and what is said of every record is
shown of the least counterexample (`Least`, from the well-foundedness of the
naturals).  `FramerInv` has four
parts: `BufferInv` (only a valid stream is buffered, behind a recorded END nothing is
left), `Tiled` (the delivered records cover the consumed words without gap or overlap),
`StreamInv` (the buffer is the part of the stream behind them, at its own address, and
all of it unless an END cut it) and `RecordsInv` (a record is as long as its header says
unless the transport ends in it; an END is the last).  `StopKept` is the action
half of `StreamEnds` (`stop_fetch` falls only with a restart or a redirect).

**ActionStream_proofs** (500): `ControllerTypeCorrect`, `InFlightCorrect`,
`OkCorrect`, `OrphanCorrect`, for every set of tags.  `ActionIInv` adds
the type of the environment's history and `WaitsForItsOwn` (the controller waits
only for the engine of the action it captured, or for a legal END), without which
nothing would tie an engine's answer to that action.

**ProgramWrapper_proofs** (2997), on top of the two stream modules (source and framer): `OneActionAtATime`,
`RunsTheProgram`, `FailuresHaveCauses`, `ProgramRefinement`.  The induction has three
layers.  `AtOnceInv` says that one action is in flight, and needs nothing else.
`PathInv` says where the words of the program are: the record that is due in a holding
register, those behind it in the framer's buffer, the words behind those in the held
bundle or still to be fetched, each part beginning where the one before it ends.
`CloseInv` says what ends a program: where an END is between framer and retirement,
what a report of the end of the file means, which faults cut the path short.
`ProgramRefinement` maps every edge to a step or a stutter of `OrderedProgram`: the
record that retires is the one `due`, an edge that ends the program meets the
condition of the abstract ending.  All but `OneActionAtATime` are for a host that
clears errors and does not launch on a stale framer (`HostClears = TRUE`,
`StaleLaunch = FALSE`, see *Launch assumptions*); the two findings show that neither
hypothesis can be dropped.

**VectorMemory_proofs** (4011): `VectorTypeCorrect`, `NothingLeft`, `VectorRefinement`,
`BoundedWork`, for every geometry, every command, every fault and every order of the
answers.  `ProgressInv`
ties the count of committed bytes to the groups that are complete and to the bytes
within the current one; `PathInv` says which states of the FSM a kind of command can
reach, without which neither the count nor the answer a state waits for is determined.

`VectorRefinement` maps the engine to `VectorTransfer`: each edge moves the next byte or
row of the abstract transfer, reports, or is invisible.  The abstract transfer is a
sequence of steps, the engine a walk over groups and lanes; what joins them is
`PlaceInv` (the rank of the current group among the groups of the command is the
number of completed groups, so the address and the next abstract step are known) and
`CarriedInv` (a row, an index or a byte the engine carries is still what lies at its
source, also when the data row is the index row); they make `TransferInv`.  The
abstract transfer has moved what is committed and what is `Underway`, the beat whose
write has been done but not yet answered.
A linear row is one beat, an indexed one single bytes; a failure
reports the groups that are done and the bytes of the one that is not.

`BoundedWork` is what safety can say of `CommandsReport`: `Effort`, the
handshakes a command still needs at most, is never above
`GroupCount * (2 * RowBytes + 6)`, falls with every handshake and never rises while a
command is held.  An engine whose endpoints answer therefore reports; that they
answer, and that an answer is taken, is the fairness of the run.

**GroupPipeline_proofs** (1895): `GroupTypeCorrect`, `ForwardingCorrect`,
`PipelineRefinement`, for every number of lanes, every register file geometry,
every set of operations that meets `CommandsAssumption`, and *every* datapath.
`OverlayIsCommit`: overlaying one producer on operands read from the files gives the
operands read after its commit; applied twice (`CapturedIsCurrent`) it shows that
forwarding from the result stage and then the operand stage reads the architectural
files.  `AdmittedBehind` carries this across stalls.  The refinement maps
the abstract files to those after everything accepted has retired: accepting is the
abstract step, retiring moves an effect from the stages to the files and leaves the
map where it was, and the answers of the stages and of the return registers are one
queue for each channel.

The same module proves what the networks of `Permutation` do, for every number of lanes
and every element type, where the run `benches` compares them on given inputs.
`ExpandRestores`: the compactor packs the active lanes densely and in order, and an
expansion under the same mask puts each back (the rank of an active lane counts those
below it; ranks are an injection into as many places, hence onto them).
`SlideCrossesGroups`: with the adjacent inputs wired to the neighbouring groups, a slide
by at most a group is a slide of the whole vector.  `LanesReturn`: the modes of the wide
gather that ought to undo each other (rotations, reversal, interleaving,
transposition) do, and are legal whenever the number of lanes permits them.
`FourPassesGather` is about runs of the four-pass engine, with any inputs at any
edge: a result that is shown is one complete gather of the operands it was captured
with, and a command taken shows that result, under its own owner, five edges later
unless a reset comes.  Its invariant `GathersSoFar` says which lanes the passes behind the
current phase have written; along a run it is shown by least counterexample.

**ClusterExec_proofs** (4127): `ClusterTypeCorrect`, `TrackerExact`,
`ClusterRefinement`, `QuiescenceSound`, `StandstillHasCause`, `OwnerMoves`, for every
number of contexts, slots, groups and entries.  The slots show commands of different
contexts, so the commands issued at one edge find free entries of their own: an
argument over ranks, since the code gives the n-th command the n-th free entry.
`ClusterInv` follows a command: what is in a group is awaited by the one entry with
its key (`Expected`), messages with one key never meet in a group (`Apart`), and what
an entry waits for is in the group (`Owed`).  A result names its group (`NamedInv`),
and a command shown or locked is the head of its queue.  `TrackerIsExact` counts
messages; `FourRegisters` turns the invariants into its counts.

The refinement maps a whole edge, in which every part may move, to one step of
`OrderedCluster`.  The queues lose exactly the heads the slots show (`QueuesMove`).
What a group holds and what it still owes are rows of registers joined together, and
a row that loses its oldest and takes one at its end moves as the abstract queue does
(`RowMoves`, `InsideMoves`, `OwingMoves`).  The verdict of an entry is what it recorded
joined with what its groups say now (`VerdictMoves`); an entry kept keeps its account
and a fresh one starts a new one (`AccountKept`, `AccountFresh`); an entry that is
reported has nothing pending, so every group has executed it (`CloseWell`).  The
reports on their way are the sum of the bags of the two report registers
(`ReportsMove`).

`QuiescenceSound`: what a group holds is awaited by an entry, so the groups are empty
when no entry is used, but for a state write, which no entry knows; and `HeldInv`, which
has to be added, says that the completion of one stays in its own register, which
`quiescent` does look at, until it is taken.

`StandstillHasCause` and `OwnerMoves` are the content of `OwnerIsNotBlocked` without
`ENABLED`.  In a state that satisfies the invariants and that the edge on which all
consumers but that of completions are ready leaves as it is, the groups have drained and
no slot can lock a further command; a command that waits as `OwnerIsNotBlocked` describes
then finds every slot locked by another context, each by a command that is malformed
or whose key is in use.  With a slot for every context (`SlotCount = ContextCount`, as in
the run) there are too few others for that, and the edge does change something.  The
hypothesis is needed: with fewer slots than contexts such commands can lock every slot
until somebody takes a completion, and the command of a further context waits although
it could go.

**HostSystem_proofs** (1132): `MergeCorrect`, `OwnershipExclusive`, `HostTypeCorrect`,
`ReportRefinement`, for every set of configurations and every traffic.  Four
invariants, each on top of those before: `MergeInv` (an endpoint waits exactly when
the master serves it), `OwnershipInv` (who owns the program and memory paths),
`HostInv` (a phase that offers a command owns the good configuration that was checked),
`JobInv` (the retirement summary is the function of the log that `JobReport` demands,
and `ErrorsTold`: the error flags of the program are what the job has met, its bad
completions and its failure).  The last needs the count modulo `CountRange` of a log of
any length (`WrapsOnce`) and the *first* failure in it, again by least counterexample; one
step appends to the log while it publishes.

Assumptions are those the modules name: `StreamAssumption`, `FramerAssumption`,
`TagAssumption`, `ProgramAssumption` (every address of a launch range has a header,
branch displacements are integers), `GeometryAssumption`, `CommandAssumption`,
`CommandsAssumption`, `FrontendAssumption`, `TrackerAssumption`,
`ClusterAssumption` (state writes and grants are of the declared kind),
`ConfigAssumption` (a good configuration is a configuration and not the absent one),
`CountAssumption` (a counter has at least one value),
`SystemAssumption`; TLC evaluates each in some run.

Only model-checked:

- *Liveness* (`StreamEnds`, `ActionsRetire`, `ProgramsClose`, `Restartable`,
  `CommandsReport`, `NobodyWaitsForever`): out of the prover's reach.  Of
  `CommandsReport` the bound on the work is proved (`BoundedWork`).
- `OwnerIsNotBlocked`, which is stated with `ENABLED`; what it comes to is proved as
  `OwnerMoves`.
- `ComputesItsReference`, `BenchesAgree`: comparisons on given inputs.  What the
  arithmetic units compute for all inputs is 2^w arithmetic and folds over the lanes,
  induction over data; the general facts about the permutation networks are the
  theorems named under *GroupPipeline_proofs*.

## 7 Limits

- *Group arbitration.*  The rotating preference among the request classes of a
  group has no variable: which requests are offered is free, so every order it
  could give is covered, but nothing is said about fairness among them.  A stream
  of operations without gaps does keep state reads and writes out (hazard list).
- *Tracker entries* among several issue slots: lower slots win every freed entry.
  The product profile has one slot; no fairness is claimed or modelled.
- *State reads in the cluster* take a group's turn but their return lanes are not
  modelled there (they are in `GroupPipeline`).  Group ownership is constant, and
  the clear of a tracker error is exercised only by the model's general
  next-state relation, not by the bounded run.
- *The pipeline's datapath.*  The run of the pipeline uses the one in `MCGroupPipeline`, whose
  elements are bytes without immediates or routing operands; the whole datapath is
  in `Datapath`.  The proof of forwarding holds for any.
- *Host registers.*  Addresses and read data of the MMIO registers are left out: a
  read is a demand on the state it shows.  Configurations are opaque, good or bad, and
  so is what a completion says beyond being bad or a memory fault (`Infos`).
- *Field encodings* (decoders, expander, assembler) are abstracted to what they
  decide: class, length, legality, operation.
- *Register width* is `StateValues`; branch targets are computed without overflow
  because the 33-bit signed sum of the code cannot overflow on the modelled
  range.
- *Tags* wrap modulo the size of `Tags`; one tag suffices for the wrapper since a
  single action is in flight.
- *External IP* (translation, caches, fabric, region router) is not in the
  repository.  What the core requires of it is the endpoints of `ProgramSource`,
  `VectorMemory` and `MemorySystem`.
- *Mapped lines.*  `PROJECT.json` maps every definition to the lines it stands for,
  of the RTL for the models and of the C++ for golden models, kernels and scripts.
  A count restricted to C++ files sees only the latter, about a third of
  `src/sim`; the RTL of the modelled components is mapped definition by definition
  whatever the count.

### Not modelled

- *Ordered action window, register route path*: complete designs that the product
  profile does not instantiate.  They need a run each, whose size was spent on
  what the product contains.
- *Register-file arbiter, cluster memory wrapper, program front end, bundle
  assembler, data memory subsystem*: wiring, or choices whose two ends the models
  of their clients already contain.
- *EXEC decode stage and expander, predecoder, assembler*: field by field
  translations; a model would be the table again.
- *Benches of the wrappers* (group, controller, program, memory system): mostly the
  encodings of instruction words and the stimuli of blocks that are external.

## 8 Plan

Done, in this order, most important behaviour first: fetch and framing, admission,
the program wrapper with its refinement, vector memory, the group pipeline, the
EXEC cluster, the host side, lane arithmetic and networks, the datapath with the
image kernels, and the benches as traces.

Next:

1. The group wrapper's bench on `GroupPipeline`, once its datapath is `Datapath`.
2. `OrderedWindow`, `RouteRendezvous` - with the abstract specifications
   "retire in program order, dependences respected" and "every fragment ends
   exactly once" - when the product binds them.

## 9 Running it

```
tlc -workers 2 -config MCGroupPipeline.cfg MCGroupPipeline.tla
tlapm GroupPipeline_proofs.tla
```

Every passing run completes within five minutes on two workers (`cluster_exec`
takes about three and a half).  Deadlock is checked in all of them.
