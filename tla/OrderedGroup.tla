---------------------------- MODULE OrderedGroup ----------------------------
(***************************************************************************)
(* What a SIMD group promises: every request it accepts takes effect at    *)
(* once, on everything the requests before it left, and is answered exactly*)
(* once, in the order of acceptance on each of the four return channels.   *)
(***************************************************************************)
EXTENDS GroupCommands

VARIABLES
  files,               \* the three register files
  owed, results,       \* completions and results yet to be delivered
  readOwed, readData   \* completions and rows of state reads

vars == <<files, owed, results, readOwed, readData>>

\* The oldest answer of a channel may be taken while others are promised.
Channel(q, promised) ==
  \/ q' = q \o promised
  \/ q # <<>> /\ q' = Tail(q) \o promised

Answer(completion, result, readCompletion, row) ==
  /\ Channel(owed, completion) /\ Channel(results, result)
  /\ Channel(readOwed, readCompletion) /\ Channel(readData, row)

Execute ==
  \E op \in ExecOps :
    LET d == Datapath(op, Operands(files, op))
    IN  /\ Answer(<<ExecCompletion(op, d)>>, ExecResponses(op, d), <<>>, <<>>)
        /\ files' = Commit(files, op, d)

WriteState ==
  \E w \in WriteOps :
    /\ Answer(<<Completion(w, WriteIllegal(w), FALSE)>>, <<>>, <<>>, <<>>)
    /\ files' = StateWrite(files, w)

ReadState ==
  \E r \in ReadOps :
    /\ Answer(<<>>, <<>>, <<Completion(r, ReadIllegal(r), TRUE)>>,
              <<StateRead(files, r)>>)
    /\ UNCHANGED files

Deliver == Answer(<<>>, <<>>, <<>>, <<>>) /\ UNCHANGED files

Init ==
  /\ files \in Files
  /\ owed = <<>> /\ results = <<>> /\ readOwed = <<>> /\ readData = <<>>

Next == Deliver \/ ReadState \/ WriteState \/ Execute

Spec == Init /\ [][Next]_vars
============================================================================
