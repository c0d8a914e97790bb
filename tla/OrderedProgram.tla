--------------------------- MODULE OrderedProgram ---------------------------
(***************************************************************************)
(* What a program run promises: the records of the launched range execute  *)
(* one after the other, each with the sequencer registers its predecessors *)
(* left, each retired before the next is issued; branches go where the     *)
(* registers say and stay inside the range; an END is only good as the     *)
(* very last word, nothing follows it, and it alone makes a run "done".    *)
(* There is no fetch, no buffering and no prefetch here.                   *)
(***************************************************************************)
EXTENDS Integers

CONSTANTS Images, PcInputs, StateValues

VARIABLES
  image,
  running, first, limit,  \* a launched program and its range
  at,                     \* the place of the next record
  reg,                    \* the sequencer register
  flight,                 \* "NONE", or the action in flight: "ACTION", "END"
  ended,                  \* a good END has retired
  done, failed            \* the pulses that close a run

progress == <<at, reg, flight, ended>>
vars == <<image, running, first, limit, progress, done, failed>>

Init ==
  /\ image \in Images
  /\ running = FALSE /\ first = 0 /\ limit = 0
  /\ at = 0 /\ reg = 0 /\ flight = "NONE" /\ ended = FALSE
  /\ done = FALSE /\ failed = FALSE

Launch ==
  \E s, e \in PcInputs :
    /\ ~running /\ flight = "NONE"
    /\ running' = TRUE /\ first' = s /\ limit' = e
    /\ at' = s /\ ended' = FALSE /\ done' = FALSE /\ failed' = FALSE
    /\ UNCHANGED <<image, reg, flight>>

Record == image[at]
Whole  == at + 4 * Record.need <= limit
Legal  == Whole /\ Record.legal

Value ==
  CASE Record.op = "SMOVI" -> Record.arg % StateValues
    [] Record.op = "SADDI" -> (reg + Record.arg) % StateValues
    [] Record.op = "SADD"  -> (reg + reg) % StateValues

Jumps  == Record.op = "J" \/ reg # 0
Target == IF Jumps THEN at + Record.arg ELSE at + 8
TargetOk == /\ Target % 4 = 0 /\ first <= Target
            /\ IF Jumps THEN Target < limit ELSE Target <= limit

Next1 == IF Whole THEN at + 4 * Record.need ELSE limit

\* Execute the record at hand.
Issue ==
  /\ running /\ flight = "NONE" /\ ~ended /\ at < limit
  /\ flight' = IF Legal /\ Record.kind = "END" /\ at + 4 = limit
               THEN "END" ELSE "ACTION"
  /\ reg' = IF Legal /\ Record.kind = "STATE" THEN Value ELSE reg
  /\ at' = IF Legal /\ Record.kind = "BRANCH" /\ TargetOk THEN Target
                                                          ELSE Next1
  /\ UNCHANGED <<image, running, first, limit, ended, done, failed>>

Retire ==
  /\ flight # "NONE"
  /\ flight' = "NONE"
  /\ ended' = (ended \/ flight = "END")
  /\ UNCHANGED <<image, running, first, limit, at, reg, done, failed>>

\* The words of the program may run out at any place: a fetch may fail.
Close ==
  /\ running /\ flight = "NONE"
  /\ running' = FALSE
  /\ done' = ended /\ failed' = ~ended
  /\ UNCHANGED <<image, first, limit, progress>>

Settle ==
  /\ ~running
  /\ done' = FALSE /\ failed' = FALSE
  /\ UNCHANGED <<image, running, first, limit, progress>>

Next == Launch \/ Issue \/ Retire \/ Close \/ Settle

Spec == Init /\ [][Next]_vars
============================================================================
