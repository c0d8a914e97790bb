---------------------------- MODULE FramerStream ----------------------------
(***************************************************************************)
(* The framer between a producer of arbitrary bundles and a consumer with  *)
(* an arbitrary ready mask, with aborts, redirects, restarts and clears at *)
(* any time.  Two history variables remember the stream as it was received *)
(* and what became of it, so that framing bundle by bundle can be compared *)
(* with the records the whole stream has.                                  *)
(***************************************************************************)
EXTENDS MultiFramer

VARIABLES
  stream,    \* history: every word of the current stream, in order
  delivered  \* history: its accepted records, [at, size] by stream position

streamVars == <<image, framerVars, stream, delivered>>

StreamInit ==
  /\ FramerInit
  /\ image \in Images
  /\ stream = << >> /\ delivered = {}

Consumed == IF delivered = {} THEN 0
            ELSE LET r == CHOOSE x \in delivered :
                            \A y \in delivered : y.at <= x.at
                 IN  r.at + r.size - 1

DeliverRecords(taken) ==
  delivered' = delivered \cup
    {[at |-> Consumed + i, size |-> Present(i)] : i \in taken}

Forget == stream' = << >> /\ delivered' = {}

\* Bundles name the words they carry truthfully; their place is arbitrary.
BundleInputs ==
  {b \in [data : PcInputs, count : 0..(BundleWords + 1), base : PcInputs,
          last : BOOLEAN] :
     /\ b.data = b.base
     /\ \A i \in DOMAIN Lanes(b) : Aligned(b.data) => Lanes(b)[i] \in DOMAIN image}

\* What the masks amount to
Takes == {Accepted(ready) : ready \in SUBSET (1..AdmitSlots)}

Consume ==
  \E taken \in Takes, restart, clear \in BOOLEAN :
    /\ FramerShift(taken, restart, clear)
    /\ DeliverRecords(taken)
    /\ UNCHANGED <<image, stream>>

Receive ==
  \E b \in BundleInputs, taken \in Takes, clear \in BOOLEAN :
    /\ FramerAppend(b, taken, clear)
    /\ UNCHANGED image
    /\ IF expectedValid
       THEN DeliverRecords(taken) /\ stream' = stream \o Lanes(b)
       ELSE delivered' = {} /\ stream' = Lanes(b)

Break ==
  \E b \in BundleInputs, taken \in Takes, clear \in BOOLEAN :
    /\ FramerReject(b, taken, clear)
    /\ Forget /\ UNCHANGED image

Swallow ==
  \E b \in BundleInputs, clear \in BOOLEAN :
    FramerSwallow(b, clear) /\ Forget /\ UNCHANGED image

Abort == \E clear \in BOOLEAN : FramerAbort(clear) /\ Forget /\ UNCHANGED image

Flush == FramerFlush /\ Forget /\ UNCHANGED image

StreamNext == Consume \/ Receive \/ Break \/ Swallow \/ Abort \/ Flush

\* The consumer eventually takes the oldest record it is shown.
ConsumeOldest ==
  \E taken \in Takes, restart, clear \in BOOLEAN :
    /\ taken # {}
    /\ FramerShift(taken, restart, clear)
    /\ DeliverRecords(taken)
    /\ UNCHANGED <<image, stream>>

StreamSpec ==
  StreamInit /\ [][StreamNext]_streamVars /\ WF_streamVars(ConsumeOldest)

----------------------------------------------------------------------------
(* Properties *)

\* Every register holds a value of its range; the buffer never overflows.
FramerTypeOK ==
  /\ words \in Seq(Nat) /\ Len(words) <= BufferWords
  /\ basePc \in Nat /\ expectedPc \in Nat /\ terminalPc \in Nat
  /\ expectedValid \in BOOLEAN /\ eofSeen \in BOOLEAN
  /\ discarding \in BOOLEAN /\ terminalStop \in BOOLEAN
  /\ framesDone \in BOOLEAN /\ framerError \in BOOLEAN

\* What is buffered is exactly the part of the stream that was not delivered
\* (less the words behind END), and each word sits at its own address.
NothingLost ==
  /\ words = SubSeq(stream, Consumed + 1, Consumed + Len(words))
  /\ words # << >> /\ ~terminalStop => Consumed + Len(words) = Len(stream)
  /\ \A i \in DOMAIN words : words[i] = RecordPc(i)
  /\ expectedValid /\ stream # << >> => expectedPc = stream[Len(stream)] + 4

\* Where the bundles are cut does not matter: the delivered records tile the
\* stream from its first word, each as long as its header says (a record the
\* stream ends in may be shorter), and none follows an END.
FramingIgnoresCuts ==
  /\ \A k \in 1..Consumed :
       Cardinality({r \in delivered : k \in r.at..(r.at + r.size - 1)}) = 1
  /\ \A r \in delivered :
       LET head == image[stream[r.at]]
           end  == r.at + r.size - 1
       IN  /\ \/ r.size = head.need
              \/ r.size < head.need /\ end = Len(stream) /\ (eofSeen \/ ~expectedValid)
           /\ head.kind = "END" /\ r.size = head.need =>
                end = Consumed /\ words = << >>

\* The carry space is enough: as long as no record is complete and the
\* stream goes on, a whole bundle fits, so framer and source never wait for
\* each other.
CarryFits ==
  Records = {} /\ ~terminalStop /\ ~eofSeen =>
    Len(words) + BundleWords <= BufferWords

\* stop_fetch stays up until the halted framer is restarted or redirected:
\* neither delivery nor an abort lets the source run on past an END.
StopIsKept == [][StopFetch /\ ~StopFetch' => Halted \/ FramerFlush]_streamVars

\* A stream ends once and for all: the end of the transport is always
\* reported or given up, for the last record shows even when it is cut off;
\* and the stop of an END is kept.
StreamEnds ==
  /\ eofSeen ~> ~eofSeen
  /\ StopIsKept
============================================================================
