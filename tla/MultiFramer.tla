----------------------------- MODULE MultiFramer -----------------------------
(***************************************************************************)
(* vsp_uword_multi_framer: cuts the word stream into records of one to     *)
(* four words.  It buffers the words of consecutive bundles, offers the    *)
(* complete records at the front of the buffer as a prefix of slots,       *)
(* carries an incomplete tail over to the next bundle, stops the fetch at  *)
(* an END record, reports the end of the transport after the last record   *)
(* of a final bundle, and discards a stream that breaks.                   *)
(*                                                                         *)
(* Positions in the buffer count from 1.  The scan of the code, one pass   *)
(* over the buffer, is the set of positions at which a record starts.      *)
(*                                                                         *)
(* An operator marked (mutant) is a broken variant of the operator below   *)
(* it; no specification uses it.                                           *)
(***************************************************************************)
EXTENDS ControlStream, FiniteSets

CONSTANTS
  AdmitSlots,  \* ADMIT_SLOTS: how many records are offered at a time
  Images       \* the control images: address -> [need, kind] of a header

MaxRecordWords == 4  \* VSP_UWORD_MAX_RECORD_WORDS

ASSUME FramerAssumption ==
  /\ AdmitSlots \in Nat \ {0}
  /\ \A m \in Images : \A a \in DOMAIN m : m[a].need \in 1..MaxRecordWords

VARIABLES
  image,        \* external: the control store, written before the launch
  words,        \* word_q[0 .. word_count_q - 1]
  basePc, expectedPc, expectedValid, eofSeen,
  discarding,   \* discard_until_last_q
  terminalStop, terminalPc,
  framesDone,   \* record_delivery_done_q
  framerError

bufferVars == <<words, basePc, expectedPc, expectedValid, eofSeen>>
haltVars   == <<discarding, terminalStop, terminalPc>>
framerVars == <<bufferVars, haltVars, framesDone, framerError>>

\* (mutant) the carry space forgets the word of the header itself
BufferWordsShort == BundleWords + MaxRecordWords - 2

BufferWords == BundleWords + MaxRecordWords - 1

FramerInit ==
  /\ words = << >> /\ basePc = 0 /\ expectedPc = 0 /\ expectedValid = FALSE
  /\ eofSeen = FALSE /\ discarding = FALSE
  /\ terminalStop = FALSE /\ terminalPc = 0
  /\ framesDone = FALSE /\ framerError = FALSE

----------------------------------------------------------------------------
(* The scan of the buffer.                                                 *)

Need(i)    == image[words[i]].need
Left(i)    == Len(words) - i + 1
Present(i) == IF Left(i) >= Need(i) THEN Need(i) ELSE Left(i)
Whole(i)   == Left(i) >= Need(i)
EndAt(i)   == Whole(i) /\ image[words[i]].kind = "END"

\* (mutant) a record cut off by the end of the stream never shows
FramedWholeOnly(i) == Whole(i)

\* An incomplete tail shows only once no further word can come.
Framed(i) == Whole(i) \/ eofSeen

\* A record starts where the one before it ends, and none starts after END.
IsStart[i \in 1..Len(words)] ==
  \/ i = 1
  \/ \E j \in 1..(i - 1) :
        j + Present(j) = i /\ Framed(j) /\ ~EndAt(j) /\ IsStart[j]

Records == {i \in 1..Len(words) : IsStart[i] /\ Framed(i)}
RecordPc(i) == basePc + 4 * (i - 1)
RecordWords(i) == SubSeq(words, i, i + Present(i) - 1)

EndFound    == \E i \in Records : EndAt(i)
EndPosition == CHOOSE i \in Records : EndAt(i)
FoundPc     == IF EndFound THEN RecordPc(EndPosition) ELSE terminalPc

\* Words behind END are dropped with the cycle that sees it.
EffectiveWords ==
  IF EndFound THEN EndPosition + Present(EndPosition) - 1 ELSE Len(words)

\* The slot that shows the record at position i.
Slot(records, i) == Cardinality({j \in records : j <= i})

\* (mutant) a ready slot transfers although an older one does not
AcceptedAnyReady(ready) == {i \in Records : Slot(Records, i) \in ready}

\* ready is a request for slots in 1..AdmitSlots; a slot transfers only with
\* every older one.
Accepted(ready) ==
  LET records == Records
  IN  {i \in records : \A j \in records : j <= i => Slot(records, j) \in ready}

AcceptedWords(taken) ==
  IF taken = {} THEN 0
  ELSE LET last == CHOOSE i \in taken : \A j \in taken : j <= i
       IN  last + Present(last) - 1

Retained(taken) == SubSeq(words, AcceptedWords(taken) + 1, EffectiveWords)

----------------------------------------------------------------------------
(* Outputs.                                                                *)

StopFetch  == terminalStop \/ EndFound
Halted     == terminalStop /\ words = << >>
FramerIdle == words = << >> /\ ~eofSeen /\ ~discarding /\ ~terminalStop

CountOk(b)  == b.count > 0 /\ b.count <= BundleWords

\* (mutant) a bundle of another path is glued to the buffered tail
BundleOkAnyBase(b) == CountOk(b) /\ Aligned(b.base)

BundleOk(b) == /\ CountOk(b)
               /\ Aligned(b.base)
               /\ expectedValid => b.base = expectedPc

\* (mutant) room for one word is taken for room for the bundle
CapacityOne(b) == 1

\* A bad count reserves a whole bundle, so that it can be diagnosed.
Capacity(b) == IF CountOk(b) THEN b.count ELSE BundleWords

BundleReady(b, taken) ==
  \/ discarding
  \/ /\ ~StopFetch /\ ~eofSeen
     /\ Len(Retained(taken)) + Capacity(b) <= BufferWords

----------------------------------------------------------------------------
(* One clock edge.  taken is the accepted prefix; restart is               *)
(* terminal_clear_i, clear is protocol_error_clear_i.                      *)

SetFramerError(bad, clear) ==
  framerError' = Bit(bad \/ (framerError /\ ~(clear /\ FramerIdle)))

KeepTerminal(restart) ==
  IF restart /\ Halted
  THEN terminalStop' = FALSE /\ terminalPc' = 0
  ELSE terminalStop' = Bit(StopFetch) /\ terminalPc' = FoundPc

NoStream ==
  /\ words' = << >> /\ basePc' = 0
  /\ expectedPc' = 0 /\ expectedValid' = FALSE /\ eofSeen' = FALSE

\* A cycle without a bundle: records leave, the end of the transport is
\* reported with the last of them, a halted framer may be restarted.
FramerShift(taken, restart, clear) ==
  LET drained == eofSeen /\ Retained(taken) = << >> /\ taken # {}
      closed  == drained \/ (restart /\ Halted)
  IN  /\ words' = Retained(taken)
      /\ basePc' = basePc + 4 * AcceptedWords(taken)
      /\ eofSeen' = Bit(eofSeen /\ ~closed)
      /\ expectedValid' = Bit(expectedValid /\ ~closed)
      /\ expectedPc' = IF closed THEN 0 ELSE expectedPc
      /\ framesDone' = Bit(drained)
      /\ KeepTerminal(restart)
      /\ SetFramerError(FALSE, clear)
      /\ UNCHANGED discarding

\* bundle_fire of a good bundle
FramerAppend(b, taken, clear) ==
  /\ ~discarding /\ BundleReady(b, taken) /\ BundleOk(b)
  /\ words' = Retained(taken) \o Lanes(b)
  /\ basePc' = IF Retained(taken) = << >> THEN b.base
               ELSE basePc + 4 * AcceptedWords(taken)
  /\ expectedPc' = b.base + 4 * b.count
  /\ expectedValid' = TRUE
  /\ eofSeen' = b.last
  /\ framesDone' = FALSE
  /\ KeepTerminal(FALSE)
  /\ SetFramerError(FALSE, clear)
  /\ UNCHANGED discarding

\* bundle_fire of a bad bundle: everything buffered goes with it, and the
\* rest of its stream is swallowed.
FramerReject(b, taken, clear) ==
  /\ ~discarding /\ BundleReady(b, taken) /\ ~BundleOk(b)
  /\ NoStream
  /\ discarding' = Bit(~b.last)
  /\ framesDone' = FALSE
  /\ KeepTerminal(FALSE)
  /\ SetFramerError(TRUE, clear)

\* bundle_fire while a broken stream is swallowed: nothing is buffered then,
\* and no END can be pending.
FramerSwallow(b, clear) ==
  /\ discarding
  /\ discarding' = Bit(~b.last)
  /\ framesDone' = FALSE
  /\ KeepTerminal(FALSE)
  /\ SetFramerError(FALSE, clear)
  /\ UNCHANGED bufferVars

\* (mutant) the abort forgets an END it has seen
StopAfterAbortLost == FALSE

\* stream_abort_i: END recognition wins, also in the very cycle of the abort
StopAfterAbort == Bit(StopFetch)

FramerAbort(clear) ==
  /\ NoStream
  /\ discarding' = FALSE
  /\ framesDone' = FALSE
  /\ terminalStop' = StopAfterAbort
  /\ terminalPc' = FoundPc
  /\ SetFramerError(FALSE, clear)

\* redirect_flush_i: also END is revoked; the error stays as history
FramerFlush ==
  /\ NoStream
  /\ discarding' = FALSE
  /\ framesDone' = FALSE
  /\ terminalStop' = FALSE /\ terminalPc' = 0
  /\ UNCHANGED framerError
============================================================================
