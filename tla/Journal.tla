------------------------------ MODULE Journal ------------------------------
(***************************************************************************)
(* A journal through its life: a writer session ends by close() or by the  *)
(* death of the process, and a reader then opens the file it left.  Under   *)
(* the writer is the lock-free buffer its two threads share.  The writer    *)
(* sees it as a bounded queue, which RingBuffer is shown to implement, so   *)
(* that a behaviour of the runs exercises the buffer, the writer, or the    *)
(* writer and the reader, while the rest stands still.                      *)
(***************************************************************************)
EXTENDS RingBuffer, JournalWriter, JournalReader

vars == <<writerVars, readerVars>>

Init == WriterInit /\ ReaderInit

\* The reader maps a file nobody writes to any more.
Next ==
  \/ mode = "none" /\ WriterNext /\ UNCHANGED readerVars
  \/ session # "open" /\ ReaderNext /\ UNCHANGED writerVars
  \/ finished /\ UNCHANGED vars

Spec == Init /\ [][Next]_vars

VARIABLE part

layerVars == <<part, bufferVars, vars>>

LayerInit == RingInit /\ Init /\ part \in {"buffer", "writer", "journal"}

\* A journal that is read is of one session: where a second one would put its
\* records is a question of the writer alone (AppendsAtEnd).  Bound: it is
\* written with one call less than a journal that is not read.
LayerNext ==
  /\ UNCHANGED part
  /\ \/ part = "buffer" /\ RingNext /\ UNCHANGED vars
     \/ part = "writer" /\ WriterNext /\ UNCHANGED <<bufferVars, readerVars>>
     \/ part = "journal" /\ Next /\ UNCHANGED <<bufferVars, sessions>>
        /\ writes' < MaxWrites

\* Both threads of a writer keep running while the process lives: the background
\* thread takes its next step, and a caller inside flush or close takes its own.
Writing == part # "buffer" /\ mode = "none"
WriterFairness ==
  /\ WF_writerVars(Writing /\ BackgroundNext) /\ SF_writerVars(Writing /\ BgPop)
  /\ WF_writerVars(Writing /\ FlushNext) /\ WF_writerVars(Writing /\ (CloseHeader \/ CloseFooter))

\* The three layers, with the fairness of the buffer and of the writer (a buffer
\* that stands still is empty and asks for no step).
LayerSpec ==
  /\ LayerInit /\ [][LayerNext]_layerVars
  /\ RingFairness /\ WriterFairness

-----------------------------------------------------------------------------
\* With CRC checking, whatever the writer was doing when it was killed, the
\* reader returns records of the journal in order and no others: a prefix
\* of the stored ones, and at most the one then being written.
ReadsPrefix ==
  mode # "none" /\ verify_crc =>
    LET all == stored \o InHand
    IN  /\ Len(returned) <= Len(all)
        /\ \A n \in DOMAIN returned : returned[n] = all[n]

\* What records_written() reported before the process died is readable.
ReadsCounted == finished => Len(returned) >= records_written

\* A journal that was closed reads to its end without an error, whatever
\* the configuration, gives every stored record back, and has a footer
\* whose total_records is that number.
ClosedReadsBack ==
  finished /\ session = "closed" =>
    /\ result = "end" /\ returned = stored
    /\ ReadFooter /\ FooterRecords(read_position) = Len(stored)

\* A reader of the file, while it is written or afterwards, gets records that
\* were stored, from the first one on and without a gap; all that are counted
\* once it has come to an end; and exactly those of a closed file.
ReadsBack == ReadsPrefix /\ ReadsCounted /\ ClosedReadsBack
=============================================================================
