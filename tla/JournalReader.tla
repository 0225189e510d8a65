--------------------------- MODULE JournalReader ---------------------------
(***************************************************************************)
(* journal/reader.rs: the iterator over the records of a journal file, its *)
(* three configurations, and the positioning calls.                        *)
(***************************************************************************)
EXTENDS JournalFile

CONSTANTS MaxSeeks   \* bound: calls of rewind and seek

VARIABLES
  mode,          \* configuration of the open reader, or "none"
  read_position, records_read, finished,
  result,        \* what the last next() returned
  offsets,       \* history: offsets of the records returned so far
  returned,      \* history: those records
  seeks

readerVars == <<mode, read_position, records_read, finished, result, offsets,
                returned, seeks>>

\* ReaderConfig: default, lenient() and fast().
Modes == {"default", "lenient", "fast"}
verify_crc == mode # "fast"
skip_corrupt == mode = "lenient"

ReaderInit ==
  /\ mode = "none" /\ read_position = 0 /\ records_read = 0 /\ finished = FALSE
  /\ result = "none" /\ offsets = <<>> /\ returned = <<>> /\ seeks = 0

\* open and open_with_config; the header and schema checks pass.
Open(config) ==
  /\ mode = "none"
  /\ mode' = config
  /\ UNCHANGED <<read_position, records_read, finished, result, offsets,
                 returned, seeks>>

PastEnd(p) == After(p) > FileWords

CorruptAt(p) == verify_crc /\ ActualSum(p) # SumAt(p)

\* read_next calls itself after a corrupt record when skip_corrupt is set:
\* the offset where it comes to rest, and how many records it passed.
RestingPlace[p \in 0 .. FileWords] ==
  IF EndAt(p) \/ PastEnd(p) \/ ~skip_corrupt \/ ~CorruptAt(p)
  THEN [at |-> p, skipped |-> 0]
  ELSE [RestingPlace[After(p)] EXCEPT !.skipped = @ + 1]

\* read_next
ReadNext ==
  LET rest == RestingPlace[read_position]
      p == rest.at
      passed == records_read + rest.skipped
  IN  /\ mode # "none" /\ ~finished
      /\ UNCHANGED <<mode, seeks>>
      /\ \/ /\ EndAt(p)
            /\ read_position' = p /\ records_read' = passed
            /\ finished' = TRUE /\ result' = "end"
            /\ UNCHANGED <<offsets, returned>>
         \/ /\ ~EndAt(p) /\ PastEnd(p)
            /\ read_position' = p /\ records_read' = passed
            /\ finished' = TRUE /\ result' = "unexpected_eof"
            /\ UNCHANGED <<offsets, returned>>
         \/ /\ ~EndAt(p) /\ ~PastEnd(p) /\ CorruptAt(p)
            /\ read_position' = p /\ records_read' = passed
            /\ finished' = TRUE /\ result' = "corrupt"
            /\ UNCHANGED <<offsets, returned>>
         \/ /\ ~EndAt(p) /\ ~PastEnd(p) /\ ~CorruptAt(p)
            /\ read_position' = After(p) /\ records_read' = passed + 1
            /\ result' = "record"
            /\ offsets' = Append(offsets, p)
            /\ returned' = Append(returned, RecordAt(p))
            /\ UNCHANGED finished

\* rewind
Rewind ==
  /\ mode # "none" /\ seeks < MaxSeeks
  /\ seeks' = seeks + 1
  /\ read_position' = 0 /\ records_read' = 0 /\ finished' = FALSE
  /\ result' = "none" /\ offsets' = <<>> /\ returned' = <<>>
  /\ UNCHANGED mode

\* seek to a record returned earlier: reading resumes with it; records_read
\* is left as it is.
Seek(n) ==
  /\ mode # "none" /\ seeks < MaxSeeks
  /\ n \in DOMAIN offsets
  /\ seeks' = seeks + 1
  /\ read_position' = offsets[n] /\ finished' = FALSE
  /\ result' = "none"
  /\ offsets' = SubSeq(offsets, 1, n - 1) /\ returned' = SubSeq(returned, 1, n - 1)
  /\ UNCHANGED <<mode, records_read>>

\* read_footer: at the current position, or in the last bytes of the file.
FooterAt(p) ==
  IF p + FILE_FOOTER_SIZE <= FileWords THEN file[p] = FooterMagic ELSE FALSE

ReadFooter == FooterAt(read_position) \/ FooterAt(FileWords - FILE_FOOTER_SIZE)

\* footer.total_records, when there is a footer at p
FooterRecords(p) == file[p + 1].a

ReaderNext ==
  \/ \E config \in Modes : Open(config)
  \/ ReadNext
  \/ Rewind
  \/ \E n \in 1 .. FileWords : Seek(n)
=============================================================================
