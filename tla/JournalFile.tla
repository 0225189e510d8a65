---------------------------- MODULE JournalFile ----------------------------
(***************************************************************************)
(* The record area of a journal file, as journal/format.rs lays it out and *)
(* journal/writer.rs and reader.rs access it through mmap.                 *)
(*                                                                         *)
(* The unit is a word of 8 bytes: a record header is 3 words (timestamp;   *)
(* payload_size, record_type, exchange_id, flags; sequence_number, crc32), *)
(* a footer is 4 (magic, total_records, total_bytes, final_timestamp).     *)
(* Offsets are relative to header.first_record.  A word's content is a     *)
(* tuple that says which field of which entry it holds; words that are     *)
(* zero in the file are Zero here, whatever field they belong to.          *)
(***************************************************************************)
EXTENDS Integers, Sequences

CONSTANTS FileWords,  \* words from first_record to the end of the file
          Lens        \* bound: the payload sizes in use, in words

RECORD_HEADER_SIZE == 3
FILE_FOOTER_SIZE == 4

ASSUME FileAssumption ==
  /\ FileWords \in Nat /\ FileWords >= FILE_FOOTER_SIZE
  /\ Lens \subseteq Nat

VARIABLES       \* of FileHeader, record_count; the rest is fixed when the file is created
  file,         \* the words of the record area
  recordCount   \* header.record_count; zero until a clean close

fileVars == <<file, recordCount>>

Offsets == 0 .. FileWords - 1

\* An entry is what the caller asked to record: its timestamp (unique, and
\* so it identifies the entry) and the size of its payload.
Entries == [ts : Nat \ {0}, len : Lens]

\* A word: which field it is, and the numbers it holds.
Kinds == {"zero", "timestamp", "size", "sum", "payload", "footer",
          "total_records", "total_bytes"}
Words == [kind : Kinds, a : Nat, b : Nat]
Word(kind, a, b) == [kind |-> kind, a |-> a, b |-> b]

Zero == Word("zero", 0, 0)

\* crc32fast::hash of the payload: zero for the empty one; the checksums of
\* different payloads are taken to differ.
Crc(entry) == IF entry.len = 0 THEN 0 ELSE entry.ts

\* The words of RecordHeader::to_bytes().
TimestampWord(entry) == Word("timestamp", entry.ts, 0)
SizeWord(entry) == Word("size", entry.len, entry.ts)
SumWord(seq, crc) == IF seq = 0 /\ crc = 0 THEN Zero ELSE Word("sum", seq, crc)
PayloadWord(entry, i) == Word("payload", entry.ts, i)

\* The words of FileFooter::to_bytes().
FooterMagic == Word("footer", 0, 0)
FooterWord(i, records, bytes, timestamp) ==
  CASE i = 0 -> FooterMagic
    [] i = 1 -> IF records = 0 THEN Zero ELSE Word("total_records", records, 0)
    [] i = 2 -> Word("total_bytes", bytes, 0)
    [] i = 3 -> IF timestamp = 0 THEN Zero ELSE Word("timestamp", timestamp, 0)

\* set_len() of the file that with_clock (or new) has created: a hole that
\* reads as zeros.
Blank == [i \in Offsets |-> Zero]

\* mmap[from .. from + n].copy_from_slice(words), the words numbered from 0.
Store(from, words) ==
  [i \in Offsets |-> IF i - from \in DOMAIN words THEN words[i - from] ELSE file[i]]

-----------------------------------------------------------------------------
(* What read_next finds at an offset.  A header is decoded from whatever   *)
(* the three words are: a zero word gives zero fields, and payload bytes   *)
(* met where payload_size is expected are taken to be larger than the file.*)

\* header.payload_size
SizeAt(p) ==
  IF file[p + 1].kind \in {"zero", "size"} THEN file[p + 1].a ELSE FileWords

\* header.crc32; -2 stands for bytes that are not the sum of this payload.
SumAt(p) == IF file[p + 2].kind \in {"zero", "sum"} THEN file[p + 2].b ELSE -2

\* The payload bytes after the header at p are those of one entry.
IntactAt(p) ==
  \A i \in 0 .. SizeAt(p) - 1 :
    file[p + RECORD_HEADER_SIZE + i] =
      Word("payload", file[p + RECORD_HEADER_SIZE].a, i)

\* crc32fast::hash of those bytes: -1 stands for a sum no header holds.
ActualSum(p) ==
  IF SizeAt(p) = 0 THEN 0
  ELSE IF IntactAt(p) THEN file[p + RECORD_HEADER_SIZE].a ELSE -1

\* The timestamp and payload size of the record read at p.
RecordAt(p) == [ts |-> file[p].a, len |-> SizeAt(p)]

\* Mutant: the never-written tail is not recognised.
EndAtNoTail(p) ==
  \/ p + RECORD_HEADER_SIZE > FileWords
  \/ file[p] = FooterMagic

\* Nothing more is read at p: end of the file, footer or never-written tail.
EndAt(p) ==
  \/ p + RECORD_HEADER_SIZE > FileWords
  \/ file[p] = FooterMagic
  \/ \A i \in p .. p + RECORD_HEADER_SIZE - 1 : file[i] = Zero

\* The offset of the record after the one at p (payload_end).
After(p) == p + RECORD_HEADER_SIZE + SizeAt(p)
=============================================================================
