------------------------------- MODULE Reader -------------------------------
(***************************************************************************)
(* Reading files in pieces (FileReader): one reader at a time, over a      *)
(* source it shares with the readers before and after it, on a device that *)
(* may fail and whose bytes may have changed since they were written.      *)
(***************************************************************************)
EXTENDS Integers, Sequences

CONSTANTS ByteValues,  \* what a byte may be
          DeviceLen,
          Files,      \* the zones [addr, len] of the files
          MaxBuf      \* longest buffer a caller reads into

ASSUME DeviceAssumption == DeviceLen \in Nat /\ MaxBuf \in Nat
ASSUME FilesAssumption  ==
  \A f \in Files : f.addr \in Nat /\ f.len \in Nat /\ f.addr + f.len <= DeviceLen

VARIABLES
  written,    \* the device as it was when the checksums were taken
  stored,     \* as it is now
  position,   \* of the source
  reader,     \* the open reader's fields, and what it answered last
  delivered   \* the bytes it has given its caller

reader_vars == <<written, stored, position, reader, delivered>>

DeviceContents == [0..DeviceLen - 1 -> ByteValues]

Slice(bytes, addr, len) == [i \in 1..len |-> bytes[addr + i - 1]]

(***************************************************************************)
(* Checksums are taken to tell any two contents apart: a checksum is the   *)
(* content itself, a checksum under way the bytes fed to it.               *)
(***************************************************************************)
ExpectedChecksum(f) == Slice(written, f.addr, f.len)

\* A caller either reads on until the end or an error, as read_to_end and
\* io::copy do, or reads when it likes, and again after errors.
Callers == {"reads_on", "reads_in_pieces"}

Answers == {"data", "end", "io_error", "mismatch"}

NoReader == [open |-> FALSE, caller |-> "reads_in_pieces", len |-> 0, expected_checksum |-> <<>>,
             pending_checksum |-> <<>>, pos |-> 0, answers |-> {}]

ReaderInit ==
  /\ written \in DeviceContents
  /\ stored = written
  /\ position = 0
  /\ reader = NoReader
  /\ delivered = <<>>

Start_Current(f) == position

Start(f) == f.addr

\* Archive::read_file, FileReader::new.
ReadFile(f, caller) ==
  /\ ~reader.open
  /\ position' = Start(f)
  /\ reader' = [NoReader EXCEPT !.open = TRUE, !.caller = caller, !.len = f.len,
                                !.expected_checksum = ExpectedChecksum(f)]
  /\ delivered' = <<>>
  /\ UNCHANGED <<written, stored>>

MayRead == reader.open /\ (reader.caller = "reads_on" => reader.answers \subseteq {"data"})

\* A reader may be left at any point, but not by a caller that reads on.
Drop ==
  /\ reader.open /\ (MayRead => reader.caller = "reads_in_pieces")
  /\ reader' = NoReader
  /\ delivered' = <<>>
  /\ UNCHANGED <<written, stored, position>>

Answer(answer) == [reader EXCEPT !.answers = @ \cup {answer}]

\* Never past the end of the file.
ReadLen(buf_len) == IF buf_len < reader.len - reader.pos THEN buf_len ELSE reader.len - reader.pos

AnswerAtEnd_AsAsked(buf_len) == "data"

\* Ok(0), which a caller with room in its buffer takes for the end.
AnswerAtEnd(buf_len) == IF buf_len = 0 THEN "data" ELSE "end"

ReadNothing(buf_len) ==
  /\ MayRead /\ ReadLen(buf_len) = 0
  /\ reader' = Answer(AnswerAtEnd(buf_len))
  /\ UNCHANGED <<written, stored, position, delivered>>

IsComplete_TooLate(pos) == pos > reader.len

IsComplete(pos) == pos = reader.len

\* The checksum is compared when the last byte has been read, and only then.
ReadBytes(buf_len) ==
  LET bytes == Slice(stored, position, ReadLen(buf_len))
      wrong == /\ IsComplete(reader.pos + ReadLen(buf_len))
               /\ reader.pending_checksum \o bytes # reader.expected_checksum
  IN /\ MayRead /\ ReadLen(buf_len) # 0
     /\ position + ReadLen(buf_len) <= DeviceLen
     /\ position' = position + ReadLen(buf_len)
     /\ reader' = [Answer(IF wrong THEN "mismatch" ELSE "data") EXCEPT
                     !.pending_checksum = @ \o bytes, !.pos = @ + ReadLen(buf_len)]
     /\ delivered' = IF wrong THEN delivered ELSE delivered \o bytes
     /\ UNCHANGED <<written, stored>>

\* The device fails after part of the bytes: the source has moved on, the
\* reader has not, and a retry reads from the wrong place.
ReadFails(buf_len) ==
  /\ MayRead /\ ReadLen(buf_len) # 0
  /\ \E read \in 0..ReadLen(buf_len) :
       position + read <= DeviceLen /\ position' = position + read
  /\ reader' = Answer("io_error")
  /\ UNCHANGED <<written, stored, delivered>>

\* A byte changes on the device.  One is enough to spoil any content.
Rot ==
  /\ stored = written
  /\ \E addr \in 0..DeviceLen - 1, byte \in ByteValues : stored' = [stored EXCEPT ![addr] = byte]
  /\ UNCHANGED <<written, position, reader, delivered>>

Read(buf_len) == ReadNothing(buf_len) \/ ReadBytes(buf_len) \/ ReadFails(buf_len)

\* One turn of the loop in read_to_end or io::copy.
ReadOn == reader.caller = "reads_on" /\ \E buf_len \in 1..MaxBuf : Read(buf_len)

ReadAPiece == reader.caller = "reads_in_pieces" /\ \E buf_len \in 0..MaxBuf : Read(buf_len)

ReaderNext ==
  \/ \E f \in Files, caller \in Callers : ReadFile(f, caller)
  \/ ReadOn \/ ReadAPiece
  \/ Drop
  \/ Rot

ReaderSpec == ReaderInit /\ [][ReaderNext]_reader_vars /\ WF_reader_vars(ReadOn)

-----------------------------------------------------------------------------
ReaderTypeOK ==
  /\ written \in DeviceContents /\ stored \in DeviceContents
  /\ position \in 0..DeviceLen
  /\ reader.open \in BOOLEAN /\ reader.caller \in Callers /\ reader.answers \subseteq Answers
  /\ reader.len \in Nat /\ reader.pos \in 0..reader.len
  /\ delivered \in Seq(ByteValues) /\ reader.pending_checksum \in Seq(ByteValues)

(***************************************************************************)
(* A caller that has been given every byte, and no checksum error, has     *)
(* exactly what was written: whatever the lengths it read, errors it met   *)
(* and retried, and bytes that changed before, between or after its reads. *)
(***************************************************************************)
WholeMeansIntact ==
  reader.pos = reader.len /\ "mismatch" \notin reader.answers =>
    delivered = reader.expected_checksum

(***************************************************************************)
(* A checksum error is never a false alarm: a byte did change, or the      *)
(* caller read on after an error.  It does not depend on what was read     *)
(* from the source before the file was opened.                             *)
(***************************************************************************)
MismatchMeansChanged ==
  "mismatch" \in reader.answers => stored # written \/ "io_error" \in reader.answers

(***************************************************************************)
(* A caller that reads on comes to the end of the file, or is told why not *)
(* (the loop of read_to_end or io::copy runs; nothing it waits for).       *)
(***************************************************************************)
ReadingEnds ==
  reader.open /\ reader.caller = "reads_on" ~> ~MayRead
=============================================================================
