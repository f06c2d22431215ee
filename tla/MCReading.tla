----------------------------- MODULE MCReading ------------------------------
(***************************************************************************)
(* How an archive is read back: the source under everything, the entries   *)
(* of the table, the check of the table, and the files' contents.  The     *)
(* models of the four share no state; each behaviour is of one of them,    *)
(* while the others stay as they start.                                    *)
(*                                                                         *)
(* Source: reads and steps shorter than, as long as and longer than the    *)
(* buffer.  Entry: five bytes, '\0', a letter, '.', and the two bytes of   *)
(* one character; IDs, lengths and addresses whose low or high byte is     *)
(* zero.  Health: tables of two segments with two directories and two      *)
(* files at most, with every pair of entries that agrees in ID, parent or  *)
(* name, parents that come later in the table, and parents that are not    *)
(* there.  Reader: a file of three bytes with another on either side, and  *)
(* an empty file.                                                          *)
(***************************************************************************)
EXTENDS Source, Entry, Health, Reader, TLC

VARIABLE looked_at

MCVars == <<looked_at, vars, entry_vars, health_vars, reader_vars>>

MCReservedNames == {<<2>>, <<2, 2>>}

MCNewNames == {<<1>>, <<2, 1>>, <<1, 3, 4, 2>>}

MCContents ==
  {[addr |-> 0, len |-> 0, checksum |-> 1], [addr |-> 6, len |-> 1, checksum |-> 2],
   [addr |-> 5, len |-> 5, checksum |-> 3]}

MCNotEmpty == {c \in MCContents : c.len # 0}

MCNames == {"a", "b"}

DirEntry(id, p, n)  == [id |-> id, parent_dir |-> p, name |-> n]
FileEntry(id, p, n) == DirEntry(id, p, n) @@ [content_addr |-> 0, content_len |-> 0, sha3_checksum |-> 0]

Entries(make(_, _, _), ids, parents) == {make(id, p, n) : id \in ids, p \in parents, n \in MCNames}

Segments(D, F, next) ==
  {[next_segment_addr |-> next, dirs |-> <<d>>, files |-> <<f>>] : d \in D, f \in F}

MCTables ==
  LET D == {None} \cup Entries(DirEntry, {1, 2}, {Root, 1, 3})
      F == {None} \cup Entries(FileEntry, {1, 4}, {Root, 1})
  IN {<<x, y>> : x \in Segments(D, F, 5), y \in Segments(D, F, 0)}

EmptyTable ==
  <<[next_segment_addr |-> 5, dirs |-> <<None>>, files |-> <<None>>],
    [next_segment_addr |-> 0, dirs |-> <<None>>, files |-> <<None>>]>>

MCFiles == {[addr |-> 0, len |-> 1], [addr |-> 1, len |-> 3], [addr |-> 4, len |-> 1],
            [addr |-> 5, len |-> 0]}

-----------------------------------------------------------------------------
\* How each of them starts when it is not the one that is looked at.
AnySource == device = <<>> /\ Init
AnyEntry  == kind = "file" /\ EntryInit
AnyTable  == segments = EmptyTable /\ HealthInit
AnyReader == written = [addr \in 0..DeviceLen - 1 |-> 0] /\ ReaderInit

MCInit ==
  \/ looked_at = "source" /\ Init /\ AnyEntry /\ AnyTable /\ AnyReader
  \/ looked_at = "entry" /\ AnySource /\ EntryInit /\ AnyTable /\ AnyReader
  \/ looked_at = "table" /\ AnySource /\ AnyEntry /\ HealthInit /\ AnyReader
  \/ looked_at = "file" /\ AnySource /\ AnyEntry /\ AnyTable /\ ReaderInit

MCNext ==
  /\ \/ looked_at = "source" /\ Next /\ UNCHANGED <<entry_vars, health_vars, reader_vars>>
     \/ looked_at = "entry" /\ EntryNext /\ UNCHANGED <<vars, health_vars, reader_vars>>
     \/ looked_at = "table" /\ HealthNext /\ UNCHANGED <<vars, entry_vars, reader_vars>>
     \/ looked_at = "file" /\ ReaderNext /\ UNCHANGED <<vars, entry_vars, health_vars>>
  /\ UNCHANGED looked_at

MCSpec == MCInit /\ [][MCNext]_MCVars /\ WF_reader_vars(ReadOn)
=============================================================================
