------------------------------- MODULE Source -------------------------------
(***************************************************************************)
(* Source: reads go through a BufReader, writes go around it, straight to  *)
(* the stream below, whose position is ahead of the reader's by what is    *)
(* left in the buffer.  Nothing in Source keeps the two apart; that every  *)
(* caller sets the position before it writes does.                         *)
(***************************************************************************)
EXTENDS Integers, Sequences

CONSTANTS Bytes, MaxLen, MaxRead, MaxWrite,
          Capacity   \* of the buffer

ASSUME SourceAssumption ==
  /\ 0 \in Bytes
  /\ Capacity \in Nat \ {0}
  /\ MaxLen \in Nat /\ MaxRead \in Nat /\ MaxWrite \in Nat

VARIABLES
  device,
  at,       \* position of the stream below
  buffer,   \* bytes read ahead and not yet given out
  got,      \* what the last call returned
  since     \* what the caller has done since it set the position

vars == <<device, at, buffer, got, since>>

Gave(what) == [ok |-> TRUE, what |-> what]
Done       == Gave(<<>>)
Failed     == [ok |-> FALSE, what |-> <<>>]

Datas == UNION {[1 .. n -> Bytes] : n \in 1 .. MaxWrite}

Position == at - Len(buffer)

\* The device: what is written, and what a read at a position gives.
Written(d, p, data) ==
  IF data = <<>> THEN d
  ELSE [i \in 1 .. IF Len(d) > p + Len(data) THEN Len(d) ELSE p + Len(data) |->
          IF i - p \in DOMAIN data THEN data[i - p] ELSE IF i \in DOMAIN d THEN d[i] ELSE 0]

ReadAt(p, n) == SubSeq(device, p + 1, IF p + n < Len(device) THEN p + n ELSE Len(device))

-----------------------------------------------------------------------------
\* What a read of n bytes takes from the stream below once the buffer is used
\* up: a buffer full, or past the buffer as much as is missing.
Fetched(missing) == ReadAt(at, IF missing < Capacity THEN Capacity ELSE missing)

\* read_exact.  At the end of the stream what was read is lost.
ReadExact(n) ==
  LET missing == n - Len(buffer)
      fetched == Fetched(missing)
  IN /\ since \in {"nothing", "read"}
     /\ \/ /\ missing <= 0
           /\ got' = Gave(SubSeq(buffer, 1, n)) /\ buffer' = SubSeq(buffer, n + 1, Len(buffer))
           /\ UNCHANGED at
        \/ /\ 0 < missing /\ missing <= Len(fetched)
           /\ got' = Gave(buffer \o SubSeq(fetched, 1, missing))
           /\ buffer' = SubSeq(fetched, missing + 1, Len(fetched))
           /\ at' = at + Len(fetched)
        \/ /\ missing > Len(fetched)
           /\ got' = Failed /\ buffer' = <<>> /\ at' = at + Len(fetched)
     /\ since' = "read"
     /\ UNCHANGED device

BufferAfterSeek_Kept(p) ==
  IF p \in Position .. at THEN SubSeq(buffer, p - Position + 1, Len(buffer)) ELSE <<>>

\* A BufReader that seeks forgets what it has read ahead.
BufferAfterSeek(p) == <<>>

SetPosition(p) ==
  /\ buffer' = BufferAfterSeek(p)
  /\ at' = p + Len(buffer')
  /\ got' = Done /\ since' = "nothing"
  /\ UNCHANGED device

\* seek_relative keeps the buffer if the new position is in it.  It is called
\* on slots, which have just been read from.
Advance(n) ==
  /\ since = "read" /\ Position + n <= MaxLen + MaxRead
  /\ IF n <= Len(buffer)
     THEN buffer' = SubSeq(buffer, n + 1, Len(buffer)) /\ UNCHANGED at
     ELSE at' = Position + n /\ buffer' = <<>>
  /\ got' = Done
  /\ UNCHANGED <<device, since>>

\* To the end and back.
SeekLen ==
  /\ at' = Position /\ buffer' = <<>>
  /\ got' = Gave(<<Len(device)>>)
  /\ UNCHANGED <<device, since>>

\* BufReader::get_mut, Write::write_all.  An error may come after any byte.
WriteAll(data) ==
  /\ since \in {"nothing", "write"} /\ at + Len(data) <= MaxLen
  /\ \/ device' = Written(device, at, data) /\ at' = at + Len(data)
        /\ got' = Done
     \/ \E k \in 0 .. Len(data) :
          /\ device' = Written(device, at, SubSeq(data, 1, k)) /\ at' = at + k
          /\ got' = Failed
  /\ since' = "write"
  /\ UNCHANGED buffer

Init ==
  /\ device \in UNION {[1 .. n -> Bytes] : n \in 0 .. MaxLen}
  /\ at = 0 /\ buffer = <<>> /\ got = Done /\ since = "nothing"

Next ==
  \/ \E n \in 1 .. MaxRead : ReadExact(n)
  \/ \E p \in 0 .. MaxLen : SetPosition(p)
  \/ \E n \in 1 .. MaxRead : Advance(n)
  \/ SeekLen
  \/ \E data \in Datas : WriteAll(data)

Spec == Init /\ [][Next]_vars

-----------------------------------------------------------------------------
(***************************************************************************)
(* Used as the archive uses it, the source is a file with one position:    *)
(* reads give what was written last, also by writes that went around the   *)
(* buffer, writes go where the reader would read next, and asking for the  *)
(* length moves nothing.                                                   *)
(***************************************************************************)
File == INSTANCE ByteFile WITH bytes <- device, pos <- Position
ImplementsByteFile == File!Spec
=============================================================================
