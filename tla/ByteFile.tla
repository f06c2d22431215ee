------------------------------ MODULE ByteFile ------------------------------
(***************************************************************************)
(* What the archive takes its source for: bytes and one position, where    *)
(* the next read or write happens and which it moves on.                   *)
(***************************************************************************)
EXTENDS Integers, Sequences

CONSTANTS Bytes, MaxLen, MaxRead, MaxWrite

VARIABLES bytes, pos, got

vars == <<bytes, pos, got>>

Gave(what) == [ok |-> TRUE, what |-> what]
Done       == Gave(<<>>)
Failed     == [ok |-> FALSE, what |-> <<>>]

Datas == UNION {[1 .. n -> Bytes] : n \in 1 .. MaxWrite}

\* The gap a write past the end leaves is filled with zeros.
Written(b, at, data) ==
  IF data = <<>> THEN b
  ELSE [i \in 1 .. IF Len(b) > at + Len(data) THEN Len(b) ELSE at + Len(data) |->
          IF i - at \in DOMAIN data THEN data[i - at]
          ELSE IF i \in DOMAIN b THEN b[i] ELSE 0]

AtEnd == IF pos > Len(bytes) THEN pos ELSE Len(bytes)

ReadExact(n) ==
  /\ IF pos + n <= Len(bytes)
     THEN pos' = pos + n /\ got' = Gave(SubSeq(bytes, pos + 1, pos + n))
     ELSE pos' = AtEnd /\ got' = Failed
  /\ UNCHANGED bytes

SetPosition(p) == pos' = p /\ got' = Done /\ UNCHANGED bytes

Advance(n) == pos' = pos + n /\ got' = Done /\ UNCHANGED bytes

SeekLen == got' = Gave(<<Len(bytes)>>) /\ UNCHANGED <<bytes, pos>>

\* An error may leave part of the data written.
WriteAll(data) ==
  \/ bytes' = Written(bytes, pos, data) /\ pos' = pos + Len(data) /\ got' = Done
  \/ \E k \in 0 .. Len(data) :
       /\ bytes' = Written(bytes, pos, SubSeq(data, 1, k)) /\ pos' = pos + k /\ got' = Failed

Init == bytes \in UNION {[1 .. n -> Bytes] : n \in 0 .. MaxLen} /\ pos = 0 /\ got = Done

Next ==
  \/ \E n \in 1 .. MaxRead : ReadExact(n)
  \/ \E p \in 0 .. MaxLen : SetPosition(p)
  \/ \E n \in 1 .. MaxRead : Advance(n)
  \/ SeekLen
  \/ \E data \in Datas : WriteAll(data)

Spec == Init /\ [][Next]_vars
=============================================================================
