----------------------------- MODULE PathCalls ------------------------------
(***************************************************************************)
(* What the operations by path promise (WithPathsMut): which path a string *)
(* means, which calls can succeed on an archive with these paths, and what *)
(* they leave.  Paths has the code's steps and shows that they keep these  *)
(* promises; the tool is modelled on top of the promises.                  *)
(***************************************************************************)
EXTENDS Integers, FiniteSets, SequencesExt, Items

CONSTANT InvalidNames   \* segments ItemName refuses

\* Segments that name nothing.
Dotted == {"", ".", ".."}

ASSUME SegmentsAssumption ==
  Names \cap InvalidNames = {} /\ (Names \cup InvalidNames) \cap Dotted = {}

DirCalls    == {"create_dir_at", "get_or_create_dir_at"}
WriteCalls  == {"write_file_at", "create_file_at", "update_file_at"}
RemoveCalls == {"remove_dir_at", "remove_file_at"}

(***************************************************************************)
(* What a path means, by counting: a name is undone by the first ".." that *)
(* outnumbers the names between them, and no ".." may outnumber the names  *)
(* before it.  PathInArchive::new finds this out with a stack.             *)
(***************************************************************************)
Count(raw, from, to, segments) == Cardinality({i \in from..to : raw[i] \in segments})

Undone(raw, i) ==
  \E j \in i + 1..Len(raw) : Count(raw, i + 1, j, {".."}) > Count(raw, i + 1, j, Names)

IsPath(raw) ==
  /\ raw # <<"">>
  /\ \A i \in 1..Len(raw) : raw[i] \in Names \cup Dotted
  /\ \A j \in 1..Len(raw) : Count(raw, 1, j, {".."}) <= Count(raw, 1, j, Names)

Meant(raw) ==
  LET left(i) == Cardinality({j \in 1..i : raw[j] \in Names /\ ~Undone(raw, j)})
      kept    == {i \in 1..Len(raw) : raw[i] \in Names /\ ~Undone(raw, i)}
  IN [n \in 1..Cardinality(kept) |-> raw[CHOOSE i \in kept : left(i) = n]]

\* Whether a call can succeed, and the store it should leave.
Above(p) == {SubSeq(p, 1, n) : n \in 1..Len(p) - 1}

Possible(op, raw, store) ==
  LET p == Meant(raw)
      free   == p \notin DOMAIN store
      is_dir == p \in DOMAIN store /\ store[p] = "directory"
  IN /\ IsPath(raw) /\ p # <<>>
     /\ \A q \in Above(p) \cap DOMAIN store : store[q] = "directory"
     /\ CASE op \in {"create_dir_at", "create_file_at"}    -> free
          [] op = "get_or_create_dir_at"                   -> free \/ is_dir
          [] op = "write_file_at"                          -> ~is_dir
          [] op \in {"update_file_at", "remove_file_at"}   -> ~free /\ ~is_dir
          [] op = "remove_dir_at"                          -> is_dir

\* Parents are made on the way; removing takes all below with it.
After(op, p, content, store) ==
  IF op \in RemoveCalls
  THEN [q \in {q \in DOMAIN store : ~IsPrefix(p, q)} |-> store[q]]
  ELSE [q \in {p} \cup Above(p) \cup DOMAIN store |->
          CASE q = p           -> IF op \in DirCalls THEN "directory" ELSE content
            [] q \in Above(p)  -> "directory"
            [] OTHER           -> store[q]]

\* The stores it may leave when it is cut off, entries being written whole or
\* not at all.
CutShort(op, raw, store) ==
  LET p       == Meant(raw)
      below   == {q \in DOMAIN store : IsStrictPrefix(p, q)}
      parts   == {gone \in SUBSET below : \A q \in gone, x \in below : IsPrefix(q, x) => x \in gone}
      walk    == IF op = "get_or_create_dir_at" THEN p ELSE Front(p)
      made(n) == {SubSeq(walk, 1, i) : i \in 1..n}
  IN IF ~Possible(op, raw, store)
     THEN {store}
     ELSE CASE op \in RemoveCalls -> {[q \in DOMAIN store \ gone |-> store[q]] : gone \in parts}
            [] op \in WriteCalls /\ p \in DOMAIN store -> {store, [store EXCEPT ![p] = Damaged]}
            [] OTHER -> {[q \in DOMAIN store \cup made(n) |->
                            IF q \in DOMAIN store THEN store[q] ELSE "directory"] : n \in 0..Len(walk)}
=============================================================================
