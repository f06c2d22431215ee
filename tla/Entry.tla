------------------------------- MODULE Entry --------------------------------
(***************************************************************************)
(* One slot of the file table, byte by byte: how an entry is encoded, what *)
(* each operation writes over it, and what opening the archive makes of it *)
(* when a crash cut the write off after any byte.  Bytes are small, and an *)
(* integer takes Width of them instead of eight; as with real bytes, the   *)
(* longest name is as long as a byte can say.                              *)
(***************************************************************************)
EXTENDS Integers, Sequences, FiniteSets

CONSTANTS
  Base,            \* bytes are 0 .. Base - 1; the byte 0 is also '\0'
  Width,           \* bytes of an integer
  Lead, Trail,     \* the bytes of the one character that takes two
  ForbiddenBytes,  \* the characters no name may have, but '\0'
  ReservedNames,
  NewIds, ParentDirs, NewNames, Times,
  Contents,        \* [addr, len, checksum] of what files may hold
  EmptyChecksum,
  MaxCrashes       \* bound

VARIABLES
  kind,      \* what the slot is for
  slot,      \* its bytes on the device
  item,      \* the item in memory, NoItem, or Unreadable after a failed open
  crashes,
  torn       \* the last write cut off: what was being done, and to what

entry_vars == <<kind, slot, item, crashes, torn>>

Byte == 0 .. Base - 1

NAME_MAX == Base - 1
NAME_OFFSET_IN_ENTRY == 2 * Width
AFTER_NAME == NAME_OFFSET_IN_ENTRY + 1 + NAME_MAX

Zeros(n) == [i \in 1 .. n |-> 0]

\* What is left of a number without its i lowest bytes.
Shifted(n) == LET rest[i \in 0 .. Width] == IF i = 0 THEN n ELSE rest[i - 1] \div Base IN rest

ToLeBytes(n) == [i \in 1 .. Width |-> Shifted(n)[i - 1] % Base]

\* The number in the i highest bytes.
Upper(bytes) ==
  LET high[i \in 0 .. Width] == IF i = 0 THEN 0 ELSE high[i - 1] * Base + bytes[Width + 1 - i]
  IN high

FromLeBytes(bytes) == Upper(bytes)[Width]

\* The numbers an integer of the entry has.
Integer(n) == n \in Nat /\ Shifted(n)[Width] = 0

Item(id, parent_dir, name, modif_time, content) ==
  [id |-> id, parent_dir |-> parent_dir, name |-> name, modif_time |-> modif_time,
   content |-> content]

NoContent == [addr |-> 0, len |-> 0, checksum |-> 0]

NoItem     == Item(0, 0, <<>>, 0, NoContent)
Unreadable == Item(-1, 0, <<>>, 0, NoContent)

-----------------------------------------------------------------------------
(* Names *)

IsUtf8(bytes) ==
  \A i \in DOMAIN bytes :
    /\ bytes[i] = Lead => i < Len(bytes) /\ bytes[i + 1] = Trail
    /\ bytes[i] = Trail => i > 1 /\ bytes[i - 1] = Lead

CheckValidity(name) ==
  /\ name # <<>> /\ Len(name) <= NAME_MAX
  /\ name \notin ReservedNames
  /\ \A i \in DOMAIN name : name[i] \notin ForbiddenBytes \cup {0}

ASSUME EntryAssumption ==
  /\ Base \in Nat \ {0, 1} /\ Width \in Nat \ {0} /\ MaxCrashes \in Nat
  /\ \A id \in NewIds : Integer(id) /\ id # 0
  /\ \A n \in ParentDirs \cup Times : Integer(n)
  /\ \A name \in NewNames : name \in Seq(Byte) /\ IsUtf8(name) /\ CheckValidity(name)
  /\ \A c \in Contents : c = [addr |-> c.addr, len |-> c.len, checksum |-> c.checksum]
  /\ \A c \in Contents : Integer(c.addr) /\ Integer(c.len) /\ c.checksum \in Byte
  /\ \A c \in Contents : c.len = 0 => c.checksum = EmptyChecksum

\* A length in characters.
EncodeName_CharCount(name) ==
  <<Cardinality({i \in DOMAIN name : name[i] # Trail})>> \o name \o Zeros(NAME_MAX - Len(name))

EncodeName(name) == <<Len(name)>> \o name \o Zeros(NAME_MAX - Len(name))

\* The bytes after the name are not looked at.
NameIn(bytes) == SubSeq(bytes, 2, bytes[1] + 1)

-----------------------------------------------------------------------------
(* Entries *)

EncodeContent(c) ==
  IF kind = "directory" THEN <<>> ELSE ToLeBytes(c.addr) \o ToLeBytes(c.len) \o <<c.checksum>>

Encode(i) ==
  ToLeBytes(i.id) \o ToLeBytes(i.parent_dir) \o EncodeName(i.name) \o ToLeBytes(i.modif_time)
    \o EncodeContent(i.content)

ENTRY_SIZE == Len(Encode(NoItem))

IntAt(bytes, offset) == FromLeBytes(SubSeq(bytes, offset + 1, offset + Width))

DecodeContent(bytes, offset) ==
  IF kind = "directory" THEN NoContent
  ELSE [addr |-> IntAt(bytes, offset), len |-> IntAt(bytes, offset + Width),
        checksum |-> bytes[offset + 2 * Width + 1]]

\* consume_from_reader: an ID of zero is an empty slot, whatever follows; a
\* name that cannot be is an error, and the archive does not open.
Decode(bytes) ==
  LET name == NameIn(SubSeq(bytes, NAME_OFFSET_IN_ENTRY + 1, AFTER_NAME))
  IN CASE IntAt(bytes, 0) = 0 -> NoItem
       [] IntAt(bytes, 0) # 0 /\ ~(IsUtf8(name) /\ CheckValidity(name)) -> Unreadable
       [] IntAt(bytes, 0) # 0 /\ IsUtf8(name) /\ CheckValidity(name) ->
            Item(IntAt(bytes, 0), IntAt(bytes, Width), name, IntAt(bytes, AFTER_NAME),
                 DecodeContent(bytes, AFTER_NAME + Width))

-----------------------------------------------------------------------------
(* Operations: what becomes of the item, and where which bytes are written *)

Over(bytes, offset, new) ==
  [i \in DOMAIN bytes |-> IF i - offset \in DOMAIN new THEN new[i - offset] ELSE bytes[i]]

\* The write is done and the item in memory follows, or a crash leaves the
\* first k bytes of it and the item is what opening the archive decodes.
Write(op, new_item, offset, bytes) ==
  \/ /\ slot' = Over(slot, offset, bytes)
     /\ item' = new_item
     /\ torn' = [torn EXCEPT !.op = "none"]
     /\ UNCHANGED <<kind, crashes>>
  \/ \E k \in 0 .. Len(bytes) :
       /\ crashes < MaxCrashes
       /\ crashes' = crashes + 1
       /\ slot' = Over(slot, offset, SubSeq(bytes, 1, k))
       /\ item' = Decode(slot')
       /\ torn' = [op |-> op, old |-> item, new |-> new_item, clean |-> slot = Zeros(ENTRY_SIZE)]
       /\ UNCHANGED kind

IsThere == item \notin {NoItem, Unreadable}

\* create_dir, create_file.
Create ==
  /\ item = NoItem
  /\ \E id \in NewIds, parent_dir \in ParentDirs, name \in NewNames, time \in Times, c \in Contents :
       LET content == IF kind = "directory" THEN NoContent ELSE c
           new     == Item(id, parent_dir, name, time, content)
       IN Write("create", new, 0, Encode(new))

\* replace_file_content writes all of the entry again.
ReplaceFileContent ==
  /\ IsThere /\ kind = "file"
  /\ \E time \in Times, c \in Contents :
       LET new == Item(item.id, item.parent_dir, item.name, time, c)
       IN Write("replace", new, 0, Encode(new))

NameWritten_Early == NAME_OFFSET_IN_ENTRY - Width

NameWritten == NAME_OFFSET_IN_ENTRY

\* rename_directory, rename_file.
Rename ==
  /\ IsThere
  /\ \E name \in NewNames \ {item.name} :
       LET new == Item(item.id, item.parent_dir, name, item.modif_time, item.content)
       IN Write("rename", new, NameWritten, EncodeName(name))

\* remove_dir, remove_file.
RemoveItem ==
  /\ IsThere
  /\ Write("remove", NoItem, 0, Zeros(ENTRY_SIZE))

EntryInit ==
  /\ kind \in {"directory", "file"}
  /\ slot = Zeros(ENTRY_SIZE)
  /\ item = NoItem
  /\ crashes = 0
  /\ torn = [op |-> "none", old |-> NoItem, new |-> NoItem, clean |-> TRUE]

EntryNext == Create \/ ReplaceFileContent \/ Rename \/ RemoveItem

EntrySpec == EntryInit /\ [][EntryNext]_entry_vars

-----------------------------------------------------------------------------
(* Properties *)

(***************************************************************************)
(* What an archive has in memory is what opening it would find, after any  *)
(* operations, crashes and entries that were in the slot before.           *)
(***************************************************************************)
OpensToWhatItHas == Decode(slot) = item

(***************************************************************************)
(* A write cut off never shows an item nobody made.  An entry written into *)
(* a clean slot leaves no item, the item under its own ID, name and parent *)
(* or an archive that refuses to open.  An item that is changed stays in   *)
(* its place (or the archive refuses to open): a rename changes nothing    *)
(* but the name, a replacement keeps all but time and content, a removal   *)
(* the name, parent and content until it is gone.                          *)
(***************************************************************************)
TornWritesMakeNoOther ==
  LET old == torn.old
      new == torn.new
  IN IsThere =>
       /\ torn.op = "create" /\ torn.clean =>
            item.id = new.id /\ item.parent_dir = new.parent_dir /\ item.name = new.name
       /\ torn.op = "rename" =>
            item = Item(old.id, old.parent_dir, item.name, old.modif_time, old.content)
       /\ torn.op = "replace" =>
            item = Item(old.id, old.parent_dir, old.name, item.modif_time, item.content)
       /\ torn.op = "remove" =>
            item = Item(item.id, old.parent_dir, old.name, old.modif_time, old.content)

(***************************************************************************)
(* file_reader.rs: "Abstraction over a file with checksum verification".   *)
(* A file that reads to its end without an error has the checksum of its   *)
(* entry, one that reads as empty included: FileReader compares them when  *)
(* it has read the last byte, and there is none.                           *)
(***************************************************************************)
ReadingIsVerified ==
  IsThere /\ kind = "file" /\ item.content.len = 0 => item.content.checksum = EmptyChecksum
=============================================================================
