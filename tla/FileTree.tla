------------------------------ MODULE FileTree ------------------------------
(***************************************************************************)
(* What an archive promises: a tree of named directories and files, with   *)
(* operations that take effect at once or, when a device error or a crash  *)
(* cuts them short, not at all; except for two.  Removing a directory may  *)
(* stop with part of its items gone, never leaving an item without its     *)
(* parent; and a crash while a file's content is being replaced may damage *)
(* that content, and no other.  Opening the archive again changes nothing. *)
(***************************************************************************)
EXTENDS Naturals, Items

CONSTANTS Contents, Ids

Root == 0

ASSUME IdsAssumption     == Ids \subseteq Nat \ {Root}
ASSUME DamagedAssumption == Damaged \notin Contents

VARIABLE tree   \* ID -> item

Dirs  == [kind : {"dir"}, parent_dir : Ids \cup {Root}, name : Names]
Files == [kind : {"file"}, parent_dir : Ids \cup {Root}, name : Names,
          content : Contents \cup {Damaged}]

DirIds == {id \in DOMAIN tree : tree[id].kind = "dir"}

Children(d) == {id \in DOMAIN tree : tree[id].parent_dir = d}

\* An item and everything below it.
Below(id) ==
  {x \in DOMAIN tree :
     \A X \in SUBSET DOMAIN tree :
       (id \in X /\ \A y \in X : Children(y) \subseteq X) => x \in X}

Without(gone) == [id \in DOMAIN tree \ gone |-> tree[id]]

NameIsFree_AmongDirs(parent, name) ==
  /\ parent \in DirIds \cup {Root}
  /\ \A x \in Children(parent) \cap DirIds : tree[x].name # name

NameIsFree(parent, name) ==
  /\ parent \in DirIds \cup {Root}
  /\ \A x \in Children(parent) : tree[x].name # name

Init == tree = <<>>

\* IDs of removed items may be given out again.
Create(id, item) ==
  /\ id \notin DOMAIN tree
  /\ NameIsFree(item.parent_dir, item.name)
  /\ tree' = [x \in DOMAIN tree \cup {id} |-> IF x = id THEN item ELSE tree[x]]

Rename(id, name) ==
  /\ NameIsFree(tree[id].parent_dir, name)
  /\ tree' = [tree EXCEPT ![id].name = name]

SetContent(id, content) ==
  /\ tree[id].kind = "file"
  /\ tree' = [tree EXCEPT ![id].content = content]

Delete_TwoLevels(id) == tree' = Without({id} \cup Children(id))

Delete(id) == tree' = Without(Below(id))

\* Cut short: some items below a directory are gone, with all below them.
RemovePart(id) ==
  /\ tree[id].kind = "dir"
  /\ \E gone \in SUBSET (Below(id) \ {id}) :
       /\ \A x \in gone : Below(x) \subseteq gone
       /\ tree' = Without(gone)

Damage(id) == SetContent(id, Damaged)

Next ==
  \/ \E id \in Ids, item \in Dirs : Create(id, item)
  \/ \E id \in Ids, item \in Files : item.content # Damaged /\ Create(id, item)
  \/ \E id \in DOMAIN tree, name \in Names : Rename(id, name)
  \/ \E id \in DOMAIN tree, content \in Contents : SetContent(id, content)
  \/ \E id \in DOMAIN tree : Delete(id)
  \/ \E id \in DOMAIN tree : RemovePart(id)

NextWithCrashes == Next \/ \E id \in DOMAIN tree : Damage(id)

Spec            == Init /\ [][Next]_tree
SpecWithCrashes == Init /\ [][NextWithCrashes]_tree

-----------------------------------------------------------------------------
TypeOK ==
  /\ DOMAIN tree \subseteq Ids
  /\ tree \in [DOMAIN tree -> Dirs \cup Files]

(***************************************************************************)
(* A path names one item at most, and every item has a path: siblings have *)
(* different names, and every item is at the root or below a directory at  *)
(* the root.                                                               *)
(***************************************************************************)
PathsAreUnique ==
  \A x, y \in DOMAIN tree :
    x # y /\ tree[x].parent_dir = tree[y].parent_dir => tree[x].name # tree[y].name

EveryItemHasAPath ==
  \A x \in DOMAIN tree : \E top \in Children(Root) : x \in Below(top)
=============================================================================
