----------------------------- MODULE PathsProofs -----------------------------
(***************************************************************************)
(* Of a file tree, for every set of names, contents and IDs: one item per  *)
(* path and a path for every item, through removals cut short and crashes. *)
(* Each is inductive on a well-typed tree; what has to be argued is that   *)
(* Below, a least fixpoint, follows the tree when items come and go.       *)
(*                                                                         *)
(* Of the operations by path on top of it: they do to the tree, seen by    *)
(* path, what they promise.                                                *)
(*                                                                         *)
(* Of an iterator over it: it gives everything, once, in the order         *)
(* documented.                                                             *)
(***************************************************************************)
EXTENDS Paths, Iter, PathCallsProofs

TreeInv == TypeOK /\ PathsAreUnique /\ EveryItemHasAPath

\* A set of items that has everything below its members.
Closed(X) == X \subseteq DOMAIN tree /\ \A y \in X : Children(y) \subseteq X

LEMMA BelowIsLeast ==
  ASSUME NEW id, NEW x \in Below(id), NEW X, Closed(X), id \in X
  PROVE  x \in X
BY DEF Below, Closed

LEMMA InEveryClosed ==
  ASSUME NEW id, NEW x \in DOMAIN tree, \A X : Closed(X) /\ id \in X => x \in X
  PROVE  x \in Below(id)
BY DEF Below, Closed

LEMMA BelowIsTransitive ==
  ASSUME NEW id, NEW x \in Below(id), NEW z \in Below(x)
  PROVE  z \in Below(id)
<1>1. z \in DOMAIN tree
  BY DEF Below
<1>2. ASSUME NEW X, Closed(X), id \in X PROVE z \in X
  BY <1>2, BelowIsLeast
<1> QED
  BY <1>1, <1>2, InEveryClosed

LEMMA ChildrenAreBelow ==
  ASSUME NEW id \in DOMAIN tree
  PROVE  id \in Below(id) /\ Children(id) \subseteq Below(id)
BY DEF Below, Children

-----------------------------------------------------------------------------
\* Steps that leave every item where it is.
LEMMA SamePlacesKeepPaths ==
  ASSUME EveryItemHasAPath, DOMAIN tree' = DOMAIN tree,
         \A x \in DOMAIN tree : tree'[x].parent_dir = tree[x].parent_dir
  PROVE  EveryItemHasAPath'
<1>1. \A d : Children(d)' = Children(d)
  BY DEF Children
<1>2. \A id : Below(id)' = Below(id)
  BY <1>1 DEF Below
<1> QED
  BY <1>1, <1>2 DEF EveryItemHasAPath

\* A new item is below its parent, and above nothing old.
LEMMA NewItemKeepsPaths ==
  ASSUME EveryItemHasAPath, NEW id, id \notin DOMAIN tree,
         DOMAIN tree' = DOMAIN tree \cup {id},
         \A x \in DOMAIN tree : tree'[x].parent_dir = tree[x].parent_dir,
         tree'[id].parent_dir \in DOMAIN tree \cup {Root}
  PROVE  EveryItemHasAPath'
<1>1. \A d : Children(d) \subseteq Children(d)'
  BY DEF Children
<1>2. ASSUME NEW top \in DOMAIN tree, NEW x \in Below(top) PROVE x \in Below(top)'
  <2>1. ASSUME NEW X, Closed(X)', top \in X PROVE x \in X
    <3>1. Closed(X \cap DOMAIN tree)
      BY <1>1, <2>1 DEF Closed, Children
    <3> QED
      BY <3>1, <2>1, BelowIsLeast
  <2>2. x \in DOMAIN tree'
    BY DEF Below
  <2> QED
    BY <2>1, <2>2 DEF Below, Closed
<1>3. ASSUME NEW x \in DOMAIN tree PROVE \E top \in Children(Root)' : x \in Below(top)'
  <2>1. PICK top \in Children(Root) : x \in Below(top)
    BY DEF EveryItemHasAPath
  <2>2. top \in DOMAIN tree
    BY DEF Children
  <2> QED
    BY <1>1, <1>2, <2>1, <2>2
<1>4. \E top \in Children(Root)' : id \in Below(top)'
  <2>1. CASE tree'[id].parent_dir = Root
    BY <2>1 DEF Children, Below
  <2>2. CASE tree'[id].parent_dir \in DOMAIN tree
    <3>0. PICK d \in DOMAIN tree : d = tree'[id].parent_dir
      BY <2>2
    <3>1. PICK top \in Children(Root)' : d \in Below(top)'
      BY <1>3
    <3>2. id \in Children(d)'
      BY <3>0 DEF Children
    <3>3. id \in Below(top)'
      BY <3>1, <3>2 DEF Below
    <3> QED
      BY <3>3
  <2> QED
    BY <2>1, <2>2
<1> QED
  BY <1>3, <1>4 DEF EveryItemHasAPath

\* Removing items with all that is below them.
LEMMA RemovalKeepsPaths ==
  ASSUME EveryItemHasAPath, NEW gone, gone \subseteq DOMAIN tree,
         \A x \in gone : Below(x) \subseteq gone, tree' = Without(gone)
  PROVE  EveryItemHasAPath'
<1>1. /\ DOMAIN tree' = DOMAIN tree \ gone
      /\ \A x \in DOMAIN tree' : tree'[x] = tree[x]
  BY DEF Without
<1>2. \A d : Children(d)' = Children(d) \ gone
  BY <1>1 DEF Children
<1>3. \A y \in gone : Children(y) \subseteq gone
  BY ChildrenAreBelow
<1> SUFFICES ASSUME NEW x \in DOMAIN tree'
             PROVE  \E top \in Children(Root)' : x \in Below(top)'
  BY DEF EveryItemHasAPath
<1>4. PICK top \in Children(Root) : x \in Below(top)
  BY <1>1 DEF EveryItemHasAPath
<1>5. top \in Children(Root)'
  BY <1>1, <1>2, <1>4
<1>6. ASSUME NEW X, Closed(X)', top \in X PROVE x \in X
  <2>1. Closed(X \cup gone)
    BY <1>1, <1>2, <1>3, <1>6 DEF Closed
  <2> QED
    BY <2>1, <1>1, <1>4, <1>6, BelowIsLeast
<1>7. x \in Below(top)'
  BY <1>6 DEF Below, Closed
<1> QED
  BY <1>5, <1>7

-----------------------------------------------------------------------------
LEMMA CreateKeepsInv ==
  ASSUME TreeInv, NEW id \in Ids, NEW item \in Dirs \cup Files, Create(id, item)
  PROVE  TreeInv'
<1>1. /\ DOMAIN tree' = DOMAIN tree \cup {id} /\ tree'[id] = item
      /\ \A x \in DOMAIN tree : tree'[x] = tree[x]
      /\ id \notin DOMAIN tree
  BY DEF Create
<1>2. /\ item.parent_dir \in DOMAIN tree \cup {Root}
      /\ \A x \in DOMAIN tree : tree[x].parent_dir = item.parent_dir => tree[x].name # item.name
  BY DEF Create, NameIsFree, DirIds, Children
<1>3. tree' = [x \in DOMAIN tree' |-> tree'[x]]
  BY DEF Create
<1>4. TypeOK'
  BY <1>1, <1>3 DEF TreeInv, TypeOK
<1>5. PathsAreUnique'
  BY <1>1, <1>2 DEF TreeInv, PathsAreUnique
<1>6. EveryItemHasAPath'
  BY <1>1, <1>2, NewItemKeepsPaths DEF TreeInv
<1> QED
  BY <1>4, <1>5, <1>6 DEF TreeInv

LEMMA RenameKeepsInv ==
  ASSUME TreeInv, NEW id \in DOMAIN tree, NEW name \in Names, Rename(id, name)
  PROVE  TreeInv'
<1>1. /\ DOMAIN tree' = DOMAIN tree
      /\ \A x \in DOMAIN tree : x # id => tree'[x] = tree[x]
      /\ tree'[id] = [tree[id] EXCEPT !.name = name]
      /\ tree' = [x \in DOMAIN tree |-> tree'[x]]
  BY DEF Rename, TreeInv, TypeOK
<1>2. tree[id] \in Dirs \cup Files
  BY DEF TreeInv, TypeOK
<1>3. /\ tree'[id].name = name /\ tree'[id].parent_dir = tree[id].parent_dir
      /\ tree'[id] \in Dirs \cup Files
  BY <1>1, <1>2 DEF Dirs, Files
<1>4. TypeOK'
  BY <1>1, <1>3 DEF TreeInv, TypeOK
<1>5. \A x \in DOMAIN tree : tree[x].parent_dir = tree[id].parent_dir => tree[x].name # name
  BY DEF Rename, NameIsFree, Children
<1>6. PathsAreUnique'
  <2>1. \A x \in DOMAIN tree : /\ tree'[x].parent_dir = tree[x].parent_dir
                               /\ tree'[x].name = IF x = id THEN name ELSE tree[x].name
    BY <1>1, <1>3
  <2>2. DOMAIN tree' = DOMAIN tree
    BY <1>1
  <2> QED
    BY <1>5, <2>1, <2>2 DEF TreeInv, PathsAreUnique
<1>7. EveryItemHasAPath'
  BY <1>1, <1>3, SamePlacesKeepPaths DEF TreeInv
<1> QED
  BY <1>4, <1>6, <1>7 DEF TreeInv

LEMMA SetContentKeepsInv ==
  ASSUME TreeInv, NEW id \in DOMAIN tree, NEW content \in Contents \cup {Damaged},
         SetContent(id, content)
  PROVE  TreeInv'
<1>1. /\ DOMAIN tree' = DOMAIN tree
      /\ \A x \in DOMAIN tree : x # id => tree'[x] = tree[x]
      /\ tree'[id] = [tree[id] EXCEPT !.content = content]
      /\ tree' = [x \in DOMAIN tree |-> tree'[x]]
  BY DEF SetContent, TreeInv, TypeOK
<1>2. tree[id] \in Files
  BY DEF SetContent, TreeInv, TypeOK, Dirs, Files
<1>3. /\ tree'[id].name = tree[id].name /\ tree'[id].parent_dir = tree[id].parent_dir
      /\ tree'[id] \in Files
  BY <1>1, <1>2 DEF Files
<1>4. TypeOK'
  BY <1>1, <1>3 DEF TreeInv, TypeOK
<1>5. PathsAreUnique'
  <2>1. \A x \in DOMAIN tree : /\ tree'[x].parent_dir = tree[x].parent_dir
                               /\ tree'[x].name = tree[x].name
    BY <1>1, <1>3
  <2>2. DOMAIN tree' = DOMAIN tree
    BY <1>1
  <2> QED
    BY <2>1, <2>2 DEF TreeInv, PathsAreUnique
<1>6. EveryItemHasAPath'
  BY <1>1, <1>3, SamePlacesKeepPaths DEF TreeInv
<1> QED
  BY <1>4, <1>5, <1>6 DEF TreeInv

LEMMA RemovalKeepsInv ==
  ASSUME TreeInv, NEW gone, gone \subseteq DOMAIN tree,
         \A x \in gone : Below(x) \subseteq gone, tree' = Without(gone)
  PROVE  TreeInv'
<1>1. /\ DOMAIN tree' = DOMAIN tree \ gone
      /\ \A x \in DOMAIN tree' : tree'[x] = tree[x]
      /\ tree' = [x \in DOMAIN tree' |-> tree'[x]]
  BY DEF Without
<1>2. TypeOK'
  BY <1>1 DEF TreeInv, TypeOK
<1>3. PathsAreUnique'
  BY <1>1 DEF TreeInv, PathsAreUnique
<1>4. EveryItemHasAPath'
  BY RemovalKeepsPaths DEF TreeInv
<1> QED
  BY <1>2, <1>3, <1>4 DEF TreeInv

LEMMA TreeInvInit == Init => TreeInv
BY DEF Init, TreeInv, TypeOK, PathsAreUnique, EveryItemHasAPath

LEMMA TreeInvNext == TreeInv /\ [NextWithCrashes]_tree => TreeInv'
<1> SUFFICES ASSUME TreeInv, [NextWithCrashes]_tree PROVE TreeInv'
  OBVIOUS
<1>1. ASSUME NEW id \in Ids, NEW item \in Dirs \cup Files, Create(id, item) PROVE TreeInv'
  BY <1>1, CreateKeepsInv
<1>2. ASSUME NEW id \in DOMAIN tree, NEW name \in Names, Rename(id, name) PROVE TreeInv'
  BY <1>2, RenameKeepsInv
<1>3. ASSUME NEW id \in DOMAIN tree, NEW content \in Contents \cup {Damaged},
             SetContent(id, content)
      PROVE  TreeInv'
  BY <1>3, SetContentKeepsInv
<1>4. ASSUME NEW id \in DOMAIN tree, Delete(id) PROVE TreeInv'
  <2>1. Below(id) \subseteq DOMAIN tree /\ \A x \in Below(id) : Below(x) \subseteq Below(id)
    BY BelowIsTransitive DEF Below
  <2> QED
    BY <1>4, <2>1, RemovalKeepsInv DEF Delete
<1>5. ASSUME NEW id \in DOMAIN tree, RemovePart(id) PROVE TreeInv'
  <2>1. PICK gone \in SUBSET (Below(id) \ {id}) :
          (\A x \in gone : Below(x) \subseteq gone) /\ tree' = Without(gone)
    BY <1>5 DEF RemovePart
  <2>2. gone \subseteq DOMAIN tree
    BY DEF Below
  <2> QED
    BY <2>1, <2>2, RemovalKeepsInv
<1>6. CASE UNCHANGED tree
  <2>1. TypeOK' /\ PathsAreUnique'
    BY <1>6 DEF TreeInv, TypeOK, PathsAreUnique
  <2> QED
    BY <1>6, <2>1, SamePlacesKeepPaths DEF TreeInv
<1> QED
  BY <1>1, <1>2, <1>3, <1>4, <1>5, <1>6 DEF NextWithCrashes, Next, Damage

LEMMA TreeInvAlways == SpecWithCrashes => []TreeInv
BY TreeInvInit, TreeInvNext, PTL DEF SpecWithCrashes

(***************************************************************************)
(* Whatever happens to a tree, it stays one of items of the right kinds.   *)
(***************************************************************************)
THEOREM TreeTypeCorrect == SpecWithCrashes => []TypeOK
<1>1. TreeInv => TypeOK
  BY DEF TreeInv
<1> QED
  BY <1>1, TreeInvAlways, PTL

(***************************************************************************)
(* No two items come to have one path, whatever is created, renamed,       *)
(* removed in part or damaged by a crash.                                  *)
(***************************************************************************)
THEOREM TreePathsAreUnique == SpecWithCrashes => []PathsAreUnique
<1>1. TreeInv => PathsAreUnique
  BY DEF TreeInv
<1> QED
  BY <1>1, TreeInvAlways, PTL

(***************************************************************************)
(* No removal, not even one cut short at any item, leaves an item that no  *)
(* path leads to.                                                          *)
(***************************************************************************)
THEOREM TreeItemsHavePaths == SpecWithCrashes => []EveryItemHasAPath
<1>1. TreeInv => EveryItemHasAPath
  BY DEF TreeInv
<1> QED
  BY <1>1, TreeInvAlways, PTL

-----------------------------------------------------------------------------
(* The paths of a tree's items.  They are a recursive function of the tree; *)
(* that there is one is part of what makes a tree.                          *)

IsPathMap(f, t) ==
  f = [x \in DOMAIN t |->
         Append(IF t[x].parent_dir = Root THEN <<>> ELSE f[t[x].parent_dir], t[x].name)]

PathMap(t) == CHOOSE f : IsPathMap(f, t)

\* Items with names, below directories, and siblings with different names.
ItemsOK(t) ==
  /\ t = [x \in DOMAIN t |-> t[x]] /\ DOMAIN t \subseteq Ids
  /\ \A x \in DOMAIN t : t[x] \in Dirs \cup Files
  /\ \A x \in DOMAIN t : t[x].parent_dir # Root =>
       t[x].parent_dir \in DOMAIN t /\ t[t[x].parent_dir].kind = "dir"
  /\ \A x, y \in DOMAIN t : t[x].parent_dir = t[y].parent_dir /\ t[x].name = t[y].name => x = y

IsTree(t) == ItemsOK(t) /\ \E f \in [DOMAIN t -> Seq(Names)] : IsPathMap(f, t)

\* An item's fields.
LEMMA ItemsHave ==
  ASSUME NEW t, ItemsOK(t), NEW x \in DOMAIN t
  PROVE  /\ x \in Ids /\ x # Root /\ t[x].name \in Names /\ t[x].kind \in {"dir", "file"}
         /\ t[x].kind = "dir" => t[x] \in Dirs
         /\ t[x].kind = "file" => t[x] \in Files /\ t[x].content \in Contents \cup {Damaged}
         /\ t[x].parent_dir \in DOMAIN t \cup {Root}
<1>1. x \in Ids /\ t[x] \in Dirs \cup Files /\ t[x].parent_dir \in DOMAIN t \cup {Root}
  BY DEF ItemsOK
<1>2. x # Root
  BY <1>1, IdsAssumption
<1> QED
  BY <1>1, <1>2 DEF Dirs, Files

\* What the recursion says of one item.
LEMMA PathSteps ==
  ASSUME NEW t, NEW f, IsPathMap(f, t)
  PROVE  /\ DOMAIN f = DOMAIN t /\ f = [x \in DOMAIN t |-> f[x]]
         /\ \A x \in DOMAIN t :
              /\ t[x].parent_dir = Root => f[x] = Append(<<>>, t[x].name)
              /\ t[x].parent_dir # Root => f[x] = Append(f[t[x].parent_dir], t[x].name)
<1> DEFINE step(x) == Append(IF t[x].parent_dir = Root THEN <<>> ELSE f[t[x].parent_dir], t[x].name)
<1>1. f = [x \in DOMAIN t |-> step(x)]
  BY DEF IsPathMap
<1>2. ASSUME NEW x \in DOMAIN t
      PROVE  /\ t[x].parent_dir = Root => step(x) = Append(<<>>, t[x].name)
             /\ t[x].parent_dir # Root => step(x) = Append(f[t[x].parent_dir], t[x].name)
  OBVIOUS
<1> HIDE DEF step
<1>3. DOMAIN f = DOMAIN t /\ \A x \in DOMAIN t : f[x] = step(x)
  BY <1>1
<1>4. f = [x \in DOMAIN t |-> f[x]]
  BY <1>1, <1>3
<1> QED
  BY <1>2, <1>3, <1>4

\* A set of lengths has a least one.
LEMMA LeastLength ==
  ASSUME NEW D, NEW f \in [D -> Seq(Names)], NEW X \in SUBSET D, X # {}
  PROVE  \E x \in X : \A y \in X : Len(f[x]) <= Len(f[y])
<1> DEFINE T == {Len(f[x]) : x \in X}
<1>1. \A x \in X : f[x] \in Seq(Names) /\ Len(f[x]) \in Nat
  BY LenProperties
<1>2. T \in SUBSET Nat /\ T # {}
  BY <1>1
<1>3. PICK m \in T : \A n \in T : m <= n
  BY <1>2, NatHasLeast
<1> QED
  BY <1>3

\* There is only one such function.
LEMMA OnlyPathMap ==
  ASSUME NEW t, ItemsOK(t), NEW f \in [DOMAIN t -> Seq(Names)], IsPathMap(f, t), NEW g, IsPathMap(g, t)
  PROVE  g = f
<1> DEFINE X == {x \in DOMAIN t : f[x] # g[x]}
<1>1. /\ \A x \in DOMAIN t :
           /\ t[x].parent_dir = Root => f[x] = Append(<<>>, t[x].name) /\ g[x] = Append(<<>>, t[x].name)
           /\ t[x].parent_dir # Root => /\ f[x] = Append(f[t[x].parent_dir], t[x].name)
                                        /\ g[x] = Append(g[t[x].parent_dir], t[x].name)
      /\ DOMAIN g = DOMAIN t /\ g = [x \in DOMAIN t |-> g[x]]
  BY PathSteps
<1>2. ASSUME X # {} PROVE FALSE
  <2>1. PICK x \in X : \A y \in X : Len(f[x]) <= Len(f[y])
    BY <1>2, LeastLength
  <2>2. x \in DOMAIN t /\ f[x] # g[x] /\ t[x].parent_dir # Root
    BY <1>1
  <2>3. t[x].parent_dir \in DOMAIN t /\ t[x].name \in Names
    BY <2>2, ItemsHave
  <2>4. f[t[x].parent_dir] # g[t[x].parent_dir]
    BY <1>1, <2>2
  <2>5. Len(f[x]) <= Len(f[t[x].parent_dir])
    BY <2>1, <2>3, <2>4
  <2>6. Len(f[x]) = Len(f[t[x].parent_dir]) + 1
    BY <1>1, <2>2, <2>3, AppendProperties
  <2>7. Len(f[t[x].parent_dir]) \in Nat
    BY <2>3, LenProperties
  <2> QED
    BY <2>5, <2>6, <2>7
<1>3. \A x \in DOMAIN t : f[x] = g[x]
  BY <1>2
<1>4. f = [x \in DOMAIN t |-> f[x]]
  OBVIOUS
<1> HIDE DEF X
<1> QED
  BY <1>1, <1>3, <1>4

LEMMA PathMapIs ==
  ASSUME NEW t, ItemsOK(t), NEW f \in [DOMAIN t -> Seq(Names)], IsPathMap(f, t)
  PROVE  PathMap(t) = f /\ IsTree(t)
<1>1. IsPathMap(PathMap(t), t)
  BY DEF PathMap
<1>2. PathMap(t) = f
  BY <1>1, OnlyPathMap
<1> QED
  BY <1>2 DEF IsTree

\* Where items are put: the path of a directory.
PathAt(t, d) == IF d = Root THEN <<>> ELSE PathMap(t)[d]

\* An item's path is its name below its parent's.
LEMMA TreePaths ==
  ASSUME NEW t, IsTree(t)
  PROVE  /\ PathMap(t) \in [DOMAIN t -> Seq(Names)] /\ IsPathMap(PathMap(t), t)
         /\ PathAt(t, Root) = <<>>
         /\ \A d \in DOMAIN t \cup {Root} : PathAt(t, d) \in Seq(Names)
         /\ \A x \in DOMAIN t :
              /\ PathMap(t)[x] \in Seq(Names) \ {<<>>} /\ PathAt(t, x) = PathMap(t)[x]
              /\ PathMap(t)[x] = Append(PathAt(t, t[x].parent_dir), t[x].name)
<1> DEFINE P == PathMap(t)
           root == <<>>
<1>1. ItemsOK(t) /\ P \in [DOMAIN t -> Seq(Names)] /\ IsPathMap(P, t)
  <2>1. PICK f \in [DOMAIN t -> Seq(Names)] : IsPathMap(f, t)
    BY DEF IsTree
  <2>2. P = f
    BY <2>1, PathMapIs DEF IsTree
  <2> QED
    BY <2>1, <2>2 DEF IsTree
<1>2. root \in Seq(Names)
  BY EmptySeq
<1>3. PathAt(t, Root) = root
  BY DEF PathAt
<1>4. \A x \in DOMAIN t : PathAt(t, x) = P[x] /\ t[x].name \in Names /\ t[x].parent_dir \in DOMAIN t \cup {Root}
  BY <1>1, ItemsHave DEF PathAt
<1>5. \A x \in DOMAIN t : P[x] = Append(PathAt(t, t[x].parent_dir), t[x].name)
  BY <1>1, <1>3, <1>4, PathSteps DEF PathAt
<1> HIDE DEF P
<1>6. \A d \in DOMAIN t \cup {Root} : PathAt(t, d) \in Seq(Names)
  BY <1>1, <1>2, <1>3, <1>4
<1>7. \A x \in DOMAIN t : P[x] # root
  BY <1>4, <1>5, <1>6, AppendProperties
<1> QED
  BY <1>1, <1>3, <1>4, <1>5, <1>6, <1>7 DEF P

\* No two items have one path.
LEMMA PathsDiffer ==
  ASSUME NEW t, IsTree(t), NEW v \in DOMAIN t, NEW w \in DOMAIN t, PathMap(t)[v] = PathMap(t)[w]
  PROVE  v = w
<1> DEFINE P == PathMap(t)
           X == {x \in DOMAIN t : \E y \in DOMAIN t : x # y /\ P[x] = P[y]}
<1>1. /\ ItemsOK(t) /\ P \in [DOMAIN t -> Seq(Names)]
      /\ PathAt(t, Root) = <<>>
      /\ \A d \in DOMAIN t \cup {Root} : PathAt(t, d) \in Seq(Names)
      /\ \A x \in DOMAIN t : P[x] # <<>> /\ PathAt(t, x) = P[x] /\ P[x] = Append(PathAt(t, t[x].parent_dir), t[x].name)
  BY TreePaths DEF IsTree
<1>2. \A x \in DOMAIN t : t[x].name \in Names /\ t[x].parent_dir \in DOMAIN t \cup {Root}
  BY <1>1, ItemsHave
<1> HIDE DEF P
<1>3. ASSUME X # {} PROVE FALSE
  <2>1. PICK x \in X : \A z \in X : Len(P[x]) <= Len(P[z])
    BY <1>1, <1>3, LeastLength
  <2>2. PICK y \in DOMAIN t : x \in DOMAIN t /\ x # y /\ P[x] = P[y]
    BY <2>1
  <2> DEFINE d == t[x].parent_dir
             e == t[y].parent_dir
  <2>3. /\ d \in DOMAIN t \cup {Root} /\ e \in DOMAIN t \cup {Root}
        /\ t[x].name \in Names /\ t[y].name \in Names
        /\ P[x] = Append(PathAt(t, d), t[x].name) /\ P[y] = Append(PathAt(t, e), t[y].name)
        /\ PathAt(t, d) \in Seq(Names) /\ PathAt(t, e) \in Seq(Names)
    BY <1>1, <1>2, <2>2
  <2>4. PathAt(t, d) = PathAt(t, e) /\ t[x].name = t[y].name
    <3>1. Append(PathAt(t, d), t[x].name) = Append(PathAt(t, e), t[y].name)
      BY <2>2, <2>3
    <3> HIDE DEF d, e
    <3> QED
      BY <2>3, <3>1, AppendInjective
  <2>5. d # e
    BY <1>1, <2>2, <2>4 DEF ItemsOK
  <2>6. d \in DOMAIN t /\ e \in DOMAIN t
    BY <1>1, <2>3, <2>4, <2>5
  <2>7. P[d] = P[e]
    BY <1>1, <2>4, <2>6
  <2>8. d \in X
    BY <2>5, <2>6, <2>7
  <2>9. Len(P[x]) <= Len(P[d])
    BY <2>1, <2>8
  <2>10. Len(P[x]) = Len(P[d]) + 1 /\ Len(P[d]) \in Nat
    <3>1. PathAt(t, d) = P[d]
      BY <1>1, <2>6
    <3> QED
      BY <2>3, <3>1, AppendProperties, LenProperties
  <2> QED
    BY <2>9, <2>10
<1> QED
  BY <1>3 DEF P

-----------------------------------------------------------------------------
(* The tree as someone sees it who only knows paths. *)

ValueOf(item) == IF item.kind = "dir" THEN "directory" ELSE item.content

StoreOf(t) ==
  [p \in {PathMap(t)[id] : id \in DOMAIN t} |->
     ValueOf(t[CHOOSE id \in DOMAIN t : PathMap(t)[id] = p])]

LEMMA StoreIs == Store = StoreOf(tree) /\ Store' = StoreOf(tree')
BY DEF Store, StoreOf, PathOf, PathMap, IsPathMap, ValueOf

LEMMA PathOfIs == \A id : PathOf(id) = PathMap(tree)[id]
BY DEF PathOf, PathMap, IsPathMap

LEMMA TreeStore ==
  ASSUME NEW t, IsTree(t)
  PROVE  /\ DOMAIN StoreOf(t) = {PathMap(t)[x] : x \in DOMAIN t}
         /\ \A x \in DOMAIN t : PathMap(t)[x] \in DOMAIN StoreOf(t) /\ StoreOf(t)[PathMap(t)[x]] = ValueOf(t[x])
         /\ \A q \in DOMAIN StoreOf(t) : \E x \in DOMAIN t : q = PathMap(t)[x]
         /\ StoreOf(t) = [q \in DOMAIN StoreOf(t) |-> StoreOf(t)[q]]
<1> DEFINE P == PathMap(t)
           item(q) == CHOOSE x \in DOMAIN t : P[x] = q
<1>1. \A x \in DOMAIN t : item(P[x]) \in DOMAIN t /\ P[item(P[x])] = P[x]
  OBVIOUS
<1>2. \A x \in DOMAIN t : item(P[x]) = x
  <2> HIDE DEF item
  <2> QED
    BY <1>1, PathsDiffer
<1>3. StoreOf(t) = [q \in {P[x] : x \in DOMAIN t} |-> ValueOf(t[item(q)])]
  BY DEF StoreOf
<1> HIDE DEF item, P
<1>4. DOMAIN StoreOf(t) = {P[x] : x \in DOMAIN t}
  BY <1>3
<1>5. \A x \in DOMAIN t : P[x] \in DOMAIN StoreOf(t) /\ StoreOf(t)[P[x]] = ValueOf(t[x])
  BY <1>2, <1>3
<1>6. StoreOf(t) = [q \in DOMAIN StoreOf(t) |-> StoreOf(t)[q]]
  BY <1>3
<1> QED
  BY <1>4, <1>5, <1>6 DEF P

\* Maps that agree are the same store.
LEMMA StoreEqual ==
  ASSUME NEW t, IsTree(t), NEW s, s = [q \in DOMAIN s |-> s[q]],
         \A x \in DOMAIN t : PathMap(t)[x] \in DOMAIN s /\ s[PathMap(t)[x]] = ValueOf(t[x]),
         \A q \in DOMAIN s : \E x \in DOMAIN t : q = PathMap(t)[x]
  PROVE  StoreOf(t) = s
<1> DEFINE P == PathMap(t)
           S == StoreOf(t)
<1>1. /\ DOMAIN S = {P[x] : x \in DOMAIN t}
      /\ \A x \in DOMAIN t : S[P[x]] = ValueOf(t[x])
      /\ S = [q \in DOMAIN S |-> S[q]]
  BY TreeStore
<1> HIDE DEF S, P
<1>2. DOMAIN S = DOMAIN s
  BY <1>1 DEF P
<1>3. \A q \in DOMAIN s : S[q] = s[q]
  BY <1>1, <1>2 DEF P
<1> QED
  BY <1>1, <1>2, <1>3 DEF S

\* It has directories above everything.
LEMMA TreeStoreOK ==
  ASSUME NEW t, IsTree(t)
  PROVE  StoreOK(StoreOf(t))
<1> DEFINE P == PathMap(t)
           s == StoreOf(t)
           Bad(q) == \E r \in Above(q) : ~(r \in DOMAIN s /\ s[r] = "directory")
           X == {x \in DOMAIN t : Bad(P[x])}
<1>1. /\ ItemsOK(t) /\ P \in [DOMAIN t -> Seq(Names)]
      /\ PathAt(t, Root) = <<>>
      /\ \A d \in DOMAIN t \cup {Root} : PathAt(t, d) \in Seq(Names)
      /\ \A x \in DOMAIN t : P[x] # <<>> /\ PathAt(t, x) = P[x] /\ P[x] = Append(PathAt(t, t[x].parent_dir), t[x].name)
  BY TreePaths DEF IsTree
<1>2. \A x \in DOMAIN t : t[x].name \in Names /\ t[x].parent_dir \in DOMAIN t \cup {Root}
  BY <1>1, ItemsHave
<1>3. /\ DOMAIN s = {P[x] : x \in DOMAIN t}
      /\ \A x \in DOMAIN t : s[P[x]] = ValueOf(t[x])
      /\ \A q \in DOMAIN s : \E x \in DOMAIN t : q = P[x]
  BY TreeStore
<1> HIDE DEF P, s, Bad
<1>4. ASSUME X # {} PROVE FALSE
  <2>1. PICK x \in X : \A z \in X : Len(P[x]) <= Len(P[z])
    BY <1>1, <1>4, LeastLength
  <2> DEFINE d == t[x].parent_dir
  <2>2. x \in DOMAIN t /\ Bad(P[x])
    BY <2>1
  <2>3. /\ d \in DOMAIN t \cup {Root} /\ t[x].name \in Names
        /\ P[x] = Append(PathAt(t, d), t[x].name) /\ PathAt(t, d) \in Seq(Names)
    BY <1>1, <1>2, <2>2
  <2>4. PICK r : /\ r \in Above(PathAt(t, d)) \/ (r = PathAt(t, d) /\ r # <<>>)
                 /\ ~(r \in DOMAIN s /\ s[r] = "directory")
    BY <2>2, <2>3, AppendedPath DEF Bad
  <2>5. Above(PathAt(t, Root)) = {}
    <3> DEFINE root == <<>>
    <3>1. root \in Seq(Names) /\ Len(root) = 0
      BY EmptySeq
    <3> HIDE DEF root
    <3>2. 1..Len(root) - 1 = {}
      BY <3>1
    <3>3. Above(root) = {}
      BY <3>2 DEF Above
    <3> QED
      BY <1>1, <3>3 DEF root
  <2>6. d # Root
    BY <1>1, <2>4, <2>5
  <2>7. d \in DOMAIN t /\ PathAt(t, d) = P[d] /\ t[d].kind = "dir"
    BY <1>1, <2>2, <2>3, <2>6 DEF ItemsOK
  <2>8. s[P[d]] = "directory" /\ P[d] \in DOMAIN s
    BY <1>3, <2>7 DEF ValueOf
  <2>9. d \in X
    BY <2>4, <2>7, <2>8 DEF Bad
  <2>10. Len(P[x]) <= Len(P[d])
    BY <2>1, <2>9
  <2>11. Len(P[x]) = Len(P[d]) + 1 /\ Len(P[d]) \in Nat
    BY <2>3, <2>7, AppendProperties, LenProperties
  <2> QED
    BY <2>10, <2>11
<1>5. \A q \in DOMAIN s : \A r \in Above(q) : r \in DOMAIN s /\ s[r] = "directory"
  BY <1>3, <1>4 DEF Bad
<1>6. DOMAIN s \subseteq Seq(Names) \ {<<>>}
  BY <1>1, <1>3
<1> QED
  BY <1>5, <1>6 DEF StoreOK, s

-----------------------------------------------------------------------------
(* What the operations of a tree do to its paths. *)

\* A new item is at its name below its parent, and nothing was there.
WithItem(t, id, item) == [x \in DOMAIN t \cup {id} |-> IF x = id THEN item ELSE t[x]]

LEMMA AddingAnItem ==
  ASSUME NEW t, IsTree(t), NEW id \in Ids, id \notin DOMAIN t, NEW item \in Dirs \cup Files,
         item.parent_dir # Root => item.parent_dir \in DOMAIN t /\ t[item.parent_dir].kind = "dir",
         \A x \in DOMAIN t : t[x].parent_dir = item.parent_dir => t[x].name # item.name
  PROVE  LET u == WithItem(t, id, item)
             p == Append(PathAt(t, item.parent_dir), item.name)
         IN /\ IsTree(u) /\ p \in Seq(Names) \ {<<>>} /\ p \notin DOMAIN StoreOf(t)
            /\ PathMap(u)[id] = p /\ \A x \in DOMAIN t : PathMap(u)[x] = PathMap(t)[x]
            /\ StoreOf(u) = WithPath(StoreOf(t), p, ValueOf(item))
<1> DEFINE u == WithItem(t, id, item)
           d == item.parent_dir
           p == Append(PathAt(t, d), item.name)
           P == PathMap(t)
           s == StoreOf(t)
           f == [x \in DOMAIN u |-> IF x = id THEN p ELSE P[x]]
           new == [q \in DOMAIN s \cup {p} |-> IF q = p THEN ValueOf(item) ELSE s[q]]
<1>1. /\ ItemsOK(t) /\ P \in [DOMAIN t -> Seq(Names)] /\ IsPathMap(P, t)
      /\ \A x \in DOMAIN t \cup {Root} : PathAt(t, x) \in Seq(Names)
      /\ \A x \in DOMAIN t : P[x] # <<>> /\ PathAt(t, x) = P[x] /\ P[x] = Append(PathAt(t, t[x].parent_dir), t[x].name)
  BY TreePaths DEF IsTree
<1>2. \A x \in DOMAIN t : t[x].name \in Names /\ t[x].parent_dir \in DOMAIN t \cup {Root} /\ x # Root
  BY <1>1, ItemsHave
<1>3. /\ DOMAIN u = DOMAIN t \cup {id} /\ u[id] = item /\ \A x \in DOMAIN t : u[x] = t[x]
      /\ u = [x \in DOMAIN u |-> u[x]]
  BY DEF WithItem
<1>4. item.name \in Names /\ d \in DOMAIN t \cup {Root} /\ id # Root
  BY IdsAssumption DEF Dirs, Files
<1>5. PathAt(t, d) \in Seq(Names)
  BY <1>1, <1>4
<1>6. p \in Seq(Names) /\ p # <<>> /\ Len(p) = Len(PathAt(t, d)) + 1
  BY <1>4, <1>5, AppendProperties
<1>7. ItemsOK(u)
  <2>1. \A x \in DOMAIN u : u[x] \in Dirs \cup Files
    BY <1>1, <1>3 DEF ItemsOK
  <2>2. \A x \in DOMAIN u : u[x].parent_dir # Root =>
          u[x].parent_dir \in DOMAIN u /\ u[u[x].parent_dir].kind = "dir"
    BY <1>1, <1>3 DEF ItemsOK
  <2>3. \A x, y \in DOMAIN u : u[x].parent_dir = u[y].parent_dir /\ u[x].name = u[y].name => x = y
    BY <1>1, <1>3 DEF ItemsOK
  <2>4. DOMAIN u \subseteq Ids
    BY <1>1, <1>3 DEF ItemsOK
  <2> HIDE DEF u
  <2> QED
    BY <1>3, <2>1, <2>2, <2>3, <2>4 DEF ItemsOK
<1>8. f \in [DOMAIN u -> Seq(Names)] /\ DOMAIN f = DOMAIN u
      /\ f[id] = p /\ \A x \in DOMAIN t : f[x] = P[x]
  BY <1>1, <1>3, <1>6
<1> HIDE DEF u, f, p
<1>9. IsPathMap(f, u)
  <2> DEFINE step(x) == Append(IF u[x].parent_dir = Root THEN <<>> ELSE f[u[x].parent_dir], u[x].name)
  <2>1. step(id) = f[id]
    <3>1. u[id].parent_dir = d /\ u[id].name = item.name
      BY <1>3
    <3>2. d # Root => f[d] = PathAt(t, d)
      BY <1>1, <1>4, <1>8
    <3>3. d = Root => PathAt(t, d) = <<>>
      BY DEF PathAt
    <3> QED
      BY <1>8, <3>1, <3>2, <3>3 DEF p
  <2>2. ASSUME NEW x \in DOMAIN t PROVE step(x) = f[x]
    <3>1. u[x] = t[x] /\ t[x].parent_dir \in DOMAIN t \cup {Root} /\ f[x] = Append(PathAt(t, t[x].parent_dir), t[x].name)
      BY <1>1, <1>2, <1>3, <1>8
    <3>2. t[x].parent_dir # Root => f[t[x].parent_dir] = PathAt(t, t[x].parent_dir)
      BY <1>1, <1>8, <3>1
    <3>3. t[x].parent_dir = Root => PathAt(t, t[x].parent_dir) = <<>>
      BY DEF PathAt
    <3> QED
      BY <3>1, <3>2, <3>3
  <2> HIDE DEF step
  <2>3. \A x \in DOMAIN u : step(x) = f[x]
    BY <1>3, <2>1, <2>2
  <2>4. f = [x \in DOMAIN u |-> step(x)]
    BY <1>8, <2>3
  <2> QED
    BY <2>4 DEF step, IsPathMap
<1>10. PathMap(u) = f /\ IsTree(u)
  BY <1>7, <1>8, <1>9, PathMapIs
<1>11. /\ DOMAIN s = {P[x] : x \in DOMAIN t}
       /\ \A x \in DOMAIN t : P[x] \in DOMAIN s /\ s[P[x]] = ValueOf(t[x])
       /\ \A q \in DOMAIN s : \E x \in DOMAIN t : q = P[x]
  BY TreeStore
<1>12. p \notin DOMAIN s
  <2> SUFFICES ASSUME p \in DOMAIN s PROVE FALSE
    OBVIOUS
  <2>1. PICK x \in DOMAIN t : p = P[x]
    BY <1>11
  <2>2. f[id] = f[x] /\ id # x
    BY <1>8, <2>1
  <2> QED
    BY <1>3, <1>10, <2>1, <2>2, PathsDiffer
<1> HIDE DEF s, P
<1>13. StoreOf(u) = new
  <2>1. new = [q \in DOMAIN new |-> new[q]] /\ DOMAIN new = DOMAIN s \cup {p}
        /\ new[p] = ValueOf(item) /\ \A q \in DOMAIN s : new[q] = s[q]
    BY <1>12
  <2> HIDE DEF new
  <2>2. ASSUME NEW x \in DOMAIN u PROVE f[x] \in DOMAIN new /\ new[f[x]] = ValueOf(u[x])
    <3>1. CASE x = id
      BY <1>3, <1>8, <2>1, <3>1
    <3>2. CASE x # id
      <4>1. x \in DOMAIN t /\ u[x] = t[x] /\ f[x] = P[x]
        BY <1>3, <1>8, <3>2
      <4>2. P[x] \in DOMAIN s /\ s[P[x]] = ValueOf(t[x])
        BY <1>11, <4>1
      <4> QED
        BY <2>1, <4>1, <4>2
    <3> QED
      BY <3>1, <3>2
  <2>3. \A q \in DOMAIN new : \E x \in DOMAIN u : q = f[x]
    BY <1>3, <1>8, <1>11, <2>1
  <2> QED
    BY <1>10, <2>1, <2>2, <2>3, StoreEqual
<1>14. new = WithPath(s, p, ValueOf(item))
  BY DEF WithPath
<1> QED
  BY <1>6, <1>8, <1>10, <1>12, <1>13, <1>14 DEF u, p, s, P

\* Another content changes what is at the file's path.
LEMMA ChangingAContent ==
  ASSUME NEW t, IsTree(t), NEW id \in DOMAIN t, t[id].kind = "file", NEW content \in Contents \cup {Damaged}
  PROVE  LET u == [t EXCEPT ![id].content = content]
         IN /\ IsTree(u) /\ DOMAIN u = DOMAIN t /\ PathMap(u) = PathMap(t)
            /\ \A x \in DOMAIN t : u[x].kind = t[x].kind /\ u[x].parent_dir = t[x].parent_dir /\ u[x].name = t[x].name
            /\ StoreOf(u) = [StoreOf(t) EXCEPT ![PathMap(t)[id]] = content]
<1> DEFINE u == [t EXCEPT ![id].content = content]
           P == PathMap(t)
           s == StoreOf(t)
           new == [s EXCEPT ![P[id]] = content]
<1>1. ItemsOK(t) /\ P \in [DOMAIN t -> Seq(Names)] /\ IsPathMap(P, t)
  BY TreePaths DEF IsTree
<1>2. \A x \in DOMAIN t : t[x].kind = "dir" => t[x] \in Dirs
  BY <1>1, ItemsHave
<1>3. t[id] \in Files
  BY <1>1, ItemsHave
<1>4. t = [x \in DOMAIN t |-> t[x]]
  BY <1>1 DEF ItemsOK
<1>5. /\ DOMAIN u = DOMAIN t /\ u = [x \in DOMAIN u |-> u[x]]
      /\ \A x \in DOMAIN t : x # id => u[x] = t[x]
      /\ u[id] = [t[id] EXCEPT !.content = content]
  BY <1>4
<1>6. /\ u[id] \in Files /\ u[id].kind = "file" /\ u[id].content = content
      /\ u[id].parent_dir = t[id].parent_dir /\ u[id].name = t[id].name
  BY <1>3, <1>5 DEF Files
<1> HIDE DEF u, P, s
<1>7. /\ \A x \in DOMAIN t : u[x].parent_dir = t[x].parent_dir /\ u[x].name = t[x].name /\ u[x].kind = t[x].kind
  BY <1>5, <1>6
<1>8. ItemsOK(u)
  <2>1. \A x \in DOMAIN u : u[x] \in Dirs \cup Files
    BY <1>1, <1>5, <1>6 DEF ItemsOK
  <2>2. \A x \in DOMAIN u : u[x].parent_dir # Root =>
          u[x].parent_dir \in DOMAIN u /\ u[u[x].parent_dir].kind = "dir"
    <3>1. \A x \in DOMAIN t : t[x].parent_dir # Root =>
            t[x].parent_dir \in DOMAIN t /\ t[t[x].parent_dir].kind = "dir"
      BY <1>1 DEF ItemsOK
    <3>2. DOMAIN u = DOMAIN t
      BY <1>5
    <3> QED
      BY <1>7, <3>1, <3>2
  <2>3. \A x, y \in DOMAIN u : u[x].parent_dir = u[y].parent_dir /\ u[x].name = u[y].name => x = y
    BY <1>1, <1>5, <1>7 DEF ItemsOK
  <2>4. DOMAIN u \subseteq Ids
    BY <1>1, <1>5 DEF ItemsOK
  <2> QED
    BY <1>5, <2>1, <2>2, <2>3, <2>4 DEF ItemsOK
<1>9. IsPathMap(P, u)
  <2> DEFINE step(v, x) == Append(IF v[x].parent_dir = Root THEN <<>> ELSE P[v[x].parent_dir], v[x].name)
  <2>1. \A x \in DOMAIN t : step(u, x) = step(t, x)
    BY <1>7
  <2>2. P = [x \in DOMAIN t |-> step(t, x)]
    BY <1>1 DEF IsPathMap
  <2> HIDE DEF step
  <2>3. P = [x \in DOMAIN u |-> step(u, x)]
    BY <1>5, <2>1, <2>2
  <2> QED
    BY <2>3 DEF step, IsPathMap
<1>10. PathMap(u) = P /\ IsTree(u)
  BY <1>1, <1>5, <1>8, <1>9, PathMapIs
<1>11. /\ DOMAIN s = {P[x] : x \in DOMAIN t}
       /\ \A x \in DOMAIN t : P[x] \in DOMAIN s /\ s[P[x]] = ValueOf(t[x])
       /\ \A q \in DOMAIN s : \E x \in DOMAIN t : q = P[x]
       /\ s = [q \in DOMAIN s |-> s[q]]
  BY TreeStore DEF P, s
<1>12. \A x \in DOMAIN t : x # id => P[x] # P[id]
  BY PathsDiffer DEF P
<1>13. StoreOf(u) = new
  <2>1. /\ new = [q \in DOMAIN new |-> new[q]] /\ DOMAIN new = DOMAIN s /\ new[P[id]] = content
        /\ \A q \in DOMAIN s : q # P[id] => new[q] = s[q]
    BY <1>11
  <2> HIDE DEF new
  <2>2. ValueOf(u[id]) = content
    BY <1>6 DEF ValueOf
  <2>3. \A x \in DOMAIN u : P[x] \in DOMAIN new /\ new[P[x]] = ValueOf(u[x])
    BY <1>5, <1>11, <1>12, <2>1, <2>2
  <2>4. \A q \in DOMAIN new : \E x \in DOMAIN u : q = P[x]
    BY <1>5, <1>11, <2>1
  <2> QED
    BY <1>10, <2>1, <2>3, <2>4, StoreEqual
<1> QED
  BY <1>5, <1>7, <1>10, <1>13 DEF u, P, s

\* Removing items with all that is below them removes their paths.
Remaining(t, gone) == [x \in DOMAIN t \ gone |-> t[x]]

LEMMA RemovingItems ==
  ASSUME NEW t, IsTree(t), NEW gone, gone \subseteq DOMAIN t,
         \A x \in DOMAIN t : t[x].parent_dir \in gone => x \in gone
  PROVE  LET u == Remaining(t, gone)
         IN /\ IsTree(u) /\ \A x \in DOMAIN u : PathMap(u)[x] = PathMap(t)[x]
            /\ StoreOf(u) = [q \in DOMAIN StoreOf(t) \ {PathMap(t)[x] : x \in gone} |-> StoreOf(t)[q]]
<1> DEFINE u == Remaining(t, gone)
           P == PathMap(t)
           s == StoreOf(t)
           f == [x \in DOMAIN u |-> P[x]]
           new == [q \in DOMAIN s \ {P[x] : x \in gone} |-> s[q]]
<1>1. ItemsOK(t) /\ P \in [DOMAIN t -> Seq(Names)] /\ IsPathMap(P, t)
  BY TreePaths DEF IsTree
<1>2. DOMAIN u = DOMAIN t \ gone /\ \A x \in DOMAIN u : u[x] = t[x] /\ u = [y \in DOMAIN u |-> u[y]]
  BY DEF Remaining
<1>3. u = [y \in DOMAIN u |-> u[y]]
  BY DEF Remaining
<1> HIDE DEF u, P, s
<1>4. ItemsOK(u)
  <2>1. \A x \in DOMAIN u : u[x] \in Dirs \cup Files
    BY <1>1, <1>2 DEF ItemsOK
  <2>2. \A x \in DOMAIN u : u[x].parent_dir # Root =>
          u[x].parent_dir \in DOMAIN u /\ u[u[x].parent_dir].kind = "dir"
    BY <1>1, <1>2 DEF ItemsOK
  <2>3. \A x, y \in DOMAIN u : u[x].parent_dir = u[y].parent_dir /\ u[x].name = u[y].name => x = y
    BY <1>1, <1>2 DEF ItemsOK
  <2>4. DOMAIN u \subseteq Ids
    BY <1>1, <1>2 DEF ItemsOK
  <2> QED
    BY <1>3, <2>1, <2>2, <2>3, <2>4 DEF ItemsOK
<1>5. f \in [DOMAIN u -> Seq(Names)] /\ DOMAIN f = DOMAIN u /\ \A x \in DOMAIN u : f[x] = P[x]
  BY <1>1, <1>2
<1>6. f = [x \in DOMAIN u |-> f[x]]
  OBVIOUS
<1> HIDE DEF f
<1>7. IsPathMap(f, u)
  <2> DEFINE step(x) == Append(IF u[x].parent_dir = Root THEN <<>> ELSE f[u[x].parent_dir], u[x].name)
  <2>1. ASSUME NEW x \in DOMAIN u PROVE step(x) = f[x]
    <3>1. /\ x \in DOMAIN t /\ u[x] = t[x] /\ f[x] = P[x]
          /\ t[x].parent_dir # Root => t[x].parent_dir \in DOMAIN u
      BY <1>2, <1>4, <1>5 DEF ItemsOK
    <3>2. /\ t[x].parent_dir = Root => P[x] = Append(<<>>, t[x].name)
          /\ t[x].parent_dir # Root => P[x] = Append(P[t[x].parent_dir], t[x].name)
      BY <1>1, <3>1, PathSteps
    <3> QED
      BY <1>5, <3>1, <3>2
  <2> HIDE DEF step
  <2>2. f = [x \in DOMAIN u |-> step(x)]
    BY <1>6, <2>1
  <2> QED
    BY <2>2 DEF step, IsPathMap
<1>8. PathMap(u) = f /\ IsTree(u)
  BY <1>4, <1>5, <1>7, PathMapIs
<1>9. /\ DOMAIN s = {P[x] : x \in DOMAIN t}
      /\ \A x \in DOMAIN t : P[x] \in DOMAIN s /\ s[P[x]] = ValueOf(t[x])
      /\ \A q \in DOMAIN s : \E x \in DOMAIN t : q = P[x]
  BY TreeStore DEF P, s
<1>10. \A x, y \in DOMAIN t : P[x] = P[y] => x = y
  BY PathsDiffer DEF P
<1>11. StoreOf(u) = new
  <2>1. /\ new = [q \in DOMAIN new |-> new[q]]
        /\ DOMAIN new = DOMAIN s \ {P[x] : x \in gone}
        /\ \A q \in DOMAIN new : new[q] = s[q]
    OBVIOUS
  <2> HIDE DEF new
  <2>2. ASSUME NEW x \in DOMAIN u PROVE f[x] \in DOMAIN new /\ new[f[x]] = ValueOf(u[x])
    <3>1. x \in DOMAIN t /\ x \notin gone /\ f[x] = P[x] /\ u[x] = t[x]
      BY <1>2, <1>5
    <3>2. P[x] \in DOMAIN s /\ s[P[x]] = ValueOf(t[x])
      BY <1>9, <3>1
    <3>3. P[x] \notin {P[y] : y \in gone}
      BY <1>10, <3>1
    <3> QED
      BY <2>1, <3>1, <3>2, <3>3
  <2>3. \A q \in DOMAIN new : \E x \in DOMAIN u : q = f[x]
    BY <1>2, <1>5, <1>9, <2>1
  <2> QED
    BY <1>8, <2>1, <2>2, <2>3, StoreEqual
<1> QED
  BY <1>5, <1>8, <1>11 DEF u, P, s

\* A new name moves what is below the item.
Renamed(t, id, name) == [t EXCEPT ![id].name = name]

LEMMA RenamingAnItem ==
  ASSUME NEW t, IsTree(t), NEW id \in DOMAIN t, NEW name \in Names,
         \A x \in DOMAIN t : t[x].parent_dir = t[id].parent_dir => t[x].name # name
  PROVE  LET u == Renamed(t, id, name)
             p == PathMap(t)[id]
         IN /\ IsTree(u) /\ Append(Front(p), name) \notin DOMAIN StoreOf(t)
            /\ PathMap(u) = [x \in DOMAIN t |-> Moved(p, name, PathMap(t)[x])]
            /\ DOMAIN u = DOMAIN t /\ \A x \in DOMAIN t : ValueOf(u[x]) = ValueOf(t[x])
<1> DEFINE u == Renamed(t, id, name)
           P == PathMap(t)
           p == P[id]
           f == [x \in DOMAIN t |-> Moved(p, name, P[x])]
<1>1. /\ ItemsOK(t) /\ P \in [DOMAIN t -> Seq(Names)] /\ IsPathMap(P, t)
      /\ PathAt(t, Root) = <<>>
      /\ \A x \in DOMAIN t \cup {Root} : PathAt(t, x) \in Seq(Names)
      /\ \A x \in DOMAIN t : /\ P[x] # <<>> /\ P[x] \in Seq(Names) /\ PathAt(t, x) = P[x]
                             /\ P[x] = Append(PathAt(t, t[x].parent_dir), t[x].name)
  BY TreePaths DEF IsTree
<1>2. \A x \in DOMAIN t : /\ t[x].name \in Names /\ t[x].parent_dir \in DOMAIN t \cup {Root} /\ x # Root
                          /\ t[x].kind = "dir" => t[x] \in Dirs
                          /\ t[x].kind = "file" => t[x] \in Files
                          /\ t[x].kind \in {"dir", "file"}
  BY <1>1, ItemsHave
<1>3. t = [x \in DOMAIN t |-> t[x]]
  BY <1>1 DEF ItemsOK
<1>4. /\ DOMAIN u = DOMAIN t /\ u = [x \in DOMAIN u |-> u[x]]
      /\ \A x \in DOMAIN t : x # id => u[x] = t[x]
      /\ u[id] = [t[id] EXCEPT !.name = name]
  BY <1>3 DEF Renamed
<1>5. /\ u[id] \in Dirs \cup Files /\ u[id].name = name /\ u[id].parent_dir = t[id].parent_dir
      /\ u[id].kind = t[id].kind /\ (t[id].kind = "file" => u[id].content = t[id].content)
  <2>1. CASE t[id] \in Dirs
    BY <1>4, <2>1 DEF Dirs
  <2>2. CASE t[id] \in Files
    BY <1>4, <2>2 DEF Files
  <2> QED
    BY <1>2, <2>1, <2>2
<1> HIDE DEF u, P
<1>6. \A x \in DOMAIN t : /\ u[x].parent_dir = t[x].parent_dir /\ u[x].kind = t[x].kind
                          /\ u[x].name = IF x = id THEN name ELSE t[x].name
  BY <1>4, <1>5
<1>7. \A x \in DOMAIN t : ValueOf(u[x]) = ValueOf(t[x])
  <2>1. ValueOf(u[id]) = ValueOf(t[id])
    BY <1>2, <1>5 DEF ValueOf
  <2> QED
    BY <1>4, <2>1
<1>8. ItemsOK(u)
  <2>1. \A x \in DOMAIN u : u[x] \in Dirs \cup Files
    BY <1>1, <1>4, <1>5 DEF ItemsOK
  <2>2. \A x \in DOMAIN u : u[x].parent_dir # Root =>
          u[x].parent_dir \in DOMAIN u /\ u[u[x].parent_dir].kind = "dir"
    <3>1. \A x \in DOMAIN t : t[x].parent_dir # Root =>
            t[x].parent_dir \in DOMAIN t /\ t[t[x].parent_dir].kind = "dir"
      BY <1>1 DEF ItemsOK
    <3> QED
      BY <1>4, <1>6, <3>1
  <2>3. ASSUME NEW x \in DOMAIN t, NEW y \in DOMAIN t, u[x].parent_dir = u[y].parent_dir, u[x].name = u[y].name
        PROVE  x = y
    <3>1. t[x].parent_dir = t[y].parent_dir
      BY <1>6, <2>3
    <3>2. CASE x # id /\ y # id
      BY <1>1, <1>6, <2>3, <3>1, <3>2 DEF ItemsOK
    <3>3. CASE x = id \/ y = id
      BY <1>6, <2>3, <3>1, <3>3
    <3> QED
      BY <3>2, <3>3
  <2>4. DOMAIN u \subseteq Ids
    BY <1>1, <1>4 DEF ItemsOK
  <2> QED
    BY <1>4, <2>1, <2>2, <2>3, <2>4 DEF ItemsOK
<1>9. p \in Seq(Names) /\ p # <<>> /\ p = Append(PathAt(t, t[id].parent_dir), t[id].name)
  BY <1>1
<1>10. Front(p) = PathAt(t, t[id].parent_dir)
  <2>1. PathAt(t, t[id].parent_dir) \in Seq(Names) /\ t[id].name \in Names
    BY <1>1, <1>2
  <2> QED
    BY <1>9, <2>1, AppendedPath
<1>11. /\ \A q \in Seq(Names) : Moved(p, name, q) \in Seq(Names)
       /\ Moved(p, name, p) = Append(Front(p), name)
       /\ \A q \in Seq(Names), e \in Names :
            Append(q, e) # p => Moved(p, name, Append(q, e)) = Append(Moved(p, name, q), e)
  <2>1. p \in Seq(Names) /\ p # <<>>
    BY <1>9
  <2> HIDE DEF p, f
  <2>2. \A q \in Seq(Names) : Moved(p, name, q) \in Seq(Names)
    BY <2>1, MovedSteps
  <2>3. Moved(p, name, p) = Append(Front(p), name)
    BY <2>1, MovedSteps
  <2>4. ASSUME NEW q \in Seq(Names), NEW e \in Names, Append(q, e) # p
        PROVE  Moved(p, name, Append(q, e)) = Append(Moved(p, name, q), e)
    BY <2>1, <2>4, MovedNext
  <2> QED
    BY <2>2, <2>3, <2>4
\* What is not below the item stays: the root, and its parent.
<1>12. \A q \in Seq(Names) : Len(q) < Len(p) => Moved(p, name, q) = q
  <2> TAKE q \in Seq(Names)
  <2>1. Len(q) \in Nat /\ Len(p) \in Nat
    BY <1>9, LenProperties
  <2>2. IsPrefix(p, q) => Len(p) <= Len(q)
    BY <1>9, PrefixBySegments
  <2> HIDE DEF p, f
  <2>3. Len(q) < Len(p) => ~IsPrefix(p, q)
    BY <2>1, <2>2
  <2>4. ~IsPrefix(p, q) => Moved(p, name, q) = q
    BY DEF Moved
  <2> QED
    BY <2>3, <2>4
<1>13. Len(Front(p)) < Len(p) /\ Len(<<>>) < Len(p) /\ Front(p) \in Seq(Names) /\ <<>> \in Seq(Names)
  <2>1. Len(Front(p)) = Len(p) - 1 /\ Front(p) \in Seq(Names)
    BY <1>9, LastAppended
  <2> DEFINE root == <<>>
  <2>2. root \in Seq(Names) /\ Len(root) = 0 /\ Len(p) \in Nat \ {0}
    BY <1>9, EmptySeq
  <2> HIDE DEF root
  <2>3. Len(Front(p)) < Len(p) /\ Len(root) < Len(p)
    BY <2>1, <2>2
  <2> QED
    BY <2>1, <2>2, <2>3 DEF root
<1>14. f \in [DOMAIN u -> Seq(Names)] /\ DOMAIN f = DOMAIN u /\ \A x \in DOMAIN t : f[x] = Moved(p, name, P[x])
  BY <1>1, <1>4, <1>11
<1>15. f = [x \in DOMAIN u |-> f[x]]
  BY <1>4
<1> HIDE DEF f, p
<1>16. \A d \in DOMAIN t \cup {Root} : Moved(p, name, PathAt(t, d)) = IF d = Root THEN <<>> ELSE f[d]
  <2>1. \A d \in DOMAIN t : Moved(p, name, PathAt(t, d)) = f[d] /\ d # Root
    BY <1>1, <1>2, <1>14
  <2>2. Moved(p, name, PathAt(t, Root)) = <<>>
    BY <1>1, <1>12, <1>13
  <2> QED
    BY <2>1, <2>2
<1>17. IsPathMap(f, u)
  <2> DEFINE step(x) == Append(IF u[x].parent_dir = Root THEN <<>> ELSE f[u[x].parent_dir], u[x].name)
  <2>1. ASSUME NEW x \in DOMAIN u PROVE step(x) = f[x]
    <3> DEFINE d == t[x].parent_dir
    <3>1. /\ x \in DOMAIN t /\ d \in DOMAIN t \cup {Root} /\ u[x].parent_dir = d /\ t[x].name \in Names
          /\ f[x] = Moved(p, name, P[x]) /\ P[x] = Append(PathAt(t, d), t[x].name) /\ PathAt(t, d) \in Seq(Names)
      BY <1>1, <1>2, <1>4, <1>6, <1>14
    <3>2. step(x) = Append(Moved(p, name, PathAt(t, d)), u[x].name)
      BY <1>16, <3>1
    <3> HIDE DEF step, d
    <3>3. CASE x = id
      <4>1. Moved(p, name, PathAt(t, d)) = Front(p) /\ u[x].name = name /\ P[x] = p
        BY <1>6, <1>10, <1>12, <1>13, <3>1, <3>3 DEF d, p
      <4> QED
        BY <1>11, <3>1, <3>2, <4>1
    <3>4. CASE x # id
      <4>1. P[x] # p
        BY <3>1, <3>4, PathsDiffer DEF P, p
      <4>2. u[x].name = t[x].name
        BY <1>6, <3>1, <3>4
      <4> QED
        BY <1>11, <3>1, <3>2, <4>1, <4>2
    <3> QED
      BY <3>3, <3>4
  <2> HIDE DEF step
  <2>2. f = [x \in DOMAIN u |-> step(x)]
    BY <1>15, <2>1
  <2> QED
    BY <2>2 DEF step, IsPathMap
<1>18. PathMap(u) = f /\ IsTree(u)
  BY <1>8, <1>14, <1>17, PathMapIs
<1>19. Append(Front(p), name) \notin DOMAIN StoreOf(t)
  <2> SUFFICES ASSUME Append(Front(p), name) \in DOMAIN StoreOf(t) PROVE FALSE
    OBVIOUS
  <2>1. PICK x \in DOMAIN t : Append(Front(p), name) = P[x]
    BY TreeStore DEF P
  <2> DEFINE d == t[x].parent_dir
             s1 == Front(p)
             s2 == PathAt(t, d)
  <2>2. /\ s1 \in Seq(Names) /\ s2 \in Seq(Names) /\ t[x].name \in Names
        /\ Append(s1, name) = Append(s2, t[x].name) /\ d \in DOMAIN t \cup {Root}
    BY <1>1, <1>2, <1>13, <2>1
  <2> HIDE DEF s1, s2
  <2>3. s1 = s2 /\ name = t[x].name
    BY <2>2, AppendInjective
  <2> HIDE DEF d
  <2>4. PathAt(t, d) = PathAt(t, t[id].parent_dir)
    BY <1>10, <2>3 DEF s1, s2, p
  <2>5. d # t[id].parent_dir
    BY <2>3 DEF d
  <2>6. \A y \in DOMAIN t : PathAt(t, y) # PathAt(t, Root)
    BY <1>1
  <2>7. t[id].parent_dir \in DOMAIN t \cup {Root}
    BY <1>2
  <2>8. d \in DOMAIN t /\ t[id].parent_dir \in DOMAIN t
    BY <2>2, <2>4, <2>5, <2>6, <2>7
  <2>9. P[d] = P[t[id].parent_dir]
    BY <1>1, <2>4, <2>8
  <2> QED
    BY <2>5, <2>8, <2>9, PathsDiffer DEF P
<1> QED
  BY <1>4, <1>7, <1>18, <1>19 DEF u, P, p, f

-----------------------------------------------------------------------------
(* The tree, as it is now, and its paths. *)

\* What is below an item is what its path starts.
LEMMA BelowByPath ==
  ASSUME IsTree(tree), NEW id \in DOMAIN tree
  PROVE  Below(id) = {x \in DOMAIN tree : IsPrefix(PathMap(tree)[id], PathMap(tree)[x])}
<1> DEFINE P == PathMap(tree)
           X == {x \in DOMAIN tree : IsPrefix(P[id], P[x])}
           Y == {x \in DOMAIN tree : IsPrefix(P[id], P[x]) /\ x \notin Below(id)}
<1>1. /\ ItemsOK(tree) /\ P \in [DOMAIN tree -> Seq(Names)]
      /\ PathAt(tree, Root) = <<>>
      /\ \A d \in DOMAIN tree \cup {Root} : PathAt(tree, d) \in Seq(Names)
      /\ \A x \in DOMAIN tree : /\ P[x] # <<>> /\ P[x] \in Seq(Names) /\ PathAt(tree, x) = P[x]
                                /\ P[x] = Append(PathAt(tree, tree[x].parent_dir), tree[x].name)
  BY TreePaths DEF IsTree
<1>2. \A x \in DOMAIN tree : tree[x].name \in Names /\ tree[x].parent_dir \in DOMAIN tree \cup {Root} /\ x # Root
  BY <1>1, ItemsHave
<1> HIDE DEF P
<1>3. ASSUME NEW x \in DOMAIN tree
      PROVE  IsPrefix(P[id], P[x]) <=>
               x = id \/ (tree[x].parent_dir \in DOMAIN tree /\ IsPrefix(P[id], P[tree[x].parent_dir]))
  <2> DEFINE d == tree[x].parent_dir
             q == PathAt(tree, d)
  <2>1. /\ d \in DOMAIN tree \cup {Root} /\ q \in Seq(Names) /\ tree[x].name \in Names
        /\ P[x] = Append(q, tree[x].name) /\ P[id] \in Seq(Names) /\ P[id] # <<>>
    BY <1>1, <1>2
  <2>2. IsPrefix(P[id], Append(q, tree[x].name)) <=> P[id] = Append(q, tree[x].name) \/ IsPrefix(P[id], q)
    BY <2>1, AppendedPath
  <2>3. P[id] = P[x] <=> id = x
    BY PathsDiffer DEF P
  <2>4. d = Root => ~IsPrefix(P[id], q) /\ d \notin DOMAIN tree
    <3>1. d = Root => q = <<>> /\ d \notin DOMAIN tree
      BY <1>1, <1>2
    <3> DEFINE root == <<>>
    <3>2. root \in Seq(Names) /\ Len(root) = 0 /\ Len(P[id]) \in Nat \ {0}
      BY <2>1, EmptySeq
    <3> HIDE DEF root
    <3>3. ~(Len(P[id]) <= Len(root))
      BY <3>2
    <3>4. ~IsPrefix(P[id], root)
      BY <2>1, <3>2, <3>3, PrefixBySegments
    <3> QED
      BY <3>1, <3>4 DEF root
  <2>5. d \in DOMAIN tree => q = P[d]
    BY <1>1
  <2> HIDE DEF q, d
  <2>6. IsPrefix(P[id], P[x]) <=> x = id \/ IsPrefix(P[id], q)
    BY <2>1, <2>2, <2>3
  <2>7. IsPrefix(P[id], P[x]) <=> x = id \/ (d \in DOMAIN tree /\ IsPrefix(P[id], P[d]))
    BY <2>1, <2>4, <2>5, <2>6
  <2> QED
    BY <2>7 DEF d
<1>4. Closed(X) /\ id \in X
  BY <1>3 DEF Closed, Children
<1>5. \A x \in Below(id) : x \in X
  BY <1>4, BelowIsLeast
<1>6. ASSUME Y # {} PROVE FALSE
  <2>1. PICK x \in Y : \A y \in Y : Len(P[x]) <= Len(P[y])
    BY <1>1, <1>6, LeastLength
  <2> DEFINE d == tree[x].parent_dir
  <2>2. x \in DOMAIN tree /\ IsPrefix(P[id], P[x]) /\ x \notin Below(id)
    BY <2>1
  <2>3. x # id
    BY <2>2, ChildrenAreBelow
  <2>4. d \in DOMAIN tree /\ IsPrefix(P[id], P[d])
    BY <1>3, <2>2, <2>3
  <2>5. x \in Below(d)
    BY <2>2, <2>4, ChildrenAreBelow DEF Children
  <2>6. d \notin Below(id)
    BY <2>2, <2>5, BelowIsTransitive
  <2>7. d \in Y
    BY <2>4, <2>6
  <2>8. Len(P[x]) <= Len(P[d])
    BY <2>1, <2>7
  <2>9. P[x] = Append(P[d], tree[x].name) /\ tree[x].name \in Names /\ P[d] \in Seq(Names)
    BY <1>1, <1>2, <2>2, <2>4
  <2>10. Len(P[x]) = Len(P[d]) + 1 /\ Len(P[d]) \in Nat
    BY <2>9, AppendProperties, LenProperties
  <2> QED
    BY <2>8, <2>10
<1>7. Below(id) \subseteq DOMAIN tree
  BY DEF Below
<1>8. Below(id) = X
  BY <1>5, <1>6, <1>7
<1> QED
  BY <1>8 DEF P

\* It is removed with all below it.
LEMMA BelowIsClosed ==
  ASSUME NEW gone, gone \subseteq DOMAIN tree, \A x \in gone : Below(x) \subseteq gone
  PROVE  \A x \in DOMAIN tree : tree[x].parent_dir \in gone => x \in gone
BY ChildrenAreBelow DEF Children

\* What the actions of a tree do to it, one by one.
LEMMA CreateIs ==
  ASSUME IsTree(tree), NEW id \in Ids, NEW item \in Dirs \cup Files, Create(id, item)
  PROVE  /\ tree' = WithItem(tree, id, item) /\ id \notin DOMAIN tree
         /\ item.parent_dir # Root => item.parent_dir \in DOMAIN tree /\ tree[item.parent_dir].kind = "dir"
         /\ \A x \in DOMAIN tree : tree[x].parent_dir = item.parent_dir => tree[x].name # item.name
BY DEF Create, NameIsFree, Children, DirIds, WithItem

LEMMA TreeNext == IsTree(tree) /\ [NextWithCrashes]_tree => IsTree(tree')
<1> SUFFICES ASSUME IsTree(tree), [NextWithCrashes]_tree PROVE IsTree(tree')
  OBVIOUS
<1>1. ASSUME NEW id \in Ids, NEW item \in Dirs \cup Files, Create(id, item) PROVE IsTree(tree')
  <2>1. /\ tree' = WithItem(tree, id, item) /\ id \notin DOMAIN tree
        /\ item.parent_dir # Root => item.parent_dir \in DOMAIN tree /\ tree[item.parent_dir].kind = "dir"
        /\ \A x \in DOMAIN tree : tree[x].parent_dir = item.parent_dir => tree[x].name # item.name
    BY <1>1, CreateIs
  <2>2. IsTree(WithItem(tree, id, item))
    BY <2>1, AddingAnItem
  <2> QED
    BY <2>1, <2>2
<1>2. ASSUME NEW id \in DOMAIN tree, NEW name \in Names, Rename(id, name) PROVE IsTree(tree')
  <2>1. /\ tree' = Renamed(tree, id, name)
        /\ \A x \in DOMAIN tree : tree[x].parent_dir = tree[id].parent_dir => tree[x].name # name
    BY <1>2 DEF Rename, Renamed, NameIsFree, Children
  <2> QED
    BY <2>1, RenamingAnItem
<1>3. ASSUME NEW id \in DOMAIN tree, NEW content \in Contents \cup {Damaged}, SetContent(id, content)
      PROVE  IsTree(tree')
  BY <1>3, ChangingAContent DEF SetContent
<1>4. ASSUME NEW gone, gone \subseteq DOMAIN tree, \A x \in gone : Below(x) \subseteq gone, tree' = Without(gone)
      PROVE  IsTree(tree')
  <2>1. tree' = Remaining(tree, gone)
    BY <1>4 DEF Without, Remaining
  <2>2. \A x \in DOMAIN tree : tree[x].parent_dir \in gone => x \in gone
    BY <1>4, BelowIsClosed
  <2>3. IsTree(Remaining(tree, gone))
    BY <1>4, <2>2, RemovingItems
  <2> QED
    BY <2>1, <2>3
<1>5. ASSUME NEW id \in DOMAIN tree, Delete(id) PROVE IsTree(tree')
  <2>1. Below(id) \subseteq DOMAIN tree /\ \A x \in Below(id) : Below(x) \subseteq Below(id)
    BY BelowIsTransitive DEF Below
  <2> QED
    BY <1>4, <1>5, <2>1 DEF Delete
<1>6. ASSUME NEW id \in DOMAIN tree, RemovePart(id) PROVE IsTree(tree')
  <2>1. PICK gone \in SUBSET (Below(id) \ {id}) :
          (\A x \in gone : Below(x) \subseteq gone) /\ tree' = Without(gone)
    BY <1>6 DEF RemovePart
  <2>2. gone \subseteq DOMAIN tree
    BY DEF Below
  <2> QED
    BY <1>4, <2>1, <2>2
<1>7. CASE UNCHANGED tree
  BY <1>7
<1> QED
  BY <1>1, <1>2, <1>3, <1>5, <1>6, <1>7 DEF NextWithCrashes, Next, Damage

-----------------------------------------------------------------------------
(* What get_item_at finds: the item, or the root, that has the path. *)

Named(q) ==
  IF \E d \in DOMAIN tree \cup {Root} : PathAt(tree, d) = q
  THEN CHOOSE d \in DOMAIN tree \cup {Root} : PathAt(tree, d) = q
  ELSE NoItem

LEMMA NamedIs ==
  ASSUME IsTree(tree)
  PROVE  /\ \A d, e \in DOMAIN tree \cup {Root} : PathAt(tree, d) = PathAt(tree, e) => d = e
         /\ \A d \in DOMAIN tree \cup {Root} : Named(PathAt(tree, d)) = d
         /\ \A q : (\A d \in DOMAIN tree \cup {Root} : PathAt(tree, d) # q) => Named(q) = NoItem
         /\ NoItem \notin DOMAIN tree \cup {Root} /\ Root \notin DOMAIN tree
<1>1. /\ PathAt(tree, Root) = <<>>
      /\ \A x \in DOMAIN tree : PathMap(tree)[x] # <<>> /\ PathAt(tree, x) = PathMap(tree)[x]
  BY TreePaths
<1>2. ASSUME NEW d \in DOMAIN tree \cup {Root}, NEW e \in DOMAIN tree \cup {Root}, PathAt(tree, d) = PathAt(tree, e)
      PROVE  d = e
  <2>1. CASE d \in DOMAIN tree /\ e \in DOMAIN tree
    <3>1. PathMap(tree)[d] = PathMap(tree)[e]
      BY <1>1, <1>2, <2>1
    <3> QED
      BY <2>1, <3>1, PathsDiffer
  <2>2. CASE d = Root \/ e = Root
    BY <1>1, <1>2, <2>2
  <2> QED
    BY <2>1, <2>2
<1>3. ASSUME NEW d \in DOMAIN tree \cup {Root} PROVE Named(PathAt(tree, d)) = d
  <2> DEFINE e == CHOOSE e \in DOMAIN tree \cup {Root} : PathAt(tree, e) = PathAt(tree, d)
  <2>1. Named(PathAt(tree, d)) = e
    BY DEF Named
  <2>2. e \in DOMAIN tree \cup {Root} /\ PathAt(tree, e) = PathAt(tree, d)
    OBVIOUS
  <2> HIDE DEF e
  <2> QED
    BY <1>2, <2>1, <2>2
<1>4. NoItem \notin DOMAIN tree \cup {Root} /\ Root \notin DOMAIN tree
  BY IdsAssumption DEF IsTree, ItemsOK, NoItem, Root
<1> QED
  BY <1>2, <1>3, <1>4 DEF Named

\* The items of a name in a directory are those of its path.
LEMMA FoundByPath ==
  ASSUME IsTree(tree), NEW d \in DOMAIN tree \cup {Root}, NEW name \in Names
  PROVE  /\ Found(d, name) = {x \in DOMAIN tree : PathAt(tree, x) = Append(PathAt(tree, d), name)}
         /\ PathAt(tree, d) \in Seq(Names)
         /\ Found(d, name) # {} => d \in DirIds \cup {Root}
<1>1. /\ ItemsOK(tree)
      /\ \A x \in DOMAIN tree \cup {Root} : PathAt(tree, x) \in Seq(Names)
      /\ \A x \in DOMAIN tree : PathAt(tree, x) = Append(PathAt(tree, tree[x].parent_dir), tree[x].name)
  BY TreePaths DEF IsTree
<1>2. ASSUME NEW x \in DOMAIN tree
      PROVE  x \in Found(d, name) <=> PathAt(tree, x) = Append(PathAt(tree, d), name)
  <2> DEFINE e == tree[x].parent_dir
             s == PathAt(tree, d)
             t == PathAt(tree, e)
  <2>1. /\ e \in DOMAIN tree \cup {Root} /\ tree[x].name \in Names /\ s \in Seq(Names) /\ t \in Seq(Names)
        /\ PathAt(tree, x) = Append(t, tree[x].name)
    BY <1>1, ItemsHave
  <2>2. s = t <=> d = e
    BY <2>1, NamedIs
  <2>3. x \in Found(d, name) <=> d = e /\ tree[x].name = name
    BY DEF Found, Children
  <2> HIDE DEF e, s, t
  <2>4. Append(t, tree[x].name) = Append(s, name) <=> t = s /\ tree[x].name = name
    BY <2>1, AppendInjective
  <2>5. x \in Found(d, name) <=> PathAt(tree, x) = Append(s, name)
    BY <2>1, <2>2, <2>3, <2>4
  <2> QED
    BY <2>5 DEF s
<1>3. Found(d, name) \subseteq DOMAIN tree
  BY DEF Found, Children
<1>4. ASSUME NEW x \in Found(d, name) PROVE d \in DirIds \cup {Root}
  BY <1>1 DEF Found, Children, DirIds, ItemsOK
<1> QED
  BY <1>1, <1>2, <1>3, <1>4

\* One step of the walk is one name more.
LEMMA EnterIs ==
  ASSUME IsTree(tree), NEW p \in Seq(Names), NEW name \in Names
  PROVE  Enter(Named(p), name) = Named(Append(p, name))
<1> DEFINE at == Named(p)
           q  == Append(p, name)
<1>1. /\ \A d, e \in DOMAIN tree \cup {Root} : PathAt(tree, d) = PathAt(tree, e) => d = e
      /\ \A d \in DOMAIN tree \cup {Root} : Named(PathAt(tree, d)) = d
      /\ \A r : (\A d \in DOMAIN tree \cup {Root} : PathAt(tree, d) # r) => Named(r) = NoItem
      /\ NoItem \notin DOMAIN tree \cup {Root} /\ Root \notin DOMAIN tree
  BY NamedIs
<1>2. q \in Seq(Names) /\ q # <<>> /\ PathAt(tree, Root) = <<>>
  BY AppendProperties, TreePaths
<1>3. CASE \A d \in DOMAIN tree \cup {Root} : PathAt(tree, d) # p
  <2>1. at = NoItem
    BY <1>1, <1>3
  <2>2. at \notin DirIds \cup {Root}
    BY <1>1, <2>1 DEF DirIds
  <2>3. Enter(at, name) = NoItem
    BY <2>2 DEF Enter
  <2>4. ASSUME NEW x \in DOMAIN tree \cup {Root}, PathAt(tree, x) = q PROVE FALSE
    <3>1. x \in DOMAIN tree
      BY <1>2, <2>4
    <3> DEFINE s == PathAt(tree, tree[x].parent_dir)
    <3>2. /\ s \in Seq(Names) /\ tree[x].name \in Names /\ tree[x].parent_dir \in DOMAIN tree \cup {Root}
          /\ q = Append(s, tree[x].name)
      BY <2>4, <3>1, TreePaths, ItemsHave DEF IsTree
    <3>3. s = p
      <4>1. Append(s, tree[x].name) = Append(p, name)
        BY <3>2
      <4> HIDE DEF s
      <4> QED
        BY <3>2, <4>1, AppendInjective
    <3> QED
      BY <1>3, <3>2, <3>3
  <2>5. Named(q) = NoItem
    BY <1>1, <2>4
  <2> QED
    BY <2>3, <2>5
<1>4. CASE \E d \in DOMAIN tree \cup {Root} : PathAt(tree, d) = p
  <2>1. PICK d \in DOMAIN tree \cup {Root} : PathAt(tree, d) = p
    BY <1>4
  <2>2. at = d
    BY <1>1, <2>1
  <2>3. /\ Found(d, name) = {x \in DOMAIN tree : PathAt(tree, x) = q}
        /\ Found(d, name) # {} => d \in DirIds \cup {Root}
    BY <2>1, FoundByPath
  <2>4. CASE Found(d, name) = {}
    <3>1. Enter(d, name) = NoItem
      BY <2>4 DEF Enter
    <3>2. \A x \in DOMAIN tree \cup {Root} : PathAt(tree, x) # q
      BY <1>2, <2>3, <2>4
    <3>3. Named(q) = NoItem
      BY <1>1, <3>2
    <3> QED
      BY <2>2, <3>1, <3>3
  <2>5. CASE Found(d, name) # {}
    <3>1. Enter(d, name) = CHOOSE x \in Found(d, name) : TRUE
      BY <2>3, <2>5 DEF Enter
    <3>2. Enter(d, name) \in Found(d, name)
      BY <2>5, <3>1
    <3>3. Enter(d, name) \in DOMAIN tree /\ PathAt(tree, Enter(d, name)) = q
      BY <2>3, <3>2
    <3>4. Named(q) = Enter(d, name)
      BY <1>1, <3>3
    <3> QED
      BY <2>2, <3>4
  <2> QED
    BY <2>4, <2>5
<1> QED
  BY <1>3, <1>4

\* The walk, as a function of how far it has come.
IsWalk(f, q) == f = [n \in 0..Len(q) |-> IF n = 0 THEN Root ELSE Enter(f[n - 1], q[n])]

LEMMA OnlyWalk ==
  ASSUME NEW q \in Seq(Names), NEW f, NEW g, IsWalk(f, q), IsWalk(g, q)
  PROVE  f = g
<1> DEFINE L == Len(q)
           T == {n \in 0..L : f[n] # g[n]}
<1>1. L \in Nat
  BY LenProperties
<1>2. /\ f = [n \in 0..L |-> IF n = 0 THEN Root ELSE Enter(f[n - 1], q[n])]
      /\ g = [n \in 0..L |-> IF n = 0 THEN Root ELSE Enter(g[n - 1], q[n])]
  BY DEF IsWalk
<1> HIDE DEF L
<1>3. /\ f[0] = Root /\ g[0] = Root
      /\ \A n \in 1..L : f[n] = Enter(f[n - 1], q[n]) /\ g[n] = Enter(g[n - 1], q[n])
      /\ f = [n \in 0..L |-> f[n]] /\ g = [n \in 0..L |-> g[n]]
  <2>1. f[0] = Root /\ g[0] = Root
    BY <1>1, <1>2
  <2>2. ASSUME NEW n \in 1..L PROVE f[n] = Enter(f[n - 1], q[n]) /\ g[n] = Enter(g[n - 1], q[n])
    <3>1. n \in 0..L /\ n # 0
      BY <1>1
    <3> QED
      BY <1>2, <3>1
  <2>3. f = [n \in 0..L |-> f[n]] /\ g = [n \in 0..L |-> g[n]]
    BY <1>2
  <2> QED
    BY <2>1, <2>2, <2>3
<1>4. ASSUME T # {} PROVE FALSE
  <2>1. T \in SUBSET Nat
    OBVIOUS
  <2>2. PICK m \in T : \A n \in T : m <= n
    BY <1>4, <2>1, NatHasLeast
  <2>3. m \in 1..L /\ f[m] # g[m]
    BY <1>1, <1>3, <2>2
  <2>4. m - 1 \in 0..L /\ m - 1 \notin T
    BY <1>1, <2>2, <2>3
  <2>5. f[m - 1] = g[m - 1]
    BY <2>4
  <2> QED
    BY <1>3, <2>3, <2>5
<1>5. \A n \in 0..L : f[n] = g[n]
  BY <1>4
<1> QED
  BY <1>3, <1>5

LEMMA ItemAtIs ==
  ASSUME IsTree(tree), NEW q \in Seq(Names)
  PROVE  ItemAt(q) = Named(q)
<1> DEFINE L == Len(q)
           w == [n \in 0..L |-> Named(SubSeq(q, 1, n))]
<1>1. L \in Nat
  BY LenProperties
<1>2. Named(SubSeq(q, 1, 0)) = Root
  <2>1. SubSeq(q, 1, 0) = <<>>
    BY SubSeqEmpty
  <2>2. PathAt(tree, Root) = <<>>
    BY TreePaths
  <2> QED
    BY <2>1, <2>2, NamedIs
<1>3. ASSUME NEW n \in 1..L PROVE Named(SubSeq(q, 1, n)) = Enter(Named(SubSeq(q, 1, n - 1)), q[n])
  <2> DEFINE p == SubSeq(q, 1, n - 1)
  <2>1. p \in Seq(Names) /\ q[n] \in Names /\ SubSeq(q, 1, n) = Append(p, q[n])
    BY NextStart
  <2> HIDE DEF p
  <2>2. Enter(Named(p), q[n]) = Named(Append(p, q[n]))
    BY <2>1, EnterIs
  <2> QED
    BY <2>1, <2>2 DEF p
<1> HIDE DEF L
<1>4. ASSUME NEW n \in 0..L PROVE w[n] = IF n = 0 THEN Root ELSE Enter(w[n - 1], q[n])
  <2>1. CASE n = 0
    BY <1>2, <2>1
  <2>2. CASE n # 0
    <3>1. n \in 1..L /\ n - 1 \in 0..L
      BY <1>1, <2>2
    <3> QED
      BY <1>3, <2>2, <3>1
  <2> QED
    BY <2>1, <2>2
<1>5. w = [n \in 0..L |-> w[n]]
  OBVIOUS
<1>6. w[L] = Named(SubSeq(q, 1, L))
  BY <1>1
<1> HIDE DEF w
<1>7. w = [n \in 0..L |-> IF n = 0 THEN Root ELSE Enter(w[n - 1], q[n])]
  BY <1>4, <1>5
<1>8. IsWalk(w, q)
  BY <1>7 DEF IsWalk, L
<1> DEFINE at == CHOOSE f : IsWalk(f, q)
<1>9. IsWalk(at, q)
  BY <1>8
<1>10. at = w
  BY <1>8, <1>9, OnlyWalk
<1>11. ItemAt(q) = at[L]
  BY DEF ItemAt, IsWalk, L
<1>12. SubSeq(q, 1, L) = q
  BY SubSeqFull DEF L
<1> HIDE DEF at
<1> QED
  BY <1>6, <1>10, <1>11, <1>12

\* A path is an item's, or the root's, or nothing is there.
LEMMA FindsByPath ==
  ASSUME IsTree(tree), NEW q \in Seq(Names)
  PROVE  /\ q = <<>> => ItemAt(q) = Root
         /\ \A x \in DOMAIN tree : PathMap(tree)[x] = q <=> ItemAt(q) = x
         /\ q \notin DOMAIN StoreOf(tree) => ItemAt(q) \notin DOMAIN tree
<1>1. /\ PathAt(tree, Root) = <<>>
      /\ \A x \in DOMAIN tree : PathMap(tree)[x] # <<>> /\ PathAt(tree, x) = PathMap(tree)[x]
  BY TreePaths
<1>2. /\ \A d \in DOMAIN tree \cup {Root} : Named(PathAt(tree, d)) = d
      /\ \A r : (\A d \in DOMAIN tree \cup {Root} : PathAt(tree, d) # r) => Named(r) = NoItem
      /\ NoItem \notin DOMAIN tree \cup {Root} /\ Root \notin DOMAIN tree
  BY NamedIs
<1>3. ASSUME NEW x \in DOMAIN tree PROVE PathMap(tree)[x] = q <=> Named(q) = x
  <2>1. CASE \E d \in DOMAIN tree \cup {Root} : PathAt(tree, d) = q
    BY <1>1, <1>2, <2>1
  <2>2. CASE \A d \in DOMAIN tree \cup {Root} : PathAt(tree, d) # q
    BY <1>1, <1>2, <2>2
  <2> QED
    BY <2>1, <2>2
<1>4. ASSUME q \notin DOMAIN StoreOf(tree), Named(q) \in DOMAIN tree PROVE FALSE
  <2> DEFINE x == Named(q)
  <2>1. x \in DOMAIN tree
    BY <1>4
  <2> HIDE DEF x
  <2>2. PathMap(tree)[x] \in DOMAIN StoreOf(tree)
    BY <2>1, TreeStore
  <2>3. PathMap(tree)[x] = q
    BY <1>3, <2>1 DEF x
  <2> QED
    BY <1>4, <2>2, <2>3
<1> QED
  BY <1>1, <1>2, <1>3, <1>4, ItemAtIs

-----------------------------------------------------------------------------
(* PathInArchive::new finds what a path means, by counting.  Its stack of  *)
(* names is what the segments read so far mean, and the first segment that *)
(* makes them no path is the one it stops at.                              *)

Segments == Names \cup InvalidNames \cup Dotted

LEMMA PushIs ==
  ASSUME NEW out, NEW s \in Segments
  PROVE  /\ out.error # "none" => Push(out, s) = out
         /\ out.error = "none" =>
              /\ s \in Names => Push(out, s) = Parsed(Append(out.components, s), "none")
              /\ s \in InvalidNames => Push(out, s) = Parsed(<<>>, "InvalidComponent")
              /\ s = ".." => Push(out, s) = Pop(out.components)
              /\ s \notin Names \cup InvalidNames /\ s # ".." => Push(out, s) = out
<1> DEFINE blank == {"", "."}
<1>1. Dotted = blank \cup {".."} /\ ".." \notin blank
  BY DEF Dotted
<1>2. Names \cap InvalidNames = {} /\ (Names \cup InvalidNames) \cap Dotted = {}
  BY SegmentsAssumption
<1>3. Push(out, s) =
        IF out.error # "none" THEN out
        ELSE CASE s \in blank        -> out
               [] s = ".."           -> Pop(out.components)
               [] s \in InvalidNames -> Parsed(<<>>, "InvalidComponent")
               [] OTHER              -> Parsed(Append(out.components, s), "none")
  BY DEF Push
<1> HIDE DEF blank
<1> QED
  BY <1>1, <1>2, <1>3 DEF Segments

IsRead(f, raw) ==
  f = [n \in 0..Len(raw) |-> IF n = 0 THEN Parsed(<<>>, "none") ELSE Push(f[n - 1], raw[n])]

LEMMA OnlyRead ==
  ASSUME NEW S, NEW raw \in Seq(S), NEW f, NEW g, IsRead(f, raw), IsRead(g, raw)
  PROVE  f = g
<1> DEFINE L == Len(raw)
           T == {n \in 0..L : f[n] # g[n]}
           start == Parsed(<<>>, "none")
<1>1. L \in Nat
  BY LenProperties
<1>2. /\ f = [n \in 0..L |-> IF n = 0 THEN start ELSE Push(f[n - 1], raw[n])]
      /\ g = [n \in 0..L |-> IF n = 0 THEN start ELSE Push(g[n - 1], raw[n])]
  BY DEF IsRead
<1> HIDE DEF L, start
<1>3. /\ f[0] = start /\ g[0] = start
      /\ \A n \in 1..L : f[n] = Push(f[n - 1], raw[n]) /\ g[n] = Push(g[n - 1], raw[n])
      /\ f = [n \in 0..L |-> f[n]] /\ g = [n \in 0..L |-> g[n]]
  <2>1. f[0] = start /\ g[0] = start
    BY <1>1, <1>2
  <2>2. ASSUME NEW n \in 1..L PROVE f[n] = Push(f[n - 1], raw[n]) /\ g[n] = Push(g[n - 1], raw[n])
    <3>1. n \in 0..L /\ n # 0
      BY <1>1
    <3> QED
      BY <1>2, <3>1
  <2>3. f = [n \in 0..L |-> f[n]] /\ g = [n \in 0..L |-> g[n]]
    BY <1>2
  <2> QED
    BY <2>1, <2>2, <2>3
<1>4. ASSUME T # {} PROVE FALSE
  <2>1. T \in SUBSET Nat
    OBVIOUS
  <2>2. PICK m \in T : \A n \in T : m <= n
    BY <1>4, <2>1, NatHasLeast
  <2>3. m \in 1..L /\ f[m] # g[m]
    BY <1>1, <1>3, <2>2
  <2>4. m - 1 \in 0..L /\ m - 1 \notin T
    BY <1>1, <2>2, <2>3
  <2>5. f[m - 1] = g[m - 1]
    BY <2>4
  <2> QED
    BY <1>3, <2>3, <2>5
<1>5. \A n \in 0..L : f[n] = g[n]
  BY <1>4
<1> QED
  BY <1>3, <1>5

\* What is read of the first segments.
StopsAt(raw) == CHOOSE m \in 1..Len(raw) : ~Sound(raw, m) /\ Sound(raw, m - 1)

StopsWith(raw) == IF raw[StopsAt(raw)] \in InvalidNames THEN "InvalidComponent" ELSE "RootEscape"

ReadTo(raw, n) == IF Sound(raw, n) THEN Parsed(Means(raw, n), "none") ELSE Parsed(<<>>, StopsWith(raw))

LEMMA ReadToNext ==
  ASSUME NEW raw \in Seq(Segments), NEW n \in 1..Len(raw)
  PROVE  ReadTo(raw, n) = Push(ReadTo(raw, n - 1), raw[n])
<1> DEFINE m == n - 1
           s == raw[n]
           out == ReadTo(raw, m)
<1>1. n \in Nat \ {0} /\ m \in Nat /\ n = m + 1 /\ Len(raw) \in Nat /\ s \in Segments
  BY LenProperties, ElementOfSeq
<1>2. \A i, j \in Nat : i <= j /\ Sound(raw, j) => Sound(raw, i)
  BY DEF Sound
<1>3. ".." \notin Names \cup InvalidNames /\ Names \cap InvalidNames = {} /\ ".." \in Dotted
      /\ InvalidNames \cap (Names \cup Dotted) = {}
  BY SegmentsAssumption DEF Dotted
<1>4. CASE ~Sound(raw, m)
  <2>1. ~Sound(raw, n)
    BY <1>1, <1>2, <1>4
  <2>2. out = Parsed(<<>>, StopsWith(raw)) /\ ReadTo(raw, n) = out
    BY <1>4, <2>1 DEF ReadTo
  <2>3. out.error # "none"
    BY <2>2 DEF Parsed, StopsWith
  <2> HIDE DEF out
  <2>4. Push(out, s) = out
    BY <1>1, <2>3, PushIs
  <2> QED
    BY <2>2, <2>4 DEF out
<1>5. CASE Sound(raw, m)
  <2> DEFINE c == Means(raw, m)
  <2>1. out = Parsed(c, "none")
    BY <1>5 DEF ReadTo
  <2>2. out.error = "none" /\ out.components = c
    BY <2>1 DEF Parsed
  <2> HIDE DEF out
  <2>3. /\ s \in Names => Push(out, s) = Parsed(Append(c, s), "none")
        /\ s \in InvalidNames => Push(out, s) = Parsed(<<>>, "InvalidComponent")
        /\ s = ".." => Push(out, s) = Pop(c)
        /\ s \notin Names \cup InvalidNames /\ s # ".." => Push(out, s) = out
    BY <1>1, <2>2, PushIs
  <2>4. s \in Names \cup Dotted =>
          /\ Sound(raw, n) <=> ~(s = ".." /\ c = <<>>)
          /\ s \in Names => Means(raw, n) = Append(c, s)
          /\ s \notin Names /\ s # ".." => Means(raw, n) = c
          /\ s = ".." /\ Sound(raw, n) => Means(raw, n) = Front(c)
    BY <1>1, <1>5, MeansSteps
  <2> HIDE DEF c
  <2>5. ~Sound(raw, n) => StopsAt(raw) = n
    <3> SUFFICES ASSUME ~Sound(raw, n) PROVE StopsAt(raw) = n
      OBVIOUS
    <3> DEFINE k == StopsAt(raw)
    <3>1. k \in 1..Len(raw) /\ ~Sound(raw, k) /\ Sound(raw, k - 1)
      BY <1>5 DEF StopsAt
    <3> HIDE DEF k
    <3>2. ~(k < n)
      <4>1. k < n => k <= m /\ k \in Nat
        BY <1>1, <3>1
      <4> QED
        BY <1>1, <1>2, <1>5, <3>1, <4>1
    <3>3. ~(n < k)
      <4>1. n < k => n <= k - 1 /\ k - 1 \in Nat
        BY <1>1, <3>1
      <4> QED
        BY <1>1, <1>2, <3>1, <4>1
    <3>4. k = n
      BY <1>1, <3>1, <3>2, <3>3
    <3> QED
      BY <3>4 DEF k
  <2>6. CASE s \in InvalidNames
    <3>1. ~Sound(raw, n)
      BY <1>1, <1>3, <2>6 DEF Sound
    <3>2. ReadTo(raw, n) = Parsed(<<>>, "InvalidComponent")
      BY <2>5, <2>6, <3>1 DEF ReadTo, StopsWith
    <3> QED
      BY <2>3, <2>6, <3>2 DEF out
  <2>7. CASE s \in Names
    <3>1. Sound(raw, n) /\ Means(raw, n) = Append(c, s)
      BY <1>3, <2>4, <2>7
    <3>2. ReadTo(raw, n) = Parsed(Append(c, s), "none")
      BY <3>1 DEF ReadTo
    <3> QED
      BY <2>3, <2>7, <3>2 DEF out
  <2>8. CASE s \notin Names \cup InvalidNames /\ s # ".."
    <3>1. s \in Dotted
      BY <1>1, <2>8 DEF Segments
    <3>2. Sound(raw, n) /\ Means(raw, n) = c
      BY <2>4, <2>8, <3>1
    <3>3. ReadTo(raw, n) = Parsed(c, "none")
      BY <3>2 DEF ReadTo
    <3> QED
      BY <2>1, <2>3, <2>8, <3>3 DEF out
  <2>9. CASE s = ".." /\ c = <<>>
    <3>1. ~Sound(raw, n) /\ s \notin InvalidNames
      BY <1>3, <2>4, <2>9
    <3>2. ReadTo(raw, n) = Parsed(<<>>, "RootEscape")
      BY <2>5, <3>1 DEF ReadTo, StopsWith
    <3>3. Pop(c) = Parsed(<<>>, "RootEscape")
      BY <2>9 DEF Pop
    <3> QED
      BY <2>3, <2>9, <3>2, <3>3 DEF out
  <2>10. CASE s = ".." /\ c # <<>>
    <3>1. Sound(raw, n) /\ Means(raw, n) = Front(c)
      BY <1>3, <2>4, <2>10
    <3>2. ReadTo(raw, n) = Parsed(Front(c), "none")
      BY <3>1 DEF ReadTo
    <3>3. Pop(c) = Parsed(Front(c), "none")
      BY <2>10 DEF Pop
    <3> QED
      BY <2>3, <2>10, <3>2, <3>3 DEF out
  <2> QED
    BY <2>6, <2>7, <2>8, <2>9, <2>10
<1> QED
  BY <1>4, <1>5

LEMMA NewPathIs ==
  ASSUME NEW raw \in Seq(Segments)
  PROVE  /\ IsPath(raw) => NewPath(raw).error = "none" /\ NewPath(raw).components = Meant(raw)
         /\ ~IsPath(raw) => NewPath(raw).error \in {"EmptyPath", "InvalidComponent", "RootEscape"}
<1> DEFINE L == Len(raw)
           w == [n \in 0..L |-> ReadTo(raw, n)]
           start == Parsed(<<>>, "none")
           empty == raw = <<"">>
<1>1. L \in Nat
  BY LenProperties
<1>2. ReadTo(raw, 0) = start
  <2>1. Sound(raw, 0)
    BY DEF Sound
  <2>2. Left(raw, 0) = {}
    BY DEF Left
  <2>3. Means(raw, 0) \in Seq(Names) /\ Len(Means(raw, 0)) = 0
    <3>1. Height(raw, 0) = 0
      BY Heights
    <3> QED
      BY <2>1, <3>1, MeansIs
  <2> DEFINE root == <<>>
             m == Means(raw, 0)
  <2>4. root \in Seq(Names) /\ Len(root) = 0
    BY EmptySeq
  <2>5. m = root
    <3> HIDE DEF m, root
    <3>1. m \in Seq(Names) /\ Len(m) = 0
      BY <2>3 DEF m
    <3> QED
      BY <2>4, <3>1, SeqEqual
  <2> QED
    BY <2>1, <2>5 DEF ReadTo
<1>3. \A n \in 1..L : ReadTo(raw, n) = Push(ReadTo(raw, n - 1), raw[n])
  BY ReadToNext
<1> HIDE DEF L, start, empty
<1>4. ASSUME NEW n \in 0..L PROVE w[n] = IF n = 0 THEN start ELSE Push(w[n - 1], raw[n])
  <2>1. CASE n = 0
    BY <1>2, <2>1
  <2>2. CASE n # 0
    <3>1. n \in 1..L /\ n - 1 \in 0..L
      BY <1>1, <2>2
    <3> QED
      BY <1>3, <2>2, <3>1
  <2> QED
    BY <2>1, <2>2
<1>5. w = [n \in 0..L |-> w[n]]
  OBVIOUS
<1>6. w[L] = ReadTo(raw, L)
  BY <1>1
<1> HIDE DEF w
<1>7. w = [n \in 0..L |-> IF n = 0 THEN start ELSE Push(w[n - 1], raw[n])]
  BY <1>4, <1>5
<1>8. IsRead(w, raw)
  BY <1>7 DEF IsRead, L, start
<1> DEFINE read == CHOOSE f : IsRead(f, raw)
<1>9. IsRead(read, raw)
  BY <1>8
<1>10. read = w
  BY <1>8, <1>9, OnlyRead
<1>11. NewPath(raw) = IF empty THEN Parsed(<<>>, "EmptyPath") ELSE read[L]
  BY DEF NewPath, IsRead, L, empty
<1> HIDE DEF read
<1>12. NewPath(raw) = IF empty THEN Parsed(<<>>, "EmptyPath") ELSE ReadTo(raw, L)
  BY <1>6, <1>10, <1>11
<1>13. Meant(raw) = Means(raw, L) /\ (IsPath(raw) <=> ~empty /\ Sound(raw, L))
  BY ByHeight DEF L, empty
<1>14. CASE IsPath(raw)
  <2>1. NewPath(raw) = Parsed(Meant(raw), "none")
    BY <1>12, <1>13, <1>14 DEF ReadTo
  <2> QED
    BY <1>14, <2>1 DEF Parsed
<1>15. CASE ~IsPath(raw)
  <2>1. NewPath(raw) = Parsed(<<>>, IF empty THEN "EmptyPath" ELSE StopsWith(raw))
    BY <1>12, <1>13, <1>15 DEF ReadTo
  <2>2. NewPath(raw).error = IF empty THEN "EmptyPath" ELSE StopsWith(raw)
    BY <2>1 DEF Parsed
  <2> QED
    BY <1>15, <2>2 DEF StopsWith
<1> QED
  BY <1>14, <1>15

-----------------------------------------------------------------------------
(* The operations by path.  A call is always one of these: walking, with    *)
(* the directories made that it has come through and nothing else changed;  *)
(* at the item it is to replace or remove, with nothing changed; or over,   *)
(* having done what it promises.                                            *)

IsDir(t, d) == d = Root \/ (d \in DOMAIN t /\ t[d].kind = "dir")

FileAt(s, p) == p \in DOMAIN s /\ s[p] # "directory"

CameTo(c, t, walk, n) ==
  /\ c.todo = SubSeq(walk, n + 1, Len(walk))
  /\ IsDir(t, c.at) /\ PathAt(t, c.at) = SubSeq(walk, 1, n)
  /\ \A q \in Made(walk, n) \cap DOMAIN c.before : c.before[q] = "directory"
  /\ StoreOf(t) = WithMade(c.before, walk, n)

OnTheWay(c, t) ==
  /\ c.op \in WalkCalls /\ IsPath(c.raw) /\ Meant(c.raw) # <<>> /\ c.path = Meant(c.raw)
  /\ c.op \in WriteCalls => c.content \in Contents /\ ~FileAt(c.before, Meant(c.raw))
  /\ \E n \in 0..Len(Way(c.op, Meant(c.raw))) : CameTo(c, t, Way(c.op, Meant(c.raw)), n)

AtItem(c, t, kind) ==
  /\ IsPath(c.raw) /\ StoreOf(t) = c.before
  /\ c.at \in DOMAIN t /\ t[c.at].kind = kind /\ PathMap(t)[c.at] = Meant(c.raw)

AllDone(c, s) ==
  IF Possible(c.op, c.raw, c.before)
  THEN c.result = "ok" /\ s = After(c.op, Meant(c.raw), c.content, c.before)
  ELSE c.result # "ok" /\ s = c.before

Repeatable(c, s) ==
  /\ Possible(c.op, c.raw, s) = Possible(c.op, c.raw, c.before)
  /\ s \in CutShort(c.op, c.raw, c.before)

Over(c, t) == IF c.result = "interrupted" THEN Repeatable(c, StoreOf(t)) ELSE AllDone(c, StoreOf(t))

\* Its fields.
IsCall(c) ==
  c = [op |-> c.op, raw |-> c.raw, path |-> c.path, content |-> c.content, todo |-> c.todo,
       at |-> c.at, stage |-> c.stage, result |-> c.result, before |-> c.before]

CallOK(c, t) ==
  /\ IsCall(c) /\ c.op \in AddCalls \cup RemoveCalls /\ c.raw \in Seq(Segments) /\ IsStore(c.before)
  /\ \/ c.stage = "walking" /\ OnTheWay(c, t)
     \/ /\ c.stage = "replacing" /\ AtItem(c, t, "file")
        /\ c.op \in {"write_file_at", "update_file_at"} /\ c.content \in Contents
     \/ c.stage = "removing" /\ c.op = "remove_dir_at" /\ AtItem(c, t, "dir")
     \/ c.stage = "removing" /\ c.op = "remove_file_at" /\ AtItem(c, t, "file")
     \/ c.stage = "returned" /\ Over(c, t)

PathsInv == IsTree(tree) /\ (call = NoCall \/ CallOK(call, tree))

\* What a tree's store says of its items.
LEMMA StoreOfTree ==
  ASSUME NEW t, IsTree(t)
  PROVE  /\ IsStore(StoreOf(t))
         /\ \A x \in DOMAIN t : /\ PathMap(t)[x] \in DOMAIN StoreOf(t)
                                /\ StoreOf(t)[PathMap(t)[x]] = ValueOf(t[x])
                                /\ t[x].kind \in {"dir", "file"}
                                /\ t[x].kind = "dir" <=> StoreOf(t)[PathMap(t)[x]] = "directory"
<1>1. /\ \A x \in DOMAIN t : PathMap(t)[x] \in DOMAIN StoreOf(t) /\ StoreOf(t)[PathMap(t)[x]] = ValueOf(t[x])
      /\ StoreOf(t) = [q \in DOMAIN StoreOf(t) |-> StoreOf(t)[q]]
  BY TreeStore
<1>2. ASSUME NEW x \in DOMAIN t
      PROVE  t[x].kind \in {"dir", "file"} /\ (t[x].kind = "dir" <=> ValueOf(t[x]) = "directory")
  <2>1. t[x].kind \in {"dir", "file"} /\ (t[x].kind = "file" => t[x].content \in Contents \cup {Damaged})
    BY ItemsHave DEF IsTree
  <2>2. "directory" \notin Contents \cup {Damaged}
    BY ContentsAssumption DEF Damaged
  <2> QED
    BY <2>1, <2>2 DEF ValueOf
<1> QED
  BY <1>1, <1>2, TreeStoreOK DEF IsStore

\* What get_dir_at and get_file_at find.
LEMMA GetAt ==
  ASSUME IsTree(tree), NEW raw \in Seq(Segments)
  PROVE  LET x == GetItemAt(raw)
             p == Meant(raw)
             s == StoreOf(tree)
         IN /\ GetDirAt(raw) # {} => IsPath(raw) /\ x \in DOMAIN tree /\ tree[x].kind = "dir" /\ PathMap(tree)[x] = p
            /\ GetFileAt(raw) # {} => IsPath(raw) /\ x \in DOMAIN tree /\ tree[x].kind = "file" /\ PathMap(tree)[x] = p
            /\ GetDirAt(raw) = {} => ~(IsPath(raw) /\ p \in DOMAIN s /\ s[p] = "directory")
            /\ GetFileAt(raw) = {} => ~(IsPath(raw) /\ FileAt(s, p))
<1> DEFINE x == GetItemAt(raw)
           p == Meant(raw)
           s == StoreOf(tree)
           P == PathMap(tree)
<1>1. p \in Seq(Names)
  BY MeantIsPath
<1>2. /\ IsPath(raw) => x = ItemAt(p)
      /\ ~IsPath(raw) => x = NoItem
  BY NewPathIs DEF GetItemAt
<1>3. \A y \in DOMAIN tree : P[y] = p <=> ItemAt(p) = y
  BY <1>1, FindsByPath
<1>4. \A q \in DOMAIN s : \E y \in DOMAIN tree : q = P[y]
  BY TreeStore
<1>5. \A y \in DOMAIN tree : tree[y].kind \in {"dir", "file"} /\ (tree[y].kind = "dir" <=> s[P[y]] = "directory")
  BY StoreOfTree
<1>6. NoItem \notin DOMAIN tree
  BY NamedIs
<1>7. /\ GetDirAt(raw) = {x} \cap {y \in DOMAIN tree : tree[y].kind = "dir"}
      /\ GetFileAt(raw) = {x} \cap (DOMAIN tree \ {y \in DOMAIN tree : tree[y].kind = "dir"})
  BY DEF GetDirAt, GetFileAt, DirIds
<1> HIDE DEF x, p, s, P
<1>8. x \in DOMAIN tree => IsPath(raw) /\ P[x] = p
  BY <1>2, <1>3, <1>6
<1>9. IsPath(raw) /\ p \in DOMAIN s => x \in DOMAIN tree /\ P[x] = p
  BY <1>2, <1>3, <1>4
<1>10. GetDirAt(raw) # {} => x \in DOMAIN tree /\ tree[x].kind = "dir"
  BY <1>7
<1>11. GetFileAt(raw) # {} => x \in DOMAIN tree /\ tree[x].kind = "file"
  BY <1>5, <1>7
<1>12. x \in DOMAIN tree => GetDirAt(raw) # {} \/ tree[x].kind # "dir"
  BY <1>7
<1>13. x \in DOMAIN tree => GetFileAt(raw) # {} \/ tree[x].kind = "dir"
  BY <1>7
<1> QED
  BY <1>5, <1>8, <1>9, <1>10, <1>11, <1>12, <1>13 DEF FileAt, x, p, s, P

\* A call begins with the tree as it is.
LEMMA CallIs ==
  ASSUME IsTree(tree), NEW op, NEW raw \in Seq(Segments), NEW content, NEW todo, NEW at, NEW stage, NEW result,
         Call(op, raw, content, todo, at, stage, result)
  PROVE  /\ IsCall(call') /\ call'.raw \in Seq(Segments) /\ IsStore(call'.before)
         /\ call'.op = op /\ call'.raw = raw /\ call'.content = content /\ call'.todo = todo /\ call'.at = at
         /\ call'.stage = stage /\ call'.result = result /\ call'.before = StoreOf(tree)
         /\ IsPath(raw) => call'.path = Meant(raw)
<1>1. PICK path, s : path = NewPath(raw).components /\ s = Store
  OBVIOUS
<1>2. call' = [op |-> op, raw |-> raw, path |-> path, content |-> content, todo |-> todo,
               at |-> at, stage |-> stage, result |-> result, before |-> s]
  BY <1>1 DEF Call
<1>3. /\ call'.op = op /\ call'.raw = raw /\ call'.content = content /\ call'.todo = todo /\ call'.at = at
      /\ call'.stage = stage /\ call'.result = result /\ call'.before = s /\ call'.path = path
  BY <1>2
<1>4. IsCall(call')
  BY <1>2, <1>3 DEF IsCall
<1>5. s = StoreOf(tree) /\ IsStore(s)
  BY <1>1, StoreIs, StoreOfTree
<1>6. IsPath(raw) => path = Meant(raw)
  BY <1>1, NewPathIs
<1> QED
  BY <1>3, <1>4, <1>5, <1>6

\* It is refused when it cannot succeed.
LEMMA Refused ==
  ASSUME IsTree(tree), NEW op \in AddCalls \cup RemoveCalls, NEW raw \in Seq(Segments),
         NEW error, error \notin {"ok", "interrupted"}, Refuse(op, raw, error), tree' = tree,
         ~Possible(op, raw, StoreOf(tree))
  PROVE  CallOK(call', tree')
<1>1. /\ IsCall(call') /\ call'.raw \in Seq(Segments) /\ IsStore(call'.before)
      /\ call'.op = op /\ call'.raw = raw /\ call'.stage = "returned" /\ call'.result = error
      /\ call'.before = StoreOf(tree)
  BY CallIs DEF Refuse
<1>2. AllDone(call', StoreOf(tree'))
  BY <1>1 DEF AllDone
<1>3. Over(call', tree')
  BY <1>1, <1>2 DEF Over
<1> QED
  BY <1>1, <1>3 DEF CallOK

LEMMA WalkBegins ==
  ASSUME IsTree(tree), NEW op \in WalkCalls, NEW raw \in Seq(Segments), NEW content,
         op \in WriteCalls => content \in Contents /\ ~(IsPath(raw) /\ FileAt(StoreOf(tree), Meant(raw))),
         BeginWalk(op, raw, content), tree' = tree
  PROVE  CallOK(call', tree')
<1> DEFINE p == Meant(raw)
           walk == Way(op, p)
           s == StoreOf(tree)
<1>1. /\ IsPath(raw) => NewPath(raw).error = "none" /\ NewPath(raw).components = p
      /\ ~IsPath(raw) => NewPath(raw).error \in {"EmptyPath", "InvalidComponent", "RootEscape"}
  BY NewPathIs
<1>2. Possible(op, raw, s) => IsPath(raw) /\ p # <<>>
  BY PossibleWalk
<1>3. op \in AddCalls \cup RemoveCalls
  BY DEF WalkCalls
<1>4. CASE ~IsPath(raw)
  <2>1. Refuse(op, raw, NewPath(raw).error) /\ NewPath(raw).error \notin {"ok", "interrupted"}
    BY <1>1, <1>4 DEF BeginWalk
  <2> QED
    BY <1>2, <1>3, <1>4, <2>1, Refused
<1>5. CASE IsPath(raw) /\ p = <<>>
  <2>1. Refuse(op, raw, "EmptyPath")
    BY <1>1, <1>5 DEF BeginWalk
  <2> QED
    BY <1>2, <1>3, <1>5, <2>1, Refused
<1>6. CASE IsPath(raw) /\ p # <<>>
  <2>1. Call(op, raw, content, walk, Root, "walking", "ok")
    BY <1>1, <1>6 DEF BeginWalk, Parents, Way
  <2> HIDE DEF walk
  <2>2. /\ IsCall(call') /\ call'.raw \in Seq(Segments) /\ IsStore(call'.before)
        /\ call'.op = op /\ call'.raw = raw /\ call'.stage = "walking" /\ call'.content = content
        /\ call'.todo = walk /\ call'.at = Root /\ call'.before = s /\ call'.path = p
    BY <1>6, <2>1, CallIs
  <2>3. p \in Seq(Names) \ {<<>>}
    BY <1>6, MeantIsPath
  <2>4. /\ walk \in Seq(Names) /\ Len(p) \in Nat \ {0}
        /\ Len(walk) = IF op = "get_or_create_dir_at" THEN Len(p) ELSE Len(p) - 1
    <3> HIDE DEF p
    <3> QED
      BY <2>3, WayIs DEF walk
  <2>5. 0 \in 0..Len(walk) /\ 0 + 1 = 1
    <3>1. Len(walk) \in Nat
      BY <2>4
    <3> QED
      BY <3>1
  <2>6. SubSeq(walk, 0 + 1, Len(walk)) = walk /\ SubSeq(walk, 1, 0) = <<>>
    BY <2>4, <2>5, SubSeqFull, SubSeqEmpty
  <2>7. Made(walk, 0) = {}
    BY DEF Made
  <2>8. IsStore(s) /\ PathAt(tree, Root) = <<>>
    BY StoreOfTree, TreePaths
  <2>9. s = WithMade(s, walk, 0)
    BY <2>7, <2>8 DEF WithMade, IsStore
  <2>10. CameTo(call', tree', walk, 0)
    BY <2>2, <2>6, <2>7, <2>8, <2>9 DEF CameTo, IsDir
  <2>11. OnTheWay(call', tree')
    <3> HIDE DEF s, p
    <3>1. Way(call'.op, Meant(call'.raw)) = walk
      BY <2>2 DEF p, walk
    <3>2. \E n \in 0..Len(walk) : CameTo(call', tree', walk, n)
      BY <2>5, <2>10
    <3>3. call'.op \in WriteCalls => call'.content \in Contents /\ ~FileAt(call'.before, Meant(call'.raw))
      BY <1>6, <2>2 DEF p, s
    <3> QED
      BY <1>6, <2>2, <3>1, <3>2, <3>3 DEF OnTheWay, p
  <2> QED
    BY <1>3, <2>2, <2>11 DEF CallOK
<1> QED
  BY <1>4, <1>5, <1>6

\* Or it is at the item it is about.
LEMMA BeginsAtItem ==
  ASSUME IsTree(tree), NEW op, NEW raw \in Seq(Segments), NEW content, NEW kind, NEW stage,
         Call(op, raw, content, <<>>, GetItemAt(raw), stage, "ok"), tree' = tree, IsPath(raw),
         GetItemAt(raw) \in DOMAIN tree, tree[GetItemAt(raw)].kind = kind,
         PathMap(tree)[GetItemAt(raw)] = Meant(raw)
  PROVE  /\ IsCall(call') /\ call'.raw \in Seq(Segments) /\ IsStore(call'.before) /\ AtItem(call', tree', kind)
         /\ call'.op = op /\ call'.stage = stage /\ call'.content = content
<1>1. /\ IsCall(call') /\ call'.raw \in Seq(Segments) /\ IsStore(call'.before)
      /\ call'.op = op /\ call'.raw = raw /\ call'.stage = stage /\ call'.content = content
      /\ call'.at = GetItemAt(raw) /\ call'.before = StoreOf(tree)
  BY CallIs
<1> QED
  BY <1>1 DEF AtItem

LEMMA WriteBegins ==
  ASSUME IsTree(tree), NEW op \in WriteCalls, NEW raw \in Seq(Segments), NEW content \in Contents,
         BeginWrite(op, raw, content)
  PROVE  CallOK(call', tree')
<1> DEFINE s == StoreOf(tree)
           p == Meant(raw)
           existing == GetFileAt(raw) # {}
<1>1. tree' = tree
  BY DEF BeginWrite
<1>2. /\ existing => /\ IsPath(raw) /\ GetItemAt(raw) \in DOMAIN tree /\ tree[GetItemAt(raw)].kind = "file"
                     /\ PathMap(tree)[GetItemAt(raw)] = p
      /\ ~existing => ~(IsPath(raw) /\ FileAt(s, p))
  BY GetAt
<1>3. IsStore(s) /\ (existing => FileAt(s, p))
  <2>1. existing => p \in DOMAIN s /\ s[p] # "directory"
    BY <1>2, StoreOfTree
  <2> QED
    BY <2>1, StoreOfTree DEF FileAt
<1>4. op \in {"write_file_at", "create_file_at", "update_file_at"} /\ op \in AddCalls \cup RemoveCalls
  BY DEF WriteCalls, AddCalls
<1> HIDE DEF p, s, existing
<1>5. CASE existing /\ op = "create_file_at"
  <2>1. Refuse(op, raw, "FileAlreadyExists")
    BY <1>5 DEF BeginWrite, existing
  <2>2. ~Possible(op, raw, s)
    <3>1. op \in WalkCalls
      BY <1>5 DEF WalkCalls, AddCalls
    <3>2. ~Fillable(op, p, s)
      BY <1>3, <1>5 DEF Fillable, FileAt
    <3> QED
      BY <3>1, <3>2, PossibleWalk DEF p
  <2> QED
    BY <1>1, <1>4, <2>1, <2>2, Refused DEF s
<1>6. CASE ~existing /\ op = "update_file_at"
  <2>1. Refuse(op, raw, "FileNotFound")
    BY <1>6 DEF BeginWrite, existing
  <2>2. ~Possible(op, raw, s)
    <3>1. Possible(op, raw, s) => IsPath(raw)
      BY DEF Possible
    <3>2. IsPath(raw) => ~Possible(op, raw, s)
      BY <1>2, <1>3, <1>6, PossibleThere DEF FileAt, IsStore, p
    <3> QED
      BY <3>1, <3>2
  <2> QED
    BY <1>1, <1>4, <2>1, <2>2, Refused DEF s
<1>7. CASE existing /\ op # "create_file_at"
  <2>1. Call(op, raw, content, <<>>, GetItemAt(raw), "replacing", "ok")
    BY <1>7 DEF BeginWrite, existing
  <2>2. /\ IsCall(call') /\ call'.raw \in Seq(Segments) /\ IsStore(call'.before) /\ AtItem(call', tree', "file")
        /\ call'.op = op /\ call'.stage = "replacing" /\ call'.content = content
    BY <1>1, <1>2, <1>7, <2>1, BeginsAtItem DEF p
  <2> QED
    BY <1>4, <1>7, <2>2 DEF CallOK
<1>8. CASE ~existing /\ op # "update_file_at"
  <2>1. BeginWalk(op, raw, content)
    BY <1>8 DEF BeginWrite, existing
  <2>2. op \in WalkCalls
    BY <1>4, <1>8 DEF WalkCalls, AddCalls, WriteCalls
  <2> QED
    BY <1>1, <1>2, <1>8, <2>1, <2>2, WalkBegins DEF p, s
<1> QED
  BY <1>5, <1>6, <1>7, <1>8

LEMMA RemoveBegins ==
  ASSUME IsTree(tree), NEW op \in RemoveCalls, NEW raw \in Seq(Segments), BeginRemove(op, raw)
  PROVE  CallOK(call', tree')
<1> DEFINE s == StoreOf(tree)
           p == Meant(raw)
           found == IF op = "remove_dir_at" THEN GetDirAt(raw) ELSE GetFileAt(raw)
           x == GetItemAt(raw)
<1>1. tree' = tree /\ op \in {"remove_dir_at", "remove_file_at"} /\ op \in AddCalls \cup RemoveCalls
  BY DEF BeginRemove, RemoveCalls
<1>2. /\ found # {} => /\ IsPath(raw) /\ x \in DOMAIN tree /\ PathMap(tree)[x] = p
                       /\ tree[x].kind = IF op = "remove_dir_at" THEN "dir" ELSE "file"
      /\ found = {} => /\ op = "remove_dir_at" => ~(IsPath(raw) /\ p \in DOMAIN s /\ s[p] = "directory")
                       /\ op = "remove_file_at" => ~(IsPath(raw) /\ FileAt(s, p))
  BY <1>1, GetAt
<1>3. IF found = {} THEN Refuse(op, raw, "NotFound") ELSE Call(op, raw, Damaged, <<>>, x, "removing", "ok")
  BY DEF BeginRemove
<1> HIDE DEF p, s, found, x
<1>4. CASE found = {}
  <2>1. Refuse(op, raw, "NotFound")
    BY <1>3, <1>4
  <2>2. ~Possible(op, raw, s)
    <3>1. Possible(op, raw, s) => IsPath(raw)
      BY DEF Possible
    <3>2. StoreOK(s)
      BY StoreOfTree DEF s, IsStore
    <3>3. IsPath(raw) => ~Possible(op, raw, s)
      BY <1>1, <1>2, <1>4, <3>2, PossibleThere DEF FileAt, p
    <3> QED
      BY <3>1, <3>3
  <2> QED
    BY <1>1, <2>1, <2>2, Refused DEF s
<1>5. CASE found # {}
  <2> DEFINE kind == IF op = "remove_dir_at" THEN "dir" ELSE "file"
  <2>1. Call(op, raw, Damaged, <<>>, x, "removing", "ok") /\ tree[x].kind = kind
    BY <1>2, <1>3, <1>5
  <2> HIDE DEF kind
  <2>2. /\ IsCall(call') /\ call'.raw \in Seq(Segments) /\ IsStore(call'.before) /\ AtItem(call', tree', kind)
        /\ call'.op = op /\ call'.stage = "removing"
    BY <1>1, <1>2, <1>5, <2>1, BeginsAtItem DEF p, x
  <2> QED
    BY <1>1, <2>2 DEF CallOK, kind
<1> QED
  BY <1>4, <1>5

\* What a step of a call and its end change of it.
LEMMA StepIs ==
  ASSUME IsCall(call), NEW dir, StepInto(dir)
  PROVE  /\ IsCall(call') /\ call'.op = call.op /\ call'.raw = call.raw /\ call'.path = call.path
         /\ call'.content = call.content /\ call'.stage = call.stage /\ call'.before = call.before
         /\ call'.at = dir /\ call'.todo = Tail(call.todo)
<1> DEFINE r == [op |-> call.op, raw |-> call.raw, path |-> call.path, content |-> call.content,
                 todo |-> Tail(call.todo), at |-> dir, stage |-> call.stage, result |-> call.result,
                 before |-> call.before]
<1>1. call' = r
  BY DEF IsCall, StepInto
<1> QED
  BY <1>1 DEF IsCall

LEMMA ReturnIs ==
  ASSUME IsCall(call), NEW result, Return(result)
  PROVE  /\ IsCall(call') /\ call'.op = call.op /\ call'.raw = call.raw /\ call'.path = call.path
         /\ call'.content = call.content /\ call'.before = call.before
         /\ call'.stage = "returned" /\ call'.result = result
<1> DEFINE r == [op |-> call.op, raw |-> call.raw, path |-> call.path, content |-> call.content,
                 todo |-> call.todo, at |-> call.at, stage |-> "returned", result |-> result,
                 before |-> call.before]
<1>1. call' = r
  BY DEF IsCall, Return
<1> QED
  BY <1>1 DEF IsCall

\* A call that ends, having done all or nothing.
LEMMA Ended ==
  ASSUME CallOK(call, tree), NEW result, result # "interrupted", Return(result),
         IF Possible(call.op, call.raw, call.before)
         THEN result = "ok" /\ StoreOf(tree') = After(call.op, Meant(call.raw), call.content, call.before)
         ELSE result # "ok" /\ StoreOf(tree') = call.before
  PROVE  CallOK(call', tree')
<1>1. IsCall(call) /\ call.op \in AddCalls \cup RemoveCalls /\ call.raw \in Seq(Segments) /\ IsStore(call.before)
  BY DEF CallOK
<1>2. /\ IsCall(call') /\ call'.op = call.op /\ call'.raw = call.raw /\ call'.content = call.content
      /\ call'.before = call.before /\ call'.stage = "returned" /\ call'.result = result
  BY <1>1, ReturnIs
<1>3. AllDone(call', StoreOf(tree'))
  BY <1>2 DEF AllDone
<1>4. Over(call', tree')
  BY <1>2, <1>3 DEF Over
<1> QED
  BY <1>1, <1>2, <1>4 DEF CallOK

\* One step on the way, by path.
LEMMA MadeNext ==
  ASSUME NEW s, NEW walk, NEW n \in Nat \ {0}
  PROVE  LET q == SubSeq(walk, 1, n)
             t == WithMade(s, walk, n - 1)
         IN /\ Made(walk, n) = Made(walk, n - 1) \cup {q}
            /\ q \in DOMAIN t /\ t[q] = "directory" =>
                 WithMade(s, walk, n) = t /\ (q \in DOMAIN s => s[q] = "directory")
            /\ q \notin DOMAIN t =>
                 /\ q \notin DOMAIN s
                 /\ WithMade(s, walk, n) = WithPath(t, q, "directory")
            /\ q \in DOMAIN t /\ t[q] # "directory" => q \in DOMAIN s /\ s[q] # "directory"
<1> DEFINE q == SubSeq(walk, 1, n)
           m == Made(walk, n - 1)
           t == WithMade(s, walk, n - 1)
           u == WithMade(s, walk, n)
           new == [x \in DOMAIN t \cup {q} |-> IF x = q THEN "directory" ELSE t[x]]
<1>1. Made(walk, n) = m \cup {q}
  <2>1. 1..n = (1..n - 1) \cup {n}
    OBVIOUS
  <2> QED
    BY <2>1 DEF Made
<1>2. /\ t = [x \in DOMAIN s \cup m |-> IF x \in DOMAIN s THEN s[x] ELSE "directory"]
      /\ u = [x \in DOMAIN s \cup (m \cup {q}) |-> IF x \in DOMAIN s THEN s[x] ELSE "directory"]
  BY <1>1 DEF WithMade
<1> HIDE DEF q, m, t, u
<1>3. q \in DOMAIN t /\ t[q] = "directory" => u = t /\ (q \in DOMAIN s => s[q] = "directory")
  <2> SUFFICES ASSUME q \in DOMAIN t, t[q] = "directory" PROVE u = t /\ (q \in DOMAIN s => s[q] = "directory")
    OBVIOUS
  <2>1. q \in DOMAIN s \cup m
    BY <1>2
  <2>2. DOMAIN s \cup (m \cup {q}) = DOMAIN s \cup m
    BY <2>1
  <2> QED
    BY <1>2, <2>2
<1>4. q \notin DOMAIN t => q \notin DOMAIN s /\ u = new
  <2> SUFFICES ASSUME q \notin DOMAIN t PROVE q \notin DOMAIN s /\ u = new
    OBVIOUS
  <2>1. DOMAIN t = DOMAIN s \cup m /\ q \notin DOMAIN s
    BY <1>2
  <2>2. DOMAIN u = DOMAIN new /\ u = [x \in DOMAIN u |-> u[x]] /\ new = [x \in DOMAIN new |-> new[x]]
    BY <1>2, <2>1
  <2>3. ASSUME NEW x \in DOMAIN u PROVE u[x] = new[x]
    BY <1>2, <2>1
  <2> HIDE DEF new
  <2> QED
    BY <2>1, <2>2, <2>3
<1>5. q \in DOMAIN t /\ t[q] # "directory" => q \in DOMAIN s /\ s[q] # "directory"
  BY <1>2
<1> QED
  BY <1>1, <1>3, <1>4, <1>5 DEF q, m, t, u, WithPath

\* What is ahead of a call on its way.
LEMMA AheadIs ==
  ASSUME IsTree(tree), CallOK(call, tree), Walking
  PROVE  LET walk == Way(call.op, Meant(call.raw))
         IN /\ OnTheWay(call, tree) /\ walk \in Seq(Names) /\ Meant(call.raw) \in Seq(Names) \ {<<>>}
            /\ \E n \in 1..Len(walk) :
                 /\ CameTo(call, tree, walk, n - 1) /\ n - 1 \in 0..Len(walk)
                 /\ Tail(call.todo) = SubSeq(walk, n + 1, Len(walk))
                 /\ Head(call.todo) \in Names
                 /\ SubSeq(walk, 1, n) = Append(PathAt(tree, call.at), Head(call.todo))
                 /\ Ahead = {x \in DOMAIN tree : PathMap(tree)[x] = SubSeq(walk, 1, n)}
<1> DEFINE p == Meant(call.raw)
           walk == Way(call.op, p)
<1>1. OnTheWay(call, tree) /\ call.raw \in Seq(Segments)
  BY DEF CallOK, Walking
<1>2. p \in Seq(Names) \ {<<>>}
  BY <1>1, MeantIsPath DEF OnTheWay
<1>3. walk \in Seq(Names)
  <2> HIDE DEF p
  <2> QED
    BY <1>2, WayIs
<1>4. PICK m \in 0..Len(walk) : CameTo(call, tree, walk, m)
  BY <1>1 DEF OnTheWay
<1> HIDE DEF walk, p
<1> DEFINE n == m + 1
           q == SubSeq(walk, 1, n)
           h == Head(call.todo)
           a == PathAt(tree, call.at)
<1>5. /\ call.todo = SubSeq(walk, m + 1, Len(walk)) /\ a = SubSeq(walk, 1, m)
      /\ call.at \in DOMAIN tree \cup {Root}
  BY <1>4 DEF CameTo, IsDir
<1>6. call.todo # <<>>
  BY DEF Walking
<1>7. n \in 1..Len(walk) /\ h = walk[n] /\ Tail(call.todo) = SubSeq(walk, m + 2, Len(walk))
  BY <1>3, <1>5, <1>6, RestOfWay
<1>8. m \in Nat /\ n - 1 = m /\ n + 1 = m + 2
  BY <1>7
<1>9. h \in Names /\ q = Append(a, h)
  <2>1. walk[n] \in Names /\ SubSeq(walk, 1, n) = Append(SubSeq(walk, 1, n - 1), walk[n])
    BY <1>3, <1>7, NextStart
  <2> QED
    BY <1>5, <1>7, <1>8, <2>1
<1>10. Ahead = {x \in DOMAIN tree : PathAt(tree, x) = Append(a, h)}
  BY <1>5, <1>9, FoundByPath DEF Ahead
<1>11. \A x \in DOMAIN tree : PathAt(tree, x) = PathMap(tree)[x]
  BY TreePaths
<1>12. Ahead = {x \in DOMAIN tree : PathMap(tree)[x] = q}
  BY <1>9, <1>10, <1>11
<1>13. /\ CameTo(call, tree, walk, n - 1) /\ n - 1 \in 0..Len(walk)
       /\ Tail(call.todo) = SubSeq(walk, n + 1, Len(walk))
  BY <1>4, <1>7, <1>8
<1> HIDE DEF n
<1> QED
  BY <1>1, <1>2, <1>3, <1>7, <1>9, <1>12, <1>13 DEF walk, p

\* It has come one directory further.
LEMMA StepOnTheWay ==
  ASSUME IsTree(tree), CallOK(call, tree), Walking, NEW dir, StepInto(dir),
         NEW n \in 1..Len(Way(call.op, Meant(call.raw))), n \in 0..Len(Way(call.op, Meant(call.raw))),
         Tail(call.todo) = SubSeq(Way(call.op, Meant(call.raw)), n + 1, Len(Way(call.op, Meant(call.raw)))),
         IsDir(tree', dir), PathAt(tree', dir) = SubSeq(Way(call.op, Meant(call.raw)), 1, n),
         \A q \in Made(Way(call.op, Meant(call.raw)), n) \cap DOMAIN call.before : call.before[q] = "directory",
         StoreOf(tree') = WithMade(call.before, Way(call.op, Meant(call.raw)), n)
  PROVE  CallOK(call', tree')
<1> DEFINE walk == Way(call.op, Meant(call.raw))
<1>1. /\ IsCall(call) /\ call.op \in AddCalls \cup RemoveCalls /\ call.raw \in Seq(Segments) /\ IsStore(call.before)
      /\ call.stage = "walking" /\ OnTheWay(call, tree)
  BY DEF CallOK, Walking
<1>2. /\ IsCall(call') /\ call'.op = call.op /\ call'.raw = call.raw /\ call'.path = call.path
      /\ call'.content = call.content /\ call'.stage = call.stage /\ call'.before = call.before
      /\ call'.at = dir /\ call'.todo = Tail(call.todo)
  BY <1>1, StepIs
<1>3. Way(call'.op, Meant(call'.raw)) = walk
  BY <1>2
<1> HIDE DEF walk
<1>4. CameTo(call', tree', walk, n)
  BY <1>2 DEF CameTo, walk
<1>5. \E m \in 0..Len(walk) : CameTo(call', tree', walk, m)
  BY <1>4 DEF walk
<1>6. OnTheWay(call', tree')
  BY <1>1, <1>2, <1>3, <1>5 DEF OnTheWay
<1> QED
  BY <1>1, <1>2, <1>6 DEF CallOK

LEMMA WalkIntoKeeps ==
  ASSUME IsTree(tree), CallOK(call, tree), WalkInto
  PROVE  CallOK(call', tree')
<1> DEFINE walk == Way(call.op, Meant(call.raw))
           s == call.before
<1>1. Walking /\ tree' = tree
  BY DEF WalkInto
<1>2. PICK n \in 1..Len(walk) :
        /\ CameTo(call, tree, walk, n - 1) /\ n - 1 \in 0..Len(walk)
        /\ Tail(call.todo) = SubSeq(walk, n + 1, Len(walk))
        /\ Ahead = {x \in DOMAIN tree : PathMap(tree)[x] = SubSeq(walk, 1, n)}
  BY <1>1, AheadIs
<1>3. PICK dir \in Ahead \cap DirIds : StepInto(dir)
  BY DEF WalkInto
<1> DEFINE q == SubSeq(walk, 1, n)
<1>4. walk \in Seq(Names) /\ Len(walk) \in Nat
  BY <1>1, AheadIs, LenProperties
<1> HIDE DEF walk
<1>5. n \in Nat \ {0} /\ n \in 0..Len(walk)
  BY <1>4
<1>6. dir \in DOMAIN tree /\ tree[dir].kind = "dir" /\ PathMap(tree)[dir] = q
  BY <1>2, <1>3 DEF DirIds
<1>7. q \in DOMAIN StoreOf(tree) /\ StoreOf(tree)[q] = "directory"
  BY <1>6, StoreOfTree
<1>8. StoreOf(tree) = WithMade(s, walk, n - 1) /\ \A r \in Made(walk, n - 1) \cap DOMAIN s : s[r] = "directory"
  BY <1>2 DEF CameTo
<1>9. /\ Made(walk, n) = Made(walk, n - 1) \cup {q}
      /\ WithMade(s, walk, n) = StoreOf(tree) /\ (q \in DOMAIN s => s[q] = "directory")
  <2>1. q \in DOMAIN WithMade(s, walk, n - 1) /\ WithMade(s, walk, n - 1)[q] = "directory"
    BY <1>7, <1>8
  <2> QED
    BY <1>5, <1>8, <2>1, MadeNext
<1>10. IsDir(tree', dir) /\ PathAt(tree', dir) = q
  BY <1>1, <1>6, TreePaths DEF IsDir
<1>11. \A r \in Made(walk, n) \cap DOMAIN s : s[r] = "directory"
  BY <1>8, <1>9
<1> QED
  BY <1>1, <1>2, <1>3, <1>5, <1>9, <1>10, <1>11, StepOnTheWay DEF walk

\* What making an item does, by path.
LEMMA Created ==
  ASSUME IsTree(tree), NEW id \in Ids, NEW item \in Dirs \cup Files, Create(id, item),
         NEW p, p = Append(PathAt(tree, item.parent_dir), item.name)
  PROVE  /\ IsTree(tree') /\ p \in Seq(Names) \ {<<>>} /\ p \notin DOMAIN StoreOf(tree)
         /\ id \in DOMAIN tree' /\ tree'[id] = item /\ PathMap(tree')[id] = p
         /\ StoreOf(tree') = WithPath(StoreOf(tree), p, ValueOf(item))
<1> DEFINE u == WithItem(tree, id, item)
           a == Append(PathAt(tree, item.parent_dir), item.name)
<1>1. /\ tree' = u /\ id \notin DOMAIN tree
      /\ item.parent_dir # Root => item.parent_dir \in DOMAIN tree /\ tree[item.parent_dir].kind = "dir"
      /\ \A x \in DOMAIN tree : tree[x].parent_dir = item.parent_dir => tree[x].name # item.name
  BY CreateIs
<1>2. /\ IsTree(u) /\ a \in Seq(Names) \ {<<>>} /\ a \notin DOMAIN StoreOf(tree)
      /\ PathMap(u)[id] = a /\ StoreOf(u) = WithPath(StoreOf(tree), a, ValueOf(item))
  BY <1>1, AddingAnItem
<1>3. id \in DOMAIN u /\ u[id] = item
  BY DEF WithItem
<1> HIDE DEF u, a
<1>4. a = p
  BY DEF a
<1> QED
  BY <1>1, <1>2, <1>3, <1>4

LEMMA WalkMakesKeeps ==
  ASSUME IsTree(tree), CallOK(call, tree), WalkMakes
  PROVE  CallOK(call', tree') /\ IsTree(tree')
<1> DEFINE walk == Way(call.op, Meant(call.raw))
           s == call.before
           item == [kind |-> "dir", parent_dir |-> call.at, name |-> Head(call.todo)]
<1>1. Walking /\ Ahead = {}
  BY DEF WalkMakes
<1>2. PICK n \in 1..Len(walk) :
        /\ CameTo(call, tree, walk, n - 1) /\ n - 1 \in 0..Len(walk)
        /\ Tail(call.todo) = SubSeq(walk, n + 1, Len(walk))
        /\ Head(call.todo) \in Names
        /\ SubSeq(walk, 1, n) = Append(PathAt(tree, call.at), Head(call.todo))
  BY <1>1, AheadIs
<1>3. PICK id \in Ids : Create(id, item) /\ StepInto(id)
  BY DEF WalkMakes
<1> DEFINE q == SubSeq(walk, 1, n)
<1>4. walk \in Seq(Names) /\ Len(walk) \in Nat
  BY <1>1, AheadIs, LenProperties
<1> HIDE DEF walk
<1>5. n \in Nat \ {0} /\ n \in 0..Len(walk)
  BY <1>4
<1>6. IsDir(tree, call.at) /\ StoreOf(tree) = WithMade(s, walk, n - 1)
      /\ \A r \in Made(walk, n - 1) \cap DOMAIN s : s[r] = "directory"
  BY <1>2 DEF CameTo
<1>7. item \in Dirs \cup Files
  <2>1. call.at \in Ids \cup {Root}
    BY <1>6, ItemsHave DEF IsDir, IsTree
  <2> QED
    BY <1>2, <2>1 DEF Dirs
<1>8. item.kind = "dir" /\ item.parent_dir = call.at /\ item.name = Head(call.todo)
  OBVIOUS
<1> HIDE DEF item
<1>9. q = Append(PathAt(tree, item.parent_dir), item.name)
  BY <1>2, <1>8
<1> HIDE DEF q
<1>10. /\ IsTree(tree') /\ q \notin DOMAIN StoreOf(tree)
       /\ id \in DOMAIN tree' /\ tree'[id] = item /\ PathMap(tree')[id] = q
       /\ StoreOf(tree') = WithPath(StoreOf(tree), q, ValueOf(item))
  BY <1>3, <1>7, <1>9, Created
<1>11. ValueOf(item) = "directory"
  BY <1>8 DEF ValueOf
<1>12. /\ Made(walk, n) = Made(walk, n - 1) \cup {q} /\ q \notin DOMAIN s
       /\ WithMade(s, walk, n) = WithPath(StoreOf(tree), q, "directory")
  <2> DEFINE t == WithMade(s, walk, n - 1)
  <2>1. q \notin DOMAIN t /\ t = StoreOf(tree)
    BY <1>6, <1>10
  <2>2. /\ Made(walk, n) = Made(walk, n - 1) \cup {q}
        /\ q \notin DOMAIN t =>
             /\ q \notin DOMAIN s
             /\ WithMade(s, walk, n) = WithPath(t, q, "directory")
    BY <1>5, MadeNext DEF q
  <2> HIDE DEF t
  <2> QED
    BY <2>1, <2>2
<1>13. IsDir(tree', id) /\ PathAt(tree', id) = q
  <2>1. id # Root
    BY IdsAssumption
  <2> QED
    BY <1>8, <1>10, <2>1 DEF IsDir, PathAt
<1>14. StoreOf(tree') = WithMade(s, walk, n)
  BY <1>10, <1>11, <1>12
<1>15. \A r \in Made(walk, n) \cap DOMAIN s : s[r] = "directory"
  BY <1>6, <1>12
<1> QED
  BY <1>1, <1>2, <1>3, <1>5, <1>10, <1>13, <1>14, <1>15, StepOnTheWay DEF walk, q

LEMMA WalkCollidesKeeps ==
  ASSUME IsTree(tree), CallOK(call, tree), WalkCollides
  PROVE  CallOK(call', tree')
<1> DEFINE p == Meant(call.raw)
           walk == Way(call.op, p)
           s == call.before
<1>1. Walking /\ tree' = tree /\ Return("FileCollision")
  BY DEF WalkCollides
<1>2. PICK n \in 1..Len(walk) :
        /\ CameTo(call, tree, walk, n - 1) /\ n - 1 \in 0..Len(walk)
        /\ Ahead = {x \in DOMAIN tree : PathMap(tree)[x] = SubSeq(walk, 1, n)}
  BY <1>1, AheadIs
<1> DEFINE q == SubSeq(walk, 1, n)
           made == Made(walk, n - 1)
<1>3. /\ p \in Seq(Names) \ {<<>>} /\ OnTheWay(call, tree)
      /\ call.raw \in Seq(Segments) /\ IsStore(s)
  BY <1>1, AheadIs DEF CallOK
<1>4. /\ StoreOf(tree) = WithMade(s, walk, n - 1)
      /\ \A r \in made \cap DOMAIN s : s[r] = "directory"
  BY <1>2 DEF CameTo
<1>5. q \in DOMAIN s /\ s[q] # "directory"
  <2>1. PICK x \in Ahead \ DirIds : TRUE
    BY DEF WalkCollides
  <2>2. x \in DOMAIN tree /\ tree[x].kind # "dir" /\ PathMap(tree)[x] = q
    BY <1>2, <2>1 DEF DirIds
  <2>3. q \in DOMAIN StoreOf(tree) /\ StoreOf(tree)[q] # "directory"
    BY <2>2, StoreOfTree
  <2>4. n \in Nat \ {0}
    OBVIOUS
  <2>5. q \in DOMAIN WithMade(s, walk, n - 1) /\ WithMade(s, walk, n - 1)[q] # "directory"
    BY <1>4, <2>3
  <2> HIDE DEF walk
  <2> QED
    BY <2>4, <2>5, MadeNext
<1>6. q \in Above(p) \/ (call.op = "get_or_create_dir_at" /\ q = p)
  <2>1. n \in 0..Len(walk) /\ q \in Made(walk, n)
    BY DEF Made
  <2> HIDE DEF q, p
  <2> QED
    BY <1>3, <2>1, OnlyAbove
<1>7. call.op \in WalkCalls /\ IsPath(call.raw) /\ p # <<>>
  BY <1>3 DEF OnTheWay
<1>8. ~Possible(call.op, call.raw, s)
  <2>1. q \in Above(p) => \E r \in Above(p) \cap DOMAIN s : s[r] # "directory"
    BY <1>5
  <2>2. call.op = "get_or_create_dir_at" /\ q = p => ~Fillable(call.op, p, s)
    BY <1>5 DEF Fillable
  <2> QED
    BY <1>6, <1>7, <2>1, <2>2, PossibleWalk
<1>9. WithMade(s, walk, n - 1) = s
  BY <1>2, <1>3, <1>4, <1>7, <1>8, NothingMade DEF IsStore
<1> QED
  BY <1>1, <1>4, <1>8, <1>9, Ended

-----------------------------------------------------------------------------
\* At the end of the way.
LEMMA ArrivedIs ==
  ASSUME IsTree(tree), CallOK(call, tree), Arrived
  PROVE  LET p == Meant(call.raw)
             walk == Way(call.op, p)
         IN /\ OnTheWay(call, tree) /\ p \in Seq(Names) \ {<<>>} /\ CameTo(call, tree, walk, Len(walk))
            /\ Len(walk) \in 0..Len(walk) /\ walk \in Seq(Names) /\ PathAt(tree, call.at) = walk
            /\ IsPath(call.raw) /\ call.op \in WalkCalls /\ IsStore(call.before)
<1> DEFINE p == Meant(call.raw)
           walk == Way(call.op, p)
<1>1. OnTheWay(call, tree) /\ call.raw \in Seq(Segments) /\ IsStore(call.before)
  BY DEF CallOK, Arrived
<1>2. p \in Seq(Names) \ {<<>>}
  BY <1>1, MeantIsPath DEF OnTheWay
<1>3. walk \in Seq(Names)
  <2> HIDE DEF p
  <2> QED
    BY <1>2, WayIs
<1>4. PICK n \in 0..Len(walk) : CameTo(call, tree, walk, n)
  BY <1>1 DEF OnTheWay
<1> HIDE DEF walk, p
<1>5. SubSeq(walk, n + 1, Len(walk)) = <<>>
  BY <1>4 DEF CameTo, Arrived
<1>6. n = Len(walk)
  BY <1>3, <1>5, RestOfWay
<1>7. SubSeq(walk, 1, Len(walk)) = walk
  BY <1>3, SubSeqFull
<1>8. PathAt(tree, call.at) = walk
  BY <1>4, <1>6, <1>7 DEF CameTo
<1> QED
  BY <1>1, <1>2, <1>3, <1>4, <1>6, <1>8 DEF OnTheWay, walk, p

LEMMA WalkEnds ==
  ASSUME NEW op \in WalkCalls, NEW p \in Seq(Names) \ {<<>>}, NEW s, NEW content,
         NEW walk, walk = Way(op, p), NEW t, t = WithMade(s, walk, Len(walk)),
         \A q \in Made(walk, Len(walk)) \cap DOMAIN s : s[q] = "directory"
  PROVE  /\ \A q \in Above(p) \cap DOMAIN s : s[q] = "directory"
         /\ op = "get_or_create_dir_at" =>
              t = After(op, p, content, s) /\ (p \in DOMAIN s => s[p] = "directory")
         /\ op # "get_or_create_dir_at" /\ p \notin DOMAIN t =>
              WithPath(t, p, AddedBy(op, content)) = After(op, p, content, s)
<1>1. \A q \in Made(Way(op, p), Len(Way(op, p))) \cap DOMAIN s : s[q] = "directory"
  OBVIOUS
<1>2. LET u == WithMade(s, Way(op, p), Len(Way(op, p)))
      IN /\ \A q \in Above(p) \cap DOMAIN s : s[q] = "directory"
         /\ p \in DOMAIN s /\ op = "get_or_create_dir_at" => s[p] = "directory"
         /\ op = "get_or_create_dir_at" => u = After(op, p, content, s)
         /\ op # "get_or_create_dir_at" /\ p \notin DOMAIN u =>
              WithPath(u, p, AddedBy(op, content)) = After(op, p, content, s)
  BY <1>1, WalkToTheEnd
<1> QED
  BY <1>2

LEMMA GotDirKeeps ==
  ASSUME IsTree(tree), CallOK(call, tree), GotDir
  PROVE  CallOK(call', tree')
<1> DEFINE p == Meant(call.raw)
           walk == Way(call.op, p)
           s == call.before
<1>1. Arrived /\ call.op = "get_or_create_dir_at" /\ Return("ok") /\ tree' = tree
  BY DEF GotDir
<1>2. /\ p \in Seq(Names) \ {<<>>} /\ CameTo(call, tree, walk, Len(walk))
      /\ IsPath(call.raw) /\ call.op \in WalkCalls /\ IsStore(s)
  BY <1>1, ArrivedIs
<1>3. /\ StoreOf(tree) = WithMade(s, walk, Len(walk))
      /\ \A r \in Made(walk, Len(walk)) \cap DOMAIN s : s[r] = "directory"
  BY <1>2 DEF CameTo
<1> HIDE DEF p
<1>4. /\ \A q \in Above(p) \cap DOMAIN s : s[q] = "directory"
      /\ p \in DOMAIN s => s[p] = "directory"
      /\ StoreOf(tree) = After(call.op, p, call.content, s)
  <2> DEFINE t == WithMade(s, walk, Len(walk))
  <2> HIDE DEF t
  <2>1. walk = Way(call.op, p) /\ t = WithMade(s, walk, Len(walk)) /\ t = StoreOf(tree)
    BY <1>3 DEF t
  <2> HIDE DEF walk, s
  <2> QED
    BY <1>1, <1>2, <1>3, <2>1, WalkEnds
<1>5. Possible(call.op, call.raw, s)
  <2>1. Fillable(call.op, p, s)
    BY <1>1, <1>4 DEF Fillable
  <2> QED
    BY <1>2, <1>4, <2>1, PossibleWalk DEF p
<1> QED
  BY <1>1, <1>4, <1>5, Ended DEF p

LEMMA MakeItemKeeps ==
  ASSUME IsTree(tree), CallOK(call, tree), MakeItem
  PROVE  CallOK(call', tree') /\ IsTree(tree')
<1> DEFINE p == Meant(call.raw)
           walk == Way(call.op, p)
           s == call.before
           t == StoreOf(tree)
           name == Last(p)
           item == NewItem
<1>1. Arrived /\ call.op # "get_or_create_dir_at"
  BY DEF MakeItem
<1>2. /\ p \in Seq(Names) \ {<<>>} /\ CameTo(call, tree, walk, Len(walk)) /\ PathAt(tree, call.at) = walk
      /\ IsPath(call.raw) /\ call.op \in WalkCalls /\ IsStore(s) /\ OnTheWay(call, tree)
      /\ Len(walk) \in 0..Len(walk)
  BY <1>1, ArrivedIs
<1>3. /\ IsDir(tree, call.at) /\ t = WithMade(s, walk, Len(walk))
      /\ \A r \in Made(walk, Len(walk)) \cap DOMAIN s : s[r] = "directory"
  BY <1>2 DEF CameTo
<1>4. call.path = p /\ (call.op \in WriteCalls => call.content \in Contents /\ ~FileAt(s, p))
  BY <1>2 DEF OnTheWay
<1>5. /\ call.raw \in Seq(Segments)
      /\ NameIsFree(call.at, name) => (\E id \in Ids : Create(id, item)) /\ Return("ok")
      /\ ~NameIsFree(call.at, name) => Return("DuplicateName") /\ tree' = tree
  BY <1>4 DEF CallOK, MakeItem
<1>6. /\ item.parent_dir = call.at /\ item.name = name
      /\ ValueOf(item) = AddedBy(call.op, call.content)
      /\ call.at \in Ids \cup {Root} /\ name \in Names => item \in Dirs \cup Files
  <2>1. call.op \notin DirCalls => call.op \in WriteCalls
    BY <1>2 DEF WalkCalls, AddCalls
  <2>2. CASE call.op \in DirCalls
    BY <1>4, <2>2 DEF NewItem, ValueOf, AddedBy, Dirs
  <2>3. CASE call.op \notin DirCalls
    BY <1>4, <2>1, <2>3 DEF NewItem, ValueOf, AddedBy, Files
  <2> QED
    BY <2>2, <2>3
<1> HIDE DEF item
<1>7. walk \in Seq(Names) /\ p = Append(walk, name) /\ name \in Names
  <2> HIDE DEF p
  <2>1. walk = Front(p)
    BY <1>1 DEF Way
  <2> QED
    BY <1>2, <2>1, LastAppended
<1> HIDE DEF name
<1>8. p \notin Made(walk, Len(walk)) /\ \A r \in Made(walk, Len(walk)) : r \in Above(p)
  <2> HIDE DEF p
  <2>1. \A r \in Made(walk, Len(walk)) : r \in Above(p)
    BY <1>1, <1>2, OnlyAbove
  <2> QED
    BY <1>2, <2>1, MadeSteps
<1>9. DOMAIN t = DOMAIN s \cup Made(walk, Len(walk))
  BY <1>3 DEF WithMade
<1> HIDE DEF p, walk, t
<1>10. call.at \in DOMAIN tree \cup {Root} /\ call.at \in Ids \cup {Root} /\ call.at \in DirIds \cup {Root}
  BY <1>3, ItemsHave DEF IsDir, IsTree, DirIds
<1>11. NameIsFree(call.at, name) <=> Found(call.at, name) = {}
  BY <1>10 DEF NameIsFree, Found
<1>12. CASE NameIsFree(call.at, name)
  <2>1. PICK id \in Ids : Create(id, item)
    BY <1>5, <1>12
  <2>2. p = Append(PathAt(tree, item.parent_dir), item.name)
    BY <1>2, <1>6, <1>7
  <2>3. item \in Dirs \cup Files
    BY <1>6, <1>7, <1>10
  <2>4. IsTree(tree') /\ p \notin DOMAIN StoreOf(tree) /\ StoreOf(tree') = WithPath(StoreOf(tree), p, ValueOf(item))
    BY <2>1, <2>2, <2>3, Created
  <2>5. /\ \A q \in Above(p) \cap DOMAIN s : s[q] = "directory"
        /\ p \notin DOMAIN t => WithPath(t, p, AddedBy(call.op, call.content)) = After(call.op, p, call.content, s)
    <3> HIDE DEF s
    <3>1. walk = Way(call.op, p)
      BY DEF walk
    <3> QED
      BY <1>1, <1>2, <1>3, <3>1, WalkEnds
  <2>6. StoreOf(tree') = After(call.op, p, call.content, s)
    BY <1>6, <2>4, <2>5 DEF t
  <2>7. p \notin DOMAIN s
    BY <1>9, <2>4 DEF t
  <2>8. Possible(call.op, call.raw, s)
    <3>1. Fillable(call.op, p, s)
      BY <1>1, <2>7 DEF Fillable
    <3> QED
      BY <1>2, <2>5, <3>1, PossibleWalk DEF p
  <2> QED
    BY <1>5, <1>12, <2>4, <2>6, <2>8, Ended DEF p
<1>13. CASE ~NameIsFree(call.at, name)
  <2>1. Found(call.at, name) # {}
    BY <1>11, <1>13
  <2>2. \E x \in DOMAIN tree : PathMap(tree)[x] = p
    <3>1. Found(call.at, name) = {x \in DOMAIN tree : PathAt(tree, x) = Append(PathAt(tree, call.at), name)}
      BY <1>7, <1>10, FoundByPath
    <3>2. PICK x \in DOMAIN tree : PathAt(tree, x) = Append(PathAt(tree, call.at), name)
      BY <2>1, <3>1
    <3>3. PathAt(tree, x) = p
      BY <1>2, <1>7, <3>2
    <3>4. PathAt(tree, x) = PathMap(tree)[x]
      BY TreePaths
    <3> QED
      BY <3>3, <3>4
  <2>3. p \in DOMAIN t
    BY <2>2, StoreOfTree DEF t
  <2>4. p \in DOMAIN s
    BY <1>8, <1>9, <2>3
  <2>5. ~Fillable(call.op, p, s)
    <3>1. \/ call.op \in {"create_dir_at", "create_file_at"}
          \/ call.op = "write_file_at" /\ s[p] = "directory"
      <4>1. call.op \in {"create_dir_at", "create_file_at", "write_file_at"}
        BY <1>1, <1>2 DEF WalkCalls, AddCalls, DirCalls, WriteCalls
      <4>2. call.op = "write_file_at" => ~FileAt(s, p)
        BY <1>4 DEF WriteCalls
      <4> QED
        BY <2>4, <4>1, <4>2 DEF FileAt
    <3> QED
      BY <2>4, <3>1 DEF Fillable
  <2>6. ~Possible(call.op, call.raw, s)
    BY <1>2, <2>5, PossibleWalk DEF p
  <2>7. WithMade(s, walk, Len(walk)) = s
    BY <1>2, <1>3, <1>5, <2>6, NothingMade DEF IsStore, p, walk
  <2>8. StoreOf(tree') = s /\ Return("DuplicateName")
    BY <1>3, <1>5, <1>13, <2>7 DEF t
  <2>9. tree' = tree
    BY <1>5, <1>13
  <2> QED
    BY <2>6, <2>8, <2>9, Ended
<1> QED
  BY <1>12, <1>13

-----------------------------------------------------------------------------
\* At an item: its content is replaced ...
LEMMA AtFile ==
  ASSUME IsTree(tree), CallOK(call, tree), call.stage = "replacing"
  PROVE  LET p == Meant(call.raw)
             s == call.before
         IN /\ call.op \in {"write_file_at", "update_file_at"} /\ call.content \in Contents
            /\ IsPath(call.raw) /\ call.raw \in Seq(Segments) /\ IsStore(s) /\ StoreOf(tree) = s
            /\ call.at \in DOMAIN tree /\ tree[call.at].kind = "file" /\ PathMap(tree)[call.at] = p
            /\ p \in DOMAIN s /\ s[p] # "directory" /\ Possible(call.op, call.raw, s)
<1> DEFINE p == Meant(call.raw)
           s == call.before
<1>1. /\ AtItem(call, tree, "file") /\ call.op \in {"write_file_at", "update_file_at"} /\ call.content \in Contents
      /\ call.raw \in Seq(Segments) /\ IsStore(s)
  BY DEF CallOK
<1>2. /\ IsPath(call.raw) /\ StoreOf(tree) = s
      /\ call.at \in DOMAIN tree /\ tree[call.at].kind = "file" /\ PathMap(tree)[call.at] = p
  BY <1>1 DEF AtItem
<1>3. p \in DOMAIN s /\ s[p] # "directory"
  BY <1>2, StoreOfTree
<1>4. Possible(call.op, call.raw, s)
  BY <1>1, <1>2, <1>3, PossibleThere DEF IsStore
<1> QED
  BY <1>1, <1>2, <1>3, <1>4

LEMMA ContentSet ==
  ASSUME IsTree(tree), NEW id \in DOMAIN tree, NEW content \in Contents \cup {Damaged}, SetContent(id, content)
  PROVE  IsTree(tree') /\ StoreOf(tree') = [StoreOf(tree) EXCEPT ![PathMap(tree)[id]] = content]
<1> DEFINE u == [tree EXCEPT ![id].content = content]
<1>1. tree' = u /\ tree[id].kind = "file"
  BY DEF SetContent
<1>2. IsTree(u) /\ StoreOf(u) = [StoreOf(tree) EXCEPT ![PathMap(tree)[id]] = content]
  BY <1>1, ChangingAContent
<1> HIDE DEF u
<1> QED
  BY <1>1, <1>2

LEMMA ReplaceContentKeeps ==
  ASSUME IsTree(tree), CallOK(call, tree), ReplaceContent
  PROVE  CallOK(call', tree') /\ IsTree(tree')
<1> DEFINE p == Meant(call.raw)
           s == call.before
<1>1. call.stage = "replacing" /\ Return("ok") /\ SetContent(call.at, call.content)
  BY DEF ReplaceContent
<1>2. /\ call.op \in {"write_file_at", "update_file_at"} /\ call.content \in Contents
      /\ IsStore(s) /\ StoreOf(tree) = s
      /\ call.at \in DOMAIN tree /\ tree[call.at].kind = "file" /\ PathMap(tree)[call.at] = p
      /\ p \in DOMAIN s /\ Possible(call.op, call.raw, s)
  BY <1>1, AtFile
<1> HIDE DEF p, s
<1>3. IsTree(tree') /\ StoreOf(tree') = [s EXCEPT ![p] = call.content]
  <2>1. IsTree(tree') /\ StoreOf(tree') = [StoreOf(tree) EXCEPT ![PathMap(tree)[call.at]] = call.content]
    BY <1>1, <1>2, ContentSet
  <2> QED
    BY <1>2, <2>1
<1>4. After(call.op, p, call.content, s) = [s EXCEPT ![p] = call.content]
  BY <1>2, Replaced DEF IsStore
<1>5. StoreOf(tree') = After(call.op, p, call.content, s)
  BY <1>3, <1>4
<1> QED
  BY <1>1, <1>2, <1>3, <1>5, Ended DEF p, s

\* ... or it is removed.
LEMMA AtRemoval ==
  ASSUME IsTree(tree), CallOK(call, tree), call.stage = "removing"
  PROVE  LET p == Meant(call.raw)
             s == call.before
         IN /\ call.op \in RemoveCalls /\ IsPath(call.raw) /\ call.raw \in Seq(Segments)
            /\ IsStore(s) /\ StoreOf(tree) = s
            /\ call.at \in DOMAIN tree /\ PathMap(tree)[call.at] = p /\ Possible(call.op, call.raw, s)
<1> DEFINE p == Meant(call.raw)
           s == call.before
<1>1. /\ call.raw \in Seq(Segments) /\ IsStore(s)
      /\ \/ call.op = "remove_dir_at" /\ AtItem(call, tree, "dir")
         \/ call.op = "remove_file_at" /\ AtItem(call, tree, "file")
  BY DEF CallOK
<1>2. /\ IsPath(call.raw) /\ StoreOf(tree) = s
      /\ call.at \in DOMAIN tree /\ PathMap(tree)[call.at] = p
      /\ \/ call.op = "remove_dir_at" /\ tree[call.at].kind = "dir"
         \/ call.op = "remove_file_at" /\ tree[call.at].kind = "file"
  BY <1>1 DEF AtItem
<1>3. p \in DOMAIN s /\ (tree[call.at].kind = "dir" <=> s[p] = "directory")
  BY <1>2, StoreOfTree
<1>4. Possible(call.op, call.raw, s)
  BY <1>1, <1>2, <1>3, PossibleThere DEF IsStore
<1> QED
  BY <1>1, <1>2, <1>4 DEF RemoveCalls

\* Removing by ID and by path is the same.
LEMMA Removed ==
  ASSUME IsTree(tree), NEW gone, gone \subseteq DOMAIN tree, \A x \in gone : Below(x) \subseteq gone,
         tree' = Without(gone)
  PROVE  /\ IsTree(tree')
         /\ StoreOf(tree') = Keeping(StoreOf(tree), {PathMap(tree)[x] : x \in gone})
<1>1. tree' = Remaining(tree, gone)
  BY DEF Without, Remaining
<1>2. \A x \in DOMAIN tree : tree[x].parent_dir \in gone => x \in gone
  BY BelowIsClosed
<1>3. /\ IsTree(Remaining(tree, gone))
      /\ StoreOf(Remaining(tree, gone)) =
           [q \in DOMAIN StoreOf(tree) \ {PathMap(tree)[x] : x \in gone} |-> StoreOf(tree)[q]]
  BY <1>2, RemovingItems
<1> QED
  BY <1>1, <1>3 DEF Keeping

LEMMA RemoveItemKeeps ==
  ASSUME IsTree(tree), CallOK(call, tree), RemoveItem
  PROVE  CallOK(call', tree') /\ IsTree(tree')
<1> DEFINE p == Meant(call.raw)
           s == call.before
           gone == Below(call.at)
           paths == {PathMap(tree)[x] : x \in gone}
<1>1. call.stage = "removing" /\ Return("ok") /\ tree' = Without(gone)
  BY DEF RemoveItem, Delete
<1>2. /\ call.op \in RemoveCalls /\ StoreOf(tree) = s
      /\ call.at \in DOMAIN tree /\ PathMap(tree)[call.at] = p /\ Possible(call.op, call.raw, s)
  BY <1>1, AtRemoval
<1>3. gone \subseteq DOMAIN tree /\ \A x \in gone : Below(x) \subseteq gone
  BY BelowIsTransitive DEF Below
<1>4. gone = {x \in DOMAIN tree : IsPrefix(p, PathMap(tree)[x])}
  BY <1>2, BelowByPath
<1> HIDE DEF gone, p, s
<1>5. IsTree(tree') /\ StoreOf(tree') = Keeping(s, paths)
  BY <1>1, <1>2, <1>3, Removed
<1>6. DOMAIN s \ paths = {q \in DOMAIN s : ~IsPrefix(p, q)}
  <2>1. DOMAIN s = {PathMap(tree)[x] : x \in DOMAIN tree}
    BY <1>2, TreeStore
  <2> QED
    BY <1>3, <1>4, <2>1
<1>7. After(call.op, p, call.content, s) = [q \in {q \in DOMAIN s : ~IsPrefix(p, q)} |-> s[q]]
  BY <1>2 DEF After
<1> HIDE DEF paths
<1>8. StoreOf(tree') = After(call.op, p, call.content, s)
  BY <1>5, <1>6, <1>7 DEF Keeping
<1> QED
  BY <1>1, <1>2, <1>5, <1>8, Ended DEF p, s

\* Cut off, with no more gone than may be.
LEMMA CutOffEnds ==
  ASSUME CallOK(call, tree), Return("interrupted"), Repeatable(call, StoreOf(tree'))
  PROVE  CallOK(call', tree')
<1>1. IsCall(call) /\ call.op \in AddCalls \cup RemoveCalls /\ call.raw \in Seq(Segments) /\ IsStore(call.before)
  BY DEF CallOK
<1>2. /\ IsCall(call') /\ call'.op = call.op /\ call'.raw = call.raw /\ call'.content = call.content
      /\ call'.before = call.before /\ call'.stage = "returned" /\ call'.result = "interrupted"
  BY <1>1, ReturnIs
<1>3. Over(call', tree')
  BY <1>2 DEF Over, Repeatable
<1> QED
  BY <1>1, <1>2, <1>3 DEF CallOK

\* A call under way could stop where it is.
LEMMA UnderWay ==
  ASSUME IsTree(tree), CallOK(call, tree), call.stage # "returned"
  PROVE  Repeatable(call, StoreOf(tree))
<1> DEFINE s == call.before
           p == Meant(call.raw)
           walk == Way(call.op, p)
<1>1. CASE call.stage = "walking"
  <2>1. OnTheWay(call, tree) /\ call.raw \in Seq(Segments) /\ IsStore(s)
    BY <1>1 DEF CallOK
  <2>2. /\ call.op \in WalkCalls /\ IsPath(call.raw) /\ p # <<>>
        /\ call.op \in WriteCalls => (p \in DOMAIN s => s[p] = "directory")
    BY <2>1 DEF OnTheWay, FileAt
  <2>3. PICK n \in 0..Len(walk) : CameTo(call, tree, walk, n)
    BY <2>1 DEF OnTheWay
  <2>4. /\ StoreOf(tree) = WithMade(s, walk, n)
        /\ \A q \in Made(walk, n) \cap DOMAIN s : s[q] = "directory"
    BY <2>3 DEF CameTo
  <2>5. WithMade(s, walk, n) \in CutShort(call.op, call.raw, s)
    BY <2>1, <2>2, <2>4, WalkCutsShort DEF IsStore
  <2>6. Possible(call.op, call.raw, WithMade(s, walk, n)) = Possible(call.op, call.raw, s)
    BY <2>1, <2>2, <2>4, PossibleAsMade
  <2> QED
    BY <2>4, <2>5, <2>6 DEF Repeatable
<1>2. CASE call.stage = "replacing"
  <2>1. /\ call.op \in {"write_file_at", "update_file_at"} /\ IsPath(call.raw)
        /\ IsStore(s) /\ StoreOf(tree) = s /\ p \in DOMAIN s /\ s[p] # "directory"
    BY <1>2, AtFile
  <2>2. s \in CutShort(call.op, call.raw, s)
    <3>1. p = Meant(call.raw)
      OBVIOUS
    <3> HIDE DEF p, s
    <3> QED
      BY <2>1, <3>1, ReplaceCutShort
  <2> QED
    BY <2>1, <2>2 DEF Repeatable
<1>3. CASE call.stage = "removing"
  <2>1. /\ call.op \in RemoveCalls /\ IsPath(call.raw) /\ call.raw \in Seq(Segments)
        /\ IsStore(s) /\ StoreOf(tree) = s /\ Possible(call.op, call.raw, s)
    BY <1>3, AtRemoval
  <2>2. s = Keeping(s, {})
    BY <2>1 DEF IsStore, Keeping
  <2>3. s \in CutShort(call.op, call.raw, s)
    <3> DEFINE none == {}
    <3>1. /\ \A q \in none : q \in DOMAIN s /\ IsStrictPrefix(p, q)
          /\ \A q \in none, x \in DOMAIN s : IsPrefix(q, x) => x \in none
          /\ p = Meant(call.raw) /\ s = Keeping(s, none)
      BY <2>2
    <3> HIDE DEF none, s, p
    <3> QED
      BY <2>1, <3>1, RemoveCutShort
  <2> QED
    BY <2>1, <2>3 DEF Repeatable
<1> QED
  BY <1>1, <1>2, <1>3 DEF CallOK

LEMMA InterruptedKeeps ==
  ASSUME IsTree(tree), CallOK(call, tree), Interrupted
  PROVE  CallOK(call', tree') /\ IsTree(tree')
<1> DEFINE s == call.before
           p == Meant(call.raw)
<1>1. /\ call.stage # "returned" /\ Return("interrupted")
      /\ \/ tree' = tree
         \/ call.stage = "replacing" /\ SetContent(call.at, Damaged)
         \/ call.stage = "removing" /\ RemovePart(call.at)
  BY DEF Interrupted, RemovedUntilCut, Damage
<1>2. CASE tree' = tree
  BY <1>1, <1>2, UnderWay, CutOffEnds
<1>3. CASE call.stage = "replacing" /\ SetContent(call.at, Damaged)
  <2>1. /\ call.op \in {"write_file_at", "update_file_at"} /\ IsPath(call.raw)
        /\ IsStore(s) /\ StoreOf(tree) = s /\ p \in DOMAIN s /\ s[p] # "directory"
        /\ call.at \in DOMAIN tree /\ PathMap(tree)[call.at] = p
    BY <1>3, AtFile
  <2>2. IsTree(tree') /\ StoreOf(tree') = [StoreOf(tree) EXCEPT ![PathMap(tree)[call.at]] = Damaged]
    BY <1>3, <2>1, ContentSet
  <2>3. StoreOf(tree') = [s EXCEPT ![p] = Damaged]
    BY <2>1, <2>2
  <2>4. /\ StoreOf(tree') \in CutShort(call.op, call.raw, s)
        /\ Possible(call.op, call.raw, StoreOf(tree')) = Possible(call.op, call.raw, s)
    <3> DEFINE t == StoreOf(tree')
    <3>1. t = WithValue(s, p, Damaged) /\ p = Meant(call.raw)
      BY <2>3 DEF WithValue
    <3> HIDE DEF t, s, p
    <3>2. t \in CutShort(call.op, call.raw, s) /\ Possible(call.op, call.raw, t) = Possible(call.op, call.raw, s)
      BY <2>1, <3>1, ReplaceCutShort
    <3> QED
      BY <3>2 DEF t
  <2> QED
    BY <1>1, <2>2, <2>4, CutOffEnds DEF Repeatable
<1>4. CASE call.stage = "removing" /\ RemovePart(call.at)
  <2>1. /\ call.op \in RemoveCalls /\ IsPath(call.raw) /\ call.raw \in Seq(Segments)
        /\ IsStore(s) /\ StoreOf(tree) = s /\ Possible(call.op, call.raw, s)
        /\ call.at \in DOMAIN tree /\ PathMap(tree)[call.at] = p
    BY <1>4, AtRemoval
  <2>2. PICK gone \in SUBSET (Below(call.at) \ {call.at}) :
          (\A x \in gone : Below(x) \subseteq gone) /\ tree' = Without(gone)
    BY <1>4 DEF RemovePart
  <2>3. gone \subseteq DOMAIN tree
    BY DEF Below
  <2> DEFINE P == PathMap(tree)
             paths == {P[x] : x \in gone}
  <2>4. IsTree(tree') /\ StoreOf(tree') = Keeping(s, paths)
    BY <2>1, <2>2, <2>3, Removed
  <2>5. \A id \in DOMAIN tree : Below(id) = {x \in DOMAIN tree : IsPrefix(P[id], P[x])}
    BY BelowByPath
  <2>6. \A x, y \in DOMAIN tree : P[x] = P[y] => x = y
    BY PathsDiffer
  <2>7. DOMAIN s = {P[x] : x \in DOMAIN tree}
    <3>1. DOMAIN StoreOf(tree) = {P[x] : x \in DOMAIN tree}
      BY TreeStore
    <3> QED
      BY <2>1, <3>1
  <2> HIDE DEF P, p, s
  <2>8. paths \subseteq {q \in DOMAIN s : IsStrictPrefix(p, q)}
    <3> SUFFICES ASSUME NEW x \in gone PROVE P[x] \in DOMAIN s /\ IsStrictPrefix(p, P[x])
      OBVIOUS
    <3>1. x \in DOMAIN tree /\ x # call.at /\ IsPrefix(P[call.at], P[x]) /\ P[call.at] = p
      BY <2>1, <2>3, <2>5 DEF P
    <3>2. P[x] # p
      BY <2>1, <2>6, <3>1
    <3> QED
      BY <2>7, <3>1, <3>2 DEF IsStrictPrefix
  <2>9. ASSUME NEW q \in paths, NEW r \in DOMAIN s, IsPrefix(q, r) PROVE r \in paths
    <3>1. PICK x \in gone : q = P[x]
      OBVIOUS
    <3>2. PICK y \in DOMAIN tree : r = P[y]
      BY <2>7
    <3>3. y \in Below(x)
      BY <2>3, <2>5, <2>9, <3>1, <3>2
    <3> QED
      BY <2>2, <3>2, <3>3
  <2> HIDE DEF paths
  <2>10. /\ StoreOf(tree') \in CutShort(call.op, call.raw, s)
         /\ Possible(call.op, call.raw, StoreOf(tree')) = Possible(call.op, call.raw, s)
    <3> DEFINE t == StoreOf(tree')
    <3>1. /\ \A q \in paths : q \in DOMAIN s /\ IsStrictPrefix(p, q)
          /\ \A q \in paths, x \in DOMAIN s : IsPrefix(q, x) => x \in paths
          /\ p = Meant(call.raw) /\ t = Keeping(s, paths)
      BY <2>4, <2>8, <2>9 DEF p
    <3> HIDE DEF t
    <3>2. t \in CutShort(call.op, call.raw, s) /\ Possible(call.op, call.raw, t) = Possible(call.op, call.raw, s)
      BY <2>1, <3>1, RemoveCutShort
    <3> QED
      BY <3>2 DEF t
  <2> QED
    BY <1>1, <2>4, <2>10, CutOffEnds DEF Repeatable, s
<1> QED
  BY <1>1, <1>2, <1>3, <1>4

-----------------------------------------------------------------------------
(* All of it, together. *)

LEMMA EmptyIsTree == Init => IsTree(tree)
<1> SUFFICES ASSUME Init PROVE IsTree(tree)
  OBVIOUS
<1> DEFINE t == tree
<1>1. t = [x \in DOMAIN t |-> t[x]] /\ DOMAIN t = {}
  BY DEF Init
<1>2. t = [x \in DOMAIN t |-> Append(IF t[x].parent_dir = Root THEN <<>> ELSE t[t[x].parent_dir], t[x].name)]
  BY DEF Init
<1> HIDE DEF t
<1>3. ItemsOK(t)
  BY <1>1 DEF ItemsOK
<1>4. t \in [DOMAIN t -> Seq(Names)]
  BY <1>1
<1>5. IsTree(t)
  BY <1>2, <1>3, <1>4 DEF IsTree, IsPathMap
<1> QED
  BY <1>5 DEF t

LEMMA PathsInvInit == PathsInit => PathsInv
<1> SUFFICES ASSUME PathsInit PROVE PathsInv
  OBVIOUS
<1>1. DOMAIN tree = {} /\ call = NoCall
  BY DEF PathsInit, Init
<1>2. IsTree(tree)
  BY EmptyIsTree DEF PathsInit
<1> QED
  BY <1>1, <1>2 DEF PathsInv

LEMMA NoCallIsOver == NoCall.stage = "returned" /\ NoCall.result = "none"
BY Zenon DEF NoCall

LEMMA PathsInvNext == PathsInv /\ [PathsNext]_vars => PathsInv'
<1> SUFFICES ASSUME PathsInv, [PathsNext]_vars PROVE PathsInv'
  OBVIOUS
<1>1. IsTree(tree) /\ (call # NoCall => CallOK(call, tree))
  BY DEF PathsInv
<1>2. RawPaths \subseteq Seq(Segments)
  BY RawPathsAssumption DEF Segments
<1>3. ASSUME tree' = tree, CallOK(call', tree') PROVE PathsInv'
  BY <1>1, <1>3 DEF PathsInv
<1>4. ASSUME IsTree(tree'), CallOK(call', tree') PROVE PathsInv'
  BY <1>4 DEF PathsInv
<1>5. ASSUME call.stage # "returned" PROVE CallOK(call, tree)
  BY <1>1, <1>5, NoCallIsOver
<1>6. ASSUME NEW raw \in RawPaths, NEW op \in DirCalls, BeginDir(op, raw) PROVE PathsInv'
  <2>1. op \in WalkCalls /\ op \notin WriteCalls
    BY DEF WalkCalls, AddCalls, DirCalls, WriteCalls
  <2>2. BeginWalk(op, raw, Damaged) /\ tree' = tree
    BY <1>6 DEF BeginDir
  <2> QED
    BY <1>1, <1>2, <1>3, <2>1, <2>2, WalkBegins
<1>7. ASSUME NEW raw \in RawPaths, NEW op \in WriteCalls, NEW content \in Contents, BeginWrite(op, raw, content)
      PROVE  PathsInv'
  <2>1. tree' = tree
    BY <1>7 DEF BeginWrite
  <2> QED
    BY <1>1, <1>2, <1>3, <1>7, <2>1, WriteBegins
<1>8. ASSUME NEW raw \in RawPaths, NEW op \in RemoveCalls, BeginRemove(op, raw) PROVE PathsInv'
  <2>1. tree' = tree
    BY <1>8 DEF BeginRemove
  <2> QED
    BY <1>1, <1>2, <1>3, <1>8, <2>1, RemoveBegins
<1>9. CASE WalkInto
  <2>1. tree' = tree /\ call.stage # "returned"
    BY <1>9 DEF WalkInto, Walking
  <2> QED
    BY <1>1, <1>3, <1>5, <1>9, <2>1, WalkIntoKeeps
<1>10. CASE WalkMakes
  <2>1. call.stage # "returned"
    BY <1>10 DEF WalkMakes, Walking
  <2> QED
    BY <1>1, <1>4, <1>5, <1>10, <2>1, WalkMakesKeeps
<1>11. CASE WalkCollides
  <2>1. tree' = tree /\ call.stage # "returned"
    BY <1>11 DEF WalkCollides, Walking
  <2> QED
    BY <1>1, <1>3, <1>5, <1>11, <2>1, WalkCollidesKeeps
<1>12. CASE GotDir
  <2>1. tree' = tree /\ call.stage # "returned"
    BY <1>12 DEF GotDir, Arrived
  <2> QED
    BY <1>1, <1>3, <1>5, <1>12, <2>1, GotDirKeeps
<1>13. CASE MakeItem
  <2>1. call.stage # "returned"
    BY <1>13 DEF MakeItem, Arrived
  <2> QED
    BY <1>1, <1>4, <1>5, <1>13, <2>1, MakeItemKeeps
<1>14. CASE ReplaceContent
  <2>1. call.stage # "returned"
    BY <1>14 DEF ReplaceContent
  <2> QED
    BY <1>1, <1>4, <1>5, <1>14, <2>1, ReplaceContentKeeps
<1>15. CASE RemoveItem
  <2>1. call.stage # "returned"
    BY <1>15 DEF RemoveItem
  <2> QED
    BY <1>1, <1>4, <1>5, <1>15, <2>1, RemoveItemKeeps
<1>16. CASE Interrupted
  <2>1. call.stage # "returned"
    BY <1>16 DEF Interrupted
  <2> QED
    BY <1>1, <1>4, <1>5, <1>16, <2>1, InterruptedKeeps
<1>17. CASE Answer
  BY <1>1, <1>17 DEF Answer, PathsInv
<1>18. CASE UsedById
  <2>1. call' = NoCall /\ Next
    BY <1>18 DEF UsedById, Idle
  <2>2. IsTree(tree')
    BY <1>1, <2>1, TreeNext DEF NextWithCrashes
  <2> QED
    BY <2>1, <2>2 DEF PathsInv
<1>19. CASE UNCHANGED vars
  BY <1>1, <1>19 DEF vars, PathsInv
<1> QED
  BY <1>6, <1>7, <1>8, <1>9, <1>10, <1>11, <1>12, <1>13, <1>14, <1>15, <1>16, <1>17, <1>18, <1>19 DEF PathsNext

LEMMA PathsInvAlways == PathsSpec => []PathsInv
BY PathsInvInit, PathsInvNext, PTL DEF PathsSpec

(***************************************************************************)
(* PathInArchive::new, reading one segment after the other with a stack,   *)
(* finds what every path means, and refuses those that mean nothing.       *)
(***************************************************************************)
THEOREM PathsMean == PathsSpec => []PathsMeanWhatTheySay
<1>1. PathsInv => PathsMeanWhatTheySay
  <2> SUFFICES ASSUME PathsInv PROVE PathsMeanWhatTheySay
    OBVIOUS
  <2>1. call.raw \in Seq(Segments)
    <3>1. NoCall.raw \in Seq(Segments)
      BY DEF NoCall, Segments, Dotted
    <3> QED
      BY <3>1 DEF PathsInv, CallOK
  <2>2. /\ IsPath(call.raw) => NewPath(call.raw).error = "none" /\ NewPath(call.raw).components = Meant(call.raw)
        /\ ~IsPath(call.raw) => NewPath(call.raw).error \in {"EmptyPath", "InvalidComponent", "RootEscape"}
    BY <2>1, NewPathIs
  <2> QED
    BY <2>2 DEF PathsMeanWhatTheySay
<1> QED
  BY <1>1, PathsInvAlways, PTL

(***************************************************************************)
(* compute_item_path gives every item a path that get_item_at finds it by, *)
(* whatever calls were made, or cut off, before.                           *)
(***************************************************************************)
THEOREM PathsLead == PathsSpec => []PathsLeadBack
<1>1. PathsInv => PathsLeadBack
  <2> SUFFICES ASSUME PathsInv, NEW id \in DOMAIN tree PROVE ItemAt(PathOf(id)) = id
    BY DEF PathsLeadBack
  <2>1. IsTree(tree)
    BY DEF PathsInv
  <2>2. PathOf(id) = PathMap(tree)[id] /\ PathMap(tree)[id] \in Seq(Names)
    BY <2>1, PathOfIs, TreePaths
  <2> QED
    BY <2>1, <2>2, FindsByPath
<1> QED
  BY <1>1, PathsInvAlways, PTL

(***************************************************************************)
(* Every call by path, however deep the path and whatever directories are  *)
(* made on its way, does all that it says when it can, and otherwise       *)
(* nothing, and says which.                                                *)
(***************************************************************************)
THEOREM CallsAreAllOrNothing == PathsSpec => []CallsDoAllOrNothing
<1>1. PathsInv => CallsDoAllOrNothing
  <2> SUFFICES ASSUME PathsInv, Answered PROVE AllDone(call, Store)
    BY DEF CallsDoAllOrNothing, AllDone
  <2>1. CallOK(call, tree) /\ call.stage = "returned" /\ call.result # "interrupted"
    BY DEF PathsInv, Answered, Returned, Idle
  <2>2. AllDone(call, StoreOf(tree))
    BY <2>1 DEF CallOK, Over
  <2> QED
    BY <2>2, StoreIs
<1> QED
  BY <1>1, PathsInvAlways, PTL

(***************************************************************************)
(* A call under way, or cut off by an error or a crash, has left no more   *)
(* behind than it may, and can be made again.                              *)
(***************************************************************************)
THEOREM CutOffCallsAreRepeatable == PathsSpec => []CutOffCallCanBeRepeated
<1>1. PathsInv => CutOffCallCanBeRepeated
  <2> SUFFICES ASSUME PathsInv, CutOff PROVE Repeatable(call, Store)
    BY DEF CutOffCallCanBeRepeated, Repeatable
  <2>1. IsTree(tree) /\ CallOK(call, tree)
    BY NoCallIsOver DEF PathsInv, CutOff
  <2>2. Repeatable(call, StoreOf(tree))
    <3>1. CASE call.stage # "returned"
      BY <2>1, <3>1, UnderWay
    <3>2. CASE call.stage = "returned"
      BY <2>1, <3>2 DEF CallOK, CutOff, Over
    <3> QED
      BY <3>1, <3>2
  <2> QED
    BY <2>2, StoreIs
<1> QED
  BY <1>1, PathsInvAlways, PTL

-----------------------------------------------------------------------------
(* By path, the archive is a PathStore: every step of the tree is one of    *)
(* its steps, and no other step shows.                                      *)

\* The operators on sequences are the same there.
LEMMA SameThere ==
  \A p, q : ByPath!Front(p) = Front(p) /\ (ByPath!IsPrefix(p, q) <=> IsPrefix(p, q))
BY DEF ByPath!Front, Front, ByPath!IsPrefix, IsPrefix

\* A new item is a new path.
LEMMA CreatePuts ==
  ASSUME IsTree(tree), NEW id \in Ids, NEW item \in Dirs \cup Files, Create(id, item),
         ValueOf(item) \in Contents \cup {"directory"}
  PROVE  ByPath!Next
<1> DEFINE d == item.parent_dir
           q == PathAt(tree, d)
           name == item.name
           p == Append(q, name)
           value == ValueOf(item)
           root == <<>>
<1>1. p \notin DOMAIN StoreOf(tree) /\ StoreOf(tree') = WithPath(StoreOf(tree), p, value)
  BY Created
<1>2. name \in Names /\ (d # Root => d \in DOMAIN tree /\ tree[d].kind = "dir")
  BY CreateIs DEF Dirs, Files
<1>3. q \in Seq(Names) /\ (q = root \/ (q \in DOMAIN StoreOf(tree) /\ StoreOf(tree)[q] = "directory"))
  <2>1. CASE d = Root
    BY <2>1, TreePaths
  <2>2. CASE d # Root
    <3>1. d \in DOMAIN tree /\ tree[d].kind = "dir" /\ q = PathMap(tree)[d] /\ q \in Seq(Names)
      BY <1>2, <2>2, TreePaths DEF PathAt
    <3> QED
      BY <3>1, StoreOfTree
  <2> QED
    BY <2>1, <2>2
<1> HIDE DEF q, d, value, root
<1>4. Front(p) = q
  BY <1>2, <1>3, AppendedPath
<1>5. Store' = WithPath(Store, p, value) /\ p \notin DOMAIN Store
      /\ (q = root \/ (q \in DOMAIN Store /\ Store[q] = "directory"))
  BY <1>1, <1>3, StoreIs
<1>6. ByPath!Put(p, value)
  <2>1. ByPath!IsDirectory(q)
    BY <1>5 DEF ByPath!IsDirectory, ByPath!Directory, root
  <2>2. Store' = [r \in DOMAIN Store \cup {p} |-> IF r = p THEN value ELSE Store[r]]
    BY <1>5 DEF WithPath
  <2>3. ByPath!Front(p) = q
    BY <1>4, SameThere
  <2> HIDE DEF p
  <2> QED
    BY <1>5, <2>1, <2>2, <2>3 DEF ByPath!Put
<1>7. q \in DOMAIN Store \cup {root} /\ value \in Contents \cup {ByPath!Directory}
  BY <1>5 DEF value, ByPath!Directory
<1> QED
  BY <1>2, <1>6, <1>7 DEF ByPath!Next, root

LEMMA SetContentOverwrites ==
  ASSUME IsTree(tree), NEW id \in DOMAIN tree, NEW content \in Contents \cup {Damaged}, SetContent(id, content)
  PROVE  ByPath!Next
<1> DEFINE p == PathMap(tree)[id]
<1>1. StoreOf(tree') = [StoreOf(tree) EXCEPT ![p] = content]
  BY ContentSet
<1>2. tree[id].kind = "file"
  BY DEF SetContent
<1>3. p \in DOMAIN StoreOf(tree) /\ StoreOf(tree)[p] # "directory"
  BY <1>2, StoreOfTree
<1> HIDE DEF p
<1>4. Store' = [Store EXCEPT ![p] = content] /\ p \in DOMAIN Store /\ Store[p] # "directory"
  BY <1>1, <1>3, StoreIs
<1>5. ByPath!Overwrite(p, content)
  BY <1>4 DEF ByPath!Overwrite, ByPath!Directory
<1>6. content \in Contents \cup {ByPath!Damaged}
  BY DEF ByPath!Damaged, Damaged
<1> QED
  BY <1>4, <1>5, <1>6 DEF ByPath!Next

LEMMA RenameMoves ==
  ASSUME IsTree(tree), NEW id \in DOMAIN tree, NEW name \in Names, Rename(id, name)
  PROVE  ByPath!Next
<1> DEFINE u == Renamed(tree, id, name)
           P == PathMap(tree)
           p == P[id]
           s == StoreOf(tree)
           moved(q) == IF ByPath!IsPrefix(p, q)
                       THEN ByPath!Front(p) \o <<name>> \o SubSeq(q, Len(p) + 1, Len(q))
                       ELSE q
           source(m) == CHOOSE q \in DOMAIN s : moved(q) = m
           new == [m \in {moved(q) : q \in DOMAIN s} |-> s[source(m)]]
<1>1. /\ tree' = u
      /\ \A x \in DOMAIN tree : tree[x].parent_dir = tree[id].parent_dir => tree[x].name # name
  BY DEF Rename, Renamed, NameIsFree, Children
<1>2. /\ IsTree(u) /\ Append(Front(p), name) \notin DOMAIN s
      /\ PathMap(u) = [x \in DOMAIN tree |-> Moved(p, name, P[x])]
      /\ DOMAIN u = DOMAIN tree /\ \A x \in DOMAIN tree : ValueOf(u[x]) = ValueOf(tree[x])
  BY <1>1, RenamingAnItem
<1>3. /\ DOMAIN s = {P[x] : x \in DOMAIN tree}
      /\ \A x \in DOMAIN tree : P[x] \in DOMAIN s /\ s[P[x]] = ValueOf(tree[x])
      /\ \A q \in DOMAIN s : \E x \in DOMAIN tree : q = P[x]
  BY TreeStore
<1> HIDE DEF u, P, p, s
<1>4. \A q : moved(q) = Moved(p, name, q)
  BY SameThere DEF Moved
<1> HIDE DEF moved
<1>5. \A x \in DOMAIN tree : PathMap(u)[x] = moved(P[x])
  BY <1>2, <1>4
<1>6. ASSUME NEW x \in DOMAIN tree PROVE source(PathMap(u)[x]) = P[x]
  <2>1. \E q \in DOMAIN s : moved(q) = PathMap(u)[x]
    BY <1>3, <1>5
  <2>2. source(PathMap(u)[x]) \in DOMAIN s /\ moved(source(PathMap(u)[x])) = PathMap(u)[x]
    BY <2>1
  <2> HIDE DEF source
  <2>3. PICK y \in DOMAIN tree : source(PathMap(u)[x]) = P[y]
    BY <1>3, <2>2
  <2>4. PathMap(u)[y] = PathMap(u)[x]
    BY <1>5, <2>2, <2>3
  <2>5. y = x
    BY <1>2, <2>4, PathsDiffer
  <2> QED
    BY <2>3, <2>5
<1> HIDE DEF source
<1>7. new = [m \in DOMAIN new |-> new[m]] /\ DOMAIN new = {moved(q) : q \in DOMAIN s}
  OBVIOUS
<1>8. \A x \in DOMAIN u : PathMap(u)[x] \in DOMAIN new /\ new[PathMap(u)[x]] = ValueOf(u[x])
  BY <1>2, <1>3, <1>5, <1>6
<1>9. \A m \in DOMAIN new : \E x \in DOMAIN u : m = PathMap(u)[x]
  BY <1>2, <1>3, <1>5
<1>10. StoreOf(u) = new
  <2> HIDE DEF new
  <2> QED
    BY <1>2, <1>7, <1>8, <1>9, StoreEqual
<1>11. Store = s /\ Store' = new
  BY <1>1, <1>10, StoreIs DEF s
<1>12. ByPath!Rename(p, name)
  <2>1. Append(ByPath!Front(p), name) \notin DOMAIN Store
    BY <1>2, <1>11, SameThere
  <2>2. Store' = [m \in {moved(q) : q \in DOMAIN Store} |-> Store[CHOOSE q \in DOMAIN Store : moved(q) = m]]
    BY <1>11 DEF source
  <2> QED
    BY <2>1, <2>2 DEF ByPath!Rename, moved
<1>13. p \in DOMAIN Store
  BY <1>3, <1>11 DEF p
<1> QED
  BY <1>12, <1>13 DEF ByPath!Next

\* Removing items removes their paths.
LEMMA RemovalKeeps ==
  ASSUME IsTree(tree), NEW gone, gone \subseteq DOMAIN tree, \A x \in gone : Below(x) \subseteq gone,
         tree' = Without(gone)
  PROVE  LET paths == {PathMap(tree)[x] : x \in gone}
         IN /\ Store' = ByPath!Kept(DOMAIN Store \ paths)
            /\ paths \subseteq DOMAIN Store /\ \A q \in paths : ByPath!Under(q) \subseteq paths
<1> DEFINE P == PathMap(tree)
           paths == {P[x] : x \in gone}
<1>1. StoreOf(tree') = Keeping(StoreOf(tree), paths)
  BY Removed
<1>2. DOMAIN StoreOf(tree) = {P[x] : x \in DOMAIN tree}
  BY TreeStore
<1>3. Store' = Keeping(Store, paths) /\ DOMAIN Store = {P[x] : x \in DOMAIN tree}
  BY <1>1, <1>2, StoreIs
<1>4. \A x \in DOMAIN tree : Below(x) = {y \in DOMAIN tree : IsPrefix(P[x], P[y])}
  BY BelowByPath
<1> HIDE DEF P
<1>5. ASSUME NEW x \in gone, NEW r \in DOMAIN Store, IsPrefix(P[x], r) PROVE r \in paths
  <2>1. PICK y \in DOMAIN tree : r = P[y]
    BY <1>3
  <2>2. y \in gone
    BY <1>4, <1>5, <2>1
  <2> QED
    BY <2>1, <2>2
<1>6. \A q \in paths : ByPath!Under(q) \subseteq paths
  BY <1>5, SameThere DEF ByPath!Under
<1> QED
  BY <1>3, <1>6 DEF ByPath!Kept, Keeping, P

LEMMA DeleteDeletes ==
  ASSUME IsTree(tree), NEW id \in DOMAIN tree, Delete(id)
  PROVE  ByPath!Next
<1> DEFINE P == PathMap(tree)
           gone == Below(id)
           paths == {P[x] : x \in gone}
<1>1. gone \subseteq DOMAIN tree /\ \A x \in gone : Below(x) \subseteq gone
  BY BelowIsTransitive DEF Below
<1>2. tree' = Without(gone) /\ gone = {x \in DOMAIN tree : IsPrefix(P[id], P[x])}
  BY BelowByPath DEF Delete
<1> HIDE DEF gone
<1>3. Store' = ByPath!Kept(DOMAIN Store \ paths)
  BY <1>1, <1>2, RemovalKeeps
<1>4. DOMAIN StoreOf(tree) = {P[x] : x \in DOMAIN tree} /\ Store = StoreOf(tree)
  BY TreeStore, StoreIs
<1> HIDE DEF P
<1>5. paths = ByPath!Under(P[id]) /\ P[id] \in DOMAIN Store
  BY <1>2, <1>4, SameThere DEF ByPath!Under
<1>6. ByPath!Delete(P[id])
  BY <1>3, <1>5 DEF ByPath!Delete
<1> QED
  BY <1>5, <1>6 DEF ByPath!Next

LEMMA RemovePartDeletes ==
  ASSUME IsTree(tree), NEW id \in DOMAIN tree, RemovePart(id)
  PROVE  ByPath!Next
<1> DEFINE P == PathMap(tree)
<1>1. PICK gone \in SUBSET (Below(id) \ {id}) : (\A x \in gone : Below(x) \subseteq gone) /\ tree' = Without(gone)
  BY DEF RemovePart
<1>2. gone \subseteq DOMAIN tree /\ tree[id].kind = "dir"
  BY DEF Below, RemovePart
<1> DEFINE paths == {P[x] : x \in gone}
<1>3. /\ Store' = ByPath!Kept(DOMAIN Store \ paths) /\ paths \subseteq DOMAIN Store
      /\ \A q \in paths : ByPath!Under(q) \subseteq paths
  BY <1>1, <1>2, RemovalKeeps
<1>4. P[id] \in DOMAIN Store /\ Store[P[id]] = "directory"
  BY <1>2, StoreOfTree, StoreIs
<1>5. Below(id) = {x \in DOMAIN tree : IsPrefix(P[id], P[x])} /\ \A x \in DOMAIN tree : P[x] = P[id] => x = id
  BY BelowByPath, PathsDiffer
<1> HIDE DEF P
<1>6. paths \in SUBSET (ByPath!Under(P[id]) \ {P[id]})
  <2> SUFFICES ASSUME NEW x \in gone PROVE P[x] \in ByPath!Under(P[id]) /\ P[x] # P[id]
    OBVIOUS
  <2>1. x \in DOMAIN tree /\ x # id /\ IsPrefix(P[id], P[x])
    BY <1>2, <1>5
  <2>2. P[x] \in DOMAIN Store
    BY <1>3
  <2> QED
    BY <1>5, <2>1, <2>2, SameThere DEF ByPath!Under
<1> HIDE DEF paths
<1>7. ByPath!DeletePart(P[id])
  BY <1>3, <1>4, <1>6 DEF ByPath!DeletePart, ByPath!Directory
<1> QED
  BY <1>4, <1>7 DEF ByPath!Next

\* What is made is an item.
LEMMA MadeIsItem ==
  ASSUME IsTree(tree), IsTree(tree'), NEW id, NEW item, Create(id, item)
  PROVE  item \in Dirs \cup Files
<1>1. id \in DOMAIN tree' /\ tree'[id] = item
  BY DEF Create
<1>2. \A x \in DOMAIN tree' : tree'[x] \in Dirs \cup Files
  BY DEF IsTree, ItemsOK
<1> QED
  BY <1>1, <1>2

\* A step of the archive, used by ID, is a step by path.
LEMMA ByIdIsByPath ==
  ASSUME IsTree(tree), NextWithCrashes
  PROVE  ByPath!Next
<1>1. ASSUME NEW id \in Ids, NEW item \in Dirs, Create(id, item) PROVE ByPath!Next
  <2>1. ValueOf(item) = "directory"
    BY DEF ValueOf, Dirs
  <2> QED
    BY <1>1, <2>1, CreatePuts
<1>2. ASSUME NEW id \in Ids, NEW item \in Files, item.content # Damaged, Create(id, item) PROVE ByPath!Next
  <2>1. ValueOf(item) \in Contents
    BY <1>2 DEF ValueOf, Files
  <2> QED
    BY <1>2, <2>1, CreatePuts
<1> QED
  BY <1>1, <1>2, RenameMoves, SetContentOverwrites, DeleteDeletes, RemovePartDeletes DEF NextWithCrashes, Next, Damage

LEMMA StepsByPath ==
  ASSUME PathsInv, IsTree(tree'), [PathsNext]_vars
  PROVE  ByPath!Next \/ Store' = Store
<1>1. IsTree(tree) /\ (call # NoCall => CallOK(call, tree))
  BY DEF PathsInv
<1>2. ASSUME tree' = tree PROVE Store' = Store
  BY <1>2, StoreIs
<1>3. ASSUME call.stage # "returned" PROVE CallOK(call, tree)
  BY <1>1, <1>3, NoCallIsOver
<1>4. CASE WalkMakes
  <2> DEFINE item == [kind |-> "dir", parent_dir |-> call.at, name |-> Head(call.todo)]
  <2>1. PICK id \in Ids : Create(id, item)
    BY <1>4 DEF WalkMakes
  <2>2. ValueOf(item) = "directory"
    BY DEF ValueOf
  <2> HIDE DEF item
  <2> QED
    BY <1>1, <2>1, <2>2, MadeIsItem, CreatePuts
<1>5. CASE MakeItem
  <2>1. CASE tree' = tree
    BY <1>2, <2>1
  <2>2. CASE tree' # tree
    <3>1. PICK id \in Ids : Create(id, NewItem)
      BY <1>5, <2>2 DEF MakeItem
    <3>2. OnTheWay(call, tree)
      BY <1>3, <1>5 DEF MakeItem, Arrived, CallOK
    <3>3. ValueOf(NewItem) \in Contents \cup {"directory"}
      <4>1. call.op \in DirCalls \/ call.content \in Contents
        BY <3>2 DEF OnTheWay, WalkCalls, AddCalls
      <4>2. CASE call.op \in DirCalls
        BY <4>2 DEF NewItem, ValueOf
      <4>3. CASE call.op \notin DirCalls
        BY <4>1, <4>3 DEF NewItem, ValueOf
      <4> QED
        BY <4>2, <4>3
    <3> QED
      BY <1>1, <3>1, <3>3, MadeIsItem, CreatePuts
  <2> QED
    BY <2>1, <2>2
<1>6. CASE ReplaceContent
  <2>1. SetContent(call.at, call.content) /\ call.stage = "replacing"
    BY <1>6 DEF ReplaceContent
  <2>2. call.at \in DOMAIN tree /\ call.content \in Contents
    BY <1>1, <1>3, <2>1, AtFile
  <2> QED
    BY <1>1, <2>1, <2>2, SetContentOverwrites
<1>7. CASE RemoveItem
  <2>1. Delete(call.at) /\ call.stage = "removing"
    BY <1>7 DEF RemoveItem
  <2>2. call.at \in DOMAIN tree
    BY <1>1, <1>3, <2>1, AtRemoval
  <2> QED
    BY <1>1, <2>1, <2>2, DeleteDeletes
<1>8. CASE Interrupted
  <2>1. \/ tree' = tree
        \/ call.stage = "replacing" /\ SetContent(call.at, Damaged)
        \/ call.stage = "removing" /\ RemovePart(call.at)
    BY <1>8 DEF Interrupted, RemovedUntilCut, Damage
  <2>2. call.stage \in {"replacing", "removing"} => call.at \in DOMAIN tree
    BY <1>1, <1>3, AtFile, AtRemoval
  <2> QED
    BY <1>1, <1>2, <2>1, <2>2, SetContentOverwrites, RemovePartDeletes
<1>9. CASE UsedById
  BY <1>1, <1>9, ByIdIsByPath DEF UsedById, NextWithCrashes
<1>10. ASSUME \/ \E raw \in RawPaths :
                   \/ \E op \in DirCalls : BeginDir(op, raw)
                   \/ \E op \in WriteCalls, content \in Contents : BeginWrite(op, raw, content)
                   \/ \E op \in RemoveCalls : BeginRemove(op, raw)
              \/ WalkInto \/ WalkCollides \/ GotDir \/ Answer \/ UNCHANGED vars
       PROVE  tree' = tree
  BY <1>10 DEF BeginDir, BeginWrite, BeginRemove, WalkInto, WalkCollides, GotDir, Answer, vars
<1> QED
  BY <1>2, <1>4, <1>5, <1>6, <1>7, <1>8, <1>9, <1>10 DEF PathsNext

(***************************************************************************)
(* To someone who only knows paths, whatever is done by path or by ID, cut *)
(* off or not, is a step of a map from paths to contents: IDs, and which   *)
(* are given out again, never show.                                        *)
(***************************************************************************)
THEOREM PathsImplementPathStore == PathsSpec => ImplementsPathStore
<1>1. PathsInit => ByPath!Init
  <2> SUFFICES ASSUME PathsInit PROVE Store = <<>>
    BY DEF ByPath!Init
  <2>1. DOMAIN Store = {} /\ Store = [q \in DOMAIN Store |-> Store[q]]
    BY DEF PathsInit, Init, Store
  <2> QED
    BY <2>1
<1>2. PathsInv /\ PathsInv' /\ [PathsNext]_vars => [ByPath!Next]_Store
  BY StepsByPath DEF PathsInv
<1> QED
  BY <1>1, <1>2, PathsInvAlways, PTL DEF PathsSpec, ImplementsPathStore, ByPath!Spec

-----------------------------------------------------------------------------
(***************************************************************************)
(* Going through a tree, from here on.  First, what is below what.         *)
(***************************************************************************)
SoundTree == TreeInv /\ IsTree(tree)

LEMMA SoundItem ==
  ASSUME SoundTree, NEW x \in DOMAIN tree
  PROVE  /\ x # Root /\ x \in Nat /\ tree[x].name \in Names /\ tree[x].kind \in {"dir", "file"}
         /\ tree[x].parent_dir # Root =>
              tree[x].parent_dir \in DOMAIN tree /\ tree[tree[x].parent_dir].kind = "dir"
         /\ x \in Below(x)
         /\ Below(x) \subseteq DOMAIN tree
<1>1. ItemsOK(tree)
  BY DEF SoundTree, IsTree
<1>2. x \in Ids
  BY <1>1 DEF ItemsOK
<1> QED
  BY <1>1, <1>2, ItemsHave, ChildrenAreBelow, IdsAssumption DEF ItemsOK, Below

LEMMA ChildBelow ==
  ASSUME NEW b \in DOMAIN tree, NEW y \in Below(b), NEW w \in Children(y)
  PROVE  w \in Below(b)
<1>1. y \in DOMAIN tree
  BY DEF Below
<1> QED
  BY <1>1, ChildrenAreBelow, BelowIsTransitive

\* An item below another is that one or below it with its parent.
LEMMA ParentBelow ==
  ASSUME NEW b \in DOMAIN tree, NEW x \in Below(b), x # b
  PROVE  tree[x].parent_dir \in Below(b)
<1> DEFINE X == {z \in Below(b) : z = b \/ tree[z].parent_dir \in Below(b)}
<1>1. Closed(X)
  <2>1. X \subseteq DOMAIN tree
    BY DEF Below
  <2>2. ASSUME NEW y \in X, NEW w \in Children(y) PROVE w \in X
    BY ChildBelow DEF Children
  <2> QED
    BY <2>1, <2>2 DEF Closed
<1>2. b \in X
  BY ChildrenAreBelow
<1> QED
  BY <1>1, <1>2, BelowIsLeast

LEMMA NotItsParent ==
  ASSUME SoundTree, NEW x \in DOMAIN tree
  PROVE  tree[x].parent_dir # x
<1> SUFFICES ASSUME tree[x].parent_dir = x PROVE FALSE
  OBVIOUS
<1>1. PICK top \in Children(Root) : x \in Below(top)
  BY DEF SoundTree, TreeInv, EveryItemHasAPath
<1> DEFINE X == Below(top) \ {x}
<1>2. top \in DOMAIN tree /\ top # x
  BY SoundItem DEF Children
<1>3. Closed(X)
  <2>1. X \subseteq DOMAIN tree
    BY DEF Below
  <2>2. ASSUME NEW y \in X, NEW w \in Children(y) PROVE w \in X
    BY <1>2, ChildBelow DEF Children
  <2> QED
    BY <2>1, <2>2 DEF Closed
<1>4. top \in X
  BY <1>2, ChildrenAreBelow
<1> HIDE DEF X
<1>5. x \in X
  BY <1>1, <1>3, <1>4, BelowIsLeast
<1> QED
  BY <1>5 DEF X

\* What is above an item is one line.
LEMMA AboveIsALine ==
  ASSUME NEW a \in DOMAIN tree, NEW b \in DOMAIN tree, NEW x \in Below(a), x \in Below(b)
  PROVE  a \in Below(b) \/ b \in Below(a)
<1> DEFINE X == {z \in Below(a) : z \in Below(b) => a \in Below(b) \/ b \in Below(a)}
<1>1. Closed(X)
  <2>1. X \subseteq DOMAIN tree
    BY DEF Below
  <2>2. ASSUME NEW y \in X, NEW w \in Children(y) PROVE w \in X
    <3>1. w \in Below(a)
      BY ChildBelow
    <3>2. ASSUME w \in Below(b), w # b PROVE y \in Below(b)
      BY <3>2, ParentBelow DEF Children
    <3> QED
      BY <3>1, <3>2
  <2> QED
    BY <2>1, <2>2 DEF Closed
<1>2. a \in X
  BY ChildrenAreBelow
<1> HIDE DEF X
<1>3. x \in X
  BY <1>1, <1>2, BelowIsLeast
<1> QED
  BY <1>3 DEF X

LEMMA NoCycle ==
  ASSUME SoundTree, NEW x \in DOMAIN tree, NEW y \in DOMAIN tree, y \in Below(x), x \in Below(y)
  PROVE  x = y
<1>1. PICK top \in Children(Root) : x \in Below(top)
  BY DEF SoundTree, TreeInv, EveryItemHasAPath
<1> DEFINE X == {z \in Below(top) : \A v \in Below(z) : z \in Below(v) => v = z}
<1>2. top \in DOMAIN tree /\ tree[top].parent_dir = Root
  BY DEF Children
<1>3. ASSUME NEW v \in Below(top), top \in Below(v) PROVE v = top
  <2>1. v \in DOMAIN tree /\ Below(v) \subseteq DOMAIN tree /\ Root \notin DOMAIN tree
    BY SoundItem DEF Below
  <2> QED
    BY <1>2, <1>3, <2>1, ParentBelow
<1>4. Closed(X)
  <2>1. X \subseteq DOMAIN tree
    BY DEF Below
  <2>2. ASSUME NEW y1 \in X, NEW w \in Children(y1), NEW v \in Below(w), w \in Below(v)
        PROVE  v = w
    <3> SUFFICES ASSUME v # w PROVE FALSE
      OBVIOUS
    <3>1. w \in DOMAIN tree /\ y1 \in DOMAIN tree /\ v \in DOMAIN tree
      BY <2>1 DEF Children, Below
    <3>2. y1 \in Below(v)
      BY <2>2, <3>1, ParentBelow DEF Children
    <3>3. v \in Below(y1) /\ w \in Below(y1)
      BY <3>1, ChildrenAreBelow, BelowIsTransitive
    <3>4. v = y1
      BY <3>2, <3>3
    <3>5. y1 \in Below(w)
      BY <3>4
    <3>6. w = y1
      BY <2>2, <3>1, <3>3, <3>4
    <3> QED
      BY <3>4, <3>6
  <2>3. ASSUME NEW y1 \in X, NEW w \in Children(y1) PROVE w \in X
    BY <1>2, <2>2, ChildBelow
  <2> QED
    BY <2>1, <2>3 DEF Closed
<1>5. top \in X
  BY <1>2, <1>3, ChildrenAreBelow
<1> HIDE DEF X
<1>6. x \in X
  BY <1>1, <1>4, <1>5, BelowIsLeast
<1> QED
  BY <1>6 DEF X

LEMMA SiblingsApart ==
  ASSUME SoundTree, NEW p \in DOMAIN tree, NEW q \in DOMAIN tree, p # q,
         tree[p].parent_dir = tree[q].parent_dir
  PROVE  Below(p) \cap Below(q) = {}
<1>1. ASSUME NEW a \in {p, q}, NEW b \in {p, q}, a # b, a \in Below(b) PROVE FALSE
  <2> DEFINE d == tree[b].parent_dir
  <2>1. d \in Below(b)
    BY <1>1, ParentBelow
  <2>2. d \in DOMAIN tree
    BY <1>1, <2>1, SoundItem
  <2>3. b \in Below(d)
    BY <1>1, <2>2, ChildrenAreBelow DEF Children
  <2> QED
    BY <1>1, <2>1, <2>2, <2>3, NoCycle, NotItsParent
<1> QED
  BY <1>1, AboveIsALine

LEMMA FilesHoldNothing ==
  ASSUME SoundTree, NEW x \in DOMAIN tree, tree[x].kind = "file"
  PROVE  Below(x) = {x}
<1>1. Children(x) = {}
  BY SoundItem DEF Children
<1>2. Closed({x})
  BY <1>1 DEF Closed
<1> QED
  BY <1>2, SoundItem, BelowIsLeast

\* What a directory holds.
BelowDir(d) == IF d = Root THEN DOMAIN tree ELSE Below(d) \ {d}

LEMMA BelowDirIs ==
  ASSUME SoundTree, NEW d \in DirIds \cup {Root}
  PROVE  BelowDir(d) = UNION {Below(x) : x \in Children(d)}
<1>1. CASE d = Root
  <2>1. BelowDir(d) \subseteq UNION {Below(x) : x \in Children(d)}
    BY <1>1 DEF BelowDir, SoundTree, TreeInv, EveryItemHasAPath
  <2>2. UNION {Below(x) : x \in Children(d)} \subseteq BelowDir(d)
    BY <1>1 DEF BelowDir, Below
  <2> QED
    BY <2>1, <2>2
<1>2. CASE d # Root
  <2>1. d \in DOMAIN tree
    BY <1>2 DEF DirIds
  <2> DEFINE X == {z \in Below(d) : z = d \/ \E x \in Children(d) : z \in Below(x)}
  <2>2. Closed(X)
    <3>1. X \subseteq DOMAIN tree
      BY DEF Below
    <3>2. ASSUME NEW y \in X, NEW w \in Children(y) PROVE w \in X
      <4>1. w \in Below(d) /\ w \in DOMAIN tree
        BY <2>1, ChildBelow DEF Children
      <4>2. CASE y = d
        BY <4>1, <4>2, ChildrenAreBelow
      <4>3. CASE y # d
        <5>1. PICK x \in Children(d) : y \in Below(x)
          BY <4>3
        <5>2. w \in Below(x)
          BY <5>1, ChildBelow DEF Children
        <5> QED
          BY <4>1, <5>1, <5>2
      <4> QED
        BY <4>2, <4>3
    <3> QED
      BY <3>1, <3>2 DEF Closed
  <2>3. d \in X
    BY <2>1, ChildrenAreBelow
  <2> HIDE DEF X
  <2>4. Below(d) \subseteq X
    BY <2>1, <2>2, <2>3, BelowIsLeast
  <2>5. BelowDir(d) \subseteq UNION {Below(x) : x \in Children(d)}
    BY <1>2, <2>4 DEF BelowDir, X
  <2>6. ASSUME NEW x \in Children(d), NEW y \in Below(x) PROVE y \in Below(d) /\ y # d
    <3>1. x \in DOMAIN tree /\ x \in Below(d)
      BY <2>1, ChildrenAreBelow DEF Children
    <3>2. x # d
      BY <3>1, NotItsParent DEF Children
    <3> QED
      BY <2>1, <3>1, <3>2, BelowIsTransitive, NoCycle
  <2> QED
    BY <1>2, <2>5, <2>6 DEF BelowDir
<1> QED
  BY <1>1, <1>2

-----------------------------------------------------------------------------
(* The documented order is one. *)

GoesFirst(p, q) ==
  \/ tree[p].kind = "dir" /\ tree[q].kind = "file"
  \/ tree[p].kind = tree[q].kind /\ Less(tree[p].name, tree[q].name)

\* The ways to x and y part at p and q.
PartAt(p, q, x, y) ==
  /\ p \in DOMAIN tree /\ q \in DOMAIN tree /\ p # q /\ tree[p].parent_dir = tree[q].parent_dir
  /\ x \in Below(p) /\ y \in Below(q)

Comes(x, y) ==
  \/ x # y /\ y \in Below(x)
  \/ \E p, q : PartAt(p, q, x, y) /\ GoesFirst(p, q)

LEMMA ComesIsPrecedes ==
  ASSUME NEW x \in DOMAIN tree, NEW y \in DOMAIN tree
  PROVE  Precedes(Ways, x, y) <=> Comes(x, y)
<1>1. ASSUME NEW p \in DOMAIN tree, NEW z PROVE <<p, z>> \in Ways <=> z \in Below(p)
  <2>1. ASSUME NEW r, NEW v PROVE <<r, v>> = <<p, z>> <=> r = p /\ v = z
    OBVIOUS
  <2> QED
    BY <2>1 DEF Ways
<1> QED
  BY <1>1 DEF Precedes, Comes, PartAt, GoesFirst

LEMMA PartApart ==
  ASSUME SoundTree, NEW p, NEW q, NEW x, NEW y, PartAt(p, q, x, y)
  PROVE  y \notin Below(x) /\ x \notin Below(y)
<1>1. Below(p) \cap Below(q) = {}
  BY SiblingsApart DEF PartAt
<1> QED
  BY <1>1, BelowIsTransitive DEF PartAt

LEMMA PartAtOne ==
  ASSUME SoundTree, NEW p, NEW q, NEW p2, NEW q2, NEW x, NEW y,
         PartAt(p, q, x, y), PartAt(p2, q2, x, y)
  PROVE  p = p2
<1>1. ASSUME NEW a, NEW b, NEW a2, NEW b2, PartAt(a, b, x, y), PartAt(a2, b2, x, y),
             a2 \in Below(a), a2 # a
      PROVE  FALSE
  <2> DEFINE d == tree[a2].parent_dir
  <2>1. a \in DOMAIN tree /\ d \in Below(a) /\ b2 \in Children(d)
    BY <1>1, ParentBelow DEF PartAt, Children
  <2>2. b2 \in Below(a)
    BY <2>1, ChildBelow
  <2>3. y \in Below(a) /\ y \in Below(b)
    BY <1>1, <2>2, BelowIsTransitive DEF PartAt
  <2> QED
    BY <1>1, <2>3, SiblingsApart DEF PartAt
<1>2. p2 \in Below(p) \/ p \in Below(p2)
  BY AboveIsALine DEF PartAt
<1> QED
  BY <1>1, <1>2

LEMMA ComesOneWay ==
  ASSUME SoundTree, NEW x \in DOMAIN tree, NEW y \in DOMAIN tree, Comes(x, y)
  PROVE  ~Comes(y, x)
<1> SUFFICES ASSUME Comes(y, x) PROVE FALSE
  OBVIOUS
<1>1. ASSUME NEW v, NEW z, NEW p, NEW q, PartAt(p, q, v, z) PROVE PartAt(q, p, z, v)
  BY <1>1 DEF PartAt
<1>2. CASE y \in Below(x) \/ x \in Below(y)
  BY <1>2, PartApart, NoCycle DEF Comes
<1>3. CASE y \notin Below(x) /\ x \notin Below(y)
  <2>1. PICK p, q : PartAt(p, q, x, y) /\ GoesFirst(p, q)
    BY <1>3 DEF Comes
  <2>2. PICK q2, p2 : PartAt(q2, p2, y, x) /\ GoesFirst(q2, p2)
    BY <1>3 DEF Comes
  <2>3. PartAt(p2, q2, x, y) /\ PartAt(q, p, y, x)
    BY <1>1, <2>1, <2>2
  <2>4. p = p2 /\ q = q2
    BY <2>1, <2>2, <2>3, PartAtOne
  <2>5. tree[p].name # tree[q].name
    BY <2>1 DEF PartAt, SoundTree, TreeInv, PathsAreUnique
  <2>6. tree[p].name \in Names /\ tree[q].name \in Names
    BY <2>1, SoundItem DEF PartAt
  <2> QED
    BY <2>1, <2>2, <2>4, <2>5, <2>6, OrderAssumption DEF GoesFirst
<1> QED
  BY <1>2, <1>3

-----------------------------------------------------------------------------
(* The stack of iterators: what they have yet to give, what was given. *)

Iterators == [dir_id : DirIds \cup {Root}, state : {"dirs", "files"}, next : SUBSET DOMAIN tree]

IteratorOK(f) ==
  /\ f \in Iterators
  /\ f.state = "dirs"  => f.next \subseteq DirsIn(f.dir_id)
  /\ f.state = "files" => f.next \subseteq FilesIn(f.dir_id)

\* g is in the directory that f has entered last.
Within(f, g) ==
  /\ f.state = "dirs" /\ g.dir_id \in DirsIn(f.dir_id)
  /\ \A y \in f.next : Less(tree[g.dir_id].name, tree[y].name)

StackOK(s) ==
  /\ s \in Seq(Iterators)
  /\ \A i \in 1 .. Len(s) : IteratorOK(s[i])
  /\ \A i \in 1 .. Len(s) - 1 : Within(s[i], s[i + 1])
  /\ \A i, j \in 1 .. Len(s) : i < j => s[j].dir_id \in Below(s[i + 1].dir_id)

InDirs(f) == UNION {Below(x) : x \in f.next}

Pending(f) == IF f.state = "dirs" THEN InDirs(f) \cup FilesIn(f.dir_id) ELSE f.next

LEMMA PendingIs ==
  ASSUME NEW f
  PROVE  /\ f.state = "dirs" => Pending(f) = InDirs(f) \cup FilesIn(f.dir_id)
         /\ f.state # "dirs" => Pending(f) = f.next
BY Zenon DEF Pending

AllPending(s) == UNION {Pending(s[i]) : i \in 1 .. Len(s)}

ItemsOf(ys) == {ys[i] : i \in 1 .. Len(ys)}

GivenOK(d, s, ys) ==
  /\ ys \in Seq(DOMAIN tree)
  /\ AllPending(s) \subseteq BelowDir(d)
  /\ ItemsOf(ys) = BelowDir(d) \ AllPending(s)
  /\ \A x \in ItemsOf(ys), y \in AllPending(s) : Comes(x, y)
  /\ \A i, j \in 1 .. Len(ys) : i < j => Comes(ys[i], ys[j])

Walk(d, s, ys) ==
  IF d = NotIterating THEN s = <<>> /\ ys = <<>>
  ELSE d \in DirIds \cup {Root} /\ StackOK(s) /\ GivenOK(d, s, ys)

IterInv == SoundTree /\ Walk(iterating, stack, yielded)

\* What the iterators around the innermost have yet to give comes after
\* everything in its directory.
LEMMA OuterComesLater ==
  ASSUME SoundTree, NEW s, StackOK(s), NEW i \in 1 .. Len(s) - 1,
         NEW x \in Below(s[Len(s)].dir_id), NEW y \in Pending(s[i])
  PROVE  Comes(x, y)
<1> DEFINE n == Len(s)
           h == s[i + 1].dir_id
<1>1. n \in Nat /\ i \in 1 .. n /\ n \in 1 .. n /\ i < n
  BY DEF StackOK
<1>2. Within(s[i], s[i + 1]) /\ s[n].dir_id \in Below(h) /\ IteratorOK(s[i])
  BY <1>1 DEF StackOK
<1>3. h \in DOMAIN tree /\ tree[h].kind = "dir" /\ tree[h].parent_dir = s[i].dir_id
  BY <1>2 DEF Within, DirsIn, DirIds, Children
<1>4. x \in Below(h)
  BY <1>2, BelowIsTransitive
<1>5. CASE y \in FilesIn(s[i].dir_id)
  <2>1. y \in DOMAIN tree /\ tree[y].kind = "file" /\ tree[y].parent_dir = s[i].dir_id
    BY <1>5, SoundItem DEF FilesIn, Children, DirIds
  <2>2. y \in Below(y) /\ y # h
    BY <1>3, <2>1, SoundItem
  <2> QED
    BY <1>3, <1>4, <2>1, <2>2 DEF Comes, PartAt, GoesFirst
<1>6. CASE y \notin FilesIn(s[i].dir_id)
  <2>1. PICK z \in s[i].next : y \in Below(z)
    <3>1. Pending(s[i]) = InDirs(s[i]) \cup FilesIn(s[i].dir_id)
      BY <1>2, PendingIs DEF Within
    <3>2. y \in InDirs(s[i])
      BY <1>6, <3>1
    <3> QED
      BY <3>2 DEF InDirs
  <2>2. z \in DOMAIN tree /\ tree[z].kind = "dir" /\ tree[z].parent_dir = s[i].dir_id
    BY <1>2 DEF IteratorOK, Within, DirsIn, DirIds, Children
  <2>3. Less(tree[h].name, tree[z].name)
    BY <1>2 DEF Within
  <2>4. h # z
    BY <1>3, <2>3, SoundItem, OrderAssumption
  <2> QED
    BY <1>3, <1>4, <2>1, <2>2, <2>3, <2>4 DEF Comes, PartAt, GoesFirst
<1> QED
  BY <1>5, <1>6

\* One more item is given.
LEMMA GivesOne ==
  ASSUME SoundTree, NEW d, NEW s, NEW ys, GivenOK(d, s, ys), NEW s2, NEW x \in AllPending(s),
         AllPending(s2) \subseteq AllPending(s), AllPending(s) \subseteq AllPending(s2) \cup {x},
         BelowDir(d) \subseteq DOMAIN tree,
         \A y \in AllPending(s2) : Comes(x, y)
  PROVE  GivenOK(d, s2, Append(ys, x))
<1> DEFINE P == AllPending(s)
           P2 == AllPending(s2)
           more == Append(ys, x)
<1>1. ys \in Seq(DOMAIN tree) /\ P \subseteq BelowDir(d) /\ ItemsOf(ys) = BelowDir(d) \ P
  BY DEF GivenOK
<1>2. x \in DOMAIN tree
  BY <1>1
<1>3. /\ more \in Seq(DOMAIN tree) /\ Len(more) = Len(ys) + 1 /\ more[Len(ys) + 1] = x
      /\ \A i \in 1 .. Len(ys) : more[i] = ys[i]
      /\ Len(ys) \in Nat
  BY <1>1, <1>2
<1> HIDE DEF more, P, P2
<1>4. ItemsOf(more) = ItemsOf(ys) \cup {x}
  BY <1>3 DEF ItemsOf
<1>5. x \notin P2
  BY <1>2, ComesOneWay DEF P2
<1>6. ItemsOf(more) = BelowDir(d) \ P2
  BY <1>1, <1>4, <1>5 DEF P, P2
<1>7. \A v \in ItemsOf(more), y \in P2 : Comes(v, y)
  BY <1>4 DEF P2, GivenOK
<1>8. \A i, j \in 1 .. Len(more) : i < j => Comes(more[i], more[j])
  <2> SUFFICES ASSUME NEW i \in 1 .. Len(more), NEW j \in 1 .. Len(more), i < j
               PROVE  Comes(more[i], more[j])
    OBVIOUS
  <2>1. i \in 1 .. Len(ys) /\ (j \in 1 .. Len(ys) \/ j = Len(ys) + 1)
    BY <1>3
  <2>2. CASE j \in 1 .. Len(ys)
    BY <1>3, <2>1, <2>2 DEF GivenOK
  <2>3. CASE j = Len(ys) + 1
    <3>1. ys[i] \in ItemsOf(ys)
      BY <2>1 DEF ItemsOf
    <3> QED
      BY <1>3, <2>1, <2>3, <3>1 DEF GivenOK
  <2> QED
    BY <2>1, <2>2, <2>3
<1> QED
  BY <1>1, <1>3, <1>6, <1>7, <1>8 DEF GivenOK, more, P, P2

-----------------------------------------------------------------------------
(* The steps of the iterators, on the stack. *)

\* Another innermost iterator, of the same directory.
WithLast(s, f) == [s EXCEPT ![Len(s)] = f]

LEMMA WithLastIs ==
  ASSUME NEW S, NEW s \in Seq(S), s # <<>>, NEW f \in S
  PROVE  /\ WithLast(s, f) \in Seq(S) /\ Len(WithLast(s, f)) = Len(s)
         /\ Len(s) \in Nat /\ Len(s) \in 1 .. Len(s)
         /\ WithLast(s, f)[Len(s)] = f /\ WithLast(s, f) # <<>>
         /\ \A i \in 1 .. Len(s) - 1 : WithLast(s, f)[i] = s[i]
BY DEF WithLast

LEMMA LastChanged ==
  ASSUME NEW s, StackOK(s), s # <<>>, NEW f, IteratorOK(f), f.dir_id = s[Len(s)].dir_id
  PROVE  StackOK(WithLast(s, f))
<1> DEFINE n == Len(s)
           t == WithLast(s, f)
<1>1. /\ t \in Seq(Iterators) /\ Len(t) = n /\ n \in Nat /\ n \in 1 .. n /\ t[n] = f
      /\ \A i \in 1 .. n - 1 : t[i] = s[i]
  BY WithLastIs DEF StackOK, IteratorOK
<1> HIDE DEF t
<1>2. \A i \in 1 .. n : t[i].dir_id = s[i].dir_id
  <2> SUFFICES ASSUME NEW i \in 1 .. n PROVE t[i].dir_id = s[i].dir_id
    OBVIOUS
  <2>1. i = n \/ i \in 1 .. n - 1
    BY <1>1
  <2> QED
    BY <1>1, <2>1
<1>3. ASSUME NEW i \in 1 .. n PROVE IteratorOK(t[i])
  <2>1. i = n \/ i \in 1 .. n - 1
    BY <1>1
  <2> QED
    BY <1>1, <2>1 DEF StackOK
<1>4. ASSUME NEW i \in 1 .. n - 1 PROVE Within(t[i], t[i + 1])
  <2>1. i + 1 \in 1 .. n /\ Within(s[i], s[i + 1])
    BY <1>1 DEF StackOK
  <2>2. t[i + 1].dir_id = s[i + 1].dir_id
    BY <1>2, <2>1
  <2> QED
    BY <1>1, <2>1, <2>2 DEF Within
<1>5. ASSUME NEW i \in 1 .. n, NEW j \in 1 .. n, i < j PROVE t[j].dir_id \in Below(t[i + 1].dir_id)
  <2>1. i + 1 \in 1 .. n
    BY <1>1, <1>5
  <2> QED
    BY <1>2, <1>5, <2>1 DEF StackOK
<1> QED
  BY <1>1, <1>3, <1>4, <1>5 DEF StackOK, t

LEMMA Entered ==
  ASSUME SoundTree, NEW s, StackOK(s), s # <<>>, NEW g, IteratorOK(g), Within(s[Len(s)], g)
  PROVE  StackOK(Append(s, g))
<1> DEFINE n == Len(s)
           t == Append(s, g)
<1>1. /\ t \in Seq(Iterators) /\ Len(t) = n + 1 /\ n \in Nat /\ n \in 1 .. n /\ t[n + 1] = g
      /\ \A i \in 1 .. n : t[i] = s[i]
  BY DEF StackOK, IteratorOK
<1> HIDE DEF t
<1>2. /\ g.dir_id \in DOMAIN tree /\ g.dir_id \in Below(g.dir_id)
      /\ g.dir_id \in Children(s[n].dir_id)
  BY SoundItem DEF Within, DirsIn, DirIds
<1>3. ASSUME NEW i \in 1 .. n + 1 PROVE IteratorOK(t[i])
  <2>1. i = n + 1 \/ i \in 1 .. n
    BY <1>1
  <2> QED
    BY <1>1, <2>1 DEF StackOK
<1>4. ASSUME NEW i \in 1 .. n PROVE Within(t[i], t[i + 1])
  <2>1. i = n \/ (i \in 1 .. n - 1 /\ i + 1 \in 1 .. n)
    BY <1>1
  <2> QED
    BY <1>1, <2>1 DEF StackOK
<1>5. ASSUME NEW i \in 1 .. n + 1, NEW j \in 1 .. n + 1, i < j
      PROVE  t[j].dir_id \in Below(t[i + 1].dir_id)
  <2>1. i \in 1 .. n /\ (j \in 1 .. n \/ j = n + 1) /\ (i = n \/ (i < n /\ i + 1 \in 1 .. n))
    BY <1>1, <1>5
  <2>2. CASE j \in 1 .. n
    <3>1. i < n /\ i + 1 \in 1 .. n
      BY <1>1, <1>5, <2>2
    <3> QED
      BY <1>1, <1>5, <2>1, <2>2, <3>1 DEF StackOK
  <2>3. CASE j = n + 1 /\ i = n
    BY <1>1, <1>2, <2>3
  <2>4. CASE j = n + 1 /\ i < n
    <3> DEFINE h == s[i + 1].dir_id
    <3>1. i + 1 \in 1 .. n /\ i \in 1 .. n - 1
      BY <1>1, <2>4
    <3>2. s[n].dir_id \in Below(h) /\ Within(s[i], s[i + 1])
      BY <1>1, <2>1, <2>4, <3>1 DEF StackOK
    <3>3. h \in DOMAIN tree
      BY <3>2 DEF Within, DirsIn, DirIds
    <3>4. g.dir_id \in Below(h)
      BY <1>2, <3>2, <3>3, ChildBelow
    <3> QED
      BY <1>1, <2>4, <3>1, <3>4
  <2> QED
    BY <2>1, <2>2, <2>3, <2>4
<1> QED
  BY <1>1, <1>3, <1>4, <1>5 DEF StackOK, t

LEMMA FrontIs ==
  ASSUME NEW S, NEW s \in Seq(S), NEW k \in 0 .. Len(s)
  PROVE  /\ SubSeq(s, 1, k) \in Seq(S) /\ Len(SubSeq(s, 1, k)) = k
         /\ \A i \in 1 .. k : SubSeq(s, 1, k)[i] = s[i]
OBVIOUS

LEMMA LeftOne ==
  ASSUME NEW s, StackOK(s), s # <<>>
  PROVE  StackOK(SubSeq(s, 1, Len(s) - 1))
<1> DEFINE n == Len(s)
           t == SubSeq(s, 1, Len(s) - 1)
<1>1. /\ t \in Seq(Iterators) /\ Len(t) = n - 1 /\ n \in Nat /\ n >= 1
      /\ \A i \in 1 .. n - 1 : t[i] = s[i]
  <2>1. s \in Seq(Iterators)
    BY DEF StackOK
  <2>2. n \in Nat /\ n >= 1 /\ n - 1 \in 0 .. n
    BY <2>1
  <2> QED
    BY <2>1, <2>2, FrontIs
<1> HIDE DEF t
<1>2. ASSUME NEW i \in 1 .. n - 1, NEW j \in 1 .. n - 1, i < j
      PROVE  t[j].dir_id \in Below(t[i + 1].dir_id)
  <2>1. i \in 1 .. n /\ j \in 1 .. n /\ i + 1 \in 1 .. n - 1
    BY <1>1, <1>2
  <2> QED
    BY <1>1, <1>2, <2>1 DEF StackOK
<1>3. ASSUME NEW i \in 1 .. n - 2 PROVE Within(t[i], t[i + 1])
  <2>1. i \in 1 .. n - 1 /\ i + 1 \in 1 .. n - 1
    BY <1>1
  <2> QED
    BY <1>1, <2>1 DEF StackOK
<1>4. ASSUME NEW i \in 1 .. n - 1 PROVE IteratorOK(t[i])
  <2>1. i \in 1 .. n
    BY <1>1
  <2> QED
    BY <1>1, <2>1 DEF StackOK
<1>5. Len(t) - 1 = n - 2
  BY <1>1
<1>6. StackOK(t)
  BY <1>1, <1>2, <1>3, <1>4, <1>5 DEF StackOK
<1> QED
  BY <1>6 DEF t

\* What is pending, by the innermost iterator and those around it.
OuterPending(s) == UNION {Pending(s[i]) : i \in 1 .. Len(s) - 1}

LEMMA PendingSplit ==
  ASSUME NEW s, s \in Seq(Iterators), s # <<>>
  PROVE  AllPending(s) = OuterPending(s) \cup Pending(s[Len(s)])
<1>1. Len(s) \in Nat /\ 1 .. Len(s) = (1 .. Len(s) - 1) \cup {Len(s)}
  OBVIOUS
<1> QED
  BY <1>1 DEF AllPending, OuterPending

LEMMA PendingWithLast ==
  ASSUME NEW s \in Seq(Iterators), s # <<>>, NEW f \in Iterators
  PROVE  /\ OuterPending(WithLast(s, f)) = OuterPending(s)
         /\ AllPending(WithLast(s, f)) = OuterPending(s) \cup Pending(f)
<1> DEFINE t == WithLast(s, f)
<1>1. /\ t \in Seq(Iterators) /\ Len(t) = Len(s) /\ t[Len(s)] = f /\ t # <<>>
      /\ \A i \in 1 .. Len(s) - 1 : t[i] = s[i]
  BY WithLastIs
<1> HIDE DEF t
<1>2. OuterPending(t) = OuterPending(s)
  BY <1>1 DEF OuterPending
<1>3. AllPending(t) = OuterPending(t) \cup Pending(t[Len(t)])
  BY <1>1, PendingSplit
<1> QED
  BY <1>1, <1>2, <1>3 DEF t

LEMMA PendingAppended ==
  ASSUME NEW s \in Seq(Iterators), NEW g \in Iterators
  PROVE  AllPending(Append(s, g)) = AllPending(s) \cup Pending(g)
<1> DEFINE t == Append(s, g)
<1>1. /\ Len(t) = Len(s) + 1 /\ Len(s) \in Nat /\ t[Len(s) + 1] = g
      /\ \A i \in 1 .. Len(s) : t[i] = s[i]
  OBVIOUS
<1>2. 1 .. Len(s) + 1 = (1 .. Len(s)) \cup {Len(s) + 1}
  BY <1>1
<1> HIDE DEF t
<1> QED
  BY <1>1, <1>2 DEF AllPending, t

LEMMA PendingOuter ==
  ASSUME NEW s \in Seq(Iterators), s # <<>>
  PROVE  AllPending(SubSeq(s, 1, Len(s) - 1)) = OuterPending(s)
<1> DEFINE t == SubSeq(s, 1, Len(s) - 1)
<1>1. Len(t) = Len(s) - 1 /\ \A i \in 1 .. Len(s) - 1 : t[i] = s[i]
  OBVIOUS
<1> HIDE DEF t
<1> QED
  BY <1>1 DEF AllPending, OuterPending, t

-----------------------------------------------------------------------------
LEMMA InDirectory ==
  ASSUME SoundTree, NEW d \in DirIds \cup {Root}
  PROVE  /\ DirsIn(d) \subseteq DOMAIN tree /\ FilesIn(d) \subseteq DOMAIN tree
         /\ \A x \in DirsIn(d) : tree[x].kind = "dir" /\ tree[x].parent_dir = d /\ x \in DirIds
         /\ \A x \in FilesIn(d) : tree[x].kind = "file" /\ tree[x].parent_dir = d
         /\ Children(d) = DirsIn(d) \cup FilesIn(d)
<1>1. /\ DirsIn(d) \subseteq DOMAIN tree /\ FilesIn(d) \subseteq DOMAIN tree
      /\ Children(d) = DirsIn(d) \cup FilesIn(d)
  BY DEF DirsIn, FilesIn, Children
<1>2. \A x \in DirsIn(d) : tree[x].kind = "dir" /\ tree[x].parent_dir = d /\ x \in DirIds
  BY DEF DirsIn, Children, DirIds
<1>3. \A x \in FilesIn(d) : tree[x].kind = "file" /\ tree[x].parent_dir = d
  BY SoundItem DEF FilesIn, Children, DirIds
<1> QED
  BY <1>1, <1>2, <1>3

LEMMA IteratorIs ==
  ASSUME NEW d, NEW state, NEW next
  PROVE  /\ Iterator(d, state, next).dir_id = d /\ Iterator(d, state, next).state = state
         /\ Iterator(d, state, next).next = next
BY DEF Iterator

LEMMA IteratorsAre ==
  ASSUME SoundTree, NEW d \in DirIds \cup {Root}
  PROVE  /\ \A next \in SUBSET DirsIn(d)  : IteratorOK(Iterator(d, "dirs", next))
         /\ \A next \in SUBSET FilesIn(d) : IteratorOK(Iterator(d, "files", next))
         /\ IteratorOK(NewIter(d))
<1>1. DirsIn(d) \subseteq DOMAIN tree /\ FilesIn(d) \subseteq DOMAIN tree
  BY InDirectory
<1>2. ASSUME NEW next \in SUBSET DirsIn(d) PROVE IteratorOK(Iterator(d, "dirs", next))
  BY <1>1 DEF IteratorOK, Iterators, Iterator
<1>3. ASSUME NEW next \in SUBSET FilesIn(d) PROVE IteratorOK(Iterator(d, "files", next))
  BY <1>1 DEF IteratorOK, Iterators, Iterator
<1> QED
  BY <1>2, <1>3 DEF NewIter

\* A new iterator has all of its directory to give.
LEMMA NewIterPending ==
  ASSUME SoundTree, NEW d \in DirIds \cup {Root}
  PROVE  Pending(NewIter(d)) = BelowDir(d)
<1>1. Pending(NewIter(d)) = (UNION {Below(x) : x \in DirsIn(d)}) \cup FilesIn(d)
  <2> DEFINE f == NewIter(d)
  <2>1. f.state = "dirs" /\ f.next = DirsIn(d) /\ f.dir_id = d
    BY IteratorIs DEF NewIter
  <2> HIDE DEF f
  <2>2. Pending(f) = InDirs(f) \cup FilesIn(d)
    BY <2>1, PendingIs
  <2>3. InDirs(f) = UNION {Below(x) : x \in DirsIn(d)}
    BY <2>1 DEF InDirs
  <2> QED
    BY <2>2, <2>3 DEF f
<1>2. \A x \in FilesIn(d) : Below(x) = {x}
  BY InDirectory, FilesHoldNothing
<1>3. BelowDir(d) = UNION {Below(x) : x \in DirsIn(d) \cup FilesIn(d)}
  BY BelowDirIs, InDirectory
<1> QED
  BY <1>1, <1>2, <1>3

LEMMA BelowDirIn ==
  ASSUME SoundTree, NEW d \in DirIds \cup {Root}
  PROVE  BelowDir(d) \subseteq DOMAIN tree
BY DEF BelowDir, Below

LEMMA GivesNone ==
  ASSUME NEW d, NEW s, NEW ys, GivenOK(d, s, ys), NEW s2, AllPending(s2) = AllPending(s)
  PROVE  GivenOK(d, s2, ys)
BY DEF GivenOK

LEMMA OuterAfter ==
  ASSUME SoundTree, NEW s, StackOK(s), s # <<>>, NEW x \in Children(s[Len(s)].dir_id),
         NEW y \in OuterPending(s)
  PROVE  Comes(x, y)
<1>1. PICK i \in 1 .. Len(s) - 1 : y \in Pending(s[i])
  BY DEF OuterPending
<1>2. Len(s) \in Nat /\ Len(s) - 1 \in 1 .. Len(s) - 1
  BY <1>1 DEF StackOK
<1>3. Within(s[Len(s) - 1], s[Len(s)])
  BY <1>2 DEF StackOK
<1>4. s[Len(s)].dir_id \in DOMAIN tree
  BY <1>3 DEF Within, DirsIn, DirIds
<1>5. x \in Below(s[Len(s)].dir_id)
  BY <1>4, ChildrenAreBelow
<1> QED
  BY <1>1, <1>5, OuterComesLater

LEMMA LastIs ==
  ASSUME SoundTree, NEW s, StackOK(s), s # <<>>
  PROVE  LET f == s[Len(s)]
         IN /\ s \in Seq(Iterators) /\ IteratorOK(f) /\ f.dir_id \in DirIds \cup {Root}
            /\ f.state = "dirs" => f.next \subseteq DirsIn(f.dir_id)
            /\ f.state = "files" => f.next \subseteq FilesIn(f.dir_id)
<1>1. s \in Seq(Iterators) /\ Len(s) \in 1 .. Len(s)
  BY DEF StackOK
<1>2. IteratorOK(s[Len(s)])
  BY <1>1 DEF StackOK
<1> QED
  BY <1>1, <1>2 DEF IteratorOK, Iterators

LEMMA EnterKeeps ==
  ASSUME SoundTree, NEW d \in DirIds \cup {Root}, NEW s, NEW ys, StackOK(s), GivenOK(d, s, ys),
         s # <<>>, s[Len(s)].state = "dirs", NEW x, IsFirst(x, s[Len(s)].next),
         NEW s2, s2 = Append(WithLast(s, Iterator(s[Len(s)].dir_id, "dirs", s[Len(s)].next \ {x})),
                             NewIter(x))
  PROVE  StackOK(s2) /\ GivenOK(d, s2, Append(ys, x))
<1> DEFINE last == s[Len(s)]
           dir == last.dir_id
           f == Iterator(dir, "dirs", last.next \ {x})
           t == WithLast(s, f)
<1>1. /\ s \in Seq(Iterators) /\ dir \in DirIds \cup {Root} /\ last.next \subseteq DirsIn(dir)
  BY LastIs
<1>2. x \in DirsIn(dir) /\ x \in DOMAIN tree /\ x \in DirIds /\ x \in Children(dir)
  BY <1>1, InDirectory DEF IsFirst
<1>3. IteratorOK(f) /\ IteratorOK(NewIter(x))
  BY <1>1, <1>2, IteratorsAre
<1>4. f.dir_id = dir /\ f.state = "dirs" /\ f.next = last.next \ {x} /\ NewIter(x).dir_id = x
  BY IteratorIs DEF NewIter
<1> HIDE DEF f
<1>5. /\ t \in Seq(Iterators) /\ Len(t) = Len(s) /\ t[Len(s)] = f /\ t # <<>>
  <2>1. f \in Iterators
    BY <1>3 DEF IteratorOK
  <2> QED
    BY <1>1, <2>1, WithLastIs
<1> HIDE DEF t
<1>6. StackOK(t)
  BY <1>3, <1>4, LastChanged DEF t
<1>7. Within(f, NewIter(x))
  BY <1>2, <1>4 DEF Within, IsFirst
<1>8. StackOK(s2)
  BY <1>3, <1>5, <1>6, <1>7, Entered DEF f, t
<1>9. AllPending(s2) = (OuterPending(s) \cup Pending(f)) \cup BelowDir(x)
  <2>1. AllPending(t) = OuterPending(s) \cup Pending(f)
    BY <1>1, <1>3, PendingWithLast DEF t, IteratorOK
  <2>2. AllPending(s2) = AllPending(t) \cup Pending(NewIter(x))
    BY <1>3, <1>5, PendingAppended DEF f, t, IteratorOK
  <2>3. Pending(NewIter(x)) = BelowDir(x)
    BY <1>2, NewIterPending
  <2> QED
    BY <2>1, <2>2, <2>3
<1>10. AllPending(s) = OuterPending(s) \cup Pending(last)
  BY <1>1, PendingSplit
<1>11. Pending(f) = InDirs(f) \cup FilesIn(dir) /\ Pending(last) = InDirs(last) \cup FilesIn(dir)
  BY <1>4, PendingIs
<1>12. InDirs(last) = InDirs(f) \cup Below(x)
  BY <1>4 DEF InDirs, IsFirst
<1>13. Below(x) = BelowDir(x) \cup {x} /\ x \notin BelowDir(x)
  BY <1>2, SoundItem DEF BelowDir
<1>14. \A y \in AllPending(s2) : Comes(x, y)
  <2>1. ASSUME NEW y \in OuterPending(s) PROVE Comes(x, y)
    BY <1>2, OuterAfter
  <2>2. ASSUME NEW y \in InDirs(f) PROVE Comes(x, y)
    <3>1. PICK z \in last.next \ {x} : y \in Below(z)
      BY <1>4 DEF InDirs
    <3>2. z \in DOMAIN tree /\ tree[z].kind = "dir" /\ tree[z].parent_dir = dir
      BY <1>1, InDirectory
    <3>3. tree[x].kind = "dir" /\ tree[x].parent_dir = dir /\ x \in Below(x)
      BY <1>1, <1>2, InDirectory, SoundItem
    <3>4. Less(tree[x].name, tree[z].name)
      BY DEF IsFirst
    <3> QED
      BY <1>2, <3>1, <3>2, <3>3, <3>4 DEF Comes, PartAt, GoesFirst
  <2>3. ASSUME NEW y \in FilesIn(dir) PROVE Comes(x, y)
    <3>1. y \in DOMAIN tree /\ tree[y].kind = "file" /\ tree[y].parent_dir = dir /\ y \in Below(y)
      BY <1>1, InDirectory, SoundItem
    <3>2. tree[x].kind = "dir" /\ tree[x].parent_dir = dir /\ x \in Below(x)
      BY <1>1, <1>2, InDirectory, SoundItem
    <3>3. x # y
      BY <3>1, <3>2
    <3> QED
      BY <1>2, <3>1, <3>2, <3>3 DEF Comes, PartAt, GoesFirst
  <2>4. ASSUME NEW y \in BelowDir(x) PROVE Comes(x, y)
    BY <1>13 DEF Comes
  <2> QED
    BY <1>9, <1>11, <2>1, <2>2, <2>3, <2>4
<1>15. /\ x \in AllPending(s) /\ AllPending(s2) \subseteq AllPending(s)
       /\ AllPending(s) \subseteq AllPending(s2) \cup {x}
  BY <1>9, <1>10, <1>11, <1>12, <1>13
<1>16. GivenOK(d, s2, Append(ys, x))
  BY <1>14, <1>15, BelowDirIn, GivesOne
<1> QED
  BY <1>8, <1>16

LEMMA YieldKeeps ==
  ASSUME SoundTree, NEW d \in DirIds \cup {Root}, NEW s, NEW ys, StackOK(s), GivenOK(d, s, ys),
         s # <<>>, s[Len(s)].state = "files", NEW x, IsFirst(x, s[Len(s)].next),
         NEW s2, s2 = WithLast(s, Iterator(s[Len(s)].dir_id, "files", s[Len(s)].next \ {x}))
  PROVE  StackOK(s2) /\ GivenOK(d, s2, Append(ys, x))
<1> DEFINE last == s[Len(s)]
           dir == last.dir_id
           f == Iterator(dir, "files", last.next \ {x})
<1>1. s \in Seq(Iterators) /\ dir \in DirIds \cup {Root} /\ last.next \subseteq FilesIn(dir)
  BY LastIs
<1>2. x \in FilesIn(dir) /\ x \in DOMAIN tree /\ x \in Children(dir) /\ x \in last.next
  BY <1>1, InDirectory DEF IsFirst
<1>3. IteratorOK(f)
  BY <1>1, IteratorsAre
<1>4. f.dir_id = dir /\ f.state = "files" /\ f.next = last.next \ {x}
  BY IteratorIs
<1> HIDE DEF f
<1>5. StackOK(s2)
  BY <1>3, <1>4, LastChanged DEF f
<1>6. /\ AllPending(s2) = OuterPending(s) \cup Pending(f)
      /\ AllPending(s) = OuterPending(s) \cup Pending(last)
  BY <1>1, <1>3, PendingWithLast, PendingSplit DEF f, IteratorOK
<1>7. Pending(f) = last.next \ {x} /\ Pending(last) = last.next
  BY <1>4, PendingIs
<1>8. \A y \in AllPending(s2) : Comes(x, y)
  <2>1. ASSUME NEW y \in OuterPending(s) PROVE Comes(x, y)
    BY <1>2, OuterAfter
  <2>2. ASSUME NEW y \in last.next \ {x} PROVE Comes(x, y)
    <3>1. y \in DOMAIN tree /\ tree[y].kind = "file" /\ tree[y].parent_dir = dir /\ y \in Below(y)
      BY <1>1, InDirectory, SoundItem
    <3>2. tree[x].kind = "file" /\ tree[x].parent_dir = dir /\ x \in Below(x)
      BY <1>1, <1>2, InDirectory, SoundItem
    <3>3. Less(tree[x].name, tree[y].name)
      BY DEF IsFirst
    <3> QED
      BY <1>2, <3>1, <3>2, <3>3 DEF Comes, PartAt, GoesFirst
  <2> QED
    BY <1>6, <1>7, <2>1, <2>2
<1>9. GivenOK(d, s2, Append(ys, x))
  BY <1>2, <1>6, <1>7, <1>8, BelowDirIn, GivesOne
<1> QED
  BY <1>5, <1>9

LEMMA TurnKeeps ==
  ASSUME SoundTree, NEW d \in DirIds \cup {Root}, NEW s, NEW ys, StackOK(s), GivenOK(d, s, ys),
         s # <<>>, s[Len(s)].state = "dirs", s[Len(s)].next = {},
         NEW s2, s2 = WithLast(s, Iterator(s[Len(s)].dir_id, "files", FilesIn(s[Len(s)].dir_id)))
  PROVE  StackOK(s2) /\ GivenOK(d, s2, ys)
<1> DEFINE last == s[Len(s)]
           dir == last.dir_id
           f == Iterator(dir, "files", FilesIn(dir))
<1>1. s \in Seq(Iterators) /\ dir \in DirIds \cup {Root}
  BY LastIs
<1>2. IteratorOK(f)
  BY <1>1, IteratorsAre
<1>3. f.dir_id = dir /\ f.state = "files" /\ f.next = FilesIn(dir)
  BY IteratorIs
<1> HIDE DEF f
<1>4. StackOK(s2)
  BY <1>2, <1>3, LastChanged DEF f
<1>5. /\ AllPending(s2) = OuterPending(s) \cup Pending(f)
      /\ AllPending(s) = OuterPending(s) \cup Pending(last)
  BY <1>1, <1>2, PendingWithLast, PendingSplit DEF f, IteratorOK
<1>6. InDirs(last) = {}
  BY DEF InDirs
<1>7. Pending(f) = FilesIn(dir) /\ Pending(last) = FilesIn(dir)
  BY <1>3, <1>6, PendingIs
<1> QED
  BY <1>4, <1>5, <1>7, GivesNone

LEMMA LeaveKeeps ==
  ASSUME SoundTree, NEW d \in DirIds \cup {Root}, NEW s, NEW ys, StackOK(s), GivenOK(d, s, ys),
         s # <<>>, s[Len(s)].state = "files", s[Len(s)].next = {},
         NEW s2, s2 = SubSeq(s, 1, Len(s) - 1)
  PROVE  StackOK(s2) /\ GivenOK(d, s2, ys)
<1>1. s \in Seq(Iterators)
  BY LastIs
<1>2. AllPending(s) = OuterPending(s) \cup Pending(s[Len(s)])
  BY <1>1, PendingSplit
<1>3. Pending(s[Len(s)]) = {}
  BY PendingIs
<1>4. AllPending(s2) = OuterPending(s)
  BY <1>1, PendingOuter
<1> QED
  BY <1>2, <1>3, <1>4, LeftOne, GivesNone

LEMMA StartKeeps ==
  ASSUME SoundTree, NEW d \in DirIds \cup {Root}
  PROVE  StackOK(<<NewIter(d)>>) /\ GivenOK(d, <<NewIter(d)>>, <<>>)
<1> DEFINE f == NewIter(d)
           s == <<f>>
<1>1. IteratorOK(f) /\ Pending(f) = BelowDir(d)
  BY IteratorsAre, NewIterPending
<1>2. f \in Iterators
  BY <1>1 DEF IteratorOK
<1> HIDE DEF f
<1>3. s \in Seq(Iterators) /\ Len(s) = 1 /\ s[1] = f
  BY <1>2
<1> HIDE DEF s
<1>4. StackOK(s)
  BY <1>1, <1>3 DEF StackOK
<1>5. AllPending(s) = BelowDir(d)
  BY <1>1, <1>3 DEF AllPending
<1>6. GivenOK(d, s, <<>>)
  <2> DEFINE ys == <<>>
  <2>1. ys \in Seq(DOMAIN tree) /\ Len(ys) = 0
    OBVIOUS
  <2> HIDE DEF ys
  <2>2. ItemsOf(ys) = {}
    BY <2>1 DEF ItemsOf
  <2>3. GivenOK(d, s, ys)
    BY <1>5, <2>1, <2>2 DEF GivenOK
  <2> QED
    BY <2>3 DEF ys
<1> QED
  BY <1>4, <1>6 DEF s, f

-----------------------------------------------------------------------------
\* Nothing of this depends on anything but the tree.
LEMMA SameTreeSameWalk ==
  ASSUME tree' = tree, NEW d, NEW s, NEW ys
  PROVE  Walk(d, s, ys)' <=> Walk(d, s, ys)
<1>1. \A x : Children(x)' = Children(x)
  BY DEF Children
<1>2. \A x : Below(x)' = Below(x)
  BY <1>1 DEF Below
<1>3. DirIds' = DirIds
  BY DEF DirIds
<1>4. \A x : DirsIn(x)' = DirsIn(x) /\ FilesIn(x)' = FilesIn(x) /\ BelowDir(x)' = BelowDir(x)
  BY <1>1, <1>2, <1>3 DEF DirsIn, FilesIn, BelowDir
<1>5. Iterators' = Iterators
  BY <1>3 DEF Iterators
<1>6. \A f : Pending(f)' = Pending(f) /\ (IteratorOK(f)' <=> IteratorOK(f))
  BY <1>2, <1>4, <1>5 DEF Pending, InDirs, IteratorOK
<1>7. \A f, g : Within(f, g)' <=> Within(f, g)
  BY <1>4 DEF Within
<1>8. \A x, y : Comes(x, y)' <=> Comes(x, y)
  BY <1>2 DEF Comes, PartAt, GoesFirst
<1>9. StackOK(s)' <=> StackOK(s)
  BY <1>2, <1>5, <1>6, <1>7 DEF StackOK
<1>10. AllPending(s)' = AllPending(s)
  BY <1>6 DEF AllPending
<1>11. GivenOK(d, s, ys)' <=> GivenOK(d, s, ys)
  BY <1>4, <1>8, <1>10 DEF GivenOK, ItemsOf
<1> QED
  BY <1>3, <1>9, <1>11 DEF Walk

LEMMA SameTreeIsSound == SoundTree /\ tree' = tree => SoundTree'
<1> SUFFICES ASSUME SoundTree, tree' = tree PROVE SoundTree'
  OBVIOUS
<1>1. TreeInv' /\ IsTree(tree')
  BY TreeInvNext DEF SoundTree
<1> QED
  BY <1>1 DEF SoundTree

LEMMA IterInvInit == IterInit => IterInv
<1> SUFFICES ASSUME IterInit PROVE IterInv
  OBVIOUS
<1>1. TreeInv /\ IsTree(tree)
  BY TreeInvInit, EmptyIsTree DEF IterInit, Init
<1> QED
  BY <1>1 DEF IterInit, IterInv, SoundTree, Walk

LEMMA NextItemKeeps ==
  ASSUME IterInv, iterating # NotIterating, NextItem
  PROVE  /\ tree' = tree /\ iterating' = iterating
         /\ StackOK(stack') /\ GivenOK(iterating, stack', yielded')
<1> DEFINE last == stack[Len(stack)]
<1>1. /\ SoundTree /\ iterating \in DirIds \cup {Root} /\ StackOK(stack)
      /\ GivenOK(iterating, stack, yielded)
  BY DEF IterInv, Walk
<1>2. ASSUME NEW x \in DOMAIN tree, EnterDir(x)
      PROVE  StackOK(stack') /\ GivenOK(iterating, stack', yielded')
  <2>1. /\ stack # <<>> /\ last.state = "dirs" /\ IsFirst(x, last.next)
        /\ stack' = Append(WithLast(stack, Iterator(last.dir_id, "dirs", last.next \ {x})), NewIter(x))
        /\ yielded' = Append(yielded, x)
    BY <1>2 DEF EnterDir, In, curr, GoesOn, WithLast
  <2> QED
    BY <1>1, <2>1, EnterKeeps
<1>3. ASSUME NEW x \in DOMAIN tree, YieldFile(x)
      PROVE  StackOK(stack') /\ GivenOK(iterating, stack', yielded')
  <2>1. /\ stack # <<>> /\ last.state = "files" /\ IsFirst(x, last.next)
        /\ stack' = WithLast(stack, Iterator(last.dir_id, "files", last.next \ {x}))
        /\ yielded' = Append(yielded, x)
    BY <1>3 DEF YieldFile, In, curr, GoesOn, WithLast
  <2> QED
    BY <1>1, <2>1, YieldKeeps
<1>4. ASSUME TurnToFiles PROVE StackOK(stack') /\ GivenOK(iterating, stack', yielded')
  <2>1. /\ stack # <<>> /\ last.state = "dirs" /\ last.next = {} /\ yielded' = yielded
        /\ stack' = WithLast(stack, Iterator(last.dir_id, "files", FilesIn(last.dir_id)))
    BY <1>4 DEF TurnToFiles, In, curr, GoesOn, WithLast, FilesAfterDirs
  <2> QED
    BY <1>1, <2>1, TurnKeeps
<1>5. ASSUME Leave PROVE StackOK(stack') /\ GivenOK(iterating, stack', yielded')
  <2>1. /\ stack # <<>> /\ last.state = "files" /\ last.next = {} /\ yielded' = yielded
        /\ stack' = SubSeq(stack, 1, Len(stack) - 1)
    BY <1>5 DEF Leave, In, curr, Outer
  <2> QED
    BY <1>1, <2>1, LeaveKeeps
<1>6. tree' = tree /\ iterating' = iterating
  BY DEF NextItem, EnterDir, YieldFile, TurnToFiles, Leave
<1> QED
  BY <1>2, <1>3, <1>4, <1>5, <1>6 DEF NextItem

LEMMA IterStep == IterInv /\ [IterNext]_iter_vars => IterInv'
<1> SUFFICES ASSUME IterInv, [IterNext]_iter_vars PROVE IterInv'
  OBVIOUS
<1>0. SoundTree
  BY DEF IterInv
<1>1. ASSUME tree' = tree, Walk(iterating', stack', yielded') PROVE IterInv'
  <2>1. PICK d, s, ys : d = iterating' /\ s = stack' /\ ys = yielded'
    OBVIOUS
  <2>2. Walk(d, s, ys)'
    BY <1>1, <2>1, SameTreeSameWalk
  <2>3. Walk(iterating, stack, yielded)'
    BY <2>1, <2>2
  <2> QED
    BY <1>0, <1>1, <2>3, SameTreeIsSound DEF IterInv
<1>2. CASE iterating = NotIterating /\ NextWithCrashes /\ UNCHANGED <<iterating, stack, yielded>>
  <2>1. TreeInv' /\ IsTree(tree')
    BY <1>0, <1>2, TreeInvNext, TreeNext DEF SoundTree
  <2>2. iterating' = NotIterating /\ stack' = <<>> /\ yielded' = <<>>
    BY <1>2 DEF IterInv, Walk
  <2> QED
    BY <2>1, <2>2 DEF IterInv, SoundTree, Walk
<1>3. ASSUME NEW d \in DirIds \cup {Root}, StartAt(d) PROVE IterInv'
  <2>1. d # NotIterating
    <3>1. d \in Nat
      BY <1>0, SoundItem DEF DirIds, Root
    <3> QED
      BY <3>1 DEF NotIterating
  <2>2. tree' = tree /\ iterating' = d /\ stack' = <<NewIter(d)>> /\ yielded' = <<>>
    BY <1>3 DEF StartAt
  <2>3. Walk(d, <<NewIter(d)>>, <<>>)
    BY <1>0, <2>1, StartKeeps DEF Walk
  <2> QED
    BY <1>1, <2>2, <2>3
<1>4. CASE NextItem
  <2>1. CASE iterating = NotIterating
    <3>1. stack = <<>>
      BY <2>1 DEF IterInv, Walk
    <3> QED
      BY <1>4, <3>1 DEF NextItem, EnterDir, YieldFile, TurnToFiles, Leave, In
  <2>2. CASE iterating # NotIterating
    <3>1. /\ tree' = tree /\ iterating' = iterating
          /\ StackOK(stack') /\ GivenOK(iterating, stack', yielded')
      BY <1>4, <2>2, NextItemKeeps
    <3>2. Walk(iterating', stack', yielded')
      BY <2>2, <3>1 DEF Walk, IterInv
    <3> QED
      BY <1>1, <3>1, <3>2
  <2> QED
    BY <2>1, <2>2
<1>5. CASE Drop
  BY <1>1, <1>5 DEF Drop, Walk
<1>6. CASE UNCHANGED iter_vars
  BY <1>1, <1>6 DEF iter_vars, IterInv
<1> QED
  BY <1>2, <1>3, <1>4, <1>5, <1>6 DEF IterNext

(***************************************************************************)
(* For every tree that the archive's operations can make, of any size and  *)
(* depth and with any names in any order, an iterator gives what is below  *)
(* the directory asked for: everything, once, and in the documented order. *)
(***************************************************************************)
THEOREM IterationIsInOrder == IterSpec => []YieldsInOrder
<1>1. IterInv => YieldsInOrder
  <2> SUFFICES ASSUME IterInv, iterating # NotIterating PROVE YieldsInOrder
    BY DEF YieldsInOrder
  <2>1. /\ SoundTree /\ iterating \in DirIds \cup {Root} /\ GivenOK(iterating, stack, yielded)
    BY DEF IterInv, Walk
  <2>2. /\ yielded \in Seq(DOMAIN tree) /\ ItemsOf(yielded) = BelowDir(iterating) \ AllPending(stack)
        /\ \A x \in ItemsOf(yielded), y \in AllPending(stack) : Comes(x, y)
        /\ \A i, j \in 1 .. Len(yielded) : i < j => Comes(yielded[i], yielded[j])
    BY <2>1 DEF GivenOK
  <2>3. BelowDir(iterating) \subseteq DOMAIN tree /\ ToVisit = BelowDir(iterating)
    BY <2>1, BelowDirIn DEF ToVisit, BelowDir
  <2>4. DOMAIN yielded = 1 .. Len(yielded) /\ Visited = ItemsOf(yielded)
    BY <2>2 DEF Visited, ItemsOf
  <2>5. Visited \subseteq ToVisit
    BY <2>2, <2>3, <2>4
  <2>6. \A i, j \in DOMAIN yielded : i < j => Precedes(Ways, yielded[i], yielded[j])
    BY <2>2, <2>4, ComesIsPrecedes
  <2>7. \A x \in Visited, y \in ToVisit : Precedes(Ways, y, x) => y \in Visited
    <3> SUFFICES ASSUME NEW x \in Visited, NEW y \in ToVisit, Precedes(Ways, y, x), y \notin Visited
                 PROVE  FALSE
      OBVIOUS
    <3>1. x \in DOMAIN tree /\ y \in DOMAIN tree
      BY <2>3, <2>5
    <3>2. Comes(y, x)
      BY <3>1, ComesIsPrecedes
    <3>3. y \in AllPending(stack)
      BY <2>2, <2>3, <2>4
    <3> QED
      BY <2>1, <2>2, <2>4, <3>1, <3>2, <3>3, ComesOneWay
  <2>8. AllGiven => Visited = ToVisit
    <3>1. stack = <<>> => AllPending(stack) = {}
      BY DEF AllPending
    <3> QED
      BY <2>2, <2>3, <2>4, <3>1 DEF AllGiven
  <2> QED
    BY <2>5, <2>6, <2>7, <2>8 DEF YieldsInOrder
<1> QED
  BY <1>1, IterInvInit, IterStep, PTL DEF IterSpec
=============================================================================
