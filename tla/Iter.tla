-------------------------------- MODULE Iter --------------------------------
(***************************************************************************)
(* Going through an archive (ArchiveIter): an iterator over a directory's  *)
(* items that holds one over the sub-directory it is in, and so on; here   *)
(* the stack of them.  It borrows the archive, which is what FileTree      *)
(* says and does not change meanwhile.                                     *)
(***************************************************************************)
EXTENDS FileTree, Integers, Sequences

CONSTANT NameOrder   \* how names compare: all <<m, n>> with m before n

Less(m, n) == <<m, n>> \in NameOrder

ASSUME OrderAssumption ==
  /\ \A m, n \in Names : m # n => (Less(m, n) <=> ~Less(n, m))
  /\ \A m \in Names : ~Less(m, m)
  /\ \A l, m, n \in Names : Less(l, m) /\ Less(m, n) => Less(l, n)

VARIABLES
  iterating,   \* the directory asked for, or NotIterating
  stack,       \* the iterators, the outermost first
  yielded      \* the items given so far

iter_vars == <<tree, iterating, stack, yielded>>

NotIterating == -1

IsFirst_ById(x, ids) == x \in ids /\ \A y \in ids \ {x} : x < y

\* Items are sorted by name and reversed, and the last is popped.
IsFirst(x, ids) == x \in ids /\ \A y \in ids \ {x} : Less(tree[x].name, tree[y].name)

DirsIn(dir)  == Children(dir) \cap DirIds
FilesIn(dir) == Children(dir) \ DirIds

Iterator(dir, state, next) == [dir_id |-> dir, state |-> state, next |-> next]

NewIter(dir) == Iterator(dir, "dirs", DirsIn(dir))

\* Archive::read_dir_recursive, and items_iter at the root.
StartAt(dir) ==
  /\ iterating = NotIterating
  /\ iterating' = dir
  /\ stack' = <<NewIter(dir)>>
  /\ yielded' = <<>>
  /\ UNCHANGED tree

-----------------------------------------------------------------------------
\* ArchiveIter::next, as the innermost iterator's part in it.

curr == stack[Len(stack)]

In(state) == stack # <<>> /\ curr.state = state

\* The innermost iterator goes on with other items.
GoesOn(state, next) == [stack EXCEPT ![Len(stack)] = Iterator(curr.dir_id, state, next)]

EnterDir(x) ==
  /\ In("dirs") /\ IsFirst(x, curr.next)
  /\ stack' = Append(GoesOn("dirs", curr.next \ {x}), NewIter(x))
  /\ yielded' = Append(yielded, x)
  /\ UNCHANGED <<tree, iterating>>

\* The files are listed when the last directory is done.
FilesAfterDirs == FilesIn(curr.dir_id)

TurnToFiles ==
  /\ In("dirs") /\ curr.next = {}
  /\ stack' = GoesOn("files", FilesAfterDirs)
  /\ UNCHANGED <<tree, iterating, yielded>>

YieldFile(x) ==
  /\ In("files") /\ IsFirst(x, curr.next)
  /\ stack' = GoesOn("files", curr.next \ {x})
  /\ yielded' = Append(yielded, x)
  /\ UNCHANGED <<tree, iterating>>

Outer_Kept == stack

Outer == SubSeq(stack, 1, Len(stack) - 1)

\* None: the iterator around it goes on, or the outermost one is done.
Leave ==
  /\ In("files") /\ curr.next = {}
  /\ stack' = Outer
  /\ UNCHANGED <<tree, iterating, yielded>>

NextItem == (\E x \in DOMAIN tree : EnterDir(x) \/ YieldFile(x)) \/ TurnToFiles \/ Leave

AllGiven == iterating # NotIterating /\ stack = <<>>

\* The iterator is dropped, done or not, and its borrow ends.
Drop ==
  /\ iterating # NotIterating
  /\ iterating' = NotIterating /\ stack' = <<>> /\ yielded' = <<>>
  /\ UNCHANGED tree

IterInit == Init /\ iterating = NotIterating /\ stack = <<>> /\ yielded = <<>>

IterNext ==
  \/ iterating = NotIterating /\ NextWithCrashes /\ UNCHANGED <<iterating, stack, yielded>>
  \/ \E dir \in DirIds \cup {Root} : StartAt(dir)
  \/ NextItem
  \/ Drop

\* A for loop calls next until it gets None.
IterSpec == IterInit /\ [][IterNext]_iter_vars /\ WF_iter_vars(NextItem)

-----------------------------------------------------------------------------
\* The pairs <<p, x>> of items with x at or below p.
Ways == UNION {{<<p, x>> : x \in Below(p)} : p \in DOMAIN tree}

\* The order items_iter documents: a directory before its items, all of its
\* directories with what they hold before its files, in ascending order of
\* names.  Two items are compared where the ways to them part.
Precedes(ways, x, y) ==
  \/ x # y /\ <<x, y>> \in ways
  \/ \E p, q \in DOMAIN tree :
       /\ p # q /\ tree[p].parent_dir = tree[q].parent_dir
       /\ <<p, x>> \in ways /\ <<q, y>> \in ways
       /\ \/ tree[p].kind = "dir" /\ tree[q].kind = "file"
          \/ tree[p].kind = tree[q].kind /\ Less(tree[p].name, tree[q].name)

Visited == {yielded[i] : i \in DOMAIN yielded}

\* What is below the directory asked for.
ToVisit == IF iterating = Root THEN DOMAIN tree ELSE Below(iterating) \ {iterating}

(***************************************************************************)
(* The iterator gives each item below the directory once, in the order     *)
(* documented; what it has given at any time is the beginning of that      *)
(* order, and when it ends it has given everything.                        *)
(***************************************************************************)
YieldsInOrder ==
  iterating # NotIterating =>
    LET ways == Ways
        to_visit == ToVisit
    IN /\ Visited \subseteq to_visit
       /\ \A i, j \in DOMAIN yielded : i < j => Precedes(ways, yielded[i], yielded[j])
       /\ \A x \in Visited, y \in to_visit : Precedes(ways, y, x) => y \in Visited
       /\ AllGiven => Visited = to_visit

(***************************************************************************)
(* A loop over the archive ends.                                           *)
(***************************************************************************)
IterationEnds == stack # <<>> ~> stack = <<>>
=============================================================================
