------------------------------- MODULE Paths --------------------------------
(***************************************************************************)
(* The path layer (PathInArchive, WithPaths, WithPathsMut): operations     *)
(* named by a path, each made of several operations of the archive, any of *)
(* which may fail or be the last before a crash.  The archive is what      *)
(* FileTree says; a path is the sequence of segments between its slashes.  *)
(***************************************************************************)
EXTENDS FileTree, PathCalls

CONSTANT RawPaths   \* the paths callers pass

ASSUME RawPathsAssumption == RawPaths \subseteq Seq(Names \cup InvalidNames \cup Dotted) \ {<<>>}
ASSUME ContentsAssumption == "directory" \notin Contents

VARIABLE call

vars == <<tree, call>>

-----------------------------------------------------------------------------
\* PathInArchive::new, one segment after the other.

Parsed(components, error) == [components |-> components, error |-> error]

Pop_KeepsLast(components) ==
  CASE components = <<>>   -> Parsed(<<>>, "RootEscape")
    [] Len(components) > 1 -> Parsed(Front(components), "none")
    [] Len(components) = 1 -> Parsed(components, "none")

Pop(components) ==
  IF components = <<>> THEN Parsed(<<>>, "RootEscape") ELSE Parsed(Front(components), "none")

\* What one segment does to the stack; nothing is read after an error.
Push(out, segment) ==
  IF out.error # "none" THEN out
  ELSE CASE segment \in {"", "."}    -> out
         [] segment = ".."           -> Pop(out.components)
         [] segment \in InvalidNames -> Parsed(<<>>, "InvalidComponent")
         [] OTHER                    -> Parsed(Append(out.components, segment), "none")

\* The empty string is one empty segment.
NewPath(raw) ==
  LET read[n \in 0..Len(raw)] == IF n = 0 THEN Parsed(<<>>, "none") ELSE Push(read[n - 1], raw[n])
  IN IF raw = <<"">> THEN Parsed(<<>>, "EmptyPath") ELSE read[Len(raw)]

-----------------------------------------------------------------------------
\* From a path to an item, and back.

NoItem == -1

Found(dir, name) == {x \in Children(dir) : tree[x].name = name}

\* One segment of get_item_at: nothing is below a file.
Enter(at, name) ==
  IF at \notin DirIds \cup {Root} \/ Found(at, name) = {} THEN NoItem
  ELSE CHOOSE x \in Found(at, name) : TRUE

ItemAt(components) ==
  LET at[n \in 0..Len(components)] == IF n = 0 THEN Root ELSE Enter(at[n - 1], components[n])
  IN at[Len(components)]

GetItemAt(raw) ==
  LET path == NewPath(raw) IN IF path.error # "none" THEN NoItem ELSE ItemAt(path.components)

GetDirAt(raw)  == {GetItemAt(raw)} \cap DirIds
GetFileAt(raw) == {GetItemAt(raw)} \cap (DOMAIN tree \ DirIds)

PathOf_NoParents(id) == <<tree[id].name>>

\* compute_item_path: the names on the way up.
PathOf(id) ==
  LET path[x \in DOMAIN tree] ==
        Append(IF tree[x].parent_dir = Root THEN <<>> ELSE path[tree[x].parent_dir], tree[x].name)
  IN path[id]

\* What the archive is to someone who only knows paths.
Store ==
  [p \in {PathOf(id) : id \in DOMAIN tree} |->
     LET item == tree[CHOOSE id \in DOMAIN tree : PathOf(id) = p]
     IN IF item.kind = "dir" THEN "directory" ELSE item.content]

-----------------------------------------------------------------------------
(***************************************************************************)
(* A call: its path, the directories it has still to walk through, the     *)
(* item it is at, the store as it was when the call began, and how it      *)
(* ended.                                                                  *)
(***************************************************************************)
Call(op, raw, content, todo, at, stage, result) ==
  call' = [op |-> op, raw |-> raw, path |-> NewPath(raw).components, content |-> content,
           todo |-> todo, at |-> at, stage |-> stage, result |-> result, before |-> Store]

NoCall ==
  [op |-> "none", raw |-> <<"">>, path |-> <<>>, content |-> Damaged, todo |-> <<>>,
   at |-> Root, stage |-> "returned", result |-> "none", before |-> <<>>]

Idle     == call = NoCall
Returned == ~Idle /\ call.stage = "returned"

Refuse(op, raw, error) == Call(op, raw, Damaged, <<>>, Root, "returned", error)

Return(result) == call' = [call EXCEPT !.stage = "returned", !.result = result]

Parents_Unpopped(op, components) == components

\* The directories a call gets or creates: those above its last component.
Parents(op, components) ==
  IF op = "get_or_create_dir_at" THEN components ELSE Front(components)

BeginWalk(op, raw, content) ==
  LET path == NewPath(raw)
  IN IF path.error # "none"         THEN Refuse(op, raw, path.error)
     ELSE IF path.components = <<>> THEN Refuse(op, raw, "EmptyPath")
     ELSE Call(op, raw, content, Parents(op, path.components), Root, "walking", "ok")

BeginDir(op, raw) ==
  /\ Idle
  /\ BeginWalk(op, raw, Damaged)
  /\ UNCHANGED tree

BeginWrite(op, raw, content) ==
  LET existing == GetFileAt(raw)
  IN /\ Idle
     /\ CASE op = "create_file_at" /\ existing # {} -> Refuse(op, raw, "FileAlreadyExists")
          [] op = "update_file_at" /\ existing = {} -> Refuse(op, raw, "FileNotFound")
          [] op # "create_file_at" /\ existing # {} ->
               Call(op, raw, content, <<>>, GetItemAt(raw), "replacing", "ok")
          [] op # "update_file_at" /\ existing = {} -> BeginWalk(op, raw, content)
     /\ UNCHANGED tree

BeginRemove(op, raw) ==
  /\ Idle
  /\ IF (IF op = "remove_dir_at" THEN GetDirAt(raw) ELSE GetFileAt(raw)) = {}
     THEN Refuse(op, raw, "NotFound")
     ELSE Call(op, raw, Damaged, <<>>, GetItemAt(raw), "removing", "ok")
  /\ UNCHANGED tree

-----------------------------------------------------------------------------
\* get_or_create_dir_at, one segment at a time.

Walking == call.stage = "walking" /\ call.todo # <<>>

Ahead == Found(call.at, Head(call.todo))

StepInto(dir) == call' = [call EXCEPT !.at = dir, !.todo = Tail(@)]

WalkInto ==
  /\ Walking
  /\ \E dir \in Ahead \cap DirIds : StepInto(dir)
  /\ UNCHANGED tree

WalkMakes ==
  /\ Walking /\ Ahead = {}
  /\ \E id \in Ids :
       /\ Create(id, [kind |-> "dir", parent_dir |-> call.at, name |-> Head(call.todo)])
       /\ StepInto(id)

WalkCollides ==
  /\ Walking /\ Ahead \ DirIds # {}
  /\ Return("FileCollision")
  /\ UNCHANGED tree

\* What FileCollision reports: the directories walked through so far.
CollisionPath == SubSeq(call.path, 1, Len(Parents(call.op, call.path)) - Len(call.todo))

-----------------------------------------------------------------------------
\* The last operation of a call, in the directory the walk ended in.

Arrived == call.stage = "walking" /\ call.todo = <<>>

GotDir ==
  /\ Arrived /\ call.op = "get_or_create_dir_at"
  /\ Return("ok")
  /\ UNCHANGED tree

NewItem ==
  IF call.op \in DirCalls
  THEN [kind |-> "dir", parent_dir |-> call.at, name |-> Last(call.path)]
  ELSE [kind |-> "file", parent_dir |-> call.at, name |-> Last(call.path),
        content |-> call.content]

MakeItem ==
  /\ Arrived /\ call.op # "get_or_create_dir_at"
  /\ IF NameIsFree(call.at, Last(call.path))
     THEN (\E id \in Ids : Create(id, NewItem)) /\ Return("ok")
     ELSE Return("DuplicateName") /\ UNCHANGED tree

ReplaceContent ==
  /\ call.stage = "replacing"
  /\ SetContent(call.at, call.content)
  /\ Return("ok")

RemoveItem ==
  /\ call.stage = "removing"
  /\ Delete(call.at)
  /\ Return("ok")

\* remove_dir empties a directory before it removes it.
RemovedUntilCut_DirFirst(id) ==
  IF id \in DirIds THEN tree' = Without({id} \cup Children(id)) ELSE UNCHANGED tree

RemovedUntilCut(id) == UNCHANGED tree \/ RemovePart(id)

(***************************************************************************)
(* An operation of the archive fails, or the program dies before the next  *)
(* one.  A content being replaced may be lost, a directory being removed   *)
(* may have lost some of its items.                                        *)
(***************************************************************************)
Interrupted ==
  /\ call.stage # "returned"
  /\ CASE call.stage = "replacing" -> UNCHANGED tree \/ Damage(call.at)
       [] call.stage = "removing"  -> RemovedUntilCut(call.at)
       [] OTHER                    -> UNCHANGED tree
  /\ Return("interrupted")

\* The caller has its answer and is free to go on.
Answer == Returned /\ call' = NoCall /\ UNCHANGED tree

\* Between two calls the archive may be used by ID.
UsedById == Idle /\ Next /\ UNCHANGED call

PathsInit == Init /\ call = NoCall

PathsNext ==
  \/ \E raw \in RawPaths :
       \/ \E op \in DirCalls : BeginDir(op, raw)
       \/ \E op \in WriteCalls, content \in Contents : BeginWrite(op, raw, content)
       \/ \E op \in RemoveCalls : BeginRemove(op, raw)
  \/ WalkInto \/ WalkMakes \/ WalkCollides
  \/ GotDir \/ MakeItem \/ ReplaceContent \/ RemoveItem
  \/ Interrupted \/ Answer
  \/ UsedById

PathsSpec == PathsInit /\ [][PathsNext]_vars

-----------------------------------------------------------------------------
(***************************************************************************)
(* PathInArchive::new finds with a stack what a path means.                *)
(***************************************************************************)
PathsMeanWhatTheySay ==
  LET path == NewPath(call.raw)
  IN IF IsPath(call.raw)
     THEN path.error = "none" /\ path.components = Meant(call.raw)
     ELSE path.error # "none"

(***************************************************************************)
(* The path computed for an item leads back to it.                         *)
(***************************************************************************)
PathsLeadBack == \A id \in DOMAIN tree : ItemAt(PathOf(id)) = id

Answered == Returned /\ call.result # "interrupted"
CutOff   == call.stage # "returned" \/ call.result = "interrupted"

(***************************************************************************)
(* A call that can succeed does, whatever directories it finds or has to   *)
(* make on the way, and leaves exactly what its path and content say.  One *)
(* that is refused, even in the middle of its walk, has changed nothing:   *)
(* no directory was made for an item that cannot be.                       *)
(***************************************************************************)
CallsDoAllOrNothing ==
  Answered =>
    IF Possible(call.op, call.raw, call.before)
    THEN call.result = "ok" /\ Store = After(call.op, Meant(call.raw), call.content, call.before)
    ELSE call.result # "ok" /\ Store = call.before

(***************************************************************************)
(* A call under way or cut off has left no more behind than it may         *)
(* (directories above its path, a damaged content, part of a directory),   *)
(* and the same call can still be made.                                    *)
(***************************************************************************)
CutOffCallCanBeRepeated ==
  CutOff =>
    /\ Possible(call.op, call.raw, Store) = Possible(call.op, call.raw, call.before)
    /\ Store \in CutShort(call.op, call.raw, call.before)

-----------------------------------------------------------------------------
(* What the documentation says and the code does not do: these do not hold, *)
(* see "What else does not hold" in the README.                             *)

(***************************************************************************)
(* with_paths.rs calls FileCollision's path "The path that caused the      *)
(* collision" and shows it as "Cannot traverse path: '{path}' is a file".  *)
(***************************************************************************)
CollisionIsAFile ==
  call.result = "FileCollision" => ItemAt(CollisionPath) \in DOMAIN tree \ DirIds

(***************************************************************************)
(* By path, the archive is a PathStore: IDs, and their reuse, never show.  *)
(***************************************************************************)
ByPath == INSTANCE PathStore WITH store <- Store

ImplementsPathStore == ByPath!Spec
=============================================================================
