----------------------------- MODULE ToolProofs -----------------------------
(***************************************************************************)
(* add and delete change of the archive only what they were asked to, and  *)
(* extract of the user's disk, whatever the archive, the disk, the         *)
(* arguments and the point where they are cut off; a success leaves        *)
(* nothing undone.                                                         *)
(***************************************************************************)
EXTENDS Tool, PathCallsProofs

-----------------------------------------------------------------------------
(* What holds of the archive and of a command that changes it. *)

Contents == {Outside[q] : q \in DOMAIN Outside} \cup {"directory", Damaged}

StoreInv == StoreOK(store) /\ \A q \in DOMAIN store : store[q] \in Contents

CommandShape ==
  command = [action |-> command.action, arguments |-> command.arguments, under_dir |-> command.under_dir,
             merge_dirs |-> command.merge_dirs, overwrite_files |-> command.overwrite_files,
             dirs |-> command.dirs, files |-> command.files, to_delete |-> command.to_delete,
             stage |-> command.stage, result |-> command.result, error_at |-> command.error_at,
             before |-> command.before]

\* A command is where its kind goes through, and has no result before its end.
CommandInv ==
  /\ CommandShape
  /\ command.stage \in {"creating dirs", "writing files", "deleting", "ended"}
  /\ command.stage # "ended" => command.result = "none"
  /\ command.stage \in {"creating dirs", "writing files"} => command.action = "add"
  /\ command.stage = "deleting" => command.action = "delete"
  /\ command.action \in {"none", "add", "delete"}
  /\ command.action = "none" => command.result = "none"
  /\ command.result = "refused" => store = command.before

ToAdd == ItemsToAdd(command.arguments, command.under_dir)

PathOf(x) == Meant(x.path_in_archive)

\* An item is where it belongs, with its content or that of another one that
\* belongs there.
IsAdded(x, s, wanted) ==
  /\ IsPath(x.path_in_archive) /\ PathOf(x) \in DOMAIN s
  /\ [path |-> PathOf(x), content |-> s[PathOf(x)]] \in wanted

\* What was added is a wanted item, or a new directory above one.
OnlyAdds(before, s, wanted) ==
  /\ DOMAIN before \subseteq DOMAIN s
  /\ \A q \in DOMAIN s :
       \/ q \in DOMAIN before /\ s[q] = before[q]
       \/ \E w \in wanted : q = w.path /\ s[q] \in {w.content, Damaged}
       \/ q \notin DOMAIN before /\ s[q] = "directory" /\ \E w \in wanted : q \in Above(w.path)

\* What was there is there as it was.
Keeps(before, s) == \A q \in DOMAIN before : q \in DOMAIN s /\ s[q] = before[q]

AddInv ==
  command.action = "add" /\ command.result # "refused" =>
    /\ \A i \in DOMAIN command.arguments : command.arguments[i] \in DOMAIN Outside
    /\ command.under_dir \in UnderDirs
    /\ command.dirs \subseteq {x \in ToAdd : IsDir(x)}
    /\ command.files \subseteq {x \in ToAdd : ~IsDir(x)}
    /\ OnlyAdds(command.before, store, Wanted)
    /\ command.result \in {"none", "ok"} =>
         \A x \in ToAdd \ (command.dirs \cup command.files) : IsAdded(x, store, Wanted)
    /\ command.stage = "writing files" => command.dirs = {}
    /\ command.result = "ok" => command.dirs = {} /\ command.files = {}
    /\ ~command.overwrite_files =>
         /\ Keeps(command.before, store)
         /\ \A x \in command.files : IsPath(x.path_in_archive) => PathOf(x) \notin DOMAIN command.before

\* What was removed was at or below an unwanted path; what is left was there.
OnlyRemoves(before, s, unwanted) ==
  /\ DOMAIN s \subseteq DOMAIN before
  /\ \A q \in DOMAIN s : s[q] = before[q]
  /\ \A q \in DOMAIN before \ DOMAIN s : \E p \in unwanted : IsPrefix(p, q)

DeleteInv ==
  command.action = "delete" =>
    /\ command.result # "failed"
    /\ command.result # "refused" =>
         /\ Unwanted \subseteq Seq(Names) \ {<<>>} /\ command.to_delete \subseteq Unwanted
         /\ \A p \in Unwanted \ command.to_delete, q \in DOMAIN store : ~IsPrefix(p, q)
         /\ command.result = "ok" => command.to_delete = {}
         /\ OnlyRemoves(command.before, store, Unwanted)

EditInv == StoreInv /\ CommandInv /\ AddInv /\ DeleteInv

-----------------------------------------------------------------------------
(* What holds of an extraction. *)

Selected == Extract!Selection(extraction.items)

ExtractionShape ==
  extraction = [output_dir |-> extraction.output_dir, to |-> extraction.to, items |-> extraction.items,
                merge_dirs |-> extraction.merge_dirs, overwrite_files |-> extraction.overwrite_files,
                todo |-> extraction.todo, stage |-> extraction.stage, result |-> extraction.result,
                error_at |-> extraction.error_at, before |-> extraction.before]

ExtractionInv ==
  /\ ExtractionShape
  /\ extraction.stage \in {"looking up", "extracting", "ended"}
  /\ extraction.stage # "ended" => extraction.result = "none"
  /\ extraction.stage = "looking up" \/ extraction.result = "ok" => extraction.todo = {}

\* An item is on the disk, whole.
IsExtracted(x, d, s, output_dir) ==
  /\ output_dir \o x.path \in DOMAIN d
  /\ d[output_dir \o x.path] = s[x.path] /\ s[x.path] # Damaged

\* What was put on the disk is the output directory or an item below it.
OnlyPuts(before, d, s, output_dir, asked) ==
  /\ DOMAIN before \subseteq DOMAIN d
  /\ \A p \in DOMAIN d :
       \/ p \in DOMAIN before /\ d[p] = before[p]
       \/ p = output_dir /\ d[p] = "directory"
       \/ \E q \in asked : p = output_dir \o q /\ d[p] \in {s[q], Partial}

ExtractInv ==
  ~Extract!Idle =>
    /\ extraction.output_dir \in {<<>>, <<Stem>>} \cup (OutputDirs \ {NoOutputDir})
    /\ extraction.todo \subseteq Selected
    /\ OnlyPuts(extraction.before, disk, store, extraction.output_dir, Extract!Asked)
    /\ extraction.stage = "extracting" \/ extraction.result = "ok" =>
         \A x \in Selected \ extraction.todo : IsExtracted(x, disk, store, extraction.output_dir)
    /\ ~extraction.overwrite_files =>
         /\ Keeps(extraction.before, disk)
         /\ extraction.stage = "extracting" =>
              \A x \in Selected : store[x.path] # "directory" =>
                 extraction.output_dir \o x.path \notin DOMAIN extraction.before

ToolInv == EditInv /\ ExtractionInv /\ ExtractInv

-----------------------------------------------------------------------------
(* What add finds is what it is to add: the strings it makes for the items *)
(* mean the places where they belong.                                      *)

RawSegments == Names \cup InvalidNames \cup Dotted

\* Landing and Wanted, of a command's arguments.
LandingOf(item, under_dir) ==
  LET under == IF under_dir = NoUnderDir THEN <<>> ELSE Meant(under_dir)
  IN IF Outside[item] = "directory" /\ under_dir # NoUnderDir
     THEN under ELSE Append(under, Last(item))

WantedOf(items, under_dir) ==
  UNION {LET item == items[i]
         IN {[path |-> LandingOf(item, under_dir) \o SubSeq(q, Len(item) + 1, Len(q)), content |-> Outside[q]] :
               q \in {q \in DOMAIN Outside : IsPrefix(item, q) /\ (q = item => Outside[q] # "directory")}} :
         i \in {i \in DOMAIN items : items[i] \in DOMAIN Outside}}

LEMMA WantedByArguments == Wanted = WantedOf(command.arguments, command.under_dir)
BY DEF Wanted, WantedOf, Landing, LandingOf

\* The root means the root.
LEMMA MeantOfRoot == Meant(<<>>) = <<>> /\ \A S : <<>> \in Seq(S)
BY MeantOfNames, EmptySeq

\* The user's paths and the names of their items.
LEMMA OutsidePaths ==
  ASSUME NEW q \in DOMAIN Outside
  PROVE  /\ q \in Seq(Names \cup InvalidNames) /\ q # <<>> /\ Len(q) \in Nat /\ Len(q) # 0
         /\ Last(q) \in Names \cup InvalidNames
         /\ <<Last(q)>> \in Seq(Names \cup InvalidNames)
<1> DEFINE NI == Names \cup InvalidNames
<1>1. q \in Seq(NI) /\ q # <<>>
  BY OutsideAssumption
<1> HIDE DEF NI
<1>2. Len(q) \in Nat /\ Len(q) # 0
  BY <1>1, EmptySeq
<1>3. Last(q) \in NI
  BY <1>1, <1>2, ElementOfSeq DEF Last
<1>4. <<Last(q)>> \in Seq(NI)
  BY <1>3
<1> QED
  BY <1>1, <1>2, <1>3, <1>4 DEF NI

\* What is left of a path below an item.
LEMMA BelowItem ==
  ASSUME NEW item \in DOMAIN Outside, NEW q \in DOMAIN Outside
  PROVE  SubSeq(q, Len(item) + 1, Len(q)) \in Seq(Names \cup InvalidNames)
<1> DEFINE NI == Names \cup InvalidNames
           from == Len(item) + 1
           to   == Len(q)
<1>1. q \in Seq(NI) /\ from \in Int /\ from >= 1 /\ to \in Int
  BY OutsidePaths
<1>2. \A i \in 1..Len(q) : q[i] \in NI
  BY <1>1, ElementOfSeq
<1> HIDE DEF NI, from
<1>3. \A i \in from..to : q[i] \in NI
  BY <1>1, <1>2
<1> HIDE DEF to
<1>4. SubSeq(q, from, to) \in Seq(NI)
  BY <1>1, <1>3, SubSeqProperties
<1> QED
  BY <1>4 DEF from, to, NI

\* An item found below a directory, or a file given itself, lands where it belongs.
LEMMA ItemLands ==
  ASSUME NEW item \in DOMAIN Outside, NEW under_dir \in UnderDirs, NEW turn,
         NEW x \in FoundAt(turn, item, under_dir)
  PROVE  /\ x.real_path \in DOMAIN Outside /\ IsPrefix(item, x.real_path)
         /\ x.real_path = item => Outside[item] # "directory"
         /\ x.path_in_archive \in Seq(RawSegments)
         /\ IsPath(x.path_in_archive) =>
              Meant(x.path_in_archive) =
                LandingOf(item, under_dir) \o SubSeq(x.real_path, Len(item) + 1, Len(x.real_path))
<1> DEFINE NI == Names \cup InvalidNames
           name == <<Last(item)>>
           root == <<>>
           raw == x.path_in_archive
           q == x.real_path
           below == SubSeq(q, Len(item) + 1, Len(q))
           landing == LandingOf(item, under_dir)
<1>1. item \in Seq(NI) /\ Len(item) \in Nat /\ name \in Seq(NI)
  BY OutsidePaths
<1>2. under_dir # NoUnderDir => under_dir \in Seq(RawSegments)
  BY ArgumentsAssumption DEF RawSegments
<1>3. \A s \in Seq(NI) : s \in Seq(RawSegments)
  <2>1. NI \subseteq RawSegments
    BY DEF RawSegments
  <2> HIDE DEF NI
  <2> QED
    BY <2>1, SeqMonotonic
<1>4. Meant(root) = root /\ root \in Seq(NI)
  BY MeantOfRoot
<1>5. Append(root, Last(item)) = name
  OBVIOUS
<1>6. CASE Outside[item] = "directory"
  <2>1. PICK r \in Walk(item) : x = ItemToAdd(turn, r, DirInArchive(item, under_dir) \o SubSeq(r, Len(item) + 1, Len(r)))
    BY <1>6 DEF FoundAt
  <2>2. q = r /\ raw = DirInArchive(item, under_dir) \o below
    BY <2>1 DEF ItemToAdd
  <2>3. q \in DOMAIN Outside /\ IsPrefix(item, q) /\ q # item
    BY <2>2 DEF Walk, IsStrictPrefix
  <2>4. below \in Seq(NI)
    BY <2>3, BelowItem
  <2> HIDE DEF below, NI, name, raw, q, root
  <2>5. CASE under_dir = NoUnderDir
    <3>1. raw = name \o below
      BY <2>2, <2>5 DEF DirInArchive, name
    <3>2. raw \in Seq(NI)
      BY <1>1, <2>4, <3>1, ConcatProperties
    <3>3. landing = name
      BY <1>5, <2>5 DEF LandingOf, root
    <3>4. root \o raw = raw
      BY <3>2, ConcatEmptySeq DEF root
    <3>5. IsPath(raw) => raw \in Seq(Names)
      BY <1>4, <3>2, <3>4, PathOfNames DEF NI
    <3>6. IsPath(raw) => Meant(raw) = landing \o below
      BY <3>1, <3>3, <3>5, MeantOfNames
    <3> QED
      BY <1>3, <2>3, <3>2, <3>6 DEF raw, q, below
  <2>6. CASE under_dir # NoUnderDir
    <3>1. raw = under_dir \o below
      BY <2>2, <2>6 DEF DirInArchive
    <3>2. raw \in Seq(RawSegments)
      BY <1>2, <1>3, <2>4, <2>6, <3>1, ConcatProperties
    <3>3. landing = Meant(under_dir)
      BY <1>6, <2>6 DEF LandingOf
    <3>4. IsPath(raw) => Meant(raw) = landing \o below
      BY <1>2, <2>4, <2>6, <3>1, <3>3, PathOfNames DEF NI
    <3> QED
      BY <2>3, <3>2, <3>4 DEF raw, q, below
  <2> QED
    BY <2>5, <2>6
<1>7. CASE Outside[item] # "directory"
  <2>1. x = ItemToAdd(turn, item, FileInArchive(item, under_dir))
    BY <1>7 DEF FoundAt
  <2>2. q = item /\ raw = FileInArchive(item, under_dir)
    BY <2>1 DEF ItemToAdd
  <2>3. IsPrefix(item, q)
    <3>1. IsPrefix(item, item)
      BY <1>1, PrefixOrder
    <3> QED
      BY <2>2, <3>1
  <2>4. below = root
    <3> DEFINE from == Len(item) + 1
               to   == Len(item)
    <3>1. from \in Int /\ to \in Int /\ to < from
      BY <1>1
    <3> HIDE DEF from, to
    <3>2. SubSeq(item, from, to) = <<>>
      BY <3>1, SubSeqEmpty
    <3> QED
      BY <2>2, <3>2 DEF from, to
  <2> HIDE DEF below, NI, name, raw, q, root
  <2>5. CASE under_dir = NoUnderDir
    <3>1. raw = name /\ landing = name
      BY <1>5, <2>2, <2>5 DEF FileInArchive, LandingOf, name, root
    <3>2. root \o raw = raw /\ raw \o root = raw
      BY <1>1, <3>1, ConcatEmptySeq DEF root
    <3>3. IsPath(raw) => raw \in Seq(Names)
      BY <1>1, <1>4, <3>1, <3>2, PathOfNames DEF NI
    <3>4. IsPath(raw) => Meant(raw) = landing \o below
      BY <2>4, <3>1, <3>2, <3>3, MeantOfNames
    <3> QED
      BY <1>1, <1>3, <1>7, <2>2, <2>3, <3>1, <3>4 DEF raw, q, below
  <2>6. CASE under_dir # NoUnderDir
    <3> DEFINE under == Meant(under_dir)
    <3>1. under \in Seq(Names)
      BY <1>2, <2>6, MeantIsPath
    <3>2. raw = Append(under_dir, Last(item)) /\ landing = Append(under, Last(item))
      BY <1>7, <2>2, <2>6 DEF FileInArchive, LandingOf
    <3> HIDE DEF under
    <3>3. Last(item) \in RawSegments
      BY OutsidePaths DEF RawSegments
    <3>4. raw = under_dir \o name /\ raw \in Seq(RawSegments)
      BY <1>2, <2>6, <3>2, <3>3 DEF name
    <3>5. IsPath(raw) => name \in Seq(Names) /\ Meant(raw) = under \o name
      BY <1>1, <1>2, <2>6, <3>4, PathOfNames DEF NI, under
    <3>6. name \in Seq(Names) => Last(item) \in Names
      BY DEF name
    <3>7. Last(item) \in Names => landing = under \o name /\ landing \in Seq(Names)
      BY <3>1, <3>2 DEF name
    <3>8. landing \in Seq(Names) => landing \o root = landing
      BY ConcatEmptySeq DEF root
    <3>9. IsPath(raw) => Meant(raw) = landing \o below
      BY <2>4, <3>5, <3>6, <3>7, <3>8
    <3> QED
      BY <1>7, <2>2, <2>3, <3>4, <3>9 DEF raw, q, below
  <2> QED
    BY <2>5, <2>6
<1> QED
  BY <1>6, <1>7

\* What there is to add, of arguments that are there: all of it is wanted ...
LEMMA FoundIsWanted ==
  ASSUME NEW items, \A i \in DOMAIN items : items[i] \in DOMAIN Outside, NEW under_dir \in UnderDirs,
         NEW x \in ItemsToAdd(items, under_dir)
  PROVE  /\ x.path_in_archive \in Seq(RawSegments) /\ x.real_path \in DOMAIN Outside
         /\ IsPath(x.path_in_archive) =>
              [path |-> PathOf(x), content |-> Outside[x.real_path]] \in WantedOf(items, under_dir)
<1>1. PICK i \in DOMAIN items : x \in FoundAt(i, items[i], under_dir)
  BY DEF ItemsToAdd
<1> DEFINE item == items[i]
           q == x.real_path
           place == LandingOf(item, under_dir) \o SubSeq(q, Len(item) + 1, Len(q))
<1>2. item \in DOMAIN Outside
  OBVIOUS
<1>3. /\ q \in DOMAIN Outside /\ IsPrefix(item, q)
      /\ q = item => Outside[item] # "directory"
      /\ x.path_in_archive \in Seq(RawSegments)
      /\ IsPath(x.path_in_archive) => PathOf(x) = place
  BY <1>1, <1>2, ItemLands DEF PathOf
<1>4. [path |-> place, content |-> Outside[q]] \in WantedOf(items, under_dir)
  <2>1. i \in {j \in DOMAIN items : items[j] \in DOMAIN Outside}
    BY <1>2
  <2>2. q \in {r \in DOMAIN Outside : IsPrefix(item, r) /\ (r = item => Outside[r] # "directory")}
    BY <1>3
  <2>3. [path |-> place, content |-> Outside[q]] \in
          {[path |-> LandingOf(item, under_dir) \o SubSeq(r, Len(item) + 1, Len(r)), content |-> Outside[r]] :
             r \in {r \in DOMAIN Outside : IsPrefix(item, r) /\ (r = item => Outside[r] # "directory")}}
    BY <2>2
  <2> QED
    BY <2>1, <2>3 DEF WantedOf
<1> QED
  BY <1>3, <1>4

\* ... and all that is wanted is there to add.
LEMMA WantedIsFound ==
  ASSUME NEW items, NEW under_dir \in UnderDirs, NEW w \in WantedOf(items, under_dir)
  PROVE  \E x \in ItemsToAdd(items, under_dir) : IsPath(x.path_in_archive) => w.path = PathOf(x)
<1> DEFINE seen(item) == {q \in DOMAIN Outside : IsPrefix(item, q) /\ (q = item => Outside[q] # "directory")}
           wanted(item, q) == [path    |-> LandingOf(item, under_dir) \o SubSeq(q, Len(item) + 1, Len(q)),
                               content |-> Outside[q]]
<1>1. PICK i \in DOMAIN items : items[i] \in DOMAIN Outside /\ w \in {wanted(items[i], q) : q \in seen(items[i])}
  <2>1. WantedOf(items, under_dir) =
          UNION {{wanted(items[i], q) : q \in seen(items[i])} : i \in {i \in DOMAIN items : items[i] \in DOMAIN Outside}}
    BY DEF WantedOf
  <2> HIDE DEF seen, wanted
  <2> QED
    BY <2>1
<1> DEFINE item == items[i]
<1>2. PICK q \in DOMAIN Outside :
        /\ IsPrefix(item, q) /\ (q = item => Outside[q] # "directory")
        /\ w.path = LandingOf(item, under_dir) \o SubSeq(q, Len(item) + 1, Len(q))
  <2>1. PICK q \in seen(item) : w = wanted(item, q)
    BY <1>1
  <2> QED
    BY <2>1
<1>3. item \in DOMAIN Outside
  BY <1>1
<1> HIDE DEF item
<1>4. PICK x \in FoundAt(i, item, under_dir) : x.real_path = q
  <2>1. CASE Outside[item] = "directory"
    <3>1. q \in Walk(item)
      BY <1>2, <2>1 DEF Walk, IsStrictPrefix
    <3> DEFINE x == ItemToAdd(i, q, DirInArchive(item, under_dir) \o SubSeq(q, Len(item) + 1, Len(q)))
    <3>2. x \in FoundAt(i, item, under_dir)
      BY <2>1, <3>1 DEF FoundAt
    <3>3. x.real_path = q
      BY DEF ItemToAdd
    <3> QED
      BY <3>2, <3>3
  <2>2. CASE Outside[item] # "directory"
    <3>1. q = item
      <4>1. item \in Seq(Names \cup InvalidNames) /\ q \in Seq(Names \cup InvalidNames) /\ item # <<>>
        BY <1>3, OutsidePaths
      <4>2. q # item => item \in Above(q)
        BY <1>2, <4>1, AboveArePrefixes DEF IsStrictPrefix
      <4>3. item \in Above(q) => Outside[item] = "directory"
        BY OutsideAssumption
      <4> QED
        BY <2>2, <4>2, <4>3
    <3> DEFINE x == ItemToAdd(i, item, FileInArchive(item, under_dir))
    <3>2. x \in FoundAt(i, item, under_dir)
      BY <2>2 DEF FoundAt
    <3>3. x.real_path = q
      BY <3>1 DEF ItemToAdd
    <3> QED
      BY <3>2, <3>3
  <2> QED
    BY <2>1, <2>2
<1>5. IsPath(x.path_in_archive) => w.path = PathOf(x)
  BY <1>2, <1>3, <1>4, ItemLands DEF PathOf
<1>6. x \in ItemsToAdd(items, under_dir)
  BY <1>4 DEF ItemsToAdd, item
<1> QED
  BY <1>5, <1>6

-----------------------------------------------------------------------------
(* What the steps of a command do to the archive. *)

\* What is added is wanted.
LEMMA AddingWanted ==
  ASSUME NEW before, NEW s, NEW t, NEW p, NEW what, NEW wanted,
         Adds(s, t, p, what), [path |-> p, content |-> what] \in wanted, OnlyAdds(before, s, wanted)
  PROVE  OnlyAdds(before, t, wanted)
<1>1. DOMAIN before \subseteq DOMAIN t
  BY DEF Adds, OnlyAdds
<1>2. ASSUME NEW q \in DOMAIN t
      PROVE  \/ q \in DOMAIN before /\ t[q] = before[q]
             \/ \E w \in wanted : q = w.path /\ t[q] \in {w.content, Damaged}
             \/ q \notin DOMAIN before /\ t[q] = "directory" /\ \E w \in wanted : q \in Above(w.path)
  <2> DEFINE v == [path |-> p, content |-> what]
  <2>1. v \in wanted /\ v.path = p /\ v.content = what
    OBVIOUS
  <2> HIDE DEF v
  <2>2. CASE q \in DOMAIN s /\ t[q] = s[q]
    BY <2>2 DEF OnlyAdds
  <2>3. CASE q = p /\ t[q] \in {what, Damaged}
    BY <2>1, <2>3
  <2>4. CASE q \in Above(p) \ DOMAIN s /\ t[q] = "directory"
    BY <2>1, <2>4 DEF OnlyAdds
  <2> QED
    BY <2>2, <2>3, <2>4 DEF Adds
<1> QED
  BY <1>1, <1>2 DEF OnlyAdds

\* What was there is kept, unless it is replaced.
LEMMA AddingKeeps ==
  ASSUME NEW before, NEW s, NEW t, NEW p, NEW what, Adds(s, t, p, what), Keeps(before, s),
         p \notin DOMAIN before
  PROVE  Keeps(before, t)
<1> SUFFICES ASSUME NEW q \in DOMAIN before PROVE q \in DOMAIN t /\ t[q] = before[q]
  BY DEF Keeps
<1>1. q \in DOMAIN s /\ s[q] = before[q] /\ q # p
  BY DEF Keeps
<1>2. q \in DOMAIN t
  BY <1>1 DEF Adds
<1> QED
  BY <1>1, <1>2 DEF Adds

\* An item added stays so when another is.
LEMMA AddingKeepsAdded ==
  ASSUME NEW s, NEW t, NEW p, NEW what, NEW wanted, NEW x, Adds(s, t, p, what), p \in DOMAIN t, t[p] = what,
         [path |-> p, content |-> what] \in wanted, IsAdded(x, s, wanted)
  PROVE  IsAdded(x, t, wanted)
<1> DEFINE q == PathOf(x)
<1>1. q \in DOMAIN s /\ [path |-> q, content |-> s[q]] \in wanted /\ IsPath(x.path_in_archive)
  BY DEF IsAdded
<1> HIDE DEF q
<1>2. q \in DOMAIN t
  BY <1>1 DEF Adds
<1>3. t[q] = s[q] \/ q = p
  BY <1>1, <1>2 DEF Adds
<1>4. [path |-> q, content |-> t[q]] \in wanted
  BY <1>1, <1>3
<1> QED
  BY <1>1, <1>2, <1>4 DEF IsAdded, q

\* Adding or removing leaves contents of the kinds there are.
LEMMA AddingKeepsContents ==
  ASSUME NEW s, NEW t, NEW p, NEW what \in Contents, Adds(s, t, p, what),
         \A q \in DOMAIN s : s[q] \in Contents
  PROVE  \A q \in DOMAIN t : t[q] \in Contents
<1>1. "directory" \in Contents /\ Damaged \in Contents
  BY DEF Contents
<1> QED
  BY <1>1 DEF Adds

\* What is removed is unwanted, and nothing comes back.
LEMMA RemovingUnwanted ==
  ASSUME NEW before, NEW s, NEW t, NEW p, NEW unwanted, Removes(s, t, p), p \in unwanted,
         OnlyRemoves(before, s, unwanted)
  PROVE  OnlyRemoves(before, t, unwanted)
<1>1. DOMAIN t \subseteq DOMAIN s /\ DOMAIN s \subseteq DOMAIN before
  BY DEF Removes, OnlyRemoves
<1>2. \A q \in DOMAIN t : t[q] = before[q]
  BY <1>1 DEF Removes, OnlyRemoves
<1>3. ASSUME NEW q \in DOMAIN before \ DOMAIN t PROVE \E r \in unwanted : IsPrefix(r, q)
  <2>1. CASE q \in DOMAIN s
    BY <2>1 DEF Removes
  <2>2. CASE q \notin DOMAIN s
    BY <2>2 DEF OnlyRemoves
  <2> QED
    BY <2>1, <2>2
<1> QED
  BY <1>1, <1>2, <1>3 DEF OnlyRemoves

-----------------------------------------------------------------------------
(* The invariant of add and delete. *)

LEMMA EditInvInit == Init => EditInv
<1> SUFFICES ASSUME Init PROVE EditInv
  OBVIOUS
<1>1. store = <<>> /\ command = NoCommand
  BY DEF Init
<1>2. DOMAIN store = {}
  BY <1>1
<1>3. StoreInv
  BY <1>2 DEF StoreInv, StoreOK
<1>4. CommandInv
  BY <1>1 DEF CommandInv, CommandShape, NoCommand
<1>5. command.action = "none"
  BY <1>1 DEF NoCommand
<1> QED
  BY <1>3, <1>4, <1>5 DEF EditInv, AddInv, DeleteInv

\* What a command is about does not change while it runs.
SameCommand ==
  /\ command'.action = command.action /\ command'.arguments = command.arguments
  /\ command'.under_dir = command.under_dir /\ command'.overwrite_files = command.overwrite_files
  /\ command'.before = command.before

LEMMA SameArguments ==
  ASSUME SameCommand
  PROVE  Wanted' = Wanted /\ ToAdd' = ToAdd /\ Unwanted' = Unwanted
BY DEF SameCommand, Wanted, Landing, ToAdd, Unwanted

LEMMA EndChanges ==
  ASSUME CommandShape, NEW result, NEW error_at, End(result, error_at)
  PROVE  /\ CommandShape' /\ SameCommand
         /\ command'.stage = "ended" /\ command'.result = result
         /\ command'.dirs = command.dirs /\ command'.files = command.files
         /\ command'.to_delete = command.to_delete
BY DEF CommandShape, SameCommand, End

LEMMA RestChanges ==
  ASSUME CommandShape, NEW rest,
         \/ command' = [command EXCEPT !.dirs = rest]
         \/ command' = [command EXCEPT !.files = rest]
         \/ command' = [command EXCEPT !.to_delete = rest]
  PROVE  /\ CommandShape' /\ SameCommand
         /\ command'.stage = command.stage /\ command'.result = command.result
BY DEF CommandShape, SameCommand

\* A command may end where it has done all, or not say so.
LEMMA EndKeepsInv ==
  ASSUME EditInv, command.stage # "ended", NEW result, NEW error_at, End(result, error_at), store' = store,
         result \in {"ok", "failed", "interrupted", "panic"},
         result = "ok" => /\ command.action = "add" => command.dirs = {} /\ command.files = {}
                          /\ command.action = "delete" => command.to_delete = {},
         result = "failed" => command.action # "delete"
  PROVE  EditInv'
<1>1. /\ CommandShape' /\ SameCommand
      /\ command'.stage = "ended" /\ command'.result = result
      /\ command'.dirs = command.dirs /\ command'.files = command.files
      /\ command'.to_delete = command.to_delete
  BY EndChanges DEF EditInv, CommandInv
<1>2. Wanted' = Wanted /\ ToAdd' = ToAdd /\ Unwanted' = Unwanted
  BY <1>1, SameArguments
<1>3. command.result = "none" /\ command.action \in {"add", "delete"}
  BY DEF EditInv, CommandInv
<1>4. StoreInv'
  BY DEF EditInv, StoreInv
<1>5. CommandInv'
  BY <1>1, <1>3 DEF CommandInv, SameCommand
<1>6. AddInv'
  BY <1>1, <1>2, <1>3 DEF EditInv, AddInv, SameCommand
<1>7. DeleteInv'
  BY <1>1, <1>2, <1>3 DEF EditInv, DeleteInv, SameCommand
<1> QED
  BY <1>4, <1>5, <1>6, <1>7 DEF EditInv

LEMMA BeginAddKeepsInv ==
  ASSUME EditInv, NEW items, NEW under_dir \in UnderDirs, NEW merge_dirs \in BOOLEAN, NEW overwrite_files \in BOOLEAN,
         BeginAdd(items, under_dir, merge_dirs, overwrite_files)
  PROVE  EditInv'
<1> DEFINE missing == \E i \in DOMAIN items : items[i] \notin DOMAIN Outside
           to_add  == IF missing THEN {} ELSE ItemsToAdd(items, under_dir)
           new_dirs  == {x \in to_add : IsDir(x)}
           new_files == to_add \ new_dirs
           refused == missing \/ Clash(new_dirs, merge_dirs) \/ Clash(new_files, overwrite_files)
<1>1. /\ store' = store
      /\ command' = [NoCommand EXCEPT
                       !.action = "add", !.arguments = items, !.under_dir = under_dir,
                       !.merge_dirs = merge_dirs, !.overwrite_files = overwrite_files,
                       !.dirs = new_dirs, !.files = new_files, !.before = store,
                       !.stage = IF refused THEN "ended" ELSE "creating dirs",
                       !.result = IF refused THEN "refused" ELSE "none"]
  BY DEF BeginAdd
<1> HIDE DEF refused, new_dirs, new_files
<1>2. /\ CommandShape'
      /\ command'.action = "add" /\ command'.arguments = items /\ command'.under_dir = under_dir
      /\ command'.overwrite_files = overwrite_files /\ command'.dirs = new_dirs /\ command'.files = new_files
      /\ command'.before = store
      /\ command'.stage = (IF refused THEN "ended" ELSE "creating dirs")
      /\ command'.result = (IF refused THEN "refused" ELSE "none")
  BY <1>1 DEF CommandShape, NoCommand
<1>3. StoreInv'
  BY <1>1 DEF EditInv, StoreInv
<1>4. CommandInv'
  BY <1>1, <1>2 DEF CommandInv
<1>5. DeleteInv'
  BY <1>2 DEF DeleteInv
<1>6. CASE refused
  BY <1>2, <1>3, <1>4, <1>5, <1>6 DEF EditInv, AddInv
<1>7. CASE ~refused
  <2>1. ~missing /\ ~Clash(new_files, overwrite_files)
    BY <1>7 DEF refused
  <2>2. ToAdd' = to_add
    BY <1>2, <2>1 DEF ToAdd
  <2> HIDE DEF to_add
  <2>3. command'.dirs \subseteq {x \in ToAdd' : IsDir(x)} /\ command'.files \subseteq {x \in ToAdd' : ~IsDir(x)}
    BY <1>2, <2>2 DEF new_dirs, new_files
  <2>4. ToAdd' \ (command'.dirs \cup command'.files) = {}
    BY <1>2, <2>2 DEF new_dirs, new_files
  <2>5. OnlyAdds(command'.before, store', Wanted')
    BY <1>1, <1>2 DEF OnlyAdds
  <2>6. Keeps(command'.before, store')
    BY <1>1, <1>2 DEF Keeps
  <2>7. ASSUME ~overwrite_files, NEW x \in new_files, IsPath(x.path_in_archive) PROVE PathOf(x) \notin DOMAIN store
    BY <2>1, <2>7 DEF Clash, Exists, PathOf
  <2>8. \A i \in DOMAIN items : items[i] \in DOMAIN Outside
    BY <2>1
  <2> HIDE DEF missing
  <2>9. AddInv'
    BY <1>2, <1>7, <2>3, <2>4, <2>5, <2>6, <2>7, <2>8 DEF AddInv
  <2> QED
    BY <1>3, <1>4, <1>5, <2>9 DEF EditInv
<1> QED
  BY <1>6, <1>7

\* An item that is added lands where it belongs, and all else stays.
LEMMA AddingKeepsInv ==
  ASSUME EditInv, command.stage \in {"creating dirs", "writing files"},
         NEW x \in command.dirs \cup command.files,
         StoreOK(store'), Adds(store, store', PathOf(x), Outside[x.real_path]), IsPath(x.path_in_archive),
         x \in command.files \/ PathOf(x) \notin DOMAIN store,
         SameCommand
  PROVE  /\ StoreInv' /\ OnlyAdds(command.before, store', Wanted)
         /\ [path |-> PathOf(x), content |-> Outside[x.real_path]] \in Wanted
         /\ ~command.overwrite_files => Keeps(command.before, store')
<1>1. command.action = "add" /\ command.result = "none"
  BY DEF EditInv, CommandInv
<1>2. /\ \A i \in DOMAIN command.arguments : command.arguments[i] \in DOMAIN Outside
      /\ command.under_dir \in UnderDirs
      /\ x \in ToAdd
      /\ OnlyAdds(command.before, store, Wanted)
      /\ ~command.overwrite_files =>
           /\ Keeps(command.before, store)
           /\ x \in command.files => PathOf(x) \notin DOMAIN command.before
  BY <1>1 DEF EditInv, AddInv
<1>3. x.real_path \in DOMAIN Outside /\ [path |-> PathOf(x), content |-> Outside[x.real_path]] \in Wanted
  BY <1>2, FoundIsWanted, WantedByArguments DEF ToAdd
<1>4. StoreInv'
  <2>1. Outside[x.real_path] \in Contents
    BY <1>3 DEF Contents
  <2>2. \A q \in DOMAIN store' : store'[q] \in Contents
    BY <2>1, AddingKeepsContents DEF EditInv, StoreInv
  <2> QED
    BY <2>2 DEF StoreInv
<1>5. OnlyAdds(command.before, store', Wanted)
  BY <1>2, <1>3, AddingWanted
<1>6. ASSUME ~command.overwrite_files PROVE Keeps(command.before, store')
  <2>1. PathOf(x) \notin DOMAIN command.before
    BY <1>2, <1>6 DEF OnlyAdds
  <2> QED
    BY <1>2, <1>6, <2>1, AddingKeeps
<1> QED
  BY <1>3, <1>4, <1>5, <1>6

LEMMA CreateNextDirKeepsInv == EditInv /\ CreateNextDir => EditInv'
<1> SUFFICES ASSUME EditInv, CreateNextDir PROVE EditInv'
  OBVIOUS
<1>1. command.stage = "creating dirs" /\ command.action = "add" /\ command.result = "none" /\ CommandShape
  BY DEF CreateNextDir, EditInv, CommandInv
<1>2. PICK x \in UpNext(command.dirs) :
        IF Possible("create_dir_at", x.path_in_archive, store)
        THEN /\ store' = After("create_dir_at", Meant(x.path_in_archive), Damaged, store)
             /\ command' = [command EXCEPT !.dirs = Rest(@, x)]
        ELSE End("failed", x.path_in_archive) /\ UNCHANGED store
  BY DEF CreateNextDir
<1>3. x \in command.dirs
  BY DEF UpNext
<1>4. /\ \A i \in DOMAIN command.arguments : command.arguments[i] \in DOMAIN Outside
      /\ command.under_dir \in UnderDirs
      /\ x \in ToAdd /\ IsDir(x)
  BY <1>1, <1>3 DEF EditInv, AddInv
<1>5. x.path_in_archive \in Seq(RawSegments)
  BY <1>4, FoundIsWanted DEF ToAdd
<1>6. CASE ~Possible("create_dir_at", x.path_in_archive, store)
  <2>1. End("failed", x.path_in_archive) /\ store' = store
    BY <1>2, <1>6
  <2>2. command.stage # "ended" /\ command.action # "delete"
    BY <1>1
  <2> QED
    BY <2>1, <2>2, EndKeepsInv
<1>7. CASE Possible("create_dir_at", x.path_in_archive, store)
  <2> DEFINE p    == PathOf(x)
             what == Outside[x.real_path]
             rest == command.dirs \ {x}
  <2>1. store' = After("create_dir_at", p, Damaged, store) /\ command' = [command EXCEPT !.dirs = rest]
    BY <1>2, <1>7 DEF Rest, PathOf
  <2>2. "create_dir_at" \in AddCalls /\ AddedBy("create_dir_at", Damaged) = what
    BY <1>4 DEF AddCalls, DirCalls, WriteCalls, AddedBy, IsDir
  <2>3. StoreOK(store') /\ Adds(store, store', p, what) /\ p \in DOMAIN store' /\ store'[p] = what
    BY <1>5, <1>7, <2>1, <2>2, AddCallsAdd DEF EditInv, StoreInv, PathOf
  <2>4. IsPath(x.path_in_archive) /\ ("create_dir_at" = "create_dir_at" => p \notin DOMAIN store)
    BY <1>5, <1>7, <2>2, PossibleIsFree DEF PathOf
  <2>5. /\ CommandShape' /\ SameCommand
        /\ command'.stage = command.stage /\ command'.result = command.result
    BY <1>1, <2>1, RestChanges
  <2>6. command'.dirs = rest /\ command'.files = command.files
    BY <1>1, <2>1 DEF CommandShape
  <2> HIDE DEF p, what
  <2>7. /\ StoreInv' /\ OnlyAdds(command.before, store', Wanted)
        /\ [path |-> p, content |-> what] \in Wanted
        /\ ~command.overwrite_files => Keeps(command.before, store')
    BY <1>1, <1>3, <2>3, <2>4, <2>5, AddingKeepsInv DEF p, what
  <2>8. Wanted' = Wanted /\ ToAdd' = ToAdd
    BY <2>5, SameArguments
  <2>9. ASSUME NEW y \in ToAdd \ (command'.dirs \cup command'.files) PROVE IsAdded(y, store', Wanted)
    <3>1. CASE y = x
      <4>1. [path |-> p, content |-> store'[p]] \in Wanted
        BY <2>3, <2>7
      <4> QED
        BY <2>3, <2>4, <3>1, <4>1 DEF IsAdded, p
    <3>2. CASE y # x
      <4>1. y \in ToAdd \ (command.dirs \cup command.files)
        BY <2>6, <3>2
      <4>2. IsAdded(y, store, Wanted)
        BY <1>1, <4>1 DEF EditInv, AddInv
      <4> QED
        BY <2>3, <2>7, <4>2, AddingKeepsAdded
    <3> QED
      BY <3>1, <3>2
  <2>10. AddInv'
    BY <1>1, <2>5, <2>6, <2>7, <2>8, <2>9 DEF EditInv, AddInv, SameCommand
  <2>11. CommandInv'
    BY <1>1, <2>5 DEF EditInv, CommandInv, SameCommand
  <2>12. DeleteInv'
    BY <1>1, <2>5 DEF DeleteInv, SameCommand
  <2> QED
    BY <2>7, <2>10, <2>11, <2>12 DEF EditInv
<1> QED
  BY <1>6, <1>7

LEMMA WriteNextFileKeepsInv == EditInv /\ WriteNextFile => EditInv'
<1> SUFFICES ASSUME EditInv, WriteNextFile PROVE EditInv'
  OBVIOUS
<1>1. command.stage = "writing files" /\ command.action = "add" /\ command.result = "none" /\ CommandShape
  BY DEF WriteNextFile, EditInv, CommandInv
<1>2. PICK x \in UpNext(command.files) :
        IF Possible("write_file_at", x.path_in_archive, store)
        THEN /\ store' = After("write_file_at", Meant(x.path_in_archive), Outside[x.real_path], store)
             /\ command' = [command EXCEPT !.files = Rest(@, x)]
        ELSE End("failed", x.path_in_archive) /\ UNCHANGED store
  BY DEF WriteNextFile
<1>3. x \in command.files
  BY DEF UpNext
<1>4. /\ \A i \in DOMAIN command.arguments : command.arguments[i] \in DOMAIN Outside
      /\ command.under_dir \in UnderDirs
      /\ x \in ToAdd /\ ~IsDir(x)
  BY <1>1, <1>3 DEF EditInv, AddInv
<1>5. x.path_in_archive \in Seq(RawSegments)
  BY <1>4, FoundIsWanted DEF ToAdd
<1>6. CASE ~Possible("write_file_at", x.path_in_archive, store)
  <2>1. End("failed", x.path_in_archive) /\ store' = store
    BY <1>2, <1>6
  <2>2. command.stage # "ended" /\ command.action # "delete"
    BY <1>1
  <2> QED
    BY <2>1, <2>2, EndKeepsInv
<1>7. CASE Possible("write_file_at", x.path_in_archive, store)
  <2> DEFINE p    == PathOf(x)
             what == Outside[x.real_path]
             rest == command.files \ {x}
  <2>1. store' = After("write_file_at", p, Outside[x.real_path], store) /\ command' = [command EXCEPT !.files = rest]
    BY <1>2, <1>7 DEF Rest, PathOf
  <2>2. "write_file_at" \in AddCalls /\ AddedBy("write_file_at", Outside[x.real_path]) = what
    BY <1>4 DEF AddCalls, DirCalls, WriteCalls, AddedBy, IsDir
  <2>3. StoreOK(store') /\ Adds(store, store', p, what) /\ p \in DOMAIN store' /\ store'[p] = what
    BY <1>5, <1>7, <2>1, <2>2, AddCallsAdd DEF EditInv, StoreInv, PathOf
  <2>4. IsPath(x.path_in_archive) /\ ("write_file_at" = "create_dir_at" => p \notin DOMAIN store)
    BY <1>5, <1>7, <2>2, PossibleIsFree DEF PathOf
  <2>5. /\ CommandShape' /\ SameCommand
        /\ command'.stage = command.stage /\ command'.result = command.result
    BY <1>1, <2>1, RestChanges
  <2>6. command'.dirs = command.dirs /\ command'.files = rest
    BY <1>1, <2>1 DEF CommandShape
  <2> HIDE DEF p, what
  <2>7. /\ StoreInv' /\ OnlyAdds(command.before, store', Wanted)
        /\ [path |-> p, content |-> what] \in Wanted
        /\ ~command.overwrite_files => Keeps(command.before, store')
    BY <1>1, <1>3, <2>3, <2>4, <2>5, AddingKeepsInv DEF p, what
  <2>8. Wanted' = Wanted /\ ToAdd' = ToAdd
    BY <2>5, SameArguments
  <2>9. ASSUME NEW y \in ToAdd \ (command'.dirs \cup command'.files) PROVE IsAdded(y, store', Wanted)
    <3>1. CASE y = x
      <4>1. [path |-> p, content |-> store'[p]] \in Wanted
        BY <2>3, <2>7
      <4> QED
        BY <2>3, <2>4, <3>1, <4>1 DEF IsAdded, p
    <3>2. CASE y # x
      <4>1. y \in ToAdd \ (command.dirs \cup command.files)
        BY <2>6, <3>2
      <4>2. IsAdded(y, store, Wanted)
        BY <1>1, <4>1 DEF EditInv, AddInv
      <4> QED
        BY <2>3, <2>7, <4>2, AddingKeepsAdded
    <3> QED
      BY <3>1, <3>2
  <2>10. AddInv'
    BY <1>1, <2>5, <2>6, <2>7, <2>8, <2>9 DEF EditInv, AddInv, SameCommand
  <2>11. CommandInv'
    BY <1>1, <2>5 DEF EditInv, CommandInv, SameCommand
  <2>12. DeleteInv'
    BY <1>1, <2>5 DEF DeleteInv, SameCommand
  <2> QED
    BY <2>7, <2>10, <2>11, <2>12 DEF EditInv
<1> QED
  BY <1>6, <1>7

LEMMA DirsCreatedKeepsInv == EditInv /\ DirsCreated => EditInv'
<1> SUFFICES ASSUME EditInv, DirsCreated PROVE EditInv'
  OBVIOUS
<1>1. /\ command.stage = "creating dirs" /\ command.dirs = {} /\ store' = store
      /\ command.action = "add" /\ command.result = "none" /\ CommandShape
  BY DEF DirsCreated, EditInv, CommandInv
<1>2. CASE End("panic", <<>>)
  <2>1. command.stage # "ended"
    BY <1>1
  <2> QED
    BY <1>1, <1>2, <2>1, EndKeepsInv
<1>3. CASE command' = [command EXCEPT !.stage = "writing files"]
  <2>1. /\ CommandShape' /\ SameCommand
        /\ command'.stage = "writing files" /\ command'.result = command.result
        /\ command'.dirs = command.dirs /\ command'.files = command.files
    BY <1>1, <1>3 DEF CommandShape, SameCommand
  <2>2. Wanted' = Wanted /\ ToAdd' = ToAdd
    BY <2>1, SameArguments
  <2>3. StoreInv'
    BY <1>1 DEF EditInv, StoreInv
  <2>4. CommandInv'
    BY <1>1, <2>1 DEF CommandInv, SameCommand
  <2>5. AddInv'
    BY <1>1, <2>1, <2>2 DEF EditInv, AddInv, SameCommand
  <2>6. DeleteInv'
    BY <1>1, <2>1 DEF DeleteInv, SameCommand
  <2> QED
    BY <2>3, <2>4, <2>5, <2>6 DEF EditInv
<1> QED
  BY <1>2, <1>3 DEF DirsCreated

LEMMA FilesWrittenKeepsInv == EditInv /\ FilesWritten => EditInv'
<1> SUFFICES ASSUME EditInv, FilesWritten PROVE EditInv'
  OBVIOUS
<1>1. command.stage = "writing files" /\ command.files = {} /\ End("ok", <<>>) /\ store' = store
  BY DEF FilesWritten
<1>2. command.action = "add" /\ command.result = "none" /\ command.dirs = {} /\ command.stage # "ended"
  BY <1>1 DEF EditInv, CommandInv, AddInv
<1> QED
  BY <1>1, <1>2, EndKeepsInv

LEMMA BeginDeleteKeepsInv ==
  ASSUME EditInv, NEW raws \in DeleteArguments, BeginDelete(raws)
  PROVE  EditInv'
<1> DEFINE refused == \E i \in DOMAIN raws : ~Exists(raws[i]) \/ Meant(raws[i]) = <<>>
           meant   == {Meant(raws[i]) : i \in DOMAIN raws}
<1>1. /\ store' = store
      /\ command' = [NoCommand EXCEPT
                       !.action = "delete", !.arguments = raws, !.before = store,
                       !.to_delete = IF refused THEN {} ELSE meant,
                       !.stage = IF refused THEN "ended" ELSE "deleting",
                       !.result = IF refused THEN "refused" ELSE "none"]
  BY DEF BeginDelete
<1>2. ASSUME ~refused PROVE meant \subseteq Seq(Names) \ {<<>>}
  <2>1. \A i \in DOMAIN raws : Meant(raws[i]) # <<>>
    BY <1>2
  <2>2. \A i \in DOMAIN raws : raws[i] \in Seq(RawSegments)
    BY ArgumentsAssumption DEF RawSegments
  <2>3. \A i \in DOMAIN raws : Meant(raws[i]) \in Seq(Names)
    BY <2>2, MeantIsPath
  <2> QED
    BY <2>1, <2>3
<1> HIDE DEF refused
<1>3. /\ CommandShape'
      /\ command'.action = "delete" /\ command'.arguments = raws /\ command'.before = store
      /\ command'.to_delete = (IF refused THEN {} ELSE meant)
      /\ command'.stage = (IF refused THEN "ended" ELSE "deleting")
      /\ command'.result = (IF refused THEN "refused" ELSE "none")
  BY <1>1 DEF CommandShape, NoCommand
<1>4. Unwanted' = meant
  BY <1>3 DEF Unwanted
<1> HIDE DEF meant
<1>5. StoreInv'
  BY <1>1 DEF EditInv, StoreInv
<1>6. CommandInv'
  BY <1>1, <1>3 DEF CommandInv
<1>7. AddInv'
  BY <1>3 DEF AddInv
<1>8. OnlyRemoves(command'.before, store', Unwanted')
  BY <1>1, <1>3 DEF OnlyRemoves
<1>9. DeleteInv'
  BY <1>2, <1>3, <1>4, <1>8 DEF DeleteInv
<1> QED
  BY <1>5, <1>6, <1>7, <1>9 DEF EditInv

\* Nothing is left below what is gone.
LEMMA GoneWithAllBelow ==
  ASSUME NEW s, StoreOK(s), NEW p \in Seq(Names) \ {<<>>}, p \notin DOMAIN s, NEW q \in DOMAIN s
  PROVE  ~IsPrefix(p, q)
<1>1. q \in Seq(Names)
  BY DEF StoreOK
<1>2. IsPrefix(p, q) => p \in Above(q)
  BY <1>1, AboveArePrefixes DEF IsStrictPrefix
<1>3. p \notin Above(q)
  BY DEF StoreOK
<1> QED
  BY <1>2, <1>3

LEMMA DeleteNextKeepsInv == EditInv /\ DeleteNext => EditInv'
<1> SUFFICES ASSUME EditInv, DeleteNext PROVE EditInv'
  OBVIOUS
<1>1. /\ command.stage = "deleting" /\ command.action = "delete" /\ command.result = "none" /\ CommandShape
      /\ StoreOK(store)
  BY DEF DeleteNext, EditInv, CommandInv, StoreInv
<1>2. /\ Unwanted \subseteq Seq(Names) \ {<<>>} /\ command.to_delete \subseteq Unwanted
      /\ \A p \in Unwanted \ command.to_delete, q \in DOMAIN store : ~IsPrefix(p, q)
      /\ OnlyRemoves(command.before, store, Unwanted)
  BY <1>1 DEF EditInv, DeleteInv
<1>3. PICK p \in command.to_delete :
        CASE Skipped(p) ->
               command' = [command EXCEPT !.to_delete = Rest(@, p)] /\ UNCHANGED store
          [] ~Skipped(p) /\ p \in DOMAIN store ->
               /\ store' = After(RemovalOf(p), p, Damaged, store)
               /\ command' = [command EXCEPT !.to_delete = Rest(@, p)]
          [] OTHER -> End("failed", p) /\ UNCHANGED store
  BY DEF DeleteNext
<1>4. p \in Unwanted /\ p \in Seq(Names) \ {<<>>}
  BY <1>2
<1> DEFINE rest == command.to_delete \ {p}
<1>5. \/ p \notin DOMAIN store /\ store' = store
      \/ p \in DOMAIN store /\ store' = After(RemovalOf(p), p, Damaged, store)
  BY <1>3 DEF Skipped
<1>6. command' = [command EXCEPT !.to_delete = rest]
  BY <1>3 DEF Skipped, Rest
<1>7. /\ CommandShape' /\ SameCommand
      /\ command'.stage = command.stage /\ command'.result = command.result
  BY <1>1, <1>6, RestChanges
<1>8. command'.to_delete = rest
  BY <1>1, <1>6 DEF CommandShape
<1>9. Removes(store, store', p) /\ StoreOK(store') /\ \A q \in DOMAIN store' : ~IsPrefix(p, q)
  <2>1. CASE p \notin DOMAIN store /\ store' = store
    <3>1. \A q \in DOMAIN store : ~IsPrefix(p, q)
      BY <1>1, <1>4, <2>1, GoneWithAllBelow
    <3> QED
      BY <1>1, <2>1, <3>1 DEF Removes
  <2>2. CASE p \in DOMAIN store /\ store' = After(RemovalOf(p), p, Damaged, store)
    <3>1. RemovalOf(p) \in RemoveCalls
      BY DEF RemovalOf, RemoveCalls
    <3> QED
      BY <1>1, <1>4, <2>2, <3>1, RemoveCallsRemove
  <2> QED
    BY <1>5, <2>1, <2>2
<1>10. Unwanted' = Unwanted
  BY <1>7, SameArguments
<1>11. StoreInv'
  BY <1>9 DEF EditInv, StoreInv, Removes
<1>12. CommandInv'
  BY <1>1, <1>7 DEF CommandInv, SameCommand
<1>13. AddInv'
  BY <1>1, <1>7 DEF AddInv, SameCommand
<1>14. OnlyRemoves(command.before, store', Unwanted)
  BY <1>2, <1>4, <1>9, RemovingUnwanted
<1>15. \A r \in Unwanted \ rest, q \in DOMAIN store' : ~IsPrefix(r, q)
  BY <1>2, <1>9 DEF Removes
<1>16. DeleteInv'
  BY <1>1, <1>2, <1>7, <1>8, <1>10, <1>14, <1>15 DEF DeleteInv, SameCommand
<1> QED
  BY <1>11, <1>12, <1>13, <1>16 DEF EditInv

LEMMA DeletedKeepsInv == EditInv /\ Deleted => EditInv'
<1> SUFFICES ASSUME EditInv, Deleted PROVE EditInv'
  OBVIOUS
<1>1. command.stage = "deleting" /\ command.to_delete = {} /\ End("ok", <<>>) /\ store' = store
  BY DEF Deleted
<1>2. command.action = "delete" /\ command.stage # "ended"
  BY <1>1 DEF EditInv, CommandInv
<1> QED
  BY <1>1, <1>2, EndKeepsInv

\* A command cut off in the middle of an operation.
LEMMA InterruptedKeepsInv == EditInv /\ Interrupted => EditInv'
<1> SUFFICES ASSUME EditInv, Interrupted PROVE EditInv'
  OBVIOUS
<1>1. command.stage # "ended" /\ End("interrupted", <<>>) /\ CommandShape /\ command.result = "none"
  BY DEF Interrupted, EditInv, CommandInv
<1>2. /\ CommandShape' /\ SameCommand
      /\ command'.stage = "ended" /\ command'.result = "interrupted"
      /\ command'.dirs = command.dirs /\ command'.files = command.files
      /\ command'.to_delete = command.to_delete
  BY <1>1, EndChanges
<1>3. Wanted' = Wanted /\ ToAdd' = ToAdd /\ Unwanted' = Unwanted
  BY <1>2, SameArguments
<1>4. CASE store' = store
  BY <1>1, <1>4, EndKeepsInv
<1>5. ASSUME NEW x \in command.dirs \cup command.files, NEW op \in {"create_dir_at", "write_file_at"},
             store' # store,
             store' \in CutShort(op, x.path_in_archive, store),
             command.stage = (IF op = "create_dir_at" THEN "creating dirs" ELSE "writing files"),
             x \in (IF op = "create_dir_at" THEN command.dirs ELSE command.files)
      PROVE  EditInv'
  <2> DEFINE what == Outside[x.real_path]
  <2>1. command.action = "add" /\ command.stage \in {"creating dirs", "writing files"}
    BY <1>5 DEF EditInv, CommandInv
  <2>2. /\ \A i \in DOMAIN command.arguments : command.arguments[i] \in DOMAIN Outside
        /\ command.under_dir \in UnderDirs
        /\ x \in ToAdd /\ (op = "create_dir_at" <=> IsDir(x))
    BY <1>1, <1>5, <2>1 DEF EditInv, AddInv
  <2>3. x.path_in_archive \in Seq(RawSegments)
    BY <2>2, FoundIsWanted DEF ToAdd
  <2>4. op \in AddCalls /\ AddedBy(op, what) = what
    BY <2>2 DEF AddCalls, DirCalls, WriteCalls, AddedBy, IsDir
  <2> HIDE DEF what
  <2>5. StoreOK(store') /\ Possible(op, x.path_in_archive, store) /\ Adds(store, store', PathOf(x), what)
    BY <1>5, <2>3, <2>4, CutOffAddCallsAdd DEF EditInv, StoreInv, PathOf
  <2>6. IsPath(x.path_in_archive) /\ (op = "create_dir_at" => PathOf(x) \notin DOMAIN store)
    BY <2>3, <2>4, <2>5, PossibleIsFree DEF PathOf
  <2>7. x \in command.files \/ PathOf(x) \notin DOMAIN store
    BY <1>5, <2>6
  <2>8. /\ StoreInv' /\ OnlyAdds(command.before, store', Wanted)
        /\ ~command.overwrite_files => Keeps(command.before, store')
    BY <1>2, <2>1, <2>5, <2>6, <2>7, AddingKeepsInv DEF what
  <2>9. AddInv'
    BY <1>1, <1>2, <1>3, <2>1, <2>8 DEF EditInv, AddInv, SameCommand
  <2>10. CommandInv'
    BY <1>2, <2>1 DEF CommandInv, SameCommand
  <2>11. DeleteInv'
    BY <1>2, <2>1 DEF DeleteInv, SameCommand
  <2> QED
    BY <2>8, <2>9, <2>10, <2>11 DEF EditInv
<1>6. ASSUME command.stage = "deleting", NEW p \in command.to_delete \cap DOMAIN store,
             store' \in CutShort(RemovalOf(p), p, store)
      PROVE  EditInv'
  <2>1. command.action = "delete" /\ StoreOK(store)
    BY <1>6 DEF EditInv, CommandInv, StoreInv
  <2>2. /\ Unwanted \subseteq Seq(Names) \ {<<>>} /\ command.to_delete \subseteq Unwanted
        /\ \A r \in Unwanted \ command.to_delete, q \in DOMAIN store : ~IsPrefix(r, q)
        /\ OnlyRemoves(command.before, store, Unwanted)
    BY <1>1, <2>1 DEF EditInv, DeleteInv
  <2>3. p \in Unwanted /\ p \in Seq(Names) /\ Meant(p) = p
    BY <2>1, <2>2, PresentCanBeRemoved
  <2>4. RemovalOf(p) \in RemoveCalls
    BY DEF RemovalOf, RemoveCalls
  <2>5. StoreOK(store') /\ Removes(store, store', p)
    BY <1>6, <2>1, <2>3, <2>4, CutOffRemoveCallsRemove
  <2>6. StoreInv'
    BY <2>5 DEF EditInv, StoreInv, Removes
  <2>7. OnlyRemoves(command.before, store', Unwanted)
    BY <2>2, <2>3, <2>5, RemovingUnwanted
  <2>8. \A r \in Unwanted \ command.to_delete, q \in DOMAIN store' : ~IsPrefix(r, q)
    BY <2>2, <2>5 DEF Removes
  <2>9. DeleteInv'
    BY <1>2, <1>3, <2>1, <2>2, <2>7, <2>8 DEF DeleteInv, SameCommand
  <2>10. CommandInv'
    BY <1>2, <2>1 DEF CommandInv, SameCommand
  <2>11. AddInv'
    BY <1>2, <2>1 DEF AddInv, SameCommand
  <2> QED
    BY <2>6, <2>9, <2>10, <2>11 DEF EditInv
<1>7. CASE store' # store
  <2>1. CASE /\ command.stage = "creating dirs"
             /\ \E x \in UpNext(command.dirs) : store' \in CutShort("create_dir_at", x.path_in_archive, store)
    <3>1. PICK x \in command.dirs : store' \in CutShort("create_dir_at", x.path_in_archive, store)
      BY <2>1 DEF UpNext
    <3> QED
      BY <1>5, <1>7, <2>1, <3>1
  <2>2. CASE /\ command.stage = "writing files"
             /\ \E x \in UpNext(command.files) : store' \in CutShort("write_file_at", x.path_in_archive, store)
    <3>1. PICK x \in command.files : store' \in CutShort("write_file_at", x.path_in_archive, store)
      BY <2>2 DEF UpNext
    <3> QED
      BY <1>5, <1>7, <2>2, <3>1
  <2>3. CASE /\ command.stage = "deleting"
             /\ \E p \in command.to_delete \cap DOMAIN store : store' \in CutShort(RemovalOf(p), p, store)
    BY <1>6, <2>3
  <2> QED
    BY <1>7, <2>1, <2>2, <2>3 DEF Interrupted
<1> QED
  BY <1>4, <1>7

LEMMA NextCommandKeepsInv == EditInv /\ NextCommand => EditInv'
<1> SUFFICES ASSUME EditInv, NextCommand PROVE EditInv'
  OBVIOUS
<1>1. command' = NoCommand /\ store' = store
  BY DEF NextCommand
<1>2. StoreInv'
  BY <1>1 DEF EditInv, StoreInv
<1>3. CommandInv'
  BY <1>1 DEF CommandInv, CommandShape, NoCommand
<1>4. command'.action = "none"
  BY <1>1 DEF NoCommand
<1> QED
  BY <1>2, <1>3, <1>4 DEF EditInv, AddInv, DeleteInv

\* Every step of add and delete keeps the invariant.
LEMMA EditInvNext == EditInv /\ [Next]_vars => EditInv'
<1> SUFFICES ASSUME EditInv, [Next]_vars PROVE EditInv'
  OBVIOUS
<1>1. ASSUME NEW items \in AddArguments, NEW under_dir \in UnderDirs,
             NEW merge_dirs \in BOOLEAN, NEW overwrite_files \in BOOLEAN,
             BeginAdd(items, under_dir, merge_dirs, overwrite_files)
      PROVE  EditInv'
  BY <1>1, BeginAddKeepsInv
<1>2. ASSUME NEW raws \in DeleteArguments, BeginDelete(raws)
      PROVE  EditInv'
  BY <1>2, BeginDeleteKeepsInv
<1>3. CASE Step
  BY <1>3, CreateNextDirKeepsInv, DirsCreatedKeepsInv, WriteNextFileKeepsInv, FilesWrittenKeepsInv,
     DeleteNextKeepsInv, DeletedKeepsInv DEF Step
<1>4. CASE Interrupted
  BY <1>4, InterruptedKeepsInv
<1>5. CASE NextCommand
  BY <1>5, NextCommandKeepsInv
<1>6. CASE UNCHANGED vars
  <2>1. store' = store /\ command' = command
    BY <1>6 DEF vars
  <2>2. Wanted' = Wanted /\ ToAdd' = ToAdd /\ Unwanted' = Unwanted
    BY <2>1, SameArguments DEF SameCommand
  <2>3. StoreInv' /\ CommandInv'
    BY <2>1 DEF EditInv, StoreInv, CommandInv, CommandShape
  <2>4. AddInv'
    BY <2>1, <2>2 DEF EditInv, AddInv
  <2>5. DeleteInv'
    BY <2>1, <2>2 DEF EditInv, DeleteInv
  <2> QED
    BY <2>3, <2>4, <2>5 DEF EditInv
<1> QED
  BY <1>1, <1>2, <1>3, <1>4, <1>5, <1>6 DEF Next

-----------------------------------------------------------------------------
(* What the invariant says of add and delete. *)

LEMMA InvSaysOnlyWhatWasAsked == EditInv => OnlyWhatWasAsked
<1> SUFFICES ASSUME EditInv PROVE OnlyWhatWasAsked
  OBVIOUS
<1>1. ASSUME command.result = "refused" PROVE Changed = {}
  BY <1>1 DEF EditInv, CommandInv, Changed
<1>2. ASSUME command.action = "add", NEW q \in Changed
      PROVE  /\ q \in DOMAIN store
             /\ \/ \E w \in Wanted : q = w.path /\ store[q] \in {w.content, Damaged}
                \/ q \notin DOMAIN command.before /\ store[q] = "directory" /\ \E w \in Wanted : q \in Above(w.path)
  <2>1. OnlyAdds(command.before, store, Wanted)
    BY <1>1, <1>2 DEF EditInv, AddInv
  <2>2. q \in DOMAIN store /\ ~(q \in DOMAIN command.before /\ store[q] = command.before[q])
    BY <1>2, <2>1 DEF Changed, OnlyAdds
  <2> QED
    BY <2>1, <2>2 DEF OnlyAdds
<1>3. ASSUME command.action = "delete", NEW q \in Changed
      PROVE  q \notin DOMAIN store /\ \E p \in Unwanted : IsPrefix(p, q)
  <2>1. OnlyRemoves(command.before, store, Unwanted)
    BY <1>1, <1>3 DEF EditInv, DeleteInv
  <2>2. q \in DOMAIN command.before \ DOMAIN store
    BY <1>3, <2>1 DEF Changed, OnlyRemoves
  <2> QED
    BY <2>1, <2>2 DEF OnlyRemoves
<1> QED
  BY <1>1, <1>2, <1>3 DEF OnlyWhatWasAsked

LEMMA InvSaysDoneMeansDone == EditInv => DoneMeansDone
<1> SUFFICES ASSUME EditInv PROVE DoneMeansDone
  OBVIOUS
<1>1. ASSUME command.result = "ok", command.action = "add", NEW w \in Wanted
      PROVE  w.path \in DOMAIN store /\ [path |-> w.path, content |-> store[w.path]] \in Wanted
  <2>1. /\ command.under_dir \in UnderDirs
        /\ \A x \in ToAdd : IsAdded(x, store, Wanted)
    BY <1>1 DEF EditInv, AddInv
  <2>2. PICK x \in ToAdd : IsPath(x.path_in_archive) => w.path = PathOf(x)
    BY <2>1, WantedIsFound, WantedByArguments DEF ToAdd
  <2> QED
    BY <2>1, <2>2 DEF IsAdded
<1>2. ASSUME command.result = "ok", command.action = "delete", NEW q \in DOMAIN store, NEW p \in Unwanted
      PROVE  ~IsPrefix(p, q)
  BY <1>2 DEF EditInv, DeleteInv
<1>3. command.action = "delete" => command.result # "failed"
  BY DEF EditInv, DeleteInv
<1> QED
  BY <1>1, <1>2, <1>3 DEF DoneMeansDone

LEMMA InvSaysOldFilesAreKept == EditInv => OldFilesAreKept
<1> SUFFICES ASSUME EditInv, command.action = "add", ~command.overwrite_files
             PROVE  \A q \in DOMAIN command.before : q \in DOMAIN store /\ store[q] = command.before[q]
  BY DEF OldFilesAreKept
<1>1. CASE command.result = "refused"
  BY <1>1 DEF EditInv, CommandInv
<1>2. CASE command.result # "refused"
  BY <1>2 DEF EditInv, AddInv, Keeps
<1> QED
  BY <1>1, <1>2

-----------------------------------------------------------------------------
(* What the steps of extract do to the disk. *)

\* What is put there is the output directory or an item asked for.
LEMMA PuttingAsked ==
  ASSUME NEW before, NEW d, NEW s, NEW output_dir, NEW asked, NEW p, NEW what,
         OnlyPuts(before, d, s, output_dir, asked),
         \/ p = output_dir /\ what = "directory"
         \/ \E q \in asked : p = output_dir \o q /\ what \in {s[q], Partial}
  PROVE  OnlyPuts(before, Extract!With(d, p, what), s, output_dir, asked)
<1> DEFINE e == Extract!With(d, p, what)
<1>1. /\ DOMAIN e = DOMAIN d \cup {p} /\ e[p] = what
      /\ \A q \in DOMAIN d : q # p => e[q] = d[q]
  BY DEF Extract!With
<1> HIDE DEF e
<1>2. ASSUME NEW r \in DOMAIN e
      PROVE  \/ r \in DOMAIN before /\ e[r] = before[r]
             \/ r = output_dir /\ e[r] = "directory"
             \/ \E q \in asked : r = output_dir \o q /\ e[r] \in {s[q], Partial}
  <2>1. CASE r = p
    BY <1>1, <2>1
  <2>2. CASE r # p
    BY <1>1, <2>2 DEF OnlyPuts
  <2> QED
    BY <2>1, <2>2
<1>3. OnlyPuts(before, e, s, output_dir, asked)
  BY <1>1, <1>2 DEF OnlyPuts
<1> QED
  BY <1>3 DEF e

\* What was there is kept, unless it is replaced.
LEMMA PuttingKeeps ==
  ASSUME NEW before, NEW d, NEW p, NEW what, Keeps(before, d), p \notin DOMAIN before
  PROVE  Keeps(before, Extract!With(d, p, what))
<1> DEFINE e == Extract!With(d, p, what)
<1>1. /\ DOMAIN e = DOMAIN d \cup {p}
      /\ \A q \in DOMAIN d : q # p => e[q] = d[q]
  BY DEF Extract!With
<1> HIDE DEF e
<1>2. Keeps(before, e)
  BY <1>1 DEF Keeps
<1> QED
  BY <1>2 DEF e

\* The output directory is a path.
LEMMA OutputDirIsPath ==
  ASSUME NEW output_dir \in {<<>>, <<Stem>>} \cup (OutputDirs \ {NoOutputDir})
  PROVE  \E S : output_dir \in Seq(S)
<1>1. CASE output_dir = <<>>
  BY <1>1, EmptySeq
<1>2. CASE output_dir = <<Stem>>
  <2>1. <<Stem>> \in Seq({Stem})
    OBVIOUS
  <2> QED
    BY <1>2, <2>1
<1>3. CASE output_dir \in OutputDirs \ {NoOutputDir}
  BY <1>3, ExtractAssumption
<1> QED
  BY <1>1, <1>2, <1>3

\* Items of different paths go to different places.
LEMMA PlacesDiffer ==
  ASSUME NEW output_dir \in {<<>>, <<Stem>>} \cup (OutputDirs \ {NoOutputDir}),
         NEW p \in Seq(Names), NEW q \in Seq(Names), output_dir \o p = output_dir \o q
  PROVE  p = q
<1>1. PICK S : output_dir \in Seq(S)
  BY OutputDirIsPath
<1> DEFINE T == S \cup Names
<1>2. output_dir \in Seq(T) /\ p \in Seq(T) /\ q \in Seq(T)
  BY <1>1, SeqMonotonic
<1> HIDE DEF T
<1> QED
  BY <1>2, ConcatSimplifications

\* An item extracted stays whole when another is.
LEMMA PuttingKeepsExtracted ==
  ASSUME NEW output_dir \in {<<>>, <<Stem>>} \cup (OutputDirs \ {NoOutputDir}),
         NEW d, NEW s, NEW x, NEW y, x.path \in Seq(Names), y.path \in Seq(Names),
         IsExtracted(y, d, s, output_dir)
  PROVE  IsExtracted(y, Extract!With(d, output_dir \o x.path, s[x.path]), s, output_dir)
<1> DEFINE p == output_dir \o x.path
           q == output_dir \o y.path
           e == Extract!With(d, p, s[x.path])
<1>1. /\ DOMAIN e = DOMAIN d \cup {p} /\ e[p] = s[x.path]
      /\ \A r \in DOMAIN d : r # p => e[r] = d[r]
  BY DEF Extract!With
<1>2. p = q => x.path = y.path
  BY PlacesDiffer
<1> HIDE DEF e, p
<1>3. q \in DOMAIN d /\ d[q] = s[y.path] /\ s[y.path] # Damaged
  BY DEF IsExtracted
<1> HIDE DEF q
<1>4. q \in DOMAIN e /\ e[q] = s[y.path]
  BY <1>1, <1>2, <1>3
<1> QED
  BY <1>3, <1>4 DEF IsExtracted, e, p, q

\* What is selected is what was asked for.
LEMMA SelectedIsAsked ==
  ASSUME StoreOK(store)
  PROVE  /\ \A x \in Selected : x.path \in Extract!Asked /\ x.path \in DOMAIN store /\ x.path \in Seq(Names)
         /\ \A q \in Extract!Asked : \E x \in Selected : x.path = q
<1> DEFINE items == extraction.items
<1>1. ASSUME NEW turn, NEW p, NEW x \in Extract!Select(turn, p)
      PROVE  x.path \in DOMAIN store /\ Extract!IsPrefix(p, x.path)
  BY DEF Extract!Select
<1>2. ASSUME NEW turn, NEW p, NEW q \in DOMAIN store, Extract!IsPrefix(p, q)
      PROVE  \E x \in Extract!Select(turn, p) : x.path = q
  <2> DEFINE x == [turn |-> turn, path |-> q]
  <2>1. x \in Extract!Select(turn, p)
    BY <1>2 DEF Extract!Select
  <2>2. x.path = q
    OBVIOUS
  <2> QED
    BY <2>1, <2>2
<1>3. \A q \in DOMAIN store : q \in Seq(Names) /\ Extract!IsPrefix(<<>>, q)
  <2>1. \A q \in DOMAIN store : q \in Seq(Names)
    BY DEF StoreOK
  <2>2. \A q \in DOMAIN store : IsPrefix(<<>>, q)
    BY <2>1, PrefixOrder
  <2> QED
    BY <2>1, <2>2 DEF IsPrefix, Extract!IsPrefix
<1>4. CASE Extract!SelectsAll(items)
  <2>1. Selected = Extract!Select(1, <<>>) /\ Extract!Asked = DOMAIN store
    BY <1>4 DEF Selected, Extract!Selection, Extract!Asked
  <2> QED
    BY <1>1, <1>2, <1>3, <2>1
<1>5. CASE ~Extract!SelectsAll(items)
  <2>1. /\ Selected = UNION {Extract!Select(i, Extract!Meant(items[i])) : i \in DOMAIN items}
        /\ Extract!Asked = {q \in DOMAIN store : \E i \in DOMAIN items : Extract!IsPrefix(Extract!Meant(items[i]), q)}
    BY <1>5 DEF Selected, Extract!Selection, Extract!Asked
  <2>2. ASSUME NEW x \in Selected PROVE x.path \in Extract!Asked /\ x.path \in DOMAIN store /\ x.path \in Seq(Names)
    <3>1. PICK i \in DOMAIN items : x \in Extract!Select(i, Extract!Meant(items[i]))
      BY <2>1
    <3> QED
      BY <1>1, <1>3, <2>1, <3>1
  <2>3. ASSUME NEW q \in Extract!Asked PROVE \E x \in Selected : x.path = q
    <3>1. PICK i \in DOMAIN items : Extract!IsPrefix(Extract!Meant(items[i]), q)
      BY <2>1
    <3>2. PICK x \in Extract!Select(i, Extract!Meant(items[i])) : x.path = q
      BY <1>2, <2>1, <3>1
    <3> QED
      BY <2>1, <3>2
  <2> QED
    BY <2>2, <2>3
<1> QED
  BY <1>4, <1>5

-----------------------------------------------------------------------------
(* The invariant of extract. *)

\* What a command is about does not change while it runs.
SameExtraction ==
  /\ extraction'.output_dir = extraction.output_dir /\ extraction'.items = extraction.items
  /\ extraction'.overwrite_files = extraction.overwrite_files
  /\ extraction'.before = extraction.before

LEMMA SameSelection ==
  ASSUME store' = store, SameExtraction
  PROVE  Selected' = Selected /\ Extract!Asked' = Extract!Asked
BY DEF SameExtraction, Selected, Extract!Selection, Extract!SelectsAll, Extract!Select, Extract!Asked,
       Extract!IsRoot, Extract!Resolves, Extract!ExistsIn

LEMMA ExtractionEnds ==
  ASSUME ExtractionShape, NEW result, NEW error_at, Extract!End(result, error_at)
  PROVE  /\ ExtractionShape' /\ SameExtraction
         /\ extraction'.stage = "ended" /\ extraction'.result = result
         /\ extraction'.todo = extraction.todo
BY DEF ExtractionShape, SameExtraction, Extract!End

\* Where there is something to do there is a command.
LEMMA RunningIsNotIdle ==
  ASSUME extraction.stage # "ended"
  PROVE  ~Extract!Idle
BY DEF Extract!Idle, Extract!NoCommand

\* A command may end where it has done all, or not say so.
LEMMA EndKeepsExtractInv ==
  ASSUME ExtractionInv, ExtractInv, extraction.stage # "ended", NEW result, NEW error_at,
         Extract!End(result, error_at), store' = store,
         OnlyPuts(extraction.before, disk', store, extraction.output_dir, Extract!Asked),
         ~extraction.overwrite_files => Keeps(extraction.before, disk'),
         result = "ok" => extraction.stage = "extracting" /\ extraction.todo = {} /\ disk' = disk
  PROVE  ExtractionInv' /\ ExtractInv'
<1>1. /\ ExtractionShape' /\ SameExtraction
      /\ extraction'.stage = "ended" /\ extraction'.result = result
      /\ extraction'.todo = extraction.todo
  BY ExtractionEnds DEF ExtractionInv
<1>2. Selected' = Selected /\ Extract!Asked' = Extract!Asked
  BY <1>1, SameSelection
<1>3. ~Extract!Idle
  BY RunningIsNotIdle
<1>4. ExtractionInv'
  BY <1>1 DEF ExtractionInv
<1>5. /\ extraction.output_dir \in {<<>>, <<Stem>>} \cup (OutputDirs \ {NoOutputDir})
      /\ extraction.todo \subseteq Selected
      /\ extraction.stage = "extracting" =>
           \A x \in Selected \ extraction.todo : IsExtracted(x, disk, store, extraction.output_dir)
  BY <1>3 DEF ExtractInv
<1>6. result = "ok" =>
        \A x \in Selected' \ extraction'.todo : IsExtracted(x, disk', store', extraction'.output_dir)
  BY <1>1, <1>2, <1>5 DEF SameExtraction
<1>7. ExtractInv'
  BY <1>1, <1>2, <1>5, <1>6 DEF ExtractInv, SameExtraction
<1> QED
  BY <1>4, <1>7

\* The same, when the disk does not change.
LEMMA EndAsIsKeepsExtractInv ==
  ASSUME ExtractionInv, ExtractInv, extraction.stage # "ended", NEW result, NEW error_at,
         Extract!End(result, error_at), store' = store, disk' = disk,
         result = "ok" => extraction.stage = "extracting" /\ extraction.todo = {}
  PROVE  ExtractionInv' /\ ExtractInv'
<1>1. ~Extract!Idle
  BY RunningIsNotIdle
<1>2. /\ OnlyPuts(extraction.before, disk', store, extraction.output_dir, Extract!Asked)
      /\ ~extraction.overwrite_files => Keeps(extraction.before, disk')
  BY <1>1 DEF ExtractInv
<1> QED
  BY <1>2, EndKeepsExtractInv

LEMMA BeginExtractKeepsInv ==
  ASSUME NEW to \in OutputDirs, NEW items, NEW merge_dirs \in BOOLEAN, NEW overwrite_files \in BOOLEAN,
         Extract!BeginExtract(to, items, merge_dirs, overwrite_files)
  PROVE  ExtractionInv' /\ ExtractInv'
<1> DEFINE is_new == to # NoOutputDir /\ ~Extract!ExistsIn(disk, to)
           out    == Extract!OutputDir(to, items)
           begun(stage, result) == Extract!Begin(to, items, merge_dirs, overwrite_files, stage, result)
<1>1. \/ begun("looking up", "none") /\ is_new /\ disk' = Extract!With(disk, to, "directory")
      \/ begun("looking up", "none") /\ disk' = disk
      \/ begun("ended", "failed") /\ disk' = disk
      \/ begun("ended", "refused") /\ disk' = disk
  BY DEF Extract!BeginExtract
<1>2. PICK stage \in {"looking up", "ended"}, result \in {"none", "failed", "refused"} :
        begun(stage, result) /\ (stage = "looking up" => result = "none")
  <2> HIDE DEF begun, is_new
  <2> QED
    BY <1>1
<1>3. \/ disk' = disk
      \/ is_new /\ disk' = Extract!With(disk, to, "directory")
  BY <1>1
<1>4. /\ ExtractionShape'
      /\ extraction'.output_dir = out /\ extraction'.items = items
      /\ extraction'.overwrite_files = overwrite_files /\ extraction'.todo = {}
      /\ extraction'.stage = stage /\ extraction'.result = result /\ extraction'.before = disk
  BY <1>2 DEF Extract!Begin, Extract!NoCommand, ExtractionShape
<1>5. /\ out \in {<<>>, <<Stem>>} \cup (OutputDirs \ {NoOutputDir})
      /\ to # NoOutputDir => out = to
  <2>1. to # NoOutputDir => out = to
    BY DEF Extract!OutputDir
  <2>2. to = NoOutputDir => out \in {<<>>, <<Stem>>}
    BY DEF Extract!OutputDir
  <2> QED
    BY <2>1, <2>2
<1> HIDE DEF out, begun
<1>6. OnlyPuts(disk, disk, store', out, Extract!Asked')
  BY DEF OnlyPuts
<1>7. Keeps(disk, disk)
  BY DEF Keeps
<1>8. OnlyPuts(disk, disk', store', out, Extract!Asked') /\ Keeps(disk, disk')
  <2>1. CASE disk' = disk
    BY <1>6, <1>7, <2>1
  <2>2. CASE is_new /\ disk' = Extract!With(disk, to, "directory")
    <3>1. to = out /\ to \notin DOMAIN disk
      BY <1>5, <2>2 DEF Extract!ExistsIn
    <3>2. OnlyPuts(disk, Extract!With(disk, to, "directory"), store', out, Extract!Asked')
      BY <1>6, <3>1, PuttingAsked
    <3>3. Keeps(disk, Extract!With(disk, to, "directory"))
      BY <1>7, <3>1, PuttingKeeps
    <3> QED
      BY <2>2, <3>2, <3>3
  <2> QED
    BY <1>3, <2>1, <2>2
<1>9. ExtractionInv'
  BY <1>2, <1>4 DEF ExtractionInv
<1>10. ExtractInv'
  BY <1>2, <1>4, <1>5, <1>8 DEF ExtractInv
<1> QED
  BY <1>9, <1>10

LEMMA PrepareKeepsInv ==
  ASSUME StoreOK(store), ExtractionInv, ExtractInv, Extract!Prepare
  PROVE  ExtractionInv' /\ ExtractInv'
<1> DEFINE out   == extraction.output_dir
           ready == IF Extract!ExistsIn(disk, out) THEN disk ELSE Extract!With(disk, out, "directory")
<1>1. /\ extraction.stage = "looking up" /\ disk' = ready /\ store' = store
      /\ \/ Extract!End("failed", <<>>)
         \/ Extract!End("refused", <<>>)
         \/ /\ extraction.overwrite_files \/
                  ~\E x \in Extract!SelectedFiles : Extract!Occupied(ready, Extract!OutputPath(x))
            /\ extraction' = [extraction EXCEPT !.stage = "extracting", !.todo = Extract!Selection(extraction.items)]
  BY DEF Extract!Prepare, Extract!LookingUp
<1>2. ~Extract!Idle /\ ExtractionShape /\ extraction.result = "none"
  BY <1>1, RunningIsNotIdle DEF ExtractionInv
<1>3. /\ out \in {<<>>, <<Stem>>} \cup (OutputDirs \ {NoOutputDir})
      /\ OnlyPuts(extraction.before, disk, store, out, Extract!Asked)
      /\ ~extraction.overwrite_files => Keeps(extraction.before, disk)
  BY <1>2 DEF ExtractInv
<1> HIDE DEF out
<1>4. /\ OnlyPuts(extraction.before, ready, store, out, Extract!Asked)
      /\ ~extraction.overwrite_files => Keeps(extraction.before, ready)
      /\ DOMAIN extraction.before \subseteq DOMAIN ready
  <2>1. CASE Extract!ExistsIn(disk, out)
    BY <1>3, <2>1 DEF OnlyPuts
  <2>2. CASE ~Extract!ExistsIn(disk, out)
    <3> DEFINE d == Extract!With(disk, out, "directory")
    <3>1. OnlyPuts(extraction.before, d, store, out, Extract!Asked)
      BY <1>3, PuttingAsked
    <3>2. out \notin DOMAIN extraction.before
      BY <1>3, <2>2 DEF OnlyPuts, Extract!ExistsIn
    <3>3. ~extraction.overwrite_files => Keeps(extraction.before, d)
      BY <1>3, <3>2, PuttingKeeps
    <3> HIDE DEF d
    <3>4. DOMAIN extraction.before \subseteq DOMAIN d
      BY <3>1 DEF OnlyPuts
    <3> QED
      BY <2>2, <3>1, <3>3, <3>4 DEF d
  <2> QED
    BY <2>1, <2>2
<1> HIDE DEF ready
<1>5. CASE Extract!End("failed", <<>>)
  BY <1>1, <1>4, <1>5, EndKeepsExtractInv DEF out
<1>6. CASE Extract!End("refused", <<>>)
  BY <1>1, <1>4, <1>6, EndKeepsExtractInv DEF out
<1>7. ASSUME extraction.overwrite_files \/
               ~\E x \in Extract!SelectedFiles : Extract!Occupied(ready, Extract!OutputPath(x)),
             extraction' = [extraction EXCEPT !.stage = "extracting", !.todo = Extract!Selection(extraction.items)]
      PROVE  ExtractionInv' /\ ExtractInv'
  <2>1. /\ ExtractionShape' /\ SameExtraction
        /\ extraction'.stage = "extracting" /\ extraction'.result = "none" /\ extraction'.todo = Selected
    BY <1>2, <1>7 DEF ExtractionShape, SameExtraction, Selected
  <2>2. Selected' = Selected /\ Extract!Asked' = Extract!Asked
    BY <1>1, <2>1, SameSelection
  <2>3. ExtractionInv'
    BY <2>1 DEF ExtractionInv
  <2>4. ASSUME ~extraction.overwrite_files, NEW x \in Selected, store[x.path] # "directory"
        PROVE  out \o x.path \notin DOMAIN extraction.before
    <3>1. x \in Extract!SelectedFiles
      BY <2>4 DEF Selected, Extract!SelectedFiles, Extract!SelectedDirs
    <3>2. ~Extract!Occupied(ready, Extract!OutputPath(x))
      BY <1>7, <2>4, <3>1
    <3>3. out \o x.path \notin DOMAIN ready
      BY <3>2 DEF Extract!Occupied, Extract!ExistsIn, Extract!OutputPath, out
    <3> QED
      BY <1>4, <3>3
  <2>5. ExtractInv'
    BY <1>1, <1>3, <1>4, <2>1, <2>2, <2>4 DEF ExtractInv, SameExtraction, out
  <2> QED
    BY <2>3, <2>5
<1> QED
  BY <1>1, <1>5, <1>6, <1>7

\* What is put for an item that was asked for.
LEMMA PuttingAnItem ==
  ASSUME StoreOK(store), ExtractInv, extraction.stage = "extracting",
         NEW x \in extraction.todo, NEW what \in {store[x.path], Partial},
         ~extraction.overwrite_files => Extract!OutputPath(x) \notin DOMAIN extraction.before
  PROVE  LET d == Extract!With(disk, Extract!OutputPath(x), what)
         IN /\ OnlyPuts(extraction.before, d, store, extraction.output_dir, Extract!Asked)
            /\ ~extraction.overwrite_files => Keeps(extraction.before, d)
<1> DEFINE out == extraction.output_dir
           p   == Extract!OutputPath(x)
           d   == Extract!With(disk, p, what)
<1>1. ~Extract!Idle
  BY RunningIsNotIdle
<1>2. /\ OnlyPuts(extraction.before, disk, store, out, Extract!Asked)
      /\ ~extraction.overwrite_files => Keeps(extraction.before, disk)
      /\ x \in Selected
  BY <1>1 DEF ExtractInv
<1>3. p = out \o x.path
  BY DEF Extract!OutputPath
<1>4. x.path \in Extract!Asked
  BY <1>2, SelectedIsAsked
<1>5. \E q \in Extract!Asked : p = out \o q /\ what \in {store[q], Partial}
  BY <1>3, <1>4
<1> HIDE DEF out, p
<1>6. OnlyPuts(extraction.before, d, store, out, Extract!Asked)
  BY <1>2, <1>5, PuttingAsked
<1>7. ~extraction.overwrite_files => Keeps(extraction.before, d)
  BY <1>2, PuttingKeeps DEF p
<1> QED
  BY <1>6, <1>7 DEF out, p

\* A file that is not there in whole is where the command ends.
LEMMA PartKeepsInv ==
  ASSUME StoreOK(store), ExtractionInv, ExtractInv, extraction.stage = "extracting",
         NEW x \in extraction.todo, NEW result, NEW error_at, result # "ok",
         ~extraction.overwrite_files => Extract!OutputPath(x) \notin DOMAIN extraction.before,
         disk' = Extract!With(disk, Extract!OutputPath(x), Partial), store' = store,
         Extract!End(result, error_at)
  PROVE  ExtractionInv' /\ ExtractInv'
<1> DEFINE d == Extract!With(disk, Extract!OutputPath(x), Partial)
<1>1. /\ OnlyPuts(extraction.before, d, store, extraction.output_dir, Extract!Asked)
      /\ ~extraction.overwrite_files => Keeps(extraction.before, d)
  BY PuttingAnItem
<1>2. disk' = d
  OBVIOUS
<1> HIDE DEF d
<1> QED
  BY <1>1, <1>2, EndKeepsExtractInv

\* An item that is there in whole is done.
LEMMA ItemKeepsInv ==
  ASSUME StoreOK(store), ExtractionInv, ExtractInv, extraction.stage = "extracting",
         NEW x \in extraction.todo, store[x.path] # Damaged,
         ~extraction.overwrite_files => Extract!OutputPath(x) \notin DOMAIN extraction.before,
         disk' = Extract!With(disk, Extract!OutputPath(x), store[x.path]), store' = store,
         extraction' = [extraction EXCEPT !.todo = Extract!Rest(@, x)]
  PROVE  ExtractionInv' /\ ExtractInv'
<1> DEFINE out == extraction.output_dir
           d   == Extract!With(disk, Extract!OutputPath(x), store[x.path])
<1>1. /\ OnlyPuts(extraction.before, d, store, out, Extract!Asked)
      /\ ~extraction.overwrite_files => Keeps(extraction.before, d)
  BY PuttingAnItem
<1>2. ~Extract!Idle /\ ExtractionShape /\ extraction.result = "none"
  BY RunningIsNotIdle DEF ExtractionInv
<1>3. /\ out \in {<<>>, <<Stem>>} \cup (OutputDirs \ {NoOutputDir})
      /\ extraction.todo \subseteq Selected
      /\ \A y \in Selected \ extraction.todo : IsExtracted(y, disk, store, out)
      /\ ~extraction.overwrite_files =>
           \A y \in Selected : store[y.path] # "directory" => out \o y.path \notin DOMAIN extraction.before
  BY <1>2 DEF ExtractInv
<1>4. /\ ExtractionShape' /\ SameExtraction
      /\ extraction'.stage = "extracting" /\ extraction'.result = "none"
      /\ extraction'.todo = extraction.todo \ {x}
  BY <1>2 DEF ExtractionShape, SameExtraction, Extract!Rest
<1>5. Selected' = Selected /\ Extract!Asked' = Extract!Asked
  BY <1>4, SameSelection
<1>6. \A y \in Selected : y.path \in Seq(Names)
  BY SelectedIsAsked
<1>7. d = Extract!With(disk, out \o x.path, store[x.path])
  BY DEF Extract!OutputPath
<1> HIDE DEF out
<1>8. ASSUME NEW y \in Selected \ (extraction.todo \ {x}) PROVE IsExtracted(y, d, store, out)
  <2>1. CASE y = x
    <3> DEFINE p == out \o x.path
    <3> HIDE DEF p
    <3>1. p \in DOMAIN Extract!With(disk, p, store[x.path]) /\ Extract!With(disk, p, store[x.path])[p] = store[x.path]
      BY DEF Extract!With
    <3> QED
      BY <1>7, <2>1, <3>1 DEF IsExtracted, p
  <2>2. CASE y # x
    <3>1. IsExtracted(y, disk, store, out) /\ x.path \in Seq(Names) /\ y.path \in Seq(Names)
      BY <1>3, <1>6, <1>8, <2>2
    <3>2. IsExtracted(y, Extract!With(disk, out \o x.path, store[x.path]), store, out)
      BY <1>3, <3>1, PuttingKeepsExtracted
    <3> QED
      BY <1>7, <3>2
  <2> QED
    BY <2>1, <2>2
<1>9. disk' = d
  OBVIOUS
<1> HIDE DEF d
<1>10. ExtractionInv'
  BY <1>4 DEF ExtractionInv
<1>11. ExtractInv'
  BY <1>1, <1>3, <1>4, <1>5, <1>8, <1>9 DEF ExtractInv, SameExtraction, out
<1> QED
  BY <1>10, <1>11

\* Where a file goes there was none, unless it may be replaced.
LEMMA FilePlaceIsNew ==
  ASSUME ExtractInv, extraction.stage = "extracting", NEW x \in extraction.todo, store[x.path] # "directory",
         ~extraction.overwrite_files
  PROVE  Extract!OutputPath(x) \notin DOMAIN extraction.before
BY RunningIsNotIdle DEF ExtractInv, Extract!OutputPath

\* What comes next is still to be done.
LEMMA NextIsToDo ==
  ASSUME NEW x \in Extract!UpNext
  PROVE  x \in extraction.todo
BY DEF Extract!UpNext

LEMMA ExtractDirKeepsInv ==
  ASSUME StoreOK(store), ExtractionInv, ExtractInv, Extract!ExtractDir
  PROVE  ExtractionInv' /\ ExtractInv'
<1>1. extraction.stage = "extracting" /\ store' = store
  BY DEF Extract!ExtractDir
<1>2. PICK x \in Extract!UpNext :
        /\ store[x.path] = "directory"
        /\ IF Extract!CanCreateDir(Extract!OutputPath(x))
           THEN /\ disk' = Extract!With(disk, Extract!OutputPath(x), "directory")
                /\ extraction' = [extraction EXCEPT !.todo = Extract!Rest(@, x)]
           ELSE Extract!End("failed", Extract!OutputPath(x)) /\ disk' = disk
  BY DEF Extract!ExtractDir
<1>3. x \in extraction.todo
  BY <1>2, NextIsToDo
<1>4. CASE Extract!CanCreateDir(Extract!OutputPath(x))
  <2>1. Extract!OutputPath(x) \notin DOMAIN disk
    BY <1>4 DEF Extract!CanCreateDir, Extract!ExistsIn
  <2>2. DOMAIN extraction.before \subseteq DOMAIN disk
    BY <1>1, RunningIsNotIdle DEF ExtractInv, OnlyPuts
  <2>3. store[x.path] # Damaged
    BY <1>2, OutsideAssumption
  <2> QED
    BY <1>1, <1>2, <1>3, <1>4, <2>1, <2>2, <2>3, ItemKeepsInv
<1>5. CASE ~Extract!CanCreateDir(Extract!OutputPath(x))
  <2>1. Extract!End("failed", Extract!OutputPath(x)) /\ disk' = disk
    BY <1>2, <1>5
  <2> QED
    BY <1>1, <2>1, EndAsIsKeepsExtractInv
<1> QED
  BY <1>4, <1>5

LEMMA ExtractFileKeepsInv ==
  ASSUME StoreOK(store), ExtractionInv, ExtractInv, Extract!ExtractFile
  PROVE  ExtractionInv' /\ ExtractInv'
<1>1. extraction.stage = "extracting" /\ store' = store
  BY DEF Extract!ExtractFile
<1>2. PICK x \in Extract!UpNext :
        /\ store[x.path] # "directory"
        /\ \/ Extract!End("failed", Extract!OutputPath(x)) /\ disk' = disk
           \/ /\ disk' = Extract!With(disk, Extract!OutputPath(x), Partial)
              /\ Extract!End("failed", Extract!OutputPath(x))
           \/ /\ Extract!Verified(x)
              /\ disk' = Extract!With(disk, Extract!OutputPath(x), store[x.path])
              /\ extraction' = [extraction EXCEPT !.todo = Extract!Rest(@, x)]
  BY DEF Extract!ExtractFile
<1>3. x \in extraction.todo
  BY <1>2, NextIsToDo
<1>4. ~extraction.overwrite_files => Extract!OutputPath(x) \notin DOMAIN extraction.before
  BY <1>1, <1>2, <1>3, FilePlaceIsNew
<1>5. CASE Extract!End("failed", Extract!OutputPath(x)) /\ disk' = disk
  BY <1>1, <1>5, EndAsIsKeepsExtractInv
<1>6. CASE /\ disk' = Extract!With(disk, Extract!OutputPath(x), Partial)
           /\ Extract!End("failed", Extract!OutputPath(x))
  BY <1>1, <1>3, <1>4, <1>6, PartKeepsInv
<1>7. CASE /\ Extract!Verified(x)
           /\ disk' = Extract!With(disk, Extract!OutputPath(x), store[x.path])
           /\ extraction' = [extraction EXCEPT !.todo = Extract!Rest(@, x)]
  <2>1. store[x.path] # Damaged
    BY <1>7 DEF Extract!Verified, Extract!Damaged, Damaged
  <2> QED
    BY <1>1, <1>3, <1>4, <1>7, <2>1, ItemKeepsInv
<1> QED
  BY <1>2, <1>5, <1>6, <1>7

LEMMA InterruptedKeepsExtractInv ==
  ASSUME StoreOK(store), ExtractionInv, ExtractInv, Extract!Interrupted
  PROVE  ExtractionInv' /\ ExtractInv'
<1>1. extraction.stage # "ended" /\ store' = store /\ Extract!End("interrupted", <<>>)
  BY DEF Extract!Interrupted
<1>2. CASE disk' = disk
  BY <1>1, <1>2, EndAsIsKeepsExtractInv
<1>3. ASSUME NEW x \in Extract!UpNext, store[x.path] # "directory",
             disk' = Extract!With(disk, Extract!OutputPath(x), Partial)
      PROVE  ExtractionInv' /\ ExtractInv'
  <2>1. x \in extraction.todo
    BY <1>3, NextIsToDo
  <2>2. extraction.stage = "extracting"
    BY <1>1, <2>1 DEF ExtractionInv
  <2>3. ~extraction.overwrite_files => Extract!OutputPath(x) \notin DOMAIN extraction.before
    BY <1>3, <2>1, <2>2, FilePlaceIsNew
  <2> QED
    BY <1>1, <1>3, <2>1, <2>2, <2>3, PartKeepsInv
<1> QED
  BY <1>2, <1>3 DEF Extract!Interrupted

\* No command is under way.
LEMMA IdleHasExtractInv ==
  ASSUME extraction = Extract!NoCommand
  PROVE  ExtractionInv /\ ExtractInv
BY DEF Extract!NoCommand, Extract!Idle, ExtractionInv, ExtractionShape, ExtractInv

\* Every step of extract.
LEMMA ExtractInvNext ==
  ASSUME StoreOK(store), ExtractionInv, ExtractInv, Extract!Next
  PROVE  ExtractionInv' /\ ExtractInv'
<1>1. ASSUME NEW to \in OutputDirs, NEW items \in ItemLists,
             NEW merge_dirs \in BOOLEAN, NEW overwrite_files \in BOOLEAN,
             Extract!BeginExtract(to, items, merge_dirs, overwrite_files)
      PROVE  ExtractionInv' /\ ExtractInv'
  BY <1>1, BeginExtractKeepsInv
<1>2. CASE Extract!NotFound
  BY <1>2, EndAsIsKeepsExtractInv DEF Extract!NotFound, Extract!LookingUp
<1>3. CASE Extract!Refused
  BY <1>3, EndAsIsKeepsExtractInv DEF Extract!Refused, Extract!LookingUp
<1>4. CASE Extract!Prepare
  BY <1>4, PrepareKeepsInv
<1>5. CASE Extract!ExtractDir
  BY <1>5, ExtractDirKeepsInv
<1>6. CASE Extract!ExtractFile
  BY <1>6, ExtractFileKeepsInv
<1>7. CASE Extract!Extracted
  BY <1>7, EndAsIsKeepsExtractInv DEF Extract!Extracted
<1>8. CASE Extract!Interrupted
  BY <1>8, InterruptedKeepsExtractInv
<1>9. CASE Extract!NextCommand
  <2>1. extraction' = Extract!NoCommand
    BY <1>9 DEF Extract!NextCommand
  <2> QED
    BY <2>1 DEF Extract!NoCommand, Extract!Idle, ExtractionInv, ExtractionShape, ExtractInv
<1> QED
  BY <1>1, <1>2, <1>3, <1>4, <1>5, <1>6, <1>7, <1>8, <1>9 DEF Extract!Next, Extract!Step

\* extract changes neither the archive nor the command that changes it.
LEMMA ExtractKeepsStore == Extract!Next => store' = store
BY DEF Extract!Next, Extract!Step, Extract!BeginExtract, Extract!NotFound, Extract!Refused, Extract!Prepare,
       Extract!ExtractDir, Extract!ExtractFile, Extract!Extracted, Extract!Interrupted, Extract!NextCommand

-----------------------------------------------------------------------------
(* The commands together. *)

LEMMA ToolInvInit == ToolInit => ToolInv
<1> SUFFICES ASSUME ToolInit PROVE ToolInv
  OBVIOUS
<1>1. EditInv
  BY EditInvInit DEF ToolInit
<1>2. ExtractionInv /\ ExtractInv
  BY IdleHasExtractInv DEF ToolInit
<1> QED
  BY <1>1, <1>2 DEF ToolInv

LEMMA ToolInvNext == ToolInv /\ [ToolNext]_tool_vars => ToolInv'
<1> SUFFICES ASSUME ToolInv, [ToolNext]_tool_vars PROVE ToolInv'
  OBVIOUS
<1>1. EditInv /\ ExtractionInv /\ ExtractInv /\ StoreOK(store)
  BY DEF ToolInv, EditInv, StoreInv
<1>2. CASE Edit
  <2>1. EditInv'
    BY <1>1, <1>2, EditInvNext DEF Edit
  <2>2. extraction = Extract!NoCommand /\ extraction' = extraction
    BY <1>2 DEF Edit, extract_vars, Extract!Idle
  <2>3. ExtractionInv' /\ ExtractInv'
    BY <2>2 DEF Extract!NoCommand, Extract!Idle, ExtractionInv, ExtractionShape, ExtractInv
  <2> QED
    BY <2>1, <2>3 DEF ToolInv
<1>3. CASE ChangeDisk
  <2>1. vars' = vars /\ extraction = Extract!NoCommand /\ extraction' = extraction
    BY <1>3 DEF ChangeDisk, Extract!Idle
  <2>2. EditInv'
    BY <1>1, <2>1, EditInvNext
  <2>3. ExtractionInv' /\ ExtractInv'
    BY <2>1 DEF Extract!NoCommand, Extract!Idle, ExtractionInv, ExtractionShape, ExtractInv
  <2> QED
    BY <2>2, <2>3 DEF ToolInv
<1>4. CASE Extract!Next /\ command' = command
  <2>1. vars' = vars
    BY <1>4, ExtractKeepsStore DEF vars
  <2>2. EditInv'
    BY <1>1, <2>1, EditInvNext
  <2>3. ExtractionInv' /\ ExtractInv'
    BY <1>1, <1>4, ExtractInvNext
  <2> QED
    BY <2>2, <2>3 DEF ToolInv
<1>5. CASE tool_vars' = tool_vars
  <2>1. vars' = vars /\ extraction' = extraction /\ disk' = disk /\ store' = store
    BY <1>5 DEF tool_vars, extract_vars, vars
  <2>2. EditInv'
    BY <1>1, <2>1, EditInvNext
  <2>3. SameExtraction
    BY <2>1 DEF SameExtraction
  <2>4. Selected' = Selected /\ Extract!Asked' = Extract!Asked
    BY <2>1, <2>3, SameSelection
  <2>5. ExtractionInv'
    BY <1>1, <2>1 DEF ExtractionInv, ExtractionShape
  <2>6. ExtractInv'
    BY <1>1, <2>1, <2>4 DEF ExtractInv, Extract!Idle
  <2> QED
    BY <2>2, <2>5, <2>6 DEF ToolInv
<1> QED
  BY <1>2, <1>3, <1>4, <1>5 DEF ToolNext

\* The invariant of the commands.
THEOREM ToolInvariant == ToolSpec => []ToolInv
<1>1. ToolInit => ToolInv
  BY ToolInvInit
<1>2. ToolInv /\ [ToolNext]_tool_vars => ToolInv'
  BY ToolInvNext
<1> QED
  BY <1>1, <1>2, PTL DEF ToolSpec

-----------------------------------------------------------------------------
(* What the invariant says of extract. *)

LEMMA InvSaysOnlyBelowOutputDir == ToolInv => OnlyBelowOutputDir
<1> SUFFICES ASSUME ToolInv, ~Extract!Idle, NEW p \in Extract!Changed
             PROVE  /\ p \in DOMAIN disk
                    /\ \/ p = extraction.output_dir /\ disk[p] = "directory"
                       \/ \E q \in Extract!Asked : p = extraction.output_dir \o q /\ disk[p] \in {store[q], Partial}
  BY DEF OnlyBelowOutputDir, Extract!OnlyBelowOutputDir
<1>1. OnlyPuts(extraction.before, disk, store, extraction.output_dir, Extract!Asked)
  BY DEF ToolInv, ExtractInv
<1>2. p \in DOMAIN disk /\ ~(p \in DOMAIN extraction.before /\ disk[p] = extraction.before[p])
  BY <1>1 DEF Extract!Changed, OnlyPuts
<1> QED
  BY <1>1, <1>2 DEF OnlyPuts

LEMMA InvSaysDoneMeansExtracted == ToolInv => DoneMeansExtracted
<1> SUFFICES ASSUME ToolInv, extraction.result = "ok", NEW q \in Extract!Asked
             PROVE  /\ extraction.output_dir \o q \in DOMAIN disk
                    /\ disk[extraction.output_dir \o q] = store[q]
                    /\ disk[extraction.output_dir \o q] \notin {Damaged, Partial}
  BY DEF DoneMeansExtracted, Extract!DoneMeansExtracted, Extract!Damaged, Damaged
<1>1. /\ StoreOK(store) /\ \A r \in DOMAIN store : store[r] \in Contents
      /\ ExtractionInv /\ ExtractInv
  BY DEF ToolInv, EditInv, StoreInv
<1>2. ~Extract!Idle
  BY DEF Extract!Idle, Extract!NoCommand
<1>3. extraction.todo = {}
  BY <1>1 DEF ExtractionInv
<1>4. \A x \in Selected : IsExtracted(x, disk, store, extraction.output_dir)
  BY <1>1, <1>2, <1>3 DEF ExtractInv
<1>5. PICK x \in Selected : x.path = q /\ q \in DOMAIN store
  BY <1>1, SelectedIsAsked
<1>6. store[q] # Partial
  BY <1>1, <1>5, ExtractAssumption DEF Contents
<1> QED
  BY <1>4, <1>5, <1>6 DEF IsExtracted

LEMMA InvSaysNoFileIsLost == ToolInv => NoFileIsLost
<1> SUFFICES ASSUME ToolInv PROVE OldFilesAreKept /\ Extract!OldFilesAreKept
  BY DEF NoFileIsLost
<1>1. OldFilesAreKept
  BY InvSaysOldFilesAreKept DEF ToolInv
<1>2. Extract!OldFilesAreKept
  BY DEF ToolInv, ExtractInv, Keeps, Extract!OldFilesAreKept
<1> QED
  BY <1>1, <1>2

-----------------------------------------------------------------------------
(***************************************************************************)
(* Whatever the user's files, the arguments and the point where it is cut  *)
(* off: add has added only wanted items and directories above them, or     *)
(* replaced files by wanted ones; delete has removed only what is at or    *)
(* below its paths; a refused command has changed nothing (main.rs, the    *)
(* arms of Action::Add and Action::Delete).                                *)
(***************************************************************************)
THEOREM AlwaysOnlyWhatWasAsked == ToolSpec => []OnlyWhatWasAsked
<1>1. ToolInv => OnlyWhatWasAsked
  BY InvSaysOnlyWhatWasAsked DEF ToolInv
<1> QED
  BY <1>1, ToolInvariant, PTL

(***************************************************************************)
(* An add or delete that reports success has left nothing undone, and      *)
(* delete never fails over paths that overlap or are given twice           *)
(* (main.rs).                                                              *)
(***************************************************************************)
THEOREM AlwaysDoneMeansDone == ToolSpec => []DoneMeansDone
<1>1. ToolInv => DoneMeansDone
  BY InvSaysDoneMeansDone DEF ToolInv
<1> QED
  BY <1>1, ToolInvariant, PTL

(***************************************************************************)
(* Without --overwrite-files, neither add nor extract touches a file that  *)
(* was there before, be it interrupted or not: the checks that main.rs     *)
(* makes before it writes anything are enough for all that it writes       *)
(* after.                                                                  *)
(***************************************************************************)
THEOREM AlwaysNoFileIsLost == ToolSpec => []NoFileIsLost
<1>1. ToolInv => NoFileIsLost
  BY InvSaysNoFileIsLost
<1> QED
  BY <1>1, ToolInvariant, PTL

(***************************************************************************)
(* Whatever archive and disk it meets, and wherever it is cut off, extract *)
(* (main.rs, Action::Extract) has created its output directory and, below  *)
(* it, items that were asked for, and changed nothing else.                *)
(***************************************************************************)
THEOREM AlwaysOnlyBelowOutputDir == ToolSpec => []OnlyBelowOutputDir
<1>1. ToolInv => OnlyBelowOutputDir
  BY InvSaysOnlyBelowOutputDir
<1> QED
  BY <1>1, ToolInvariant, PTL

(***************************************************************************)
(* An extract that reports success has put all that was asked for on the   *)
(* disk, whole, and no damaged item among it (main.rs, Action::Extract).   *)
(***************************************************************************)
THEOREM AlwaysDoneMeansExtracted == ToolSpec => []DoneMeansExtracted
<1>1. ToolInv => DoneMeansExtracted
  BY InvSaysDoneMeansExtracted
<1> QED
  BY <1>1, ToolInvariant, PTL
=============================================================================
