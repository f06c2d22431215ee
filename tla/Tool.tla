-------------------------------- MODULE Tool --------------------------------
(***************************************************************************)
(* The commands of baf that do more than show (crate-bin/src/main.rs), one *)
(* after the other on one archive: add and delete change it (ToolEdit),    *)
(* extract copies from it whatever they have left there (ToolExtract), cut *)
(* off and damaged or not, to a disk where anything may be in the way.     *)
(***************************************************************************)
EXTENDS ToolEdit

CONSTANTS
  Disks,         \* what the user may have there: path -> "directory" or a content
  Partial,       \* a content that was not copied to its end
  Stem,          \* the archive's own name, without its extension
  NoOutputDir,   \* no --to
  OutputDirs,    \* the paths given with --to, or NoOutputDir
  ItemLists,     \* the lists of paths given with --items
  MaxCommands,   \* bound: commands after the last that changes the archive
  MaxItems       \* bound: items of an archive that is extracted

ASSUME ExtractAssumption ==
  /\ Partial \notin {Outside[q] : q \in DOMAIN Outside} \cup {"directory", Damaged}
  /\ \A to \in OutputDirs \ {NoOutputDir} : to \in Seq(Range(to))

VARIABLES
  disk,        \* the user's files where extract is run
  extraction,  \* the extract that runs: arguments, what it has to do, how it ended
  commands     \* how many there have been since the archive was changed

extract_vars == <<disk, extraction, commands>>
tool_vars    == <<vars, extract_vars>>

Extract == INSTANCE ToolExtract WITH command <- extraction

ToolInit ==
  /\ Init
  /\ disk = <<>> /\ extraction = Extract!NoCommand /\ commands = 0

Edit ==
  /\ Extract!Idle /\ commands = 0
  /\ Next
  /\ UNCHANGED extract_vars

\* The user goes to a place with other files, or puts them there.
ChangeDisk ==
  /\ Idle /\ Extract!Idle /\ commands = 0
  /\ Cardinality(DOMAIN store) <= MaxItems
  /\ commands' = 1
  /\ disk' \in Disks
  /\ UNCHANGED <<vars, extraction>>

ToolNext ==
  \/ Edit
  \/ ChangeDisk
  \/ Idle /\ commands > 0 /\ Extract!Next /\ UNCHANGED command

\* A command that runs goes on until it ends.
ToolSpec == ToolInit /\ [][ToolNext]_tool_vars /\ WF_vars(Step) /\ WF_extract_vars(Extract!Step)

-----------------------------------------------------------------------------
(***************************************************************************)
(* What ToolExtract says of extract, of archives that add and delete left: *)
(* nothing changes but what was asked for below the output directory, and  *)
(* a success is no damaged, partial or missing item.                       *)
(***************************************************************************)
OnlyBelowOutputDir == Extract!OnlyBelowOutputDir
DoneMeansExtracted == Extract!DoneMeansExtracted

(***************************************************************************)
(* Without --overwrite-files no file is touched that was there before: of  *)
(* the archive by add, of the user by extract, be they interrupted or not. *)
(***************************************************************************)
NoFileIsLost == OldFilesAreKept /\ Extract!OldFilesAreKept

(***************************************************************************)
(* Every command ends (under the fairness of its own loops).               *)
(***************************************************************************)
EveryCommandEnds == CommandsEnd /\ Extract!CommandsEnd
=============================================================================
