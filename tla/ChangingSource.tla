--------------------------- MODULE ChangingSource ---------------------------
(***************************************************************************)
(* Archive takes its contents from callers' readers, a file being written  *)
(* to among them.  Their length is asked for twice: by the operation, which *)
(* records it, and by write_data_where_possible, which places and writes   *)
(* what it finds.  Here the two answers may differ.                        *)
(***************************************************************************)
EXTENDS Archive

\* The lengths the reader may have had before.
Lens == {ContentLen[c] : c \in Contents}

CreateFileAsItChanges(parent_dir, name, content, content_len) ==
  LET file   == [NewFile(parent_dir, name, content) EXCEPT !.content_len = content_len]
      listed == [dirs_content[parent_dir] EXCEPT !.names = @ \cup {name},
                                                 !.files = @ \cup {next_id}]
  IN  /\ NameIsFree(parent_dir, name)
      /\ SourceLenWith(content) <= MaxSourceLen
      /\ TakeId
      /\ file_segments' = PutFile(FileRoom.file_segments, NewFileSlot, file)
      /\ files' = Extend(files, next_id, file)
      /\ dirs_content' = [dirs_content EXCEPT ![parent_dir] = listed]
      /\ coverage' = CoverageWith(content)
      /\ source_len' = SourceLenWith(content)
      /\ UNCHANGED dirs

ReplaceFileContentAsItChanges(id, content, content_len) ==
  /\ id \in DOMAIN files
  /\ RewriteContent(id, content)
  /\ files' = [files EXCEPT ![id] = [ReplacedFile(id, content) EXCEPT !.content_len = content_len]]
  /\ file_segments' = PutFile(file_segments, SlotOfFile(file_segments, id), files'[id])
  /\ UNCHANGED <<dirs, dirs_content, next_id>>

ContentChanges ==
  \E c \in Contents, len \in Lens :
    \/ \E p \in DOMAIN dirs_content, n \in Names : CreateFileAsItChanges(p, n, c, len)
    \/ \E id \in DOMAIN files : ReplaceFileContentAsItChanges(id, c, len)

SpecWithChangingContents == Init /\ [][Next \/ ContentChanges]_vars
=============================================================================
