----------------------------- MODULE PathStore ------------------------------
(***************************************************************************)
(* An archive as someone who only knows paths sees it: a map from paths to *)
(* contents and directories, closed under taking the parent.  IDs are not  *)
(* part of it, so which ones are given out, or given out again, must not   *)
(* be visible here.                                                        *)
(***************************************************************************)
EXTENDS SequencesExt

CONSTANTS Names, Contents

Directory == "directory"
Damaged   == "damaged"

VARIABLE store   \* path -> Directory, a content, or Damaged

Init == store = <<>>

IsDirectory(p) == p = <<>> \/ (p \in DOMAIN store /\ store[p] = Directory)

Under(p) == {q \in DOMAIN store : IsPrefix(p, q)}

Kept(paths) == [q \in paths |-> store[q]]

Put(p, value) ==
  /\ p \notin DOMAIN store
  /\ IsDirectory(Front(p))
  /\ store' = [q \in DOMAIN store \cup {p} |-> IF q = p THEN value ELSE store[q]]

Overwrite(p, content) ==
  /\ store[p] # Directory
  /\ store' = [store EXCEPT ![p] = content]

\* Everything below a renamed directory moves with it.
Rename(p, name) ==
  LET moved(q) == IF IsPrefix(p, q)
                  THEN Front(p) \o <<name>> \o SubSeq(q, Len(p) + 1, Len(q))
                  ELSE q
  IN /\ Append(Front(p), name) \notin DOMAIN store
     /\ store' = [m \in {moved(q) : q \in DOMAIN store} |->
                    store[CHOOSE q \in DOMAIN store : moved(q) = m]]

Delete(p) == store' = Kept(DOMAIN store \ Under(p))

DeletePart(p) ==
  /\ store[p] = Directory
  /\ \E gone \in SUBSET (Under(p) \ {p}) :
       /\ \A q \in gone : Under(q) \subseteq gone
       /\ store' = Kept(DOMAIN store \ gone)

Next ==
  \/ \E p \in DOMAIN store \cup {<<>>}, name \in Names,
        value \in Contents \cup {Directory} : Put(Append(p, name), value)
  \/ \E p \in DOMAIN store, content \in Contents \cup {Damaged} : Overwrite(p, content)
  \/ \E p \in DOMAIN store, name \in Names : Rename(p, name)
  \/ \E p \in DOMAIN store : Delete(p) \/ DeletePart(p)

Spec == Init /\ [][Next]_store
=============================================================================
