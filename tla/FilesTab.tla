------------------------------ MODULE FilesTab ------------------------------
(***************************************************************************)
(* The file manager of an instance (components/FileManager): it lists a    *)
(* folder, edits a file as a whole, and deletes a file or a folder.        *)
(***************************************************************************)
EXTENDS Naturals

CONSTANTS Names,            \* names of files; every folder may have each
          MaxFilesAsks      \* bound: what the administrator asks for

FilesAssumption == MaxFilesAsks \in Nat

VARIABLES
    disk,    \* the files of the instance and the text in each
    fm,      \* folder and names listed, the editor, the deletion to confirm;
             \* and the items that have been deleted
    fmReqs   \* requests under way

filesVars == <<disk, fm, fmReqs>>

\* One folder inside the root stands for the tree.
Folders == {"root", "sub"}
Items == Folders \X Names
NoItem == <<"none", "none">>
Empty == NoItem

FilesInit ==
    /\ disk = [i \in Items |-> i]
    /\ fm = [path |-> "root", listed |-> "root", names |-> {}, loading |-> TRUE,
             editing |-> NoItem, text |-> Empty, gone |-> {}, saving |-> FALSE,
             doomed |-> [open |-> FALSE, item |-> NoItem, listed |-> "root"], deleting |-> FALSE, asks |-> 0]
    /\ fmReqs = [lists |-> {<<0, "root">>}, reads |-> {}, saves |-> {}, deletes |-> {}]

FilesTypeOK ==
    /\ DOMAIN disk \subseteq Items
    /\ fm.path \in Folders /\ fm.listed \in Folders /\ fm.names \subseteq Names
    /\ {fm.editing, fm.text, fm.doomed.item} \subseteq Items \cup {NoItem} /\ fm.gone \subseteq Items
    /\ {fm.loading, fm.saving, fm.deleting, fm.doomed.open} \subseteq BOOLEAN
    /\ fmReqs.reads \subseteq (1..MaxFilesAsks) \X Items

-----------------------------------------------------------------------------
(* loadFiles *)

InFolder(d) == {n \in Names : <<d, n>> \in DOMAIN disk}

Listing(f, id, d) == fmReqs' = [f EXCEPT !.lists = @ \cup {<<id, d>>}]

\* Folder, names and path are of one answer.
Listed(l) ==
    /\ l \in fmReqs.lists /\ fmReqs' = [fmReqs EXCEPT !.lists = @ \ {l}]
    /\ fm' \in {[fm EXCEPT !.loading = FALSE, !.path = l[2], !.listed = l[2], !.names = InFolder(l[2])],
                [fm EXCEPT !.loading = FALSE]}
    /\ UNCHANGED disk

Asked(f) == fm.asks < MaxFilesAsks /\ fm' = [f EXCEPT !.asks = @ + 1]
Page == fm.editing = NoItem /\ ~fm.doomed.open
List == Page /\ ~fm.loading

\* Faulty: the path changes with the click.
GoAtOnce(d) ==
    /\ Page /\ (d = "sub" => List) /\ Asked([fm EXCEPT !.loading = TRUE, !.path = d])
    /\ Listing(fmReqs, fm.asks + 1, d) /\ UNCHANGED disk

\* Into the folder of the list, or by the breadcrumbs, which are always there.
Go(d) ==
    /\ Page /\ (d = "sub" => List) /\ Asked([fm EXCEPT !.loading = TRUE])
    /\ Listing(fmReqs, fm.asks + 1, d) /\ UNCHANGED disk

-----------------------------------------------------------------------------
(* handleEdit, handleSaveFile *)

\* Faulty: the editor opens with the click.
EditAtOnce(n) ==
    /\ List /\ n \in fm.names /\ Asked([fm EXCEPT !.loading = TRUE, !.editing = <<fm.path, n>>])
    /\ fmReqs' = [fmReqs EXCEPT !.reads = @ \cup {<<fm.asks + 1, <<fm.path, n>>>>}] /\ UNCHANGED disk

Edit(n) ==
    /\ List /\ n \in fm.names /\ Asked([fm EXCEPT !.loading = TRUE])
    /\ fmReqs' = [fmReqs EXCEPT !.reads = @ \cup {<<fm.asks + 1, <<fm.path, n>>>>}] /\ UNCHANGED disk

\* What the manager answers: of a file that is gone, an empty text.
Text(i) == IF i \in DOMAIN disk THEN disk[i] ELSE Empty

\* The text, or none, whatever was clicked since.
Opened(r) ==
    /\ r \in fmReqs.reads /\ fmReqs' = [fmReqs EXCEPT !.reads = @ \ {r}]
    /\ \/ fm' = [fm EXCEPT !.loading = FALSE, !.editing = r[2], !.text = Text(r[2])]
       \/ fm' = [fm EXCEPT !.loading = FALSE]
    /\ UNCHANGED disk

CloseEditor ==
    /\ fm.editing # NoItem /\ fm' = [fm EXCEPT !.editing = NoItem] /\ UNCHANGED <<disk, fmReqs>>

SaveFile ==
    /\ fm.editing # NoItem /\ ~fm.saving /\ Asked([fm EXCEPT !.saving = TRUE])
    /\ fmReqs' = [fmReqs EXCEPT !.saves = {[item |-> fm.editing, text |-> fm.text, path |-> fm.path, id |-> fm.asks + 1]}]
    /\ UNCHANGED disk

\* A file that is gone comes back.
Overwritten(s) == [i \in DOMAIN disk \cup {s.item} |-> IF i = s.item THEN s.text ELSE disk[i]]

\* Closes the editor, of whatever file by now, and lists the folder again.
Saved(s) ==
    /\ s \in fmReqs.saves
    /\ disk' = Overwritten(s)
    /\ fm' = [fm EXCEPT !.editing = NoItem, !.saving = FALSE, !.loading = TRUE]
    /\ Listing([fmReqs EXCEPT !.saves = {}], s.id, s.path)

SaveFailed(s) ==
    /\ s \in fmReqs.saves
    /\ disk' \in {disk, Overwritten(s)}
    /\ fm' = [fm EXCEPT !.saving = FALSE] /\ fmReqs' = [fmReqs EXCEPT !.saves = {}]

-----------------------------------------------------------------------------
(* handleConfirmDelete *)

OpenDelete(n) ==
    /\ List /\ n \in fm.names
    /\ fm' = [fm EXCEPT !.doomed = [open |-> TRUE, item |-> <<fm.path, n>>, listed |-> fm.listed]]
    /\ UNCHANGED <<disk, fmReqs>>

CloseDelete ==
    /\ fm.doomed.open /\ ~fm.deleting /\ fm' = [fm EXCEPT !.doomed.open = FALSE]
    /\ UNCHANGED <<disk, fmReqs>>

ConfirmDelete ==
    /\ fm.doomed.open /\ ~fm.deleting /\ Asked([fm EXCEPT !.deleting = TRUE])
    /\ fmReqs' = [fmReqs EXCEPT !.deletes = {<<fm.asks + 1, fm.doomed.item, fm.path>>}] /\ UNCHANGED disk

Without(item) == [i \in DOMAIN disk \ {item} |-> disk[i]]

Deleted(d) ==
    /\ d \in fmReqs.deletes /\ disk' = Without(d[2])
    /\ fm' = [fm EXCEPT !.deleting = FALSE, !.doomed.open = FALSE, !.loading = TRUE, !.gone = @ \cup {d[2]}]
    /\ Listing([fmReqs EXCEPT !.deletes = {}], d[1], d[3])

DeleteFailed(d) ==
    /\ d \in fmReqs.deletes /\ fmReqs' = [fmReqs EXCEPT !.deletes = {}]
    /\ \/ UNCHANGED disk /\ fm' = [fm EXCEPT !.deleting = FALSE]
       \/ disk' = Without(d[2]) /\ fm' = [fm EXCEPT !.deleting = FALSE, !.gone = @ \cup {d[2]}]

-----------------------------------------------------------------------------
FilesSystem ==
    \/ \E l \in fmReqs.lists : Listed(l)
    \/ \E r \in fmReqs.reads : Opened(r)
    \/ \E s \in fmReqs.saves : Saved(s) \/ SaveFailed(s)
    \/ \E d \in fmReqs.deletes : Deleted(d) \/ DeleteFailed(d)

FilesNext ==
    \/ FilesSystem \/ CloseEditor \/ SaveFile \/ CloseDelete \/ ConfirmDelete
    \/ \E d \in Folders : Go(d)
    \/ \E n \in Names : Edit(n) \/ OpenDelete(n)

FilesSpec == FilesInit /\ [][FilesNext]_filesVars

-----------------------------------------------------------------------------
(* No file ever holds the text of another: the editor's text and file change *)
(* together, whatever was asked for and in whatever order it is answered.    *)
(* A file loses its text only when it was deleted before: the editor opens   *)
(* one that is gone as empty, and saving that brings it back.                *)
TextKept == \A i \in DOMAIN disk : disk[i] = i \/ (disk[i] = Empty /\ i \in fm.gone)

(* What is deleted is the item of the folder that is listed, also when loads *)
(* failed or were answered out of order.                                     *)
DeletesListed == fm.doomed.open => fm.doomed.item[1] = fm.doomed.listed

=============================================================================
