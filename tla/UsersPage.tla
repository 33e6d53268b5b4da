----------------------------- MODULE UsersPage ------------------------------
(***************************************************************************)
(* User management (pages/Users): the list, the dialogs that create, edit, *)
(* assign, delete, and the one that makes a new API key, which is shown    *)
(* once.  Every dialog can be closed while its request is under way, and   *)
(* the next one opened before the answer arrives.                          *)
(***************************************************************************)
EXTENDS Naturals, FiniteSets

CONSTANTS Users, Nobody,
          MaxUserReqs    \* bound: requests under way at a time

UsersAssumption == Nobody \notin Users /\ MaxUserReqs \in Nat

VARIABLES
    accounts,   \* the users there are
    usersUi,    \* state of the page
    userReqs    \* requests under way, with what their handlers captured

usersVars == <<accounts, usersUi, userReqs>>

Closed == [uuid |-> Nobody, of |-> Nobody, phase |-> "ask"]

UsersInit ==
    /\ accounts = Users
    /\ usersUi = [listed |-> {}, loading |-> TRUE, dialog |-> "none",
                  target |-> Nobody,    \* editUuid, assignTargetUuid or deleteDialog.uuid
                  meant |-> Nobody,     \* the user whose button opened the dialog
                  key |-> Closed,       \* keyDialog
                  left |-> FALSE]       \* a key dialog was closed while its key was made
    /\ userReqs = {[op |-> "list", uuid |-> Nobody, meant |-> Nobody]}

UsersTypeOK ==
    /\ accounts \subseteq Users /\ usersUi.listed \subseteq Users
    /\ usersUi.dialog \in {"none", "add", "edit", "assign", "delete", "key"}
    /\ {usersUi.target, usersUi.meant, usersUi.key.uuid, usersUi.key.of} \subseteq Users \cup {Nobody}
    /\ usersUi.key.phase \in {"ask", "loading", "shown", "failed"}
    /\ \A r \in userReqs : r.op \in {"list", "add", "edit", "assign", "delete", "key"}

-----------------------------------------------------------------------------

Sent(op, uuid, meant) == [op |-> op, uuid |-> uuid, meant |-> meant]

ListSent == Sent("list", Nobody, Nobody)

CanSend == Cardinality(userReqs) < MaxUserReqs

\* The buttons of a card.
Card(u) == usersUi.dialog = "none" /\ u \in usersUi.listed /\ ~usersUi.loading

\* Also the refresh button; loading does not keep it from being pressed again.
FetchUsers ==
    /\ usersUi.dialog = "none" /\ CanSend
    /\ usersUi' = [usersUi EXCEPT !.loading = TRUE] /\ userReqs' = userReqs \cup {ListSent}
    /\ UNCHANGED accounts

\* One answer ends the loading of all requests for the list.
Fetched ==
    /\ ListSent \in userReqs /\ userReqs' = userReqs \ {ListSent}
    /\ usersUi' \in {[usersUi EXCEPT !.loading = FALSE, !.listed = accounts],
                     [usersUi EXCEPT !.loading = FALSE]}
    /\ UNCHANGED accounts

-----------------------------------------------------------------------------
(* The dialogs of the form, the assignment and the deletion. *)

\* Faulty: the dialog for a new user keeps the id of the one edited before.
OpenAddKeepsId ==
    /\ usersUi.dialog = "none"
    /\ usersUi' = [usersUi EXCEPT !.dialog = "add", !.meant = Nobody]
    /\ UNCHANGED <<accounts, userReqs>>

OpenAdd ==
    /\ usersUi.dialog = "none"
    /\ usersUi' = [usersUi EXCEPT !.dialog = "add", !.target = Nobody, !.meant = Nobody]
    /\ UNCHANGED <<accounts, userReqs>>

OpenEdit(u) ==
    /\ Card(u)
    /\ usersUi' = [usersUi EXCEPT !.dialog = "edit", !.target = u, !.meant = u]
    /\ UNCHANGED <<accounts, userReqs>>

OpenAssign(u) ==
    /\ Card(u)
    /\ usersUi' = [usersUi EXCEPT !.dialog = "assign", !.target = u, !.meant = u]
    /\ UNCHANGED <<accounts, userReqs>>

OpenDelete(u) ==
    /\ Card(u)
    /\ usersUi' = [usersUi EXCEPT !.dialog = "delete", !.target = u, !.meant = u]
    /\ UNCHANGED <<accounts, userReqs>>

CloseForm ==
    /\ usersUi.dialog \in {"add", "edit", "assign", "delete"}
    /\ usersUi' = [usersUi EXCEPT !.dialog = "none"]
    /\ UNCHANGED <<accounts, userReqs>>

\* handleSaveUser edits if there is an id and creates otherwise; the dialog
\* stays, and with it the button.
SaveUser ==
    /\ usersUi.dialog \in {"add", "edit"} /\ CanSend
    /\ userReqs' = userReqs \cup
         {Sent(IF usersUi.target = Nobody THEN "add" ELSE "edit", usersUi.target, usersUi.meant)}
    /\ UNCHANGED <<accounts, usersUi>>

SaveInstances ==
    /\ usersUi.dialog = "assign" /\ CanSend
    /\ userReqs' = userReqs \cup {Sent("assign", usersUi.target, usersUi.meant)}
    /\ UNCHANGED <<accounts, usersUi>>

DeleteUser ==
    /\ usersUi.dialog = "delete" /\ CanSend
    /\ userReqs' = userReqs \cup {Sent("delete", usersUi.target, usersUi.meant)}
    /\ UNCHANGED <<accounts, usersUi>>

\* The answer closes the dialog of its kind, whoever it is open for by now,
\* and fetches the list.
Saved(r) ==
    /\ r \in userReqs /\ r.op \in {"add", "edit", "assign", "delete"}
    /\ \/ /\ accounts' = CASE r.op = "delete" -> accounts \ {r.uuid} [] r.op = "add" -> Users
                           [] OTHER -> accounts
          /\ usersUi' = [usersUi EXCEPT !.loading = TRUE,
               !.dialog = IF @ = r.op \/ {@, r.op} = {"add", "edit"} THEN "none" ELSE @]
          /\ userReqs' = (userReqs \ {r}) \cup {ListSent}
       \/ userReqs' = userReqs \ {r} /\ UNCHANGED <<accounts, usersUi>>

-----------------------------------------------------------------------------
(* The key dialog. *)

OpenKey(u) ==
    /\ Card(u)
    /\ usersUi' = [usersUi EXCEPT !.dialog = "key", !.key = [Closed EXCEPT !.uuid = u]]
    /\ UNCHANGED <<accounts, userReqs>>

CloseKey ==
    /\ usersUi.dialog = "key"
    /\ usersUi' = [usersUi EXCEPT !.dialog = "none", !.key = Closed,
                                  !.left = @ \/ usersUi.key.phase = "loading"]
    /\ UNCHANGED <<accounts, userReqs>>

\* Faulty: the dialog closes itself while the key is made.
RegenerateKeyCloses ==
    /\ usersUi.dialog = "key" /\ usersUi.key.phase \in {"ask", "failed"} /\ CanSend
    /\ usersUi' = [usersUi EXCEPT !.dialog = "none", !.key = Closed]
    /\ userReqs' = userReqs \cup {Sent("key", usersUi.key.uuid, usersUi.key.uuid)}
    /\ UNCHANGED accounts

RegenerateKey ==
    /\ usersUi.dialog = "key" /\ usersUi.key.phase \in {"ask", "failed"} /\ CanSend
    /\ usersUi' = [usersUi EXCEPT !.key.phase = "loading"]
    /\ userReqs' = userReqs \cup {Sent("key", usersUi.key.uuid, usersUi.key.uuid)}
    /\ UNCHANGED accounts

\* The answer goes into the dialog as it is by now.
Regenerated(r) ==
    /\ r \in userReqs /\ r.op = "key"
    /\ \/ /\ usersUi' = [usersUi EXCEPT !.key.phase = "shown", !.key.of = r.uuid, !.loading = TRUE]
          /\ userReqs' = (userReqs \ {r}) \cup {ListSent}
       \/ /\ usersUi' = [usersUi EXCEPT !.key.phase = IF @ = "shown" THEN @ ELSE "failed"]
          /\ userReqs' = userReqs \ {r}
    /\ UNCHANGED accounts

UsersSystem == Fetched \/ \E r \in userReqs : Saved(r) \/ Regenerated(r)

UsersNext ==
    \/ UsersSystem \/ FetchUsers \/ OpenAdd \/ CloseForm \/ SaveUser \/ SaveInstances \/ DeleteUser
    \/ CloseKey \/ RegenerateKey
    \/ \E u \in Users : OpenEdit(u) \/ OpenAssign(u) \/ OpenDelete(u) \/ OpenKey(u)

-----------------------------------------------------------------------------
(* What is saved is meant for the user whose button opened the dialog, and a *)
(* new user is never saved over an old one, in whatever order dialogs are    *)
(* opened, closed and saved.                                                 *)
SavedAsMeant == \A r \in userReqs : r.uuid = r.meant /\ (r.op = "add" <=> r.meant = Nobody /\ r.op # "list")

(* The key a dialog shows is the key of the user it names, unless an earlier *)
(* dialog was closed while its key was made: then its answer shows in the    *)
(* dialog of the next user.                                                  *)
KeyOfOwner ==
    ~usersUi.left /\ usersUi.dialog = "key" /\ usersUi.key.phase = "shown" => usersUi.key.of = usersUi.key.uuid

=============================================================================
