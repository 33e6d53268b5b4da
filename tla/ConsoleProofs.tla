---------------------------- MODULE ConsoleProofs ----------------------------
(***************************************************************************)
(* Proofs about the pages of the console: each page has an inductive       *)
(* invariant, that it opens with and that each of its steps keeps, and     *)
(* what the page promises follows from it.                                 *)
(***************************************************************************)
EXTENDS Console, FiniteSetTheorems, SequenceTheorems, WellFoundedInduction, TLAPS

-----------------------------------------------------------------------------
(* Dashboard: a batch that runs is of the node that was shown when its     *)
(* names were ticked, and the dialog that deletes is of a card.            *)

DashInv ==
    /\ list \subseteq DashCards
    /\ dash \in [node : DashNodes \cup {"all"}, query : SUBSET Names, ticking : BOOLEAN, selected : SUBSET Names,
                 busy : DashCards \cup {Dash!NoTarget}, dialog : {"none", "create", "delete"},
                 target : DashCards \cup {Dash!NoTarget}]
    /\ batch \in [todo : SUBSET Names, node : DashNodes \cup {"all"}, runs : BOOLEAN]
    /\ flights \subseteq [target : DashCards, act : {"act", "delete"}]
    /\ seen \in [from : DashNodes \cup {"all"}, stray : BOOLEAN]
    /\ dash.dialog = "delete" => dash.target \in DashCards
    /\ batch.runs => batch.node = seen.from
    /\ Dash!BatchHitsTicked /\ Dash!SelectionScoped

(* The page opens with its invariant.                                        *)
LEMMA DashInitial == ASSUME Dash!DashboardAssumption, Dash!Init PROVE DashInv
  BY DEF Dash!DashboardAssumption, Dash!Init, DashInv, Dash!Idle, Dash!BatchHitsTicked, Dash!SelectionScoped

(* Each step of the page, its answers included, keeps the invariant.         *)
LEMMA DashNextKept == ASSUME Dash!DashboardAssumption, DashInv, Dash!Next PROVE DashInv'
<1> USE DEF DashInv, Dash!DashboardAssumption, Dash!BatchHitsTicked, Dash!SelectionScoped
<1>1. Dash!Filtered \subseteq DashCards /\ {c[2] : c \in Dash!Filtered} \subseteq Names /\ \A c \in Dash!Filtered : c[2] \in Names
  BY DEF Dash!Filtered
<1>2. CASE Dash!ListChanges
  BY <1>2 DEF Dash!ListChanges
<1>3. CASE \E n \in DashNodes \cup {"all"} : Dash!SelectNode(n)
  BY <1>3 DEF Dash!SelectNode
<1>4. CASE \E q \in Queries : Dash!Search(q)
  BY <1>4 DEF Dash!Search
<1>5. CASE \E on \in BOOLEAN : Dash!SetTicking(on)
  BY <1>5 DEF Dash!SetTicking
<1>6. CASE Dash!SelectAll
  BY <1>1, <1>6 DEF Dash!SelectAll, Dash!Ticked, Dash!BatchBar
<1>7. CASE \E c \in list : Dash!BatchSelect(c)
  BY <1>1, <1>7 DEF Dash!BatchSelect, Dash!Ticked
<1>8. CASE Dash!BatchAction
  BY <1>8 DEF Dash!BatchAction
<1>9. CASE \E n \in Names : Dash!BatchRequest(n)
  BY <1>9 DEF Dash!BatchRequest
<1>10. CASE Dash!BatchDone
  BY <1>10 DEF Dash!BatchDone, Dash!Idle
<1>11. CASE \E c \in list : Dash!Act(c)
  BY <1>1, <1>11 DEF Dash!Act, Dash!CardButtons
<1>12. CASE \E c \in list : Dash!AskDelete(c)
  <2>1. PICK c \in DashCards : Dash!AskDelete(c)
    BY <1>12
  <2>3. dash'.target = c /\ dash'.dialog = "delete" /\ dash'.selected = dash.selected /\ dash'.ticking = dash.ticking
    BY <2>1 DEF Dash!AskDelete
  <2>4. dash' \in [node : DashNodes \cup {"all"}, query : SUBSET Names, ticking : BOOLEAN, selected : SUBSET Names,
                   busy : DashCards \cup {Dash!NoTarget}, dialog : {"none", "create", "delete"},
                   target : DashCards \cup {Dash!NoTarget}]
    BY <2>1 DEF Dash!AskDelete
  <2> QED
    BY <2>1, <2>3, <2>4 DEF Dash!AskDelete
<1>13. CASE \E f \in flights, ok \in BOOLEAN : Dash!Acted(f, ok)
  BY <1>13 DEF Dash!Acted
<1>14. CASE \E f \in flights, ok \in BOOLEAN : Dash!Deleted(f, ok)
  BY <1>14 DEF Dash!Deleted
<1>15. CASE Dash!CloseDialog
  BY <1>15 DEF Dash!CloseDialog
<1>16. CASE Dash!ConfirmDelete
  BY <1>16 DEF Dash!ConfirmDelete, Dash!DeleteDialog
<1>17. CASE Dash!OpenCreate
  BY <1>17 DEF Dash!OpenCreate
<1>18. CASE \E n \in Names : Dash!Create(n)
  BY <1>18 DEF Dash!Create, Dash!CreateDialog
<1> QED
  BY <1>2, <1>3, <1>4, <1>5, <1>6, <1>7, <1>8, <1>9, <1>10, <1>11, <1>12, <1>13, <1>14, <1>15, <1>16, <1>17, <1>18
     DEF Dash!Next, Dash!System, Dash!User

(* The invariant implies the properties of the page.                         *)
LEMMA DashPromises == DashInv => Dash!TypeOK /\ Dash!BatchHitsTicked /\ Dash!SelectionScoped
  BY DEF DashInv, Dash!TypeOK

-----------------------------------------------------------------------------
(* UserPanel: the picture of an account is the one that the last it heard, *)
(* pushed or asked for, stands for.                                        *)

PanelInv ==
    /\ truth \in [PanelNames -> Reports]
    /\ panel \in [qr : [PanelNames -> Panel!Shown], listed : SUBSET PanelNames, loading : BOOLEAN,
                  connected : BOOLEAN, timer : BOOLEAN, dialog : {{}} \cup {{n} : n \in PanelNames},
                  refreshing : [PanelNames -> BOOLEAN]]
    /\ answers \in [PanelNames -> Reports \cup {"no", "sent", "error"}]
    /\ heard \in [PanelNames -> Reports \cup {"nothing", "error"}]
    /\ \A n \in PanelNames :
         panel.qr[n] = CASE heard[n] = "nothing" -> "loading" [] heard[n] = "error" -> "error"
                         [] OTHER -> Panel!FromPush(heard[n])

(* A report of the manager has a picture, and is none of the page's words.   *)
LEMMA PanelReports ==
  ASSUME Panel!PanelAssumption, NEW r \in Reports
  PROVE  Panel!FromPush(r) \in Panel!Shown /\ r \notin {"no", "sent", "nothing", "error"}
  BY DEF Panel!PanelAssumption, Panel!FromPush, Panel!Shown

(* The page opens with its invariant.                                        *)
LEMMA PanelInitial == ASSUME Panel!PanelAssumption, Panel!PanelInit PROVE PanelInv
  BY DEF Panel!PanelAssumption, Panel!PanelInit, PanelInv, Panel!Shown

(* Each step of the page, its answers included, keeps the invariant.         *)
LEMMA PanelNextKept == ASSUME Panel!PanelAssumption, PanelInv, Panel!PanelNext PROVE PanelInv'
<1> USE DEF PanelInv
<1>1. \A r \in Reports : Panel!FromPush(r) \in Panel!Shown /\ r \notin {"no", "sent", "nothing", "error"}
  BY PanelReports
<1>2. CASE \E n \in PanelNames, r \in Reports : Panel!TruthChanges(n, r)
  BY <1>2 DEF Panel!TruthChanges
<1>3. CASE \E listed \in SUBSET PanelNames : Panel!Push(listed)
  <2>1. PICK listed \in SUBSET PanelNames : Panel!Push(listed)
    BY <1>3
  <2>2. Panel!Merged(listed) \in [PanelNames -> Panel!Shown]
    BY <1>1 DEF Panel!Merged
  <2>3. panel' \in [qr : [PanelNames -> Panel!Shown], listed : SUBSET PanelNames, loading : BOOLEAN,
                    connected : BOOLEAN, timer : BOOLEAN, dialog : {{}} \cup {{n} : n \in PanelNames},
                    refreshing : [PanelNames -> BOOLEAN]] /\ panel'.qr = Panel!Merged(listed)
    BY <2>1, <2>2 DEF Panel!Push, Panel!Loading
  <2>4. heard' \in [PanelNames -> Reports \cup {"nothing", "error"}]
    BY <2>1 DEF Panel!Push
  <2>5. ASSUME NEW n \in PanelNames
        PROVE  panel'.qr[n] = CASE heard'[n] = "nothing" -> "loading" [] heard'[n] = "error" -> "error"
                                [] OTHER -> Panel!FromPush(heard'[n])
    <3>1. CASE n \in listed
      BY <2>1, <2>3, <3>1, <1>1 DEF Panel!Push, Panel!Merged
    <3>2. CASE n \notin listed
      BY <2>1, <2>3, <3>2, <1>1 DEF Panel!Push, Panel!Merged
    <3> QED
      BY <3>1, <3>2
  <2> QED
    BY <2>1, <2>3, <2>4, <2>5 DEF Panel!Push
<1>4. CASE \E up \in BOOLEAN : Panel!Connection(up)
  BY <1>4 DEF Panel!Connection, Panel!Loading
<1>5. CASE Panel!LoadingTimeout
  BY <1>5 DEF Panel!LoadingTimeout
<1>6. CASE \E n \in PanelNames : Panel!RefreshCard(n)
  <2>1. PICK n \in PanelNames : Panel!RefreshCard(n)
    BY <1>6
  <2>2. panel'.qr = panel.qr /\ panel' \in [qr : [PanelNames -> Panel!Shown], listed : SUBSET PanelNames, loading : BOOLEAN,
                    connected : BOOLEAN, timer : BOOLEAN, dialog : {{}} \cup {{m} : m \in PanelNames},
                    refreshing : [PanelNames -> BOOLEAN]]
    BY <2>1 DEF Panel!RefreshCard
  <2>3. answers' \in [PanelNames -> Reports \cup {"no", "sent", "error"}]
    BY <2>1 DEF Panel!RefreshCard
  <2> QED
    BY <2>1, <2>2, <2>3 DEF Panel!RefreshCard
<1>7. CASE \E n \in PanelNames : Panel!Serve(n)
  BY <1>7 DEF Panel!Serve
<1>8. CASE \E n \in PanelNames : Panel!LoadQR(n)
  <2>1. PICK n \in PanelNames : Panel!LoadQR(n)
    BY <1>8
  <2>2. answers[n] \in Reports \cup {"error"}
    BY <2>1 DEF Panel!LoadQR
  <2>3. (IF answers[n] = "error" THEN "error" ELSE Panel!FromPush(answers[n])) \in Panel!Shown
    BY <1>1, <2>2 DEF Panel!Shown
  <2>4. panel' \in [qr : [PanelNames -> Panel!Shown], listed : SUBSET PanelNames, loading : BOOLEAN,
                    connected : BOOLEAN, timer : BOOLEAN, dialog : {{}} \cup {{m} : m \in PanelNames},
                    refreshing : [PanelNames -> BOOLEAN]]
        /\ panel'.qr = [panel.qr EXCEPT ![n] = IF answers[n] = "error" THEN "error" ELSE Panel!FromPush(answers[n])]
    BY <2>1, <2>3 DEF Panel!LoadQR
  <2>5. heard' = [heard EXCEPT ![n] = answers[n]] /\ answers' = [answers EXCEPT ![n] = "no"] /\ truth' = truth
    BY <2>1 DEF Panel!LoadQR
  <2>6. \A m \in PanelNames :
          panel'.qr[m] = CASE heard'[m] = "nothing" -> "loading" [] heard'[m] = "error" -> "error"
                           [] OTHER -> Panel!FromPush(heard'[m])
    BY <1>1, <2>2, <2>4, <2>5
  <2> QED
    BY <2>2, <2>4, <2>5, <2>6
<1>9. CASE \E n \in PanelNames : Panel!OpenCode(n)
  BY <1>9 DEF Panel!OpenCode
<1>10. CASE Panel!CloseCode
  BY <1>10 DEF Panel!CloseCode
<1> QED
  BY <1>2, <1>3, <1>4, <1>5, <1>6, <1>7, <1>8, <1>9, <1>10 DEF Panel!PanelNext, Panel!PanelSystem

(* The invariant implies the properties of the page.                         *)
LEMMA PanelPromises ==
  ASSUME Panel!PanelAssumption, PanelInv
  PROVE  Panel!PanelTypeOK /\ Panel!LastWordShown
<1>1. Cardinality(panel.dialog) <= 1
  <2>1. CASE panel.dialog = {}
    BY <2>1, FS_EmptySet
  <2>2. CASE \E n \in PanelNames : panel.dialog = {n}
    <3>1. PICK n \in PanelNames : panel.dialog = {n}
      BY <2>2
    <3>2. Cardinality({n}) = 1
      BY FS_Singleton
    <3> QED
      BY <3>1, <3>2
  <2> QED
    BY <2>1, <2>2 DEF PanelInv
<1>2. Panel!PanelTypeOK
  <2>1. Panel!Cardinality(panel.dialog) <= 1
    BY <1>1 DEF Panel!Cardinality, Cardinality
  <2> QED
    BY <2>1 DEF PanelInv, Panel!PanelTypeOK
<1>3. \A r \in Reports : Panel!FromPush(r) = "loaded" => r = "ok"
  BY DEF Panel!FromPush, Panel!PanelAssumption
<1>4. ASSUME NEW n \in Panel!CodeDrawn PROVE n \in PanelNames /\ heard[n] = "ok"
  BY <1>3, <1>4 DEF PanelInv, Panel!CodeDrawn
<1> QED
  BY <1>2, <1>4 DEF PanelInv, Panel!LastWordShown

-----------------------------------------------------------------------------
(* UsersPage: a dialog is of the user whose button opened it, and a key    *)
(* that is made is for the dialog that is open, unless one was closed on   *)
(* it.                                                                     *)

UserOps == {"list", "add", "edit", "assign", "delete", "key"}

UserReq == [op : UserOps, uuid : UserIds \cup {Nobody}, meant : UserIds \cup {Nobody}]

UsersPageState ==
    [listed : SUBSET UserIds, loading : BOOLEAN,
     dialog : {"none", "add", "edit", "assign", "delete", "key"},
     target : UserIds \cup {Nobody}, meant : UserIds \cup {Nobody},
     key : [uuid : UserIds \cup {Nobody}, of : UserIds \cup {Nobody},
            phase : {"ask", "loading", "shown", "failed"}],
     left : BOOLEAN]

UsersInv ==
    /\ accounts \subseteq UserIds
    /\ usersUi \in UsersPageState
    /\ userReqs \subseteq UserReq
    /\ usersUi.target = usersUi.meant
    /\ usersUi.dialog = "add" => usersUi.target = Nobody
    /\ usersUi.dialog \in {"edit", "assign", "delete"} => usersUi.target \in UserIds
    /\ usersUi.dialog = "key" => usersUi.key.uuid \in UserIds
    /\ Users!SavedAsMeant /\ Users!KeyOfOwner
    \* A key that is made is for the dialog that is open, if none was closed on it.
    /\ ~usersUi.left =>
         \A r \in userReqs : r.op = "key" =>
            usersUi.dialog = "key" /\ usersUi.key.phase = "loading" /\ usersUi.key.uuid = r.uuid

(* The page opens with its invariant.                                        *)
LEMMA UsersInitial == ASSUME Users!UsersAssumption, Users!UsersInit PROVE UsersInv
  BY DEF Users!UsersAssumption, Users!UsersInit, UsersInv, Users!Closed, Users!SavedAsMeant, Users!KeyOfOwner, UserOps, UserReq, UsersPageState

(* A request about one user, meant for another, is a request of the page.    *)
LEMMA UsersSent ==
  ASSUME NEW op \in UserOps, NEW u \in UserIds \cup {Nobody}, NEW v \in UserIds \cup {Nobody}
  PROVE  /\ Users!Sent(op, u, v) \in UserReq /\ Users!Sent(op, u, v).op = op
         /\ Users!Sent(op, u, v).uuid = u /\ Users!Sent(op, u, v).meant = v
  BY DEF Users!Sent, UserReq

\* What a step of the dialogs other than the key's keeps.
LEMMA UsersDialogKept ==
  ASSUME Users!UsersAssumption, UsersInv, NEW u \in UserIds \cup {Nobody},
         NEW d \in {"add", "edit", "assign", "delete"}, d = "add" <=> u = Nobody,
         usersUi.dialog = "none", usersUi' = [usersUi EXCEPT !.dialog = d, !.target = u, !.meant = u],
         UNCHANGED <<accounts, userReqs>>
  PROVE  UsersInv'
<1>1. usersUi' \in UsersPageState
  BY DEF UsersInv, UsersPageState
<1>2. usersUi'.dialog = d /\ usersUi'.target = u /\ usersUi'.meant = u /\ usersUi'.key = usersUi.key /\ usersUi'.left = usersUi.left
  BY DEF UsersInv, UsersPageState
<1> QED
  BY <1>1, <1>2 DEF UsersInv, Users!UsersAssumption, Users!SavedAsMeant, Users!KeyOfOwner

(* Each step of the page, its answers included, keeps the invariant.         *)
LEMMA UsersNextKept == ASSUME Users!UsersAssumption, UsersInv, Users!UsersNext PROVE UsersInv'
<1> USE DEF Users!UsersAssumption, UsersInv, Users!SavedAsMeant, Users!KeyOfOwner
<1>0. Users!ListSent \in UserReq /\ Users!ListSent.op = "list" /\ Users!ListSent.uuid = Nobody /\ Users!ListSent.meant = Nobody
  BY UsersSent DEF Users!ListSent, UserOps
<1>1. CASE Users!FetchUsers
  BY <1>0, <1>1 DEF Users!FetchUsers, UsersPageState
<1>2. CASE Users!Fetched
  <2>1. PICK l \in SUBSET UserIds : usersUi' = [usersUi EXCEPT !.loading = FALSE, !.listed = l]
    <3>1. usersUi.listed \in SUBSET UserIds /\ accounts \in SUBSET UserIds
      BY DEF UsersPageState
    <3>2. [usersUi EXCEPT !.loading = FALSE] = [usersUi EXCEPT !.loading = FALSE, !.listed = usersUi.listed]
      BY DEF UsersPageState
    <3> QED
      BY <1>2, <3>1, <3>2 DEF Users!Fetched
  <2>2. userReqs' = userReqs \ {Users!ListSent} /\ accounts' = accounts
    BY <1>2 DEF Users!Fetched
  <2> QED
    BY <2>1, <2>2 DEF UsersPageState
<1>3. CASE Users!OpenAdd
  BY <1>3, UsersDialogKept DEF Users!OpenAdd
<1>4. CASE \E u \in UserIds : Users!OpenEdit(u)
  BY <1>4, UsersDialogKept DEF Users!OpenEdit, Users!Card
<1>5. CASE \E u \in UserIds : Users!OpenAssign(u)
  BY <1>5, UsersDialogKept DEF Users!OpenAssign, Users!Card
<1>6. CASE \E u \in UserIds : Users!OpenDelete(u)
  BY <1>6, UsersDialogKept DEF Users!OpenDelete, Users!Card
<1>7. CASE Users!CloseForm
  BY <1>7 DEF Users!CloseForm, UsersPageState
<1>8. CASE Users!SaveUser
  <2>1. PICK r \in UserReq : /\ userReqs' = userReqs \cup {r} /\ r.uuid = r.meant
                             /\ r.op = (IF usersUi.target = Nobody THEN "add" ELSE "edit")
                             /\ r.meant = usersUi.meant
    BY <1>8, UsersSent DEF Users!SaveUser, UserOps, UsersPageState
  <2>2. r.op \in {"add", "edit"} /\ (r.op = "add" <=> r.meant = Nobody)
    BY <2>1
  <2> QED
    BY <1>8, <2>1, <2>2 DEF Users!SaveUser
<1>9. CASE Users!SaveInstances
  BY <1>9, UsersSent DEF Users!SaveInstances, UserOps
<1>10. CASE Users!DeleteUser
  BY <1>10, UsersSent DEF Users!DeleteUser, UserOps
<1>11. CASE \E r \in userReqs : Users!Saved(r)
  <2>1. PICK r \in userReqs : Users!Saved(r)
    BY <1>11
  <2>2. CASE userReqs' = userReqs \ {r} /\ UNCHANGED <<accounts, usersUi>>
    BY <2>2
  <2>3. CASE ~(userReqs' = userReqs \ {r} /\ UNCHANGED <<accounts, usersUi>>)
    <3>1. PICK d \in {"none", usersUi.dialog} : usersUi' = [usersUi EXCEPT !.loading = TRUE, !.dialog = d]
                                               /\ (usersUi.dialog = "key" => d = "key")
      BY <2>1, <2>3 DEF Users!Saved
    <3>2. /\ usersUi' \in UsersPageState /\ usersUi'.dialog = d /\ usersUi'.target = usersUi.target
          /\ usersUi'.meant = usersUi.meant /\ usersUi'.key = usersUi.key /\ usersUi'.left = usersUi.left
      BY <3>1 DEF UsersPageState
    <3>3. userReqs' = (userReqs \ {r}) \cup {Users!ListSent} /\ accounts' \subseteq UserIds
      BY <2>1, <2>3 DEF Users!Saved
    <3> QED
      BY <1>0, <3>1, <3>2, <3>3
  <2> QED
    BY <2>2, <2>3
<1>12. CASE \E u \in UserIds : Users!OpenKey(u)
  <2>1. PICK u \in UserIds : Users!OpenKey(u)
    BY <1>12
  <2>2. /\ usersUi' \in UsersPageState /\ usersUi'.dialog = "key" /\ usersUi'.target = usersUi.target
        /\ usersUi'.meant = usersUi.meant /\ usersUi'.key.uuid = u /\ usersUi'.key.phase = "ask"
        /\ usersUi'.left = usersUi.left
    BY <2>1 DEF Users!OpenKey, Users!Closed, UsersPageState
  <2> QED
    BY <2>1, <2>2 DEF Users!OpenKey, Users!Card
<1>13. CASE Users!CloseKey
  BY <1>13 DEF Users!CloseKey, Users!Closed, UsersPageState
<1>14. CASE Users!RegenerateKey
  <2>1. /\ Users!Sent("key", usersUi.key.uuid, usersUi.key.uuid) \in UserReq
        /\ Users!Sent("key", usersUi.key.uuid, usersUi.key.uuid).op = "key"
        /\ Users!Sent("key", usersUi.key.uuid, usersUi.key.uuid).uuid = usersUi.key.uuid
        /\ Users!Sent("key", usersUi.key.uuid, usersUi.key.uuid).meant = usersUi.key.uuid
    BY <1>14, UsersSent DEF Users!RegenerateKey, UserOps
  <2> QED
    BY <1>14, <2>1 DEF Users!RegenerateKey, UsersPageState
<1>15. CASE \E r \in userReqs : Users!Regenerated(r)
  <2>1. PICK r \in userReqs : Users!Regenerated(r)
    BY <1>15
  <2>2. r.uuid \in UserIds \cup {Nobody} /\ r.uuid = r.meant
    BY DEF UserReq
  <2>3. ~usersUi.left => \A q \in userReqs : q.op = "key" => q = r
    BY <2>1 DEF Users!Regenerated, UserReq
  <2>4. CASE usersUi' = [usersUi EXCEPT !.key.phase = "shown", !.key.of = r.uuid, !.loading = TRUE]
    <3>1. /\ usersUi' \in UsersPageState /\ usersUi'.dialog = usersUi.dialog /\ usersUi'.target = usersUi.target
          /\ usersUi'.meant = usersUi.meant /\ usersUi'.key.uuid = usersUi.key.uuid /\ usersUi'.key.of = r.uuid
          /\ usersUi'.left = usersUi.left
      BY <2>2, <2>4 DEF UsersPageState
    <3>2. ~usersUi.left => usersUi.key.uuid = r.uuid
      BY <2>1 DEF Users!Regenerated
    <3>3. userReqs' \subseteq UserReq /\ \A q \in userReqs' : q = Users!ListSent \/ (q \in userReqs /\ q # r)
      BY <1>0, <2>1 DEF Users!Regenerated
    <3>4. accounts' = accounts
      BY <2>1 DEF Users!Regenerated
    <3> QED
      BY <1>0, <2>3, <3>1, <3>2, <3>3, <3>4
  <2>5. CASE usersUi' = [usersUi EXCEPT !.key.phase = IF @ = "shown" THEN @ ELSE "failed"]
    <3>1. /\ usersUi' \in UsersPageState /\ usersUi'.dialog = usersUi.dialog /\ usersUi'.target = usersUi.target
          /\ usersUi'.meant = usersUi.meant /\ usersUi'.key.uuid = usersUi.key.uuid
          /\ usersUi'.key.of = usersUi.key.of /\ usersUi'.left = usersUi.left
          /\ (usersUi'.key.phase = "shown" => usersUi.key.phase = "shown")
      BY <2>5 DEF UsersPageState
    <3>2. userReqs' \subseteq UserReq /\ \A q \in userReqs' : q = Users!ListSent \/ (q \in userReqs /\ q # r)
      BY <1>0, <2>1 DEF Users!Regenerated
    <3>4. accounts' = accounts
      BY <2>1 DEF Users!Regenerated
    <3> QED
      BY <1>0, <2>3, <3>1, <3>2, <3>4
  <2> QED
    BY <2>1, <2>4, <2>5 DEF Users!Regenerated
<1> QED
  BY <1>1, <1>2, <1>3, <1>4, <1>5, <1>6, <1>7, <1>8, <1>9, <1>10, <1>11, <1>12, <1>13, <1>14, <1>15
     DEF Users!UsersNext, Users!UsersSystem

(* The invariant implies the properties of the page.                         *)
LEMMA UsersPromises == UsersInv => Users!UsersTypeOK /\ Users!SavedAsMeant /\ Users!KeyOfOwner
  BY DEF UsersInv, Users!UsersTypeOK, UserOps, UserReq, UsersPageState

-----------------------------------------------------------------------------
(* AppShell: what every answer leaves of a tab is a tab, and who enters    *)
(* the layout asks whose it is.                                            *)

ShellInv ==
    /\ server \in [initialized : BOOLEAN, cookie : Shell!Roles \cup {"nobody"}]
    /\ tab \in [knows : {"unknown", "yes", "no"}, route : Shell!PublicRoutes \cup {"/admin"},
                setup : {"checking", "form", "sending", "success"}, login : {"form", "sending"},
                menu : Shell!Roles, leaving : BOOLEAN, timer : BOOLEAN, loads : Nat]
    /\ asked \subseteq {"appStatus", "setupStatus", "init", "login", "logout", "auth"}

(* The page opens with its invariant.                                        *)
LEMMA ShellInitial == ASSUME Shell!ShellAssumption, Shell!ShellInit PROVE ShellInv
  BY DEF Shell!ShellAssumption, Shell!ShellInit, ShellInv, Shell!Roles, Shell!PublicRoutes

\* The page a tab holds.
ShellTab == [knows : {"unknown", "yes", "no"}, route : Shell!PublicRoutes \cup {"/admin"},
             setup : {"checking", "form", "sending", "success"}, login : {"form", "sending"},
             menu : Shell!Roles, leaving : BOOLEAN, timer : BOOLEAN, loads : Nat]

(* Mounting a page keeps what the tab knows.                                 *)
LEMMA ShellMounted ==
  ASSUME NEW t \in ShellTab, NEW r \in Shell!PublicRoutes \cup {"/admin"}
  PROVE  Shell!Mounted(t, r) \in ShellTab /\ Shell!Mounted(t, r).route = r /\ Shell!Mounted(t, r).knows = t.knows
  BY DEF ShellTab, Shell!Mounted, Shell!Roles

(* Navigation lands on a route, and asks what the page of that one asks.     *)
LEMMA ShellNavigates ==
  ASSUME NEW t \in ShellTab, NEW r \in Shell!PublicRoutes \cup {"/admin"},
         NEW open \in SUBSET {"appStatus", "setupStatus", "init", "login", "logout", "auth"},
         Shell!Navigate(t, r, open)
  PROVE  /\ tab' \in ShellTab
         /\ asked' \subseteq {"appStatus", "setupStatus", "init", "login", "logout", "auth"}
         \* Who enters the layout asks whose it is.
         /\ tab'.route = "/admin" /\ "auth" \in open => "auth" \in asked'
<1>1. Shell!Landed(t.knows, r) \in Shell!PublicRoutes \cup {"/admin"}
  BY DEF Shell!Landed, Shell!PublicRoutes
<1>2. Shell!Asks(Shell!Landed(t.knows, r)) \subseteq {"setupStatus", "auth"} /\ (Shell!Landed(t.knows, r) = "/admin" => Shell!Asks(Shell!Landed(t.knows, r)) = {"auth"})
  BY DEF Shell!Asks
<1>3. CASE Shell!Landed(t.knows, r) = t.route /\ r = Shell!Landed(t.knows, r)
  BY <1>3 DEF Shell!Navigate
<1>4. CASE ~(Shell!Landed(t.knows, r) = t.route /\ r = Shell!Landed(t.knows, r))
  <2>1. tab' = Shell!Mounted(t, Shell!Landed(t.knows, r)) /\ asked' = (open \ {"setupStatus", "auth"}) \cup Shell!Asks(Shell!Landed(t.knows, r))
    BY <1>4 DEF Shell!Navigate
  <2> QED
    BY <1>1, <1>2, <2>1, ShellMounted
<1> QED
  BY <1>3, <1>4

\* What the menu of the layout goes by: MenuEarned, for one step.
MenuAnswered ==
    tab'.route = "/admin" /\ tab'.knows = "yes" /\ tab'.menu = "admin" /\ "auth" \in asked \ asked'
      => server.cookie = "admin"

(* What a setup that succeeded leaves at the manager.                        *)
LEMMA ShellSetUp == [initialized |-> TRUE, cookie |-> "admin"] \in [initialized : BOOLEAN, cookie : Shell!Roles \cup {"nobody"}]
  BY DEF Shell!Roles

(* Each step of the page, its answers included, keeps the invariant.         *)
LEMMA ShellNextKept ==
  ASSUME Shell!ShellAssumption, ShellInv, Shell!ShellNext
  PROVE  ShellInv' /\ MenuAnswered
<1> USE DEF ShellInv, MenuAnswered
<1> DEFINE Requests == {"appStatus", "setupStatus", "init", "login", "logout", "auth"}
<1>0. tab \in ShellTab /\ "/login" \in Shell!PublicRoutes \cup {"/admin"} /\ "/admin" \in Shell!PublicRoutes \cup {"/admin"}
  BY DEF ShellTab, Shell!PublicRoutes
<1>t. \A t \in ShellTab : t \in [knows : {"unknown", "yes", "no"}, route : Shell!PublicRoutes \cup {"/admin"},
                setup : {"checking", "form", "sending", "success"}, login : {"form", "sending"},
                menu : Shell!Roles, leaving : BOOLEAN, timer : BOOLEAN, loads : Nat]
  BY DEF ShellTab
<1>1. CASE Shell!AppStatus
  <2>1. PICK k \in {"yes", "no"} :
          /\ tab' = Shell!Mounted([tab EXCEPT !.knows = k], Shell!Landed(k, tab.route))
          /\ asked' = (asked \ {"appStatus"}) \cup Shell!Asks(Shell!Landed(k, tab.route))
    BY <1>1 DEF Shell!AppStatus
  <2>2. [tab EXCEPT !.knows = k] \in ShellTab /\ Shell!Landed(k, tab.route) \in Shell!PublicRoutes \cup {"/admin"}
    BY <1>0 DEF ShellTab, Shell!Landed, Shell!PublicRoutes
  <2>3. Shell!Asks(Shell!Landed(k, tab.route)) \subseteq Requests
    BY DEF Shell!Asks
  <2>4. tab' \in ShellTab /\ asked' \subseteq Requests /\ ("auth" \in asked => "auth" \in asked') /\ UNCHANGED server
    BY <1>1, <2>1, <2>2, <2>3, ShellMounted DEF Shell!AppStatus
  <2> QED
    BY <2>4, <1>t
<1>2. CASE \E r \in Shell!PublicRoutes \cup {"/admin"} : Shell!Follow(r)
  BY <1>0, <1>t, <1>2, ShellNavigates DEF Shell!Follow
<1>3. CASE \E r \in Shell!PublicRoutes \cup {"/admin"} : Shell!Reload(r)
  <2>1. PICK r \in Shell!PublicRoutes \cup {"/admin"} : Shell!Reload(r)
    BY <1>3
  <2>2. Shell!Mounted(tab, r) \in ShellTab
    BY <1>0, ShellMounted
  <2>3. tab' \in ShellTab /\ tab'.knows = "unknown"
    <3>1. [Shell!Mounted(tab, r) EXCEPT !.knows = "unknown", !.timer = FALSE, !.loads = @ + 1] \in ShellTab
      <4>1. Shell!Mounted(tab, r) \in ShellTab /\ Shell!Mounted(tab, r).loads + 1 \in Nat
        BY <2>2 DEF ShellTab
      <4>2. \A t \in ShellTab, n \in Nat : [t EXCEPT !.knows = "unknown", !.timer = FALSE, !.loads = n] \in ShellTab
        BY DEF ShellTab
      <4> QED
        BY <4>1, <4>2
    <3>2. [Shell!Mounted(tab, r) EXCEPT !.knows = "unknown", !.timer = FALSE, !.loads = @ + 1].knows = "unknown"
      BY <2>2 DEF ShellTab
    <3>3. tab' = [Shell!Mounted(tab, r) EXCEPT !.knows = "unknown", !.timer = FALSE, !.loads = @ + 1]
      BY <2>1 DEF Shell!Reload
    <3> QED
      BY <3>1, <3>2, <3>3
  <2>4. server' \in [initialized : BOOLEAN, cookie : Shell!Roles \cup {"nobody"}]
    <3>1. server' = server \/ server' = [initialized |-> TRUE, cookie |-> "admin"]
      BY <2>1 DEF Shell!Reload
    <3> QED
      BY <3>1, ShellSetUp
  <2> QED
    BY <1>t, <2>1, <2>3, <2>4 DEF Shell!Reload
<1>4. CASE Shell!CookieChanges
  BY <1>4 DEF Shell!CookieChanges
<1>5. CASE Shell!SetupStatus
  <2>1. CASE Shell!Navigate(tab, "/login", asked \ {"setupStatus"})
    <3>1. UNCHANGED server
      BY <1>5 DEF Shell!SetupStatus
    <3> QED
      BY <1>0, <1>t, <2>1, <3>1, ShellNavigates
  <2>2. CASE tab' = [tab EXCEPT !.setup = "form"] /\ asked' = asked \ {"setupStatus"}
    BY <1>5, <2>2 DEF Shell!SetupStatus
  <2> QED
    BY <1>5, <2>1, <2>2 DEF Shell!SetupStatus
<1>6. CASE Shell!SetupSubmit
  BY <1>6 DEF Shell!SetupSubmit
<1>7. CASE Shell!SetupInit
  <2>1. server' = server \/ server' = [initialized |-> TRUE, cookie |-> "admin"]
    BY <1>7 DEF Shell!SetupInit
  <2>2. server' \in [initialized : BOOLEAN, cookie : Shell!Roles \cup {"nobody"}]
    BY <2>1, ShellSetUp
  <2>3. asked' = asked \ {"init"}
    BY <1>7 DEF Shell!SetupInit
  <2>4. \/ tab' = tab \/ tab' = [tab EXCEPT !.setup = "success", !.timer = TRUE]
        \/ tab' = [tab EXCEPT !.setup = IF @ = "sending" THEN "form" ELSE @]
    BY <1>7 DEF Shell!SetupInit
  <2>5. tab' \in ShellTab
    BY <1>0, <2>4 DEF ShellTab
  <2> QED
    BY <1>t, <2>2, <2>3, <2>5
<1>8. CASE Shell!SetupEnters
  <2>1. [tab EXCEPT !.timer = FALSE] \in ShellTab
    BY <1>0 DEF ShellTab
  <2> QED
    BY <1>0, <1>t, <1>8, <2>1, ShellNavigates DEF Shell!SetupEnters
<1>9. CASE Shell!LoginSubmit
  BY <1>9 DEF Shell!LoginSubmit
<1>10. CASE Shell!LoginAnswer
  <2>1. [tab EXCEPT !.login = "form"] \in ShellTab /\ [tab EXCEPT !.login = "form"].menu = tab.menu
    BY <1>0 DEF ShellTab
  <2>2. CASE Shell!Navigate([tab EXCEPT !.login = "form"], "/admin", asked \ {"login"})
    <3>1. server' \in [initialized : BOOLEAN, cookie : Shell!Roles \cup {"nobody"}]
      BY <1>10 DEF Shell!LoginAnswer
    <3>2. /\ tab' \in ShellTab /\ asked' \subseteq Requests
          /\ tab'.route = "/admin" /\ "auth" \in asked \ {"login"} => "auth" \in asked'
      BY <1>0, <2>1, <2>2, ShellNavigates
    <3> QED
      BY <1>t, <3>1, <3>2
  <2>3. CASE tab' = [tab EXCEPT !.login = "form"] /\ asked' = asked \ {"login"} /\ UNCHANGED server
    BY <1>t, <2>1, <2>3
  <2> QED
    BY <1>10, <2>2, <2>3 DEF Shell!LoginAnswer
<1>11. CASE Shell!AuthAnswer
  BY <1>11 DEF Shell!AuthAnswer, Shell!Roles
<1>12. CASE Shell!Logout
  BY <1>12 DEF Shell!Logout
<1>13. CASE Shell!LogoutAnswer
  <2>1. server' \in [initialized : BOOLEAN, cookie : Shell!Roles \cup {"nobody"}]
    BY <1>13 DEF Shell!LogoutAnswer
  <2>2. Shell!Navigate(tab, "/login", asked \ {"logout"})
    BY <1>13 DEF Shell!LogoutAnswer
  <2>3. /\ tab' \in ShellTab /\ asked' \subseteq Requests
        /\ tab'.route = "/admin" /\ "auth" \in asked \ {"logout"} => "auth" \in asked'
    BY <1>0, <2>2, ShellNavigates
  <2> QED
    BY <1>t, <2>1, <2>3
<1> QED
  BY <1>1, <1>2, <1>3, <1>4, <1>5, <1>6, <1>7, <1>8, <1>9, <1>10, <1>11, <1>12, <1>13 DEF Shell!ShellNext, Shell!ShellSystem

(* The invariant implies the properties of the page.                         *)
LEMMA ShellPromises == ShellInv => Shell!ShellTypeOK
  BY DEF ShellInv, Shell!ShellTypeOK

-----------------------------------------------------------------------------
(* AdminList: no list that is shown, sent or on its way is newer than the  *)
(* manager's.                                                              *)

ListInv ==
    /\ hub \in [now : 1..MaxChanges, sent : 0..MaxChanges]
    /\ layout \in [shown : 0..MaxChanges, up : BOOLEAN, timers : Nat]
    /\ lists \subseteq [id : 1..MaxAnswers, is : 0..MaxChanges]
    /\ late \in BOOLEAN
    \* No answer is of a list the manager does not have yet.
    /\ hub.sent <= hub.now /\ \A l \in lists : l.is <= hub.now
    /\ List!ListInStep /\ List!OnePoll

\* The types of the records, which arithmetic has no part in.
LEMMA ListBounds ==
  ASSUME List!AdminListAssumption
  PROVE  /\ 1 \in 1..MaxChanges /\ 0 \in 0..MaxChanges /\ 1 \in 1..MaxAnswers
         /\ MaxChanges \in Nat /\ \A x \in 1..MaxChanges : x \in 0..MaxChanges /\ x # 0 /\ x \in Nat /\ 0 <= x
  BY DEF List!AdminListAssumption

(* The page opens with its invariant.                                        *)
LEMMA ListInitial == ASSUME List!AdminListAssumption, List!ListInit PROVE ListInv
<1>1. hub \in [now : 1..MaxChanges, sent : 0..MaxChanges] /\ hub.now = 1 /\ hub.sent = 0
  BY ListBounds DEF List!ListInit, List!Unsent
<1>2. layout \in [shown : 0..MaxChanges, up : BOOLEAN, timers : Nat] /\ layout.up = FALSE /\ layout.timers = 1
  BY ListBounds DEF List!ListInit, List!Unsent
<1>3. lists \subseteq [id : 1..MaxAnswers, is : 0..MaxChanges] /\ \A l \in lists : l.is = 0
  BY ListBounds DEF List!ListInit, List!Unsent
<1>4. late = FALSE
  BY DEF List!ListInit
<1>5. hub.sent <= hub.now /\ \A l \in lists : l.is <= hub.now
  BY <1>1, <1>3
<1>6. List!ListInStep
  BY <1>2 DEF List!ListInStep
<1>7. List!OnePoll
  BY <1>2 DEF List!OnePoll
<1> QED
  BY <1>1, <1>2, <1>3, <1>4, <1>5, <1>6, <1>7 DEF ListInv

(* Each step of the page, its answers included, keeps the invariant.         *)
LEMMA ListNextKept == ASSUME List!AdminListAssumption, ListInv, List!ListNext PROVE ListInv'
<1> USE DEF List!AdminListAssumption, ListInv, List!ListInStep, List!OnePoll, List!Unsent
<1>0. ASSUME List!Asked
      PROVE  lists' \subseteq [id : 1..MaxAnswers, is : 0..MaxChanges] /\ \A l \in lists' : l \in lists \/ l.is = 0
  BY <1>0 DEF List!Asked
<1>1. CASE List!HubChanges
  BY <1>1 DEF List!HubChanges
<1>2. CASE List!Push
  <2>1. hub.now \in 0..MaxChanges
    BY ListBounds
  <2>2. hub' \in [now : 1..MaxChanges, sent : 0..MaxChanges] /\ hub'.now = hub.now /\ hub'.sent = hub.now
    BY <1>2, <2>1 DEF List!Push
  <2>3. /\ layout' \in [shown : 0..MaxChanges, up : BOOLEAN, timers : Nat]
        /\ layout'.shown = hub.now /\ layout'.up = layout.up /\ layout'.timers = layout.timers
    BY <1>2, <2>1 DEF List!Push
  <2>4. late' = FALSE /\ lists' = lists /\ layout.up
    BY <1>2 DEF List!Push
  <2>5. hub.now \in Nat /\ hub.now <= hub.now
    BY ListBounds
  <2> QED
    BY <2>2, <2>3, <2>4, <2>5
<1>3. CASE List!Up
  <2>1. hub' \in [now : 1..MaxChanges, sent : 0..MaxChanges] /\ hub'.now = hub.now /\ hub'.sent = 0
    BY <1>3, ListBounds DEF List!Up
  <2>2. layout.up = FALSE /\ layout.timers = 1
    BY <1>3 DEF List!Up
  <2>3. /\ layout' \in [shown : 0..MaxChanges, up : BOOLEAN, timers : Nat]
        /\ layout'.up = TRUE /\ layout'.timers = 0
    <3>1. layout' = [layout EXCEPT !.up = TRUE, !.timers = 0]
      BY <1>3, <2>2 DEF List!Up
    <3> QED
      BY <3>1
  <2>4. hub.now # 0 /\ 0 <= hub.now
    BY ListBounds
  <2> QED
    BY <1>3, <2>1, <2>3, <2>4 DEF List!Up
<1>4. CASE List!Down
  <2>1. layout.up = TRUE /\ layout.timers = 0
    BY <1>4 DEF List!Down
  <2>2. /\ layout' \in [shown : 0..MaxChanges, up : BOOLEAN, timers : Nat]
        /\ layout'.up = FALSE /\ layout'.timers = 1
    <3>1. layout' = [layout EXCEPT !.up = FALSE, !.timers = 1]
      BY <1>4, <2>1 DEF List!Down
    <3> QED
      BY <3>1
  <2>3. hub' = hub /\ late' = late /\ List!Asked /\ hub.now \in Nat
    BY <1>4 DEF List!Down
  <2> QED
    BY <1>0, <2>2, <2>3
<1>5. CASE List!Poll \/ List!Refresh
  BY <1>0, <1>5 DEF List!Poll, List!Refresh
<1>6. CASE \E l \in lists : List!ListServe(l)
  <2>1. PICK l \in lists : List!ListServe(l)
    BY <1>6
  <2>2. [l EXCEPT !.is = hub.now] \in [id : 1..MaxAnswers, is : 0..MaxChanges] /\ [l EXCEPT !.is = hub.now].is = hub.now
    OBVIOUS
  <2> QED
    BY <2>1, <2>2 DEF List!ListServe
<1>7. CASE \E l \in lists : List!Refreshed(l)
  BY <1>7 DEF List!Refreshed
<1>8. CASE \E l \in lists : List!RefreshFailed(l)
  BY <1>8 DEF List!RefreshFailed
<1> QED
  BY <1>1, <1>2, <1>3, <1>4, <1>5, <1>6, <1>7, <1>8 DEF List!ListNext, List!ListAnswers

(* The invariant implies the properties of the page.                         *)
LEMMA ListPromises == ListInv => List!ListTypeOK /\ List!ListInStep /\ List!OnePoll
  BY DEF ListInv, List!ListTypeOK

-----------------------------------------------------------------------------
(* ClusterForm: form, store and what is under way differ in what was       *)
(* edited here or saved elsewhere, and in nothing else.                    *)

ClusterSettings == [Cluster!Fields -> Values \cup {""}]
StoreState == [set : ClusterSettings, key : {"", "key"}]
FormState == [set : ClusterSettings, key : {"", "***"}, switch : BOOLEAN]
FormUi == [loading : BOOLEAN, saving : BOOLEAN, loaded : BOOLEAN]
ClusterSent == [set : ClusterSettings, key : {""}, form : FormState]
ClusterChanges == SUBSET (Cluster!Fields \cup {"key", "switch"})
ClusterHistory == [edited : ClusterChanges, rival : ClusterChanges, saved : BOOLEAN, form : FormState]

ClusterInv ==
    /\ store \in StoreState /\ store.set["checked"] # ""
    /\ form \in FormState
    /\ ui \in FormUi
    /\ sent \subseteq ClusterSent
    /\ hist \in ClusterHistory
    \* While the form is loaded nothing is edited, nor under way.
    /\ ui.loading => ~ui.loaded /\ hist.edited = {} /\ sent = {}
    \* What is under way differs from the form in what was edited since, if in anything.
    /\ \A p \in sent : p.set = p.form.set /\ \A f \in Cluster!Fields : f \notin hist.edited => p.set[f] = form.set[f]
    \* The form differs from the store in what was edited here or saved elsewhere.
    /\ ui.loaded => \A f \in Cluster!Fields : f \notin hist.edited \cup hist.rival => form.set[f] = store.set[f]
    /\ hist.saved => store.set = hist.form.set
    /\ Cluster!SavedComesBack

(* The page opens with its invariant.                                        *)
LEMMA ClusterInitial == ASSUME Cluster!ClusterAssumption, Cluster!ClusterInit PROVE ClusterInv
<1>1. store \in StoreState /\ store.set["checked"] # ""
  BY DEF Cluster!ClusterInit, Cluster!ClusterAssumption, StoreState, ClusterSettings, Cluster!Fields
<1>2. Cluster!Defaults \in FormState
  BY DEF Cluster!Defaults, FormState, ClusterSettings
<1> QED
  BY <1>1, <1>2 DEF Cluster!ClusterInit, ClusterInv, Cluster!Unsaved, Cluster!SavedComesBack, FormUi, ClusterHistory, ClusterChanges

(* Settings are equal that agree on every field.                             *)
LEMMA SameSettings ==
  ASSUME NEW a \in ClusterSettings, NEW b \in ClusterSettings, \A f \in Cluster!Fields : a[f] = b[f]
  PROVE  a = b
<1>1. a = [f \in Cluster!Fields |-> a[f]] /\ b = [f \in Cluster!Fields |-> b[f]]
  BY DEF ClusterSettings
<1>2. [f \in Cluster!Fields |-> a[f]] = [f \in Cluster!Fields |-> b[f]]
  OBVIOUS
<1> QED
  BY <1>1, <1>2

(* Setting one field leaves the others, and the settings valid.              *)
LEMMA SettingsChanged ==
  ASSUME Cluster!ClusterAssumption, NEW a \in ClusterSettings, a["checked"] # "", NEW f \in Cluster!Fields, NEW v \in Values
  PROVE  /\ [a EXCEPT ![f] = v] \in ClusterSettings /\ [a EXCEPT ![f] = v]["checked"] # ""
         /\ \A g \in Cluster!Fields : g # f => [a EXCEPT ![f] = v][g] = a[g]
  BY DEF Cluster!ClusterAssumption, ClusterSettings, Cluster!Fields

(* Each step of the page, its answers included, keeps the invariant.         *)
LEMMA ClusterNextKept ==
  ASSUME Cluster!ClusterAssumption, ClusterInv, Cluster!ClusterNext
  PROVE  ClusterInv' /\ Cluster!EditedOnly
<1> USE DEF ClusterInv, Cluster!SavedComesBack
<1>0. Cluster!Defaults \in FormState
  BY DEF Cluster!Defaults, FormState, ClusterSettings
<1>1. CASE \E ok \in BOOLEAN : Cluster!Load(ok)
  <2>1. PICK ok \in BOOLEAN : Cluster!Load(ok)
    BY <1>1
  <2>2. /\ ui' \in FormUi
        /\ ui'.loading = FALSE /\ ui'.loaded = ok
    BY <2>1 DEF Cluster!Load, FormUi, ClusterHistory, ClusterChanges
  <2>3. /\ hist' \in ClusterHistory
        /\ hist'.edited = {} /\ hist'.rival = {} /\ hist'.saved = hist.saved /\ hist'.form = hist.form
    BY <2>1 DEF Cluster!Load, FormUi, ClusterHistory, ClusterChanges
  <2>4. sent' = {} /\ store' = store
    BY <2>1 DEF Cluster!Load
  <2>5. form' \in FormState /\ (ok => form'.set = store.set)
    BY <1>0, <2>1 DEF Cluster!Load, StoreState, FormState, Cluster!Mask
  <2> QED
    BY <2>2, <2>3, <2>4, <2>5 DEF Cluster!EditedOnly
<1>2. CASE \E f \in Cluster!Fields, v \in Values : Cluster!Type(f, v)
  <2>1. PICK f \in Cluster!Fields, v \in Values : Cluster!Type(f, v)
    BY <1>2
  <2>2. form' \in FormState /\ \A g \in Cluster!Fields : g # f => form'.set[g] = form.set[g]
    BY <2>1 DEF Cluster!Type, FormState, ClusterSettings
  <2>3. /\ hist' \in ClusterHistory
        /\ hist'.edited = hist.edited \cup {f} /\ hist'.rival = hist.rival /\ hist'.saved = hist.saved
        /\ hist'.form = hist.form
    BY <2>1 DEF Cluster!Type, ClusterHistory, ClusterChanges
  <2>4. sent' = sent /\ store' = store /\ ui' = ui /\ ~ui.loading
    BY <2>1 DEF Cluster!Type, Cluster!Ready
  <2> QED
    BY <2>2, <2>3, <2>4 DEF Cluster!EditedOnly
<1>3. CASE Cluster!Toggle
  <2>1. form' \in FormState /\ form'.set = form.set
    BY <1>3 DEF Cluster!Toggle, FormState
  <2>2. /\ hist' \in ClusterHistory
        /\ hist'.edited = hist.edited \cup {"switch"} /\ hist'.rival = hist.rival /\ hist'.saved = hist.saved
        /\ hist'.form = hist.form
    BY <1>3 DEF Cluster!Toggle, ClusterHistory, ClusterChanges
  <2>3. sent' = sent /\ store' = store /\ ui' = ui /\ ~ui.loading
    BY <1>3 DEF Cluster!Toggle, Cluster!Ready
  <2> QED
    BY <2>1, <2>2, <2>3 DEF Cluster!EditedOnly
<1>4. CASE Cluster!Save
  <2>1. /\ Cluster!Payload \in ClusterSent
        /\ Cluster!Payload.set = form.set /\ Cluster!Payload.form = form
    BY DEF Cluster!Payload, FormState, ClusterSent
  <2>2. sent' = {Cluster!Payload} /\ store' = store /\ form' = form /\ hist' = hist
    BY <1>4 DEF Cluster!Save
  <2>3. /\ ui' \in FormUi
        /\ ui'.loading = FALSE /\ ui'.loaded = ui.loaded
    BY <1>4 DEF Cluster!Save, Cluster!Ready, FormUi
  <2> QED
    BY <2>1, <2>2, <2>3 DEF Cluster!EditedOnly
<1>5. CASE \E ok \in BOOLEAN : \E p \in sent : Cluster!Saved(p, ok)
  <2>1. PICK ok \in BOOLEAN, p \in sent : Cluster!Saved(p, ok)
    BY <1>5
  <2>2. /\ ui' \in FormUi
        /\ ui'.loading = ui.loading /\ ui'.loaded = ui.loaded /\ sent' = {} /\ form' = form
    BY <2>1 DEF Cluster!Saved, FormUi
  <2>3. CASE UNCHANGED <<store, hist>>
    BY <2>2, <2>3 DEF Cluster!EditedOnly
  <2>4. CASE Cluster!Accepted(p) /\ store' = [set |-> p.set, key |-> IF p.key \in {"", "***"} THEN store.key ELSE p.key]
             /\ hist' = [hist EXCEPT !.saved = TRUE, !.form = p.form, !.rival = {}]
    <3>1. store' \in StoreState /\ store'.set = p.set /\ store'.set["checked"] # ""
      BY <2>4 DEF Cluster!Accepted, StoreState, ClusterSent, FormState
    <3>2. /\ hist' \in ClusterHistory
          /\ hist'.edited = hist.edited /\ hist'.rival = {} /\ hist'.form = p.form
      BY <2>4 DEF ClusterHistory, ClusterChanges, ClusterSent
    <3>3. \A f \in Cluster!Fields : f \notin hist.edited => p.set[f] = form.set[f]
      OBVIOUS
    <3>4. hist.edited = {} => p.set = form.set
      <4>1. p.set \in ClusterSettings /\ form.set \in ClusterSettings
        BY DEF ClusterSent, FormState
      <4> QED
        BY <3>3, <4>1, SameSettings
    <3> QED
      BY <2>2, <3>1, <3>2, <3>3, <3>4 DEF Cluster!EditedOnly
  <2> QED
    BY <2>1, <2>3, <2>4 DEF Cluster!Saved
<1>6. CASE \E f \in Cluster!Fields, v \in Values : Cluster!OtherSaves(f, v)
  <2>1. PICK f \in Cluster!Fields, v \in Values : Cluster!OtherSaves(f, v)
    BY <1>6
  <2>2. /\ store' \in StoreState /\ store'.set["checked"] # ""
        /\ \A g \in Cluster!Fields : g # f => store'.set[g] = store.set[g]
    <3>1. store' = [store EXCEPT !.set = [store.set EXCEPT ![f] = v]]
      BY <2>1 DEF Cluster!OtherSaves, StoreState
    <3>2. store.set \in ClusterSettings
      BY DEF StoreState
    <3> QED
      <4>1. \A x \in ClusterSettings : [store EXCEPT !.set = x] \in StoreState /\ [store EXCEPT !.set = x].set = x
        BY DEF StoreState
      <4>2. /\ [store.set EXCEPT ![f] = v] \in ClusterSettings /\ [store.set EXCEPT ![f] = v]["checked"] # ""
            /\ \A g \in Cluster!Fields : g # f => [store.set EXCEPT ![f] = v][g] = store.set[g]
        BY <3>2, SettingsChanged
      <4>3. store' \in StoreState /\ store'.set = [store.set EXCEPT ![f] = v]
        BY <3>1, <4>1, <4>2
      <4> QED
        BY <4>2, <4>3
  <2>3. /\ hist' \in ClusterHistory
        /\ hist'.edited = hist.edited /\ hist'.rival = hist.rival \cup {f} /\ hist'.saved = FALSE
    BY <1>0, <2>1 DEF Cluster!OtherSaves, ClusterHistory, ClusterChanges
  <2>4. sent' = sent /\ form' = form /\ ui' = ui
    BY <2>1 DEF Cluster!OtherSaves
  <2> QED
    BY <2>2, <2>3, <2>4 DEF Cluster!EditedOnly
<1>7. CASE Cluster!Reopen
  <2>1. /\ hist' \in ClusterHistory
        /\ hist'.edited = {} /\ hist'.rival = hist.rival /\ hist'.saved = hist.saved /\ hist'.form = hist.form
    BY <1>7 DEF Cluster!Reopen, ClusterHistory, ClusterChanges
  <2>2. /\ ui' \in FormUi /\ ui'.loaded = FALSE
        /\ form' \in FormState /\ sent' = {} /\ sent = {} /\ store' = store
    BY <1>0, <1>7 DEF Cluster!Reopen, FormUi
  <2> QED
    BY <2>1, <2>2 DEF Cluster!EditedOnly
<1> QED
  BY <1>1, <1>2, <1>3, <1>4, <1>5, <1>6, <1>7 DEF Cluster!ClusterNext, Cluster!ClusterSystem

(* The invariant implies the properties of the page.                         *)
LEMMA ClusterPromises == ClusterInv => Cluster!ClusterTypeOK /\ Cluster!KeyKept /\ Cluster!SavedComesBack
  BY DEF ClusterInv, Cluster!ClusterTypeOK, Cluster!KeyKept, StoreState, FormState, FormUi, ClusterSent, ClusterHistory, ClusterChanges, ClusterSettings

-----------------------------------------------------------------------------
(* NodesPage: a veil has a phase under way that lifts it; the timer of the *)
(* log and the requests of the form are of the node of their dialog,       *)
(* unless one was closed on them.                                          *)

NodesState == [loading : BOOLEAN, remote : BOOLEAN, listed : BOOLEAN, dialog : {"none", "form", "delete"},
               edits : NodeIds \cup {NoNode}, holds : NodeIds \cup {NoNode}, keyLoading : BOOLEAN]
ConsoleState == [node : NodeIds \cup {NoNode}, shows : NodeIds \cup {NoNode},
                 timer : NodeIds \cup {NoNode}, open : BOOLEAN]
NodePairs == (NodeIds \cup {NoNode}) \X (NodeIds \cup {NoNode})
NodesAsked == [quick : Nat, full : Nat, gets : SUBSET NodeIds, logs : SUBSET NodeIds,
               saves : SUBSET NodePairs, deletes : SUBSET NodeIds]

NodesInv ==
    /\ nodesUi \in NodesState /\ console \in ConsoleState /\ nodeReqs \in NodesAsked
    /\ left \in [form : BOOLEAN, log : BOOLEAN]
    /\ nodeReqs.quick + nodeReqs.full <= MaxFetches
    /\ nodesUi.dialog = "delete" => nodesUi.edits \in NodeIds
    \* A veil has a phase under way that lifts it.
    /\ nodesUi.loading => nodeReqs.quick > 0
    /\ nodesUi.remote => nodeReqs.quick + nodeReqs.full > 0
    \* A key is awaited for the form that is open, if none was closed on it.
    /\ ~left.form => /\ nodeReqs.gets # {} => nodesUi.dialog = "form"
                     /\ nodeReqs.gets \subseteq {nodesUi.edits}
                     /\ nodesUi.dialog = "form" => nodesUi.holds = nodesUi.edits
    /\ Nodes!SavedForNode
    \* The timer is of the console that is open, and so are the logs awaited.
    /\ console.open => console.node \in NodeIds
    /\ console.timer # NoNode => console.open /\ console.timer = console.node
    /\ ~left.log => /\ nodeReqs.logs # {} => console.open
                    /\ nodeReqs.logs \subseteq {console.node}
    /\ Nodes!LogOfNode

(* The page opens with its invariant.                                        *)
LEMMA NodesInitial == ASSUME Nodes!NodesAssumption, Nodes!NodesInit PROVE NodesInv
  BY DEF Nodes!NodesAssumption, Nodes!NodesInit, NodesInv, Nodes!Shut, Nodes!SavedForNode, Nodes!LogOfNode, NodesState, ConsoleState, NodesAsked

\* What the fetches go by, of the dialogs and of the console, in turn.
LEMMA NodesFetchKept ==
  ASSUME Nodes!NodesAssumption, NodesInv, nodesUi' \in NodesState, nodeReqs' \in NodesAsked, UNCHANGED <<console, left>>,
         nodesUi'.dialog = nodesUi.dialog, nodesUi'.edits = nodesUi.edits, nodesUi'.holds = nodesUi.holds,
         nodeReqs'.gets = nodeReqs.gets, nodeReqs'.logs = nodeReqs.logs, nodeReqs'.saves \subseteq nodeReqs.saves,
         nodeReqs'.quick + nodeReqs'.full <= MaxFetches,
         nodesUi'.loading => nodeReqs'.quick > 0,
         nodesUi'.remote => nodeReqs'.quick + nodeReqs'.full > 0
  PROVE  NodesInv'
  BY DEF NodesInv, Nodes!SavedForNode, Nodes!LogOfNode

(* What is enough of a step of the log console to keep the invariant.        *)
LEMMA NodesConsoleKept ==
  ASSUME Nodes!NodesAssumption, NodesInv, nodesUi' = nodesUi, console' \in ConsoleState,
         left' \in [form : BOOLEAN, log : BOOLEAN], left'.form = left.form,
         nodeReqs' \in NodesAsked, nodeReqs'.quick = nodeReqs.quick, nodeReqs'.full = nodeReqs.full,
         nodeReqs'.gets = nodeReqs.gets, nodeReqs'.saves = nodeReqs.saves,
         console'.open => console'.node \in NodeIds,
         console'.timer # NoNode => console'.open /\ console'.timer = console'.node,
         ~left'.log => /\ nodeReqs'.logs # {} => console'.open
                       /\ nodeReqs'.logs \subseteq {console'.node}
                       /\ console'.open => console'.shows \in {NoNode, console'.node}
  PROVE  NodesInv'
  BY DEF NodesInv, Nodes!SavedForNode, Nodes!LogOfNode

(* The same of a step of the form and the list.                              *)
LEMMA NodesFormKept ==
  ASSUME Nodes!NodesAssumption, NodesInv, console' = console, nodesUi' \in NodesState, nodeReqs' \in NodesAsked,
         left' \in [form : BOOLEAN, log : BOOLEAN], left'.log = left.log,
         nodesUi'.loading => nodesUi.loading \/ nodeReqs'.quick > 0,
         nodesUi'.remote => nodesUi.remote \/ nodeReqs'.quick > 0,
         nodeReqs'.full = nodeReqs.full, nodeReqs'.logs = nodeReqs.logs,
         nodeReqs'.quick >= nodeReqs.quick, nodeReqs'.quick + nodeReqs'.full <= MaxFetches,
         nodesUi'.dialog = "delete" => nodesUi'.edits \in NodeIds,
         ~left'.form => /\ nodeReqs'.gets # {} => nodesUi'.dialog = "form"
                        /\ nodeReqs'.gets \subseteq {nodesUi'.edits}
                        /\ nodesUi'.dialog = "form" => nodesUi'.holds = nodesUi'.edits
                        /\ \A s \in nodeReqs'.saves : s[1] = s[2]
  PROVE  NodesInv'
<1>1. nodeReqs.quick \in Nat /\ nodeReqs'.quick \in Nat /\ nodeReqs.full \in Nat
  BY DEF NodesInv, NodesAsked
<1>2. nodesUi'.loading => nodeReqs'.quick > 0
  BY <1>1 DEF NodesInv
<1>3. nodesUi'.remote => nodeReqs'.quick + nodeReqs'.full > 0
  BY <1>1 DEF NodesInv
<1> QED
  BY <1>1, <1>2, <1>3 DEF NodesInv, Nodes!SavedForNode, Nodes!LogOfNode

(* Each step of the page, its answers included, keeps the invariant.         *)
LEMMA NodesNextKept == ASSUME Nodes!NodesAssumption, NodesInv, Nodes!NodesNext PROVE NodesInv'
<1> DEFINE Left == [form : BOOLEAN, log : BOOLEAN]
<1>0. /\ nodesUi \in NodesState /\ console \in ConsoleState /\ nodeReqs \in NodesAsked /\ left \in Left
      /\ nodeReqs.quick \in Nat /\ nodeReqs.full \in Nat /\ MaxFetches \in Nat
      /\ nodeReqs.quick + nodeReqs.full <= MaxFetches
  BY DEF NodesInv, NodesAsked, Nodes!NodesAssumption
<1>f. ASSUME NEW u \in NodesState
      PROVE  /\ Nodes!Fetching(u) \in NodesState /\ Nodes!Fetching(u).dialog = u.dialog /\ Nodes!Fetching(u).edits = u.edits
             /\ Nodes!Fetching(u).holds = u.holds
  BY DEF Nodes!Fetching, NodesState
<1>1. CASE Nodes!FetchNodes
  <2>1. nodeReqs' \in NodesAsked /\ nodeReqs' = [nodeReqs EXCEPT !.quick = nodeReqs.quick + 1]
    BY <1>0, <1>1 DEF Nodes!FetchNodes, NodesAsked
  <2>2. nodesUi' = Nodes!Fetching(nodesUi) /\ UNCHANGED <<console, left>> /\ nodeReqs.quick + nodeReqs.full < MaxFetches
    BY <1>1 DEF Nodes!FetchNodes, Nodes!CanFetch
  <2>3. /\ nodeReqs'.quick = nodeReqs.quick + 1 /\ nodeReqs'.full = nodeReqs.full
        /\ nodeReqs'.gets = nodeReqs.gets /\ nodeReqs'.logs = nodeReqs.logs /\ nodeReqs'.saves = nodeReqs.saves
    BY <1>0, <2>1 DEF NodesAsked
  <2>4. nodeReqs'.quick + nodeReqs'.full <= MaxFetches /\ nodeReqs'.quick > 0 /\ nodeReqs'.quick + nodeReqs'.full > 0
    BY <1>0, <2>2, <2>3
  <2> QED
    BY <1>0, <1>f, <2>1, <2>2, <2>3, <2>4, NodesFetchKept
<1>2. CASE \E ok \in BOOLEAN : Nodes!QuickAnswer(ok)
  <2>1. nodeReqs' = [nodeReqs EXCEPT !.quick = nodeReqs.quick - 1, !.full = nodeReqs.full + 1] /\ nodeReqs.quick > 0
    BY <1>2 DEF Nodes!QuickAnswer
  <2>2. nodeReqs.quick - 1 \in Nat /\ nodeReqs.full + 1 \in Nat
    BY <1>0, <2>1
  <2>3. /\ nodeReqs' \in NodesAsked /\ nodeReqs'.quick = nodeReqs.quick - 1 /\ nodeReqs'.full = nodeReqs.full + 1
        /\ nodeReqs'.gets = nodeReqs.gets /\ nodeReqs'.logs = nodeReqs.logs /\ nodeReqs'.saves = nodeReqs.saves
    BY <1>0, <2>1, <2>2 DEF NodesAsked
  <2>4. /\ nodesUi' \in NodesState /\ nodesUi'.loading = FALSE /\ nodesUi'.dialog = nodesUi.dialog
        /\ nodesUi'.edits = nodesUi.edits /\ nodesUi'.holds = nodesUi.holds
    BY <1>0, <1>2 DEF Nodes!QuickAnswer, NodesState
  <2>5. nodeReqs'.quick + nodeReqs'.full <= MaxFetches /\ nodeReqs'.quick + nodeReqs'.full > 0
    BY <1>0, <2>1, <2>3
  <2> QED
    BY <1>2, <2>3, <2>4, <2>5, NodesFetchKept DEF Nodes!QuickAnswer
<1>3. CASE \E ok \in BOOLEAN : Nodes!FullAnswer(ok)
  <2>1. nodeReqs' = [nodeReqs EXCEPT !.full = nodeReqs.full - 1] /\ nodeReqs.full > 0
    BY <1>3 DEF Nodes!FullAnswer
  <2>2. nodeReqs.full - 1 \in Nat
    BY <1>0, <2>1
  <2>3. /\ nodeReqs' \in NodesAsked /\ nodeReqs'.quick = nodeReqs.quick /\ nodeReqs'.full = nodeReqs.full - 1
        /\ nodeReqs'.gets = nodeReqs.gets /\ nodeReqs'.logs = nodeReqs.logs /\ nodeReqs'.saves = nodeReqs.saves
    BY <1>0, <2>1, <2>2 DEF NodesAsked
  <2>4. /\ nodesUi' \in NodesState /\ nodesUi'.loading = nodesUi.loading /\ nodesUi'.remote = FALSE
        /\ nodesUi'.dialog = nodesUi.dialog /\ nodesUi'.edits = nodesUi.edits /\ nodesUi'.holds = nodesUi.holds
    BY <1>0, <1>3 DEF Nodes!FullAnswer, NodesState
  <2>5. nodeReqs'.quick + nodeReqs'.full <= MaxFetches
    BY <1>0, <2>1, <2>3
  <2>6. nodesUi'.loading => nodeReqs'.quick > 0
    BY <2>3, <2>4 DEF NodesInv
  <2> QED
    BY <1>3, <2>3, <2>4, <2>5, <2>6, NodesFetchKept DEF Nodes!FullAnswer
<1>4. CASE Nodes!OpenAdd
  BY <1>0, <1>4 DEF NodesInv, Nodes!SavedForNode, Nodes!LogOfNode, Nodes!OpenAdd, NodesState
<1>5. CASE \E n \in NodeIds : Nodes!OpenEdit(n)
  <2>1. PICK n \in NodeIds : Nodes!OpenEdit(n)
    BY <1>5
  <2>2. /\ nodesUi' \in NodesState /\ nodesUi'.loading = nodesUi.loading /\ nodesUi'.remote = nodesUi.remote
        /\ nodesUi'.dialog = "form" /\ nodesUi'.edits = n /\ nodesUi'.holds = n /\ nodesUi.dialog = "none"
    BY <1>0, <2>1 DEF Nodes!OpenEdit, Nodes!Cards, NodesState
  <2>3. /\ nodeReqs' \in NodesAsked /\ nodeReqs'.quick = nodeReqs.quick /\ nodeReqs'.full = nodeReqs.full
        /\ nodeReqs'.gets = nodeReqs.gets \cup {n} /\ nodeReqs'.logs = nodeReqs.logs /\ nodeReqs'.saves = nodeReqs.saves
    BY <1>0, <2>1 DEF Nodes!OpenEdit, NodesAsked
  <2>4. ~left.form => nodeReqs.gets = {}
    BY <2>2 DEF NodesInv
  <2>5. ~left.form => \A s \in nodeReqs.saves : s[1] = s[2]
    BY DEF NodesInv, Nodes!SavedForNode
  <2>6. UNCHANGED <<console, left>>
    BY <2>1 DEF Nodes!OpenEdit
  <2>7. nodeReqs'.quick >= nodeReqs.quick /\ nodeReqs'.quick + nodeReqs'.full <= MaxFetches
    BY <1>0, <2>3
  <2> QED
    BY <1>0, <2>2, <2>3, <2>4, <2>5, <2>6, <2>7, NodesFormKept
<1>6. CASE \E n \in NodeIds : \E ok \in BOOLEAN : Nodes!KeyAnswer(n, ok)
  <2>1. PICK n \in NodeIds, ok \in BOOLEAN : Nodes!KeyAnswer(n, ok)
    BY <1>6
  <2>2. /\ nodesUi' \in NodesState /\ nodesUi'.loading = nodesUi.loading /\ nodesUi'.remote = nodesUi.remote
        /\ nodesUi'.dialog = nodesUi.dialog /\ nodesUi'.edits = nodesUi.edits
        /\ nodesUi'.holds \in {n, nodesUi.holds}
    BY <1>0, <2>1 DEF Nodes!KeyAnswer, NodesState
  <2>3. /\ nodeReqs' \in NodesAsked /\ nodeReqs'.quick = nodeReqs.quick /\ nodeReqs'.full = nodeReqs.full
        /\ nodeReqs'.gets = nodeReqs.gets \ {n} /\ nodeReqs'.logs = nodeReqs.logs /\ nodeReqs'.saves = nodeReqs.saves
    BY <1>0, <2>1 DEF Nodes!KeyAnswer, NodesAsked
  <2>4. ~left.form => nodesUi.dialog = "form" /\ nodesUi.edits = n /\ nodesUi.holds = n /\ nodeReqs.gets = {n}
    BY <2>1 DEF NodesInv, Nodes!KeyAnswer
  <2>5. ~left.form => \A s \in nodeReqs.saves : s[1] = s[2]
    BY DEF NodesInv, Nodes!SavedForNode
  <2>6. UNCHANGED <<console, left>>
    BY <2>1 DEF Nodes!KeyAnswer
  <2>7. nodeReqs'.quick >= nodeReqs.quick /\ nodeReqs'.quick + nodeReqs'.full <= MaxFetches
    BY <1>0, <2>3
  <2>8. nodesUi.dialog = "delete" => nodesUi.edits \in NodeIds
    BY DEF NodesInv
  <2> QED
    BY <1>0, <2>2, <2>3, <2>4, <2>5, <2>6, <2>7, <2>8, NodesFormKept
<1>7. CASE Nodes!CloseForm
  BY <1>0, <1>7 DEF NodesInv, Nodes!SavedForNode, Nodes!LogOfNode, Nodes!CloseForm, NodesState
<1>8. CASE Nodes!SaveNode
  BY <1>0, <1>8 DEF NodesInv, Nodes!SavedForNode, Nodes!LogOfNode, Nodes!SaveNode, NodesState, NodesAsked, NodePairs
<1>9. CASE \E ok \in BOOLEAN : \E s \in nodeReqs.saves : Nodes!SaveAnswer(s, ok)
  <2>1. PICK ok \in BOOLEAN, s \in nodeReqs.saves : Nodes!SaveAnswer(s, ok)
    BY <1>9
  <2>2. CASE ok = FALSE
    <3>1. nodeReqs' = [nodeReqs EXCEPT !.saves = {}, !.quick = nodeReqs.quick] /\ UNCHANGED <<nodesUi, console>>
      BY <2>1, <2>2 DEF Nodes!SaveAnswer
    <3>2. left' = left
      BY <1>0, <2>1, <2>2 DEF Nodes!SaveAnswer
    <3>3. nodeReqs' \in NodesAsked /\ nodeReqs' = [nodeReqs EXCEPT !.saves = {}]
      BY <1>0, <3>1 DEF NodesAsked
    <3> QED
      BY <1>0, <3>1, <3>2, <3>3 DEF NodesInv, Nodes!SavedForNode, Nodes!LogOfNode, NodesAsked
  <2>3. CASE ok = TRUE
    <3>1. /\ nodeReqs' = [nodeReqs EXCEPT !.saves = {}, !.quick = nodeReqs.quick + 1]
          /\ nodeReqs.quick + nodeReqs.full < MaxFetches /\ console' = console
      BY <2>1, <2>3 DEF Nodes!SaveAnswer, Nodes!CanFetch
    <3>2. /\ nodeReqs' \in NodesAsked /\ nodeReqs'.quick = nodeReqs.quick + 1 /\ nodeReqs'.full = nodeReqs.full
          /\ nodeReqs'.gets = nodeReqs.gets /\ nodeReqs'.logs = nodeReqs.logs /\ nodeReqs'.saves = {}
      <4>1. \A q \in Nat : /\ [nodeReqs EXCEPT !.saves = {}, !.quick = q] \in NodesAsked
                            /\ [nodeReqs EXCEPT !.saves = {}, !.quick = q].quick = q
        BY <1>0 DEF NodesAsked
      <4>2. nodeReqs.quick + 1 \in Nat
        BY <1>0
      <4>3. nodeReqs' \in NodesAsked /\ nodeReqs'.quick = nodeReqs.quick + 1
        BY <3>1, <4>1, <4>2
      <4> QED
        BY <1>0, <3>1, <4>3 DEF NodesAsked
    <3>3. [nodesUi EXCEPT !.dialog = IF @ = "form" THEN "none" ELSE @] \in NodesState
      BY <1>0 DEF NodesState
    <3>4. /\ nodesUi' \in NodesState /\ nodesUi'.edits = nodesUi.edits /\ nodesUi'.holds = nodesUi.holds
          /\ nodesUi'.dialog = IF nodesUi.dialog = "form" THEN "none" ELSE nodesUi.dialog
      BY <1>0, <1>f, <2>1, <2>3, <3>3 DEF Nodes!SaveAnswer, NodesState
    <3>5. /\ left' \in Left /\ left'.log = left.log
          /\ left'.form = (left.form \/ (nodesUi.dialog = "form" /\ nodeReqs.gets # {}))
      BY <1>0, <2>1, <2>3 DEF Nodes!SaveAnswer
    <3>6. nodeReqs'.quick >= nodeReqs.quick /\ nodeReqs'.quick + nodeReqs'.full <= MaxFetches /\ nodeReqs'.quick > 0
      BY <1>0, <3>1, <3>2
    <3>7. ~left'.form => nodeReqs.gets = {}
      BY <3>5 DEF NodesInv
    <3>8. nodesUi.dialog = "delete" => nodesUi.edits \in NodeIds
      BY DEF NodesInv
    <3> QED
      BY <3>1, <3>2, <3>4, <3>5, <3>6, <3>7, <3>8, NodesFormKept
  <2> QED
    BY <2>2, <2>3
<1>10. CASE \E n \in NodeIds : Nodes!AskDelete(n)
  BY <1>0, <1>10 DEF NodesInv, Nodes!SavedForNode, Nodes!LogOfNode, Nodes!AskDelete, Nodes!Cards, NodesState
<1>11. CASE Nodes!CloseDelete
  BY <1>0, <1>11 DEF NodesInv, Nodes!SavedForNode, Nodes!LogOfNode, Nodes!CloseDelete, NodesState
<1>12. CASE Nodes!DeleteNode
  BY <1>0, <1>12 DEF NodesInv, Nodes!SavedForNode, Nodes!LogOfNode, Nodes!DeleteNode, NodesAsked
<1>13. CASE \E n \in NodeIds : \E ok \in BOOLEAN : Nodes!DeleteAnswer(n, ok)
  <2>1. PICK n \in NodeIds, ok \in BOOLEAN : Nodes!DeleteAnswer(n, ok)
    BY <1>13
  <2>2. CASE ok = FALSE
    <3>1. nodeReqs' = [nodeReqs EXCEPT !.deletes = {}, !.quick = nodeReqs.quick] /\ UNCHANGED <<nodesUi, console, left>>
      BY <2>1, <2>2 DEF Nodes!DeleteAnswer
    <3>2. nodeReqs' \in NodesAsked /\ nodeReqs' = [nodeReqs EXCEPT !.deletes = {}]
      BY <1>0, <3>1 DEF NodesAsked
    <3> QED
      BY <1>0, <3>1, <3>2 DEF NodesInv, Nodes!SavedForNode, Nodes!LogOfNode, NodesAsked
  <2>3. CASE ok = TRUE
    <3>1. /\ nodeReqs' = [nodeReqs EXCEPT !.deletes = {}, !.quick = nodeReqs.quick + 1]
          /\ nodeReqs.quick + nodeReqs.full < MaxFetches /\ UNCHANGED <<console, left>>
      BY <2>1, <2>3 DEF Nodes!DeleteAnswer, Nodes!CanFetch
    <3>2. /\ nodeReqs' \in NodesAsked /\ nodeReqs'.quick = nodeReqs.quick + 1 /\ nodeReqs'.full = nodeReqs.full
          /\ nodeReqs'.gets = nodeReqs.gets /\ nodeReqs'.logs = nodeReqs.logs /\ nodeReqs'.saves = nodeReqs.saves
      <4>1. \A q \in Nat : /\ [nodeReqs EXCEPT !.deletes = {}, !.quick = q] \in NodesAsked
                            /\ [nodeReqs EXCEPT !.deletes = {}, !.quick = q].quick = q
        BY <1>0 DEF NodesAsked
      <4>2. nodeReqs.quick + 1 \in Nat
        BY <1>0
      <4>3. nodeReqs' \in NodesAsked /\ nodeReqs'.quick = nodeReqs.quick + 1
        BY <3>1, <4>1, <4>2
      <4> QED
        BY <1>0, <3>1, <4>3 DEF NodesAsked
    <3>3. [nodesUi EXCEPT !.dialog = IF @ = "delete" THEN "none" ELSE @] \in NodesState
      BY <1>0 DEF NodesState
    <3>4. /\ nodesUi' \in NodesState /\ nodesUi'.edits = nodesUi.edits /\ nodesUi'.holds = nodesUi.holds
          /\ nodesUi'.dialog = IF nodesUi.dialog = "delete" THEN "none" ELSE nodesUi.dialog
      BY <1>0, <1>f, <2>1, <2>3, <3>3 DEF Nodes!DeleteAnswer, NodesState
    <3>5. nodeReqs'.quick >= nodeReqs.quick /\ nodeReqs'.quick + nodeReqs'.full <= MaxFetches /\ nodeReqs'.quick > 0
      BY <1>0, <3>1, <3>2
    <3>6. ~left.form => /\ nodeReqs.gets # {} => nodesUi.dialog = "form"
                        /\ nodeReqs.gets \subseteq {nodesUi.edits}
                        /\ nodesUi.dialog = "form" => nodesUi.holds = nodesUi.edits
                        /\ \A s \in nodeReqs.saves : s[1] = s[2]
      BY DEF NodesInv, Nodes!SavedForNode
    <3> QED
      BY <1>0, <3>1, <3>2, <3>4, <3>5, <3>6, NodesFormKept
  <2> QED
    BY <2>2, <2>3
<1>14. CASE \E n \in NodeIds : Nodes!OpenConsole(n)
  <2>1. PICK n \in NodeIds : Nodes!OpenConsole(n)
    BY <1>14
  <2>2. /\ console' \in ConsoleState /\ console'.open = TRUE /\ console'.node = n /\ console'.shows = NoNode
        /\ console'.timer = console.timer /\ console.open = FALSE
    BY <1>0, <2>1 DEF Nodes!OpenConsole, Nodes!Cards, ConsoleState
  <2>3. /\ nodeReqs' \in NodesAsked /\ nodeReqs'.quick = nodeReqs.quick /\ nodeReqs'.full = nodeReqs.full
        /\ nodeReqs'.gets = nodeReqs.gets /\ nodeReqs'.logs = nodeReqs.logs \cup {n} /\ nodeReqs'.saves = nodeReqs.saves
    BY <1>0, <2>1 DEF Nodes!OpenConsole, NodesAsked
  <2>4. console.timer = NoNode /\ (~left.log => nodeReqs.logs = {})
    BY <2>2 DEF NodesInv
  <2> QED
    BY <1>0, <2>1, <2>2, <2>3, <2>4, NodesConsoleKept DEF Nodes!OpenConsole
<1>15. CASE Nodes!CloseConsole
  <2>1. /\ console' \in ConsoleState /\ console'.open = FALSE /\ console'.timer = NoNode /\ console'.node = console.node
    BY <1>0, <1>15 DEF Nodes!CloseConsole, ConsoleState
  <2>2. /\ left' \in Left /\ left'.form = left.form /\ left'.log = (left.log \/ nodeReqs.logs # {})
    BY <1>0, <1>15 DEF Nodes!CloseConsole
  <2> QED
    BY <1>0, <1>15, <2>1, <2>2, NodesConsoleKept DEF Nodes!CloseConsole
<1>16. CASE Nodes!ToggleAuto
  <2>1. /\ console' \in ConsoleState /\ console'.open = console.open /\ console'.node = console.node
        /\ console'.shows = console.shows /\ console'.timer \in {NoNode, console.node} /\ console.open
    BY <1>0, <1>16 DEF Nodes!ToggleAuto, ConsoleState
  <2>2. UNCHANGED <<nodesUi, nodeReqs, left>>
    BY <1>16 DEF Nodes!ToggleAuto
  <2> QED
    BY <1>0, <2>1, <2>2 DEF NodesInv, Nodes!SavedForNode, Nodes!LogOfNode
<1>17. CASE Nodes!RefreshLog \/ Nodes!LogTick
  <2>1. PICK n \in {console.node, console.timer} :
          nodeReqs' = [nodeReqs EXCEPT !.logs = nodeReqs.logs \cup {n}] /\ console.open /\ n = console.node
    BY <1>17 DEF Nodes!RefreshLog, Nodes!LogTick, NodesInv
  <2>2. console.node \in NodeIds /\ UNCHANGED <<nodesUi, console, left>>
    BY <1>17, <2>1 DEF Nodes!RefreshLog, Nodes!LogTick, NodesInv
  <2>3. /\ nodeReqs' \in NodesAsked /\ nodeReqs'.quick = nodeReqs.quick /\ nodeReqs'.full = nodeReqs.full
        /\ nodeReqs'.gets = nodeReqs.gets /\ nodeReqs'.logs = nodeReqs.logs \cup {console.node}
        /\ nodeReqs'.saves = nodeReqs.saves
    BY <1>0, <2>1, <2>2 DEF NodesAsked
  <2> QED
    BY <1>0, <2>1, <2>2, <2>3 DEF NodesInv, Nodes!SavedForNode, Nodes!LogOfNode
<1>18. CASE \E n \in NodeIds : Nodes!LogAnswer(n)
  BY <1>0, <1>18 DEF NodesInv, Nodes!SavedForNode, Nodes!LogOfNode, Nodes!LogAnswer, ConsoleState, NodesAsked
<1> QED
  BY <1>1, <1>2, <1>3, <1>4, <1>5, <1>6, <1>7, <1>8, <1>9, <1>10, <1>11, <1>12, <1>13, <1>14, <1>15, <1>16,
     <1>17, <1>18 DEF Nodes!NodesNext, Nodes!NodesSystem

(* The invariant implies the properties of the page.                         *)
LEMMA NodesPromises ==
  ASSUME Nodes!NodesAssumption, NodesInv
  PROVE  Nodes!NodesTypeOK /\ Nodes!NodesSettle /\ Nodes!SavedForNode /\ Nodes!LogOfNode
<1>1. nodeReqs.quick \in 0..MaxFetches /\ nodeReqs.full \in 0..MaxFetches
  BY DEF NodesInv, Nodes!NodesAssumption, NodesAsked
<1> QED
  BY <1>1 DEF NodesInv, Nodes!NodesTypeOK, Nodes!NodesSettle, NodesState, ConsoleState, NodesAsked, NodePairs

-----------------------------------------------------------------------------
(* AlertPage: a fetch brings the rule the manager has, unless another      *)
(* fetch will; while the switch was flipped once at a time, its answer is  *)
(* the only one.                                                           *)

AlertsStored == [rule : Alerts!RuleStates, mail : SUBSET Insts, allow : BOOLEAN, password : {"old", "new", "empty"}]
AlertsShown == [shown : Alerts!RuleStates, allow : BOOLEAN, typed : BOOLEAN, dialog : {"none", "rule", "mail", "delete"},
                selected : SUBSET Insts, loading : BOOLEAN, fetched : {"never", "ok", "overtaken", "lost", "failed"},
                flips : {"one", "many", "lost"}, asks : Nat]
AlertsMailing == [all : SUBSET Insts, todo : SUBSET Insts, state : {"idle", "runs", "done", "failed"}]
AlertsAsked == [op : {"fetch", "rule", "allow", "smtp"}, to : {"none", "on", "off", "same", "new"},
                allow : BOOLEAN, served : BOOLEAN, passed : BOOLEAN]

AlertAllows == {r \in alertReqs : r.op = "allow"}
AlertFetches == {r \in alertReqs : r.op = "fetch"}

\* What one click of the switch has left to do.
SwitchInStep ==
    /\ \A r, q \in AlertAllows : r = q
    /\ AlertAllows = {} => alertUi.allow = stored.allow
    /\ \A r \in AlertAllows : alertUi.allow = r.allow /\ stored.allow = ~r.allow
    /\ \A r \in AlertFetches : r.served => r.allow = stored.allow

\* A fetch that was served and not overtaken brings the rule, or another follows.
FetchesInStep ==
    /\ \A r \in AlertFetches : r.served /\ ~r.passed => r.to = stored.rule \/ \E q \in AlertFetches : q # r
    /\ alertUi.fetched = "ok" => alertUi.shown = stored.rule \/ AlertFetches # {}

AlertsTyped ==
    /\ stored \in AlertsStored /\ alertUi \in AlertsShown /\ mailing \in AlertsMailing
    /\ alertReqs \subseteq AlertsAsked
    /\ \A r \in alertReqs : /\ r.op = "fetch" => r.to \in Alerts!RuleStates /\ (r.passed => r.served)
                            /\ r.op = "rule" => r.to \in Alerts!RuleStates \cup {"same"}
                            /\ r.op = "smtp" => r.to \in {"same", "new"}

MailsInStep ==
    /\ mailing.todo \subseteq mailing.all
    /\ mailing.state \in {"runs", "done"} => mailing.all \ mailing.todo \subseteq stored.mail
    /\ mailing.state = "done" => mailing.todo = {}

AlertInv ==
    /\ AlertsTyped /\ FetchesInStep /\ MailsInStep
    /\ alertUi.flips = "one" => SwitchInStep

(* The fetch that is sent is neither served nor passed by a change yet.      *)
LEMMA FetchTyped ==
  /\ Alerts!Fetch \in AlertsAsked /\ Alerts!Fetch.op = "fetch" /\ Alerts!Fetch.to = "none" /\ Alerts!Fetch.served = FALSE /\ Alerts!Fetch.passed = FALSE
  /\ Alerts!Fetch.allow = FALSE
  BY DEF Alerts!Fetch, AlertsAsked

(* The change that is sent carries what was asked for.                       *)
LEMMA AskTyped ==
  ASSUME NEW o \in {"rule", "allow", "smtp"}, NEW t \in {"none", "on", "off", "same", "new"}
  PROVE  /\ Alerts!Ask(o, t) \in AlertsAsked /\ Alerts!Ask(o, t).op = o /\ Alerts!Ask(o, t).to = t
         /\ \A b \in BOOLEAN : /\ [Alerts!Ask(o, t) EXCEPT !.allow = b] \in AlertsAsked
                               /\ [Alerts!Ask(o, t) EXCEPT !.allow = b].op = o
                               /\ [Alerts!Ask(o, t) EXCEPT !.allow = b].to = t
                               /\ [Alerts!Ask(o, t) EXCEPT !.allow = b].allow = b
  BY DEF Alerts!Ask, Alerts!Fetch, AlertsAsked

\* What becomes of a request another answer overtakes.
AlertUndone(s) == [s EXCEPT !.passed = @ \/ s.served]

(* What was served by now is passed; nothing else of a request changes.      *)
LEMMA OvertakenIs ==
  ASSUME NEW rs \in SUBSET AlertsAsked
  PROVE  /\ Alerts!Overtaken(rs) = {AlertUndone(s) : s \in rs}
         /\ \A s \in rs : /\ AlertUndone(s) \in AlertsAsked /\ AlertUndone(s).op = s.op /\ AlertUndone(s).to = s.to
                          /\ AlertUndone(s).allow = s.allow /\ AlertUndone(s).served = s.served
                          /\ AlertUndone(s).served <=> s.served
                          /\ AlertUndone(s).passed <=> s.passed \/ s.served
<1>1. \A s \in AlertsAsked : /\ AlertUndone(s) \in AlertsAsked /\ AlertUndone(s).op = s.op /\ AlertUndone(s).to = s.to
                             /\ AlertUndone(s).allow = s.allow /\ AlertUndone(s).served = s.served
                             /\ AlertUndone(s).served <=> s.served
                             /\ AlertUndone(s).passed <=> s.passed \/ s.served
  BY DEF AlertsAsked, AlertUndone
<1>2. Alerts!Overtaken(rs) = {AlertUndone(s) : s \in rs}
  BY DEF Alerts!Overtaken, AlertUndone
<1> QED
  BY <1>1, <1>2

(* So the requests keep their kinds, and one of a kind remains one.          *)
LEMMA OvertakenKinds ==
  ASSUME AlertsTyped, NEW rs \in SUBSET alertReqs, alertReqs' = Alerts!Overtaken(rs)
  PROVE  /\ alertReqs' \subseteq AlertsAsked
         /\ \A x \in alertReqs' : /\ x.op = "fetch" => x.to \in Alerts!RuleStates /\ (x.passed => x.served)
                                  /\ x.op = "rule" => x.to \in Alerts!RuleStates \cup {"same"}
                                  /\ x.op = "smtp" => x.to \in {"same", "new"}
         /\ \A x \in AlertAllows' : \E s \in AlertAllows : s \in rs /\ x = AlertUndone(s) /\ x.allow = s.allow
         /\ \A s \in AlertAllows : s \in rs => AlertUndone(s) \in AlertAllows'
         /\ \A x \in AlertFetches' : \E s \in AlertFetches :
                s \in rs /\ x = AlertUndone(s) /\ x.allow = s.allow /\ x.served = s.served
         /\ \A x \in AlertFetches' : x.served => x.passed
         /\ \A s \in AlertFetches : s \in rs => AlertUndone(s) \in AlertFetches'
<1>0. rs \in SUBSET AlertsAsked
  BY DEF AlertsTyped
<1>1. \A x \in alertReqs' : \E s \in rs : s \in AlertsAsked /\ x = AlertUndone(s)
  BY <1>0, OvertakenIs
<1>2. \A s \in rs : AlertUndone(s) \in alertReqs' /\ s \in AlertsAsked
  BY <1>0, OvertakenIs
<1>3. \A s \in rs : /\ s.op = "fetch" => s.to \in Alerts!RuleStates /\ (s.passed => s.served)
                    /\ s.op = "rule" => s.to \in Alerts!RuleStates \cup {"same"}
                    /\ s.op = "smtp" => s.to \in {"same", "new"}
  BY DEF AlertsTyped
<1>4. \A x \in alertReqs' : x \in AlertsAsked
  BY <1>0, <1>1, OvertakenIs
<1>5. \A x \in alertReqs' : /\ x.op = "fetch" => x.to \in Alerts!RuleStates /\ (x.passed => x.served)
                            /\ x.op = "rule" => x.to \in Alerts!RuleStates \cup {"same"}
                            /\ x.op = "smtp" => x.to \in {"same", "new"}
  BY <1>0, <1>1, <1>3, OvertakenIs
<1>6. /\ \A x \in AlertAllows' : \E s \in AlertAllows : s \in rs /\ x = AlertUndone(s) /\ x.allow = s.allow
      /\ \A s \in AlertAllows : s \in rs => AlertUndone(s) \in AlertAllows'
  BY <1>0, <1>1, <1>2, OvertakenIs DEF AlertAllows
<1>7. /\ \A x \in AlertFetches' : \E s \in AlertFetches :
             s \in rs /\ x = AlertUndone(s) /\ x.allow = s.allow /\ x.served = s.served
      /\ \A x \in AlertFetches' : x.served => x.passed
      /\ \A s \in AlertFetches : s \in rs => AlertUndone(s) \in AlertFetches'
  BY <1>0, <1>1, <1>2, OvertakenIs DEF AlertFetches
<1> QED
  BY <1>4, <1>5, <1>6, <1>7

(* The page opens with its invariant.                                        *)
LEMMA AlertInitial == ASSUME Alerts!AlertAssumption, Alerts!AlertInit PROVE AlertInv
<1>1. stored \in AlertsStored /\ stored.rule \in {"none", "on"} /\ stored.mail = {} /\ stored.allow = FALSE
  BY DEF Alerts!AlertInit, AlertsStored, Alerts!RuleStates
<1>2. alertUi \in AlertsShown /\ alertUi.allow = FALSE /\ alertUi.fetched = "never"
  BY DEF Alerts!AlertInit, AlertsShown, Alerts!RuleStates
<1>3. mailing \in AlertsMailing /\ mailing.todo = {} /\ mailing.all = {}
  BY DEF Alerts!AlertInit, AlertsMailing, Alerts!Quiet
<1>4. alertReqs = {Alerts!Fetch}
  BY DEF Alerts!AlertInit
<1>5. AlertsTyped
  BY <1>1, <1>2, <1>3, <1>4, FetchTyped DEF AlertsTyped, Alerts!RuleStates
<1>6. FetchesInStep
  BY <1>2, <1>4, FetchTyped DEF FetchesInStep, AlertFetches
<1>7. MailsInStep
  BY <1>3 DEF MailsInStep
<1>8. SwitchInStep
  BY <1>1, <1>2, <1>4, FetchTyped DEF SwitchInStep, AlertAllows, AlertFetches
<1> QED
  BY <1>5, <1>6, <1>7, <1>8 DEF AlertInv

\* The steps that touch neither what is stored nor what is asked.
LEMMA AlertUiKept ==
  ASSUME AlertInv, UNCHANGED <<stored, alertReqs>>, alertUi' \in AlertsShown, mailing' \in AlertsMailing,
         alertUi'.allow = alertUi.allow, alertUi'.shown = alertUi.shown, alertUi'.fetched = alertUi.fetched,
         alertUi'.flips = alertUi.flips, MailsInStep'
  PROVE  AlertInv'
  BY DEF AlertInv, AlertsTyped, FetchesInStep, SwitchInStep, AlertAllows, AlertFetches

\* A request that is neither a fetch nor of the switch is sent.
LEMMA AlertAskKept ==
  ASSUME Alerts!AlertAssumption, AlertInv, UNCHANGED <<stored, mailing>>, NEW o \in {"rule", "smtp"},
         NEW t \in {"none", "on", "off", "same", "new"},
         o = "rule" => t \in Alerts!RuleStates \cup {"same"}, o = "smtp" => t \in {"same", "new"},
         alertReqs' = alertReqs \cup {Alerts!Ask(o, t)}, Alerts!Asking(alertUi)
  PROVE  AlertInv'
<1>1. /\ alertUi' \in AlertsShown /\ alertUi'.allow = alertUi.allow /\ alertUi'.shown = alertUi.shown
      /\ alertUi'.fetched = alertUi.fetched /\ alertUi'.flips = alertUi.flips
  <2>1. alertUi' = [alertUi EXCEPT !.asks = alertUi.asks + 1] /\ alertUi \in AlertsShown
    BY DEF Alerts!Asking, AlertInv, AlertsTyped
  <2>2. \A q \in Nat : [alertUi EXCEPT !.asks = q] \in AlertsShown
    BY <2>1 DEF AlertsShown
  <2>3. alertUi.asks + 1 \in Nat
    BY <2>1 DEF AlertsShown
  <2> QED
    BY <2>1, <2>2, <2>3 DEF AlertsShown
<1>2. Alerts!Ask(o, t) \in AlertsAsked /\ Alerts!Ask(o, t).op = o /\ Alerts!Ask(o, t).to = t
  BY AskTyped
<1>3. AlertAllows' = AlertAllows /\ AlertFetches' = AlertFetches
  BY <1>2 DEF AlertAllows, AlertFetches
<1>4. AlertsTyped'
  BY <1>1, <1>2 DEF AlertInv, AlertsTyped
<1> QED
  BY <1>1, <1>3, <1>4 DEF AlertInv, FetchesInStep, SwitchInStep, MailsInStep

(* Each step of the page, its answers included, keeps the invariant.         *)
LEMMA AlertNextKept ==
  ASSUME Alerts!AlertAssumption, AlertInv, Alerts!AlertNext
  PROVE  AlertInv' /\ Alerts!ReplacedOnly
<1>0. /\ stored \in AlertsStored /\ alertUi \in AlertsShown /\ mailing \in AlertsMailing
      /\ alertReqs \subseteq AlertsAsked
  BY DEF AlertInv, AlertsTyped
<1>1. CASE Alerts!CreatedMails
  <2>1. alertReqs' = alertReqs \cup {Alerts!Fetch} /\ stored' = stored
    BY <1>1 DEF Alerts!CreatedMails
  <2>2. /\ alertUi' \in AlertsShown /\ alertUi'.allow = alertUi.allow /\ alertUi'.shown = alertUi.shown
        /\ alertUi'.fetched = alertUi.fetched /\ alertUi'.flips = alertUi.flips
    BY <1>0, <1>1 DEF Alerts!CreatedMails, AlertsShown
  <2>3. mailing' \in AlertsMailing /\ MailsInStep'
    BY <1>0, <1>1 DEF Alerts!CreatedMails, AlertsMailing, AlertInv, MailsInStep
  <2>4. AlertAllows' = AlertAllows /\ AlertFetches' = AlertFetches \cup {Alerts!Fetch}
    BY <2>1, FetchTyped DEF AlertAllows, AlertFetches
  <2>5. AlertsTyped'
    BY <2>1, <2>2, <2>3, FetchTyped DEF AlertInv, AlertsTyped, Alerts!RuleStates
  <2>6. FetchesInStep'
    BY <2>1, <2>2, <2>4, FetchTyped DEF AlertInv, FetchesInStep
  <2>7. alertUi'.flips = "one" => SwitchInStep'
    BY <2>1, <2>2, <2>4, FetchTyped DEF AlertInv, SwitchInStep
  <2> QED
    BY <2>1, <2>3, <2>5, <2>6, <2>7 DEF AlertInv, Alerts!ReplacedOnly
<1>2. CASE \E r \in alertReqs : Alerts!FetchServe(r)
  <2>1. PICK r \in alertReqs : Alerts!FetchServe(r)
    BY <1>2
  <2>2. r \in AlertsAsked /\ r.op = "fetch" /\ r.served = FALSE /\ r.passed = FALSE
    BY <1>0, <2>1 DEF Alerts!FetchServe, AlertInv, AlertsTyped, AlertsAsked
  <2> DEFINE q == [r EXCEPT !.to = stored.rule, !.allow = stored.allow, !.served = TRUE]
  <2>3. /\ q \in AlertsAsked /\ q.op = "fetch" /\ q.to = stored.rule /\ q.allow = stored.allow /\ q.served = TRUE
        /\ q.passed = FALSE /\ stored.rule \in Alerts!RuleStates
    BY <1>0, <2>2 DEF AlertsAsked, AlertsStored, Alerts!RuleStates
  <2>4. alertReqs' = (alertReqs \ {r}) \cup {q} /\ UNCHANGED <<stored, alertUi, mailing>>
    BY <2>1 DEF Alerts!FetchServe
  <2> HIDE DEF q
  <2>5. AlertAllows' = AlertAllows /\ AlertFetches' = (AlertFetches \ {r}) \cup {q}
    BY <2>2, <2>3, <2>4 DEF AlertAllows, AlertFetches
  <2>6. AlertsTyped'
    BY <2>2, <2>3, <2>4 DEF AlertInv, AlertsTyped
  <2>7. FetchesInStep'
    BY <2>2, <2>3, <2>4, <2>5 DEF AlertInv, FetchesInStep
  <2>8. alertUi'.flips = "one" => SwitchInStep'
    BY <2>3, <2>4, <2>5 DEF AlertInv, SwitchInStep
  <2> QED
    BY <2>4, <2>6, <2>7, <2>8 DEF AlertInv, MailsInStep, Alerts!ReplacedOnly
<1>3. CASE \E r \in alertReqs, ok \in BOOLEAN : Alerts!Fetched(r, ok)
  <2>1. PICK r \in alertReqs, ok \in BOOLEAN : Alerts!Fetched(r, ok)
    BY <1>3
  <2>2. r \in AlertsAsked /\ r.op = "fetch" /\ r.served = TRUE /\ r.to \in Alerts!RuleStates /\ r \in AlertFetches
    BY <1>0, <2>1 DEF Alerts!Fetched, AlertInv, AlertsTyped, AlertsAsked, AlertFetches
  <2>4. alertReqs' = Alerts!Overtaken(alertReqs \ {r}) /\ UNCHANGED <<stored, mailing>>
    BY <2>1 DEF Alerts!Fetched
  <2>5. /\ alertUi' \in AlertsShown
        /\ IF ok THEN /\ alertUi'.shown = r.to /\ alertUi'.allow = r.allow
                      /\ alertUi'.fetched = (IF r.passed THEN "overtaken" ELSE "ok")
                      /\ alertUi'.flips = Alerts!Crossed({"allow"})
           ELSE /\ alertUi'.allow = alertUi.allow /\ alertUi'.fetched = "failed" /\ alertUi'.flips = alertUi.flips
    <3>1. Alerts!Crossed({"allow"}) \in {"one", "many", "lost"}
      BY <1>0 DEF Alerts!Crossed, AlertsShown
    <3>2. r.allow \in BOOLEAN /\ r.passed \in BOOLEAN
      BY <2>2 DEF AlertsAsked
    <3>3. CASE ok
      BY <1>0, <2>1, <2>2, <3>1, <3>2, <3>3 DEF Alerts!Fetched, AlertsShown
    <3>4. CASE ~ok
      BY <1>0, <2>1, <3>4 DEF Alerts!Fetched, AlertsShown
    <3> QED
      BY <3>3, <3>4
  <2>6. /\ alertReqs' \subseteq AlertsAsked
        /\ \A x \in alertReqs' : /\ x.op = "fetch" => x.to \in Alerts!RuleStates /\ (x.passed => x.served)
                                 /\ x.op = "rule" => x.to \in Alerts!RuleStates \cup {"same"}
                                 /\ x.op = "smtp" => x.to \in {"same", "new"}
        /\ \A x \in AlertAllows' : \E s \in AlertAllows : x = AlertUndone(s) /\ x.allow = s.allow
        /\ \A s \in AlertAllows : AlertUndone(s) \in AlertAllows'
        /\ \A x \in AlertFetches' : \E s \in AlertFetches : x = AlertUndone(s) /\ x.allow = s.allow /\ x.served = s.served
        /\ \A x \in AlertFetches' : x.served => x.passed
        /\ \A s \in AlertFetches : s # r => AlertUndone(s) \in AlertFetches'
    <3> DEFINE rs == alertReqs \ {r}
    <3>1. rs \in SUBSET alertReqs /\ \A s \in alertReqs : s # r => s \in rs
      OBVIOUS
    <3>2. (\A s \in AlertAllows : s \in alertReqs /\ s # r) /\ \A s \in AlertFetches : s \in alertReqs
      BY <2>2 DEF AlertAllows, AlertFetches
    <3>3. alertReqs' = Alerts!Overtaken(rs) /\ AlertsTyped
      BY <2>4 DEF AlertInv
    <3> HIDE DEF rs
    <3> QED
      BY <3>1, <3>2, <3>3, OvertakenKinds
  <2>7. AlertsTyped'
    BY <1>0, <2>4, <2>5, <2>6 DEF AlertsTyped
  <2>8. FetchesInStep'
    <3>1. \A x \in AlertFetches' : x.served /\ ~x.passed => FALSE
      BY <2>6
    <3>2. alertUi'.fetched = "ok" => r.passed = FALSE /\ alertUi'.shown = r.to
      BY <2>2, <2>5 DEF AlertsAsked
    <3>3. r.passed = FALSE => r.to = stored.rule \/ \E q \in AlertFetches : q # r
      BY <2>2 DEF AlertInv, FetchesInStep
    <3> QED
      BY <2>4, <2>6, <3>1, <3>2, <3>3 DEF FetchesInStep
  <2>9. alertUi'.flips = "one" => SwitchInStep'
    <3> HAVE alertUi'.flips = "one"
    <3>1. alertUi.flips = "one" /\ (ok => AlertAllows = {})
      BY <2>5 DEF Alerts!Crossed, AlertAllows
    <3>2. SwitchInStep
      BY <3>1 DEF AlertInv
    <3>3. CASE ok
      <4>1. AlertAllows' = {}
        BY <2>6, <3>1, <3>3
      <4>2. r.allow = stored.allow
        BY <2>2, <3>2 DEF SwitchInStep
      <4> QED
        BY <2>4, <2>5, <2>6, <3>2, <3>3, <4>1, <4>2 DEF SwitchInStep
    <3>4. CASE ~ok
      BY <2>4, <2>5, <2>6, <3>2, <3>4 DEF SwitchInStep
    <3> QED
      BY <3>3, <3>4
  <2> QED
    BY <2>4, <2>7, <2>8, <2>9 DEF AlertInv, MailsInStep, Alerts!ReplacedOnly
<1>4. CASE \E r \in alertReqs, ok \in BOOLEAN : Alerts!RuleAnswer(r, ok)
  <2>1. PICK r \in alertReqs, ok \in BOOLEAN : Alerts!RuleAnswer(r, ok)
    BY <1>4
  <2>2. r \in AlertsAsked /\ r.op = "rule" /\ r.to \in Alerts!RuleStates \cup {"same"} /\ mailing' = mailing
    BY <1>0, <2>1 DEF Alerts!RuleAnswer, AlertInv, AlertsTyped
  <2>3. CASE ok
    <3>1. /\ stored' \in AlertsStored /\ stored'.mail = stored.mail /\ stored'.allow = stored.allow
          /\ stored'.password = stored.password
      BY <1>0, <2>1, <2>2, <2>3 DEF Alerts!RuleAnswer, Alerts!Ruled, AlertsStored, Alerts!RuleStates
    <3>2. /\ alertUi' \in AlertsShown /\ alertUi'.allow = alertUi.allow /\ alertUi'.shown = alertUi.shown
          /\ alertUi'.fetched = alertUi.fetched /\ alertUi'.flips = alertUi.flips
      BY <1>0, <2>1, <2>3 DEF Alerts!RuleAnswer, AlertsShown
    <3>3. alertReqs' = (alertReqs \ {r}) \cup {Alerts!Fetch}
      BY <2>1, <2>3 DEF Alerts!RuleAnswer
    <3>4. AlertAllows' = AlertAllows /\ AlertFetches' = AlertFetches \cup {Alerts!Fetch}
      BY <2>2, <3>3, FetchTyped DEF AlertAllows, AlertFetches
    <3>5. AlertsTyped'
      BY <2>2, <3>1, <3>2, <3>3, FetchTyped DEF AlertInv, AlertsTyped, Alerts!RuleStates
    <3>6. FetchesInStep'
      BY <3>4, FetchTyped DEF FetchesInStep
    <3>7. alertUi'.flips = "one" => SwitchInStep'
      BY <3>1, <3>2, <3>4, FetchTyped DEF AlertInv, SwitchInStep
    <3> QED
      BY <2>2, <3>1, <3>5, <3>6, <3>7 DEF AlertInv, MailsInStep, Alerts!ReplacedOnly
  <2>4. CASE ~ok /\ alertReqs' = alertReqs \ {r} /\ UNCHANGED <<stored, alertUi>>
    <3>1. AlertAllows' = AlertAllows /\ AlertFetches' = AlertFetches
      BY <2>2, <2>4 DEF AlertAllows, AlertFetches
    <3> QED
      BY <2>2, <2>4, <3>1 DEF AlertInv, AlertsTyped, FetchesInStep, SwitchInStep, MailsInStep, Alerts!ReplacedOnly
  <2>5. CASE /\ ~ok /\ stored' = Alerts!Ruled(r) /\ alertReqs' = Alerts!Overtaken(alertReqs \ {r})
             /\ alertUi' = [alertUi EXCEPT !.fetched = "lost"]
    <3>1. /\ stored' \in AlertsStored /\ stored'.mail = stored.mail /\ stored'.allow = stored.allow
          /\ stored'.password = stored.password
      BY <1>0, <2>2, <2>5 DEF Alerts!Ruled, AlertsStored, Alerts!RuleStates
    <3>2. /\ alertUi' \in AlertsShown /\ alertUi'.allow = alertUi.allow /\ alertUi'.fetched = "lost"
          /\ alertUi'.flips = alertUi.flips
      BY <1>0, <2>5 DEF AlertsShown
    <3> DEFINE rs == alertReqs \ {r}
    <3>3. rs \in SUBSET alertReqs /\ alertReqs' = Alerts!Overtaken(rs) /\ AlertsTyped
      BY <2>5 DEF AlertInv
    <3>4. \A s \in AlertAllows : s \in rs
      BY <2>2 DEF AlertAllows
    <3> HIDE DEF rs
    <3>7. AlertsTyped'
      BY <1>0, <2>2, <3>1, <3>2, <3>3, OvertakenKinds DEF AlertsTyped
    <3>8. FetchesInStep'
      BY <3>2, <3>3, OvertakenKinds DEF FetchesInStep
    <3>9. alertUi'.flips = "one" => SwitchInStep'
      <4> HAVE alertUi'.flips = "one"
      <4>1. SwitchInStep
        BY <3>2 DEF AlertInv
      <4>2. /\ \A x \in AlertAllows' : \E s \in AlertAllows : x = AlertUndone(s) /\ x.allow = s.allow
            /\ \A s \in AlertAllows : AlertUndone(s) \in AlertAllows'
            /\ \A x \in AlertFetches' : \E s \in AlertFetches : x.allow = s.allow /\ x.served = s.served
        BY <3>3, <3>4, OvertakenKinds
      <4> QED
        BY <3>1, <3>2, <4>1, <4>2 DEF SwitchInStep
    <3> QED
      BY <2>2, <3>1, <3>7, <3>8, <3>9 DEF AlertInv, MailsInStep, Alerts!ReplacedOnly
  <2> QED
    BY <2>1, <2>3, <2>4, <2>5 DEF Alerts!RuleAnswer
<1>5. CASE \E r \in alertReqs, ok \in BOOLEAN : Alerts!Flipped(r, ok)
  <2>1. PICK r \in alertReqs, ok \in BOOLEAN : Alerts!Flipped(r, ok)
    BY <1>5
  <2>2. r \in AlertsAsked /\ r.op = "allow" /\ r.allow \in BOOLEAN /\ r \in AlertAllows
    BY <1>0, <2>1 DEF Alerts!Flipped, AlertsAsked, AlertAllows
  <2>3. /\ stored' \in AlertsStored /\ stored'.mail = stored.mail /\ stored'.rule = stored.rule
        /\ stored'.password = stored.password
        /\ alertUi'.flips # "lost" => stored'.allow = (IF ok THEN r.allow ELSE stored.allow)
    <3>1. stored' = stored \/ stored' = [stored EXCEPT !.allow = r.allow]
      BY <2>1 DEF Alerts!Flipped, Alerts!Allowed
    <3>2. alertUi'.flips # "lost" => stored' = (IF ok THEN [stored EXCEPT !.allow = r.allow] ELSE stored)
      BY <1>0, <2>1 DEF Alerts!Flipped, Alerts!Allowed, AlertsShown
    <3> QED
      BY <1>0, <2>2, <3>1, <3>2 DEF AlertsStored
  <2>4. alertReqs' = alertReqs \ {r} /\ mailing' = mailing
    BY <2>1 DEF Alerts!Flipped
  <2>5. /\ alertUi' \in AlertsShown /\ alertUi'.shown = alertUi.shown /\ alertUi'.fetched = alertUi.fetched
        /\ alertUi'.flips # "lost" => alertUi'.flips = Alerts!Crossed({"fetch"})
        /\ alertUi'.allow = (IF ok THEN alertUi.allow ELSE ~r.allow)
    <3>1. Alerts!Crossed({"fetch"}) \in {"one", "many", "lost"}
      BY <1>0 DEF Alerts!Crossed, AlertsShown
    <3>2. (~r.allow) \in BOOLEAN
      BY <2>2
    <3> QED
      BY <1>0, <2>1, <2>2, <3>1, <3>2 DEF Alerts!Flipped, AlertsShown
  <2>6. AlertAllows' = AlertAllows \ {r} /\ AlertFetches' = AlertFetches
    BY <2>2, <2>4 DEF AlertAllows, AlertFetches
  <2>7. alertUi'.flips = "one" => SwitchInStep'
    <3> HAVE alertUi'.flips = "one"
    <3>1. alertUi.flips = "one" /\ AlertFetches = {}
      BY <2>5 DEF Alerts!Crossed, AlertFetches
    <3>2. SwitchInStep
      BY <3>1 DEF AlertInv
    <3>3. AlertAllows' = {} /\ AlertFetches' = {}
      BY <2>2, <2>6, <3>1, <3>2 DEF SwitchInStep
    <3>4. alertUi.allow = r.allow /\ stored.allow = ~r.allow
      BY <2>2, <3>2 DEF SwitchInStep
    <3> QED
      BY <2>3, <2>5, <3>3, <3>4 DEF SwitchInStep
  <2>8. AlertsTyped'
    BY <2>3, <2>4, <2>5 DEF AlertInv, AlertsTyped
  <2>9. FetchesInStep'
    BY <2>3, <2>5, <2>6 DEF AlertInv, FetchesInStep
  <2> QED
    BY <2>3, <2>4, <2>7, <2>8, <2>9 DEF AlertInv, MailsInStep, Alerts!ReplacedOnly
<1>6. CASE \E r \in alertReqs, ok \in BOOLEAN : Alerts!SmtpSaved(r, ok)
  <2>1. PICK r \in alertReqs, ok \in BOOLEAN : Alerts!SmtpSaved(r, ok)
    BY <1>6
  <2>2. r \in AlertsAsked /\ r.op = "smtp" /\ r.to \in {"same", "new"} /\ UNCHANGED <<alertUi, mailing>>
    BY <1>0, <2>1 DEF Alerts!SmtpSaved, AlertInv, AlertsTyped
  <2>3. /\ stored' \in AlertsStored /\ stored'.mail = stored.mail /\ stored'.allow = stored.allow
        /\ stored'.rule = stored.rule /\ stored'.password \in {stored.password, "new"}
    <3>1. \A w \in {stored.password, "new"} : [stored EXCEPT !.password = w] \in AlertsStored
      BY <1>0 DEF AlertsStored
    <3>2. stored' = stored \/ stored' = [stored EXCEPT !.password = IF r.to = "same" THEN stored.password ELSE r.to]
      BY <2>1 DEF Alerts!SmtpSaved
    <3>3. (IF r.to = "same" THEN stored.password ELSE r.to) \in {stored.password, "new"}
      BY <2>2
    <3> QED
      BY <1>0, <3>1, <3>2, <3>3 DEF AlertsStored
  <2>4. alertReqs' = (alertReqs \ {r}) \cup (IF ok THEN {Alerts!Fetch} ELSE {})
    BY <2>1 DEF Alerts!SmtpSaved
  <2>5. /\ AlertAllows' = AlertAllows
        /\ AlertFetches' = AlertFetches \cup (IF ok THEN {Alerts!Fetch} ELSE {})
    BY <2>2, <2>4, FetchTyped DEF AlertAllows, AlertFetches
  <2>6. AlertsTyped'
    BY <2>2, <2>3, <2>4, FetchTyped DEF AlertInv, AlertsTyped, Alerts!RuleStates
  <2>7. FetchesInStep'
    BY <2>2, <2>3, <2>5, FetchTyped DEF AlertInv, FetchesInStep
  <2>8. alertUi'.flips = "one" => SwitchInStep'
    BY <2>2, <2>3, <2>5, FetchTyped DEF AlertInv, SwitchInStep
  <2> QED
    BY <2>2, <2>3, <2>6, <2>7, <2>8 DEF AlertInv, MailsInStep, Alerts!ReplacedOnly
<1>7. CASE \E i \in Insts, ok \in BOOLEAN : Alerts!CreateMail(i, ok)
  <2>1. PICK i \in Insts, ok \in BOOLEAN : Alerts!CreateMail(i, ok)
    BY <1>7
  <2>2. /\ stored' \in AlertsStored /\ stored'.rule = stored.rule /\ stored'.allow = stored.allow
        /\ stored'.password = stored.password
        /\ stored.mail \subseteq stored'.mail /\ (ok => i \in stored'.mail)
    <3>1. stored' = [stored EXCEPT !.mail = @ \cup {i}] \/ (~ok /\ stored' = stored)
      BY <2>1 DEF Alerts!CreateMail
    <3> QED
      BY <1>0, <3>1 DEF AlertsStored
  <2>3. /\ mailing' \in AlertsMailing /\ mailing'.all = mailing.all
        /\ mailing'.todo = (IF ok THEN mailing.todo \ {i} ELSE mailing.todo)
        /\ mailing'.state = (IF ok THEN mailing.state ELSE "failed") /\ mailing.state = "runs"
    BY <1>0, <2>1 DEF Alerts!CreateMail, AlertsMailing
  <2>4. UNCHANGED <<alertUi, alertReqs>>
    BY <2>1 DEF Alerts!CreateMail
  <2>5. MailsInStep'
    BY <2>2, <2>3 DEF AlertInv, MailsInStep
  <2>6. AlertAllows' = AlertAllows /\ AlertFetches' = AlertFetches
    BY <2>4 DEF AlertAllows, AlertFetches
  <2> QED
    BY <2>2, <2>3, <2>4, <2>5, <2>6 DEF AlertInv, AlertsTyped, FetchesInStep, SwitchInStep, Alerts!ReplacedOnly
<1>8. CASE Alerts!CloseDialog
  BY <1>0, <1>8, AlertUiKept DEF Alerts!CloseDialog, AlertsShown, AlertInv, MailsInStep, Alerts!ReplacedOnly
<1>9. CASE Alerts!SaveRule
  <2>1. (IF alertUi.shown = "none" THEN "on" ELSE "same") \in Alerts!RuleStates \cup {"same"}
    BY DEF Alerts!RuleStates
  <2> QED
    BY <1>9, <2>1, AlertAskKept DEF Alerts!SaveRule, Alerts!RuleStates, Alerts!ReplacedOnly
<1>10. CASE Alerts!ToggleRule
  BY <1>10, AlertAskKept DEF Alerts!ToggleRule, Alerts!RuleStates, Alerts!ReplacedOnly
<1>11. CASE Alerts!DeleteRule
  BY <1>11, AlertAskKept DEF Alerts!DeleteRule, Alerts!RuleStates, Alerts!ReplacedOnly
<1>12. CASE Alerts!FlipAllow
  <2> DEFINE r == [Alerts!Ask("allow", "same") EXCEPT !.allow = ~alertUi.allow]
  <2>1. alertUi.allow \in BOOLEAN
    BY <1>0 DEF AlertsShown
  <2>2. r \in AlertsAsked /\ r.op = "allow" /\ r.allow = ~alertUi.allow
    <3>1. PICK b \in BOOLEAN : b = ~alertUi.allow
      BY <2>1
    <3>2. r = [Alerts!Ask("allow", "same") EXCEPT !.allow = b]
      BY <3>1
    <3> HIDE DEF r
    <3>3. r \in AlertsAsked /\ r.op = "allow" /\ r.allow = b
      BY <3>2, AskTyped
    <3> QED
      BY <3>1, <3>3
  <2>3. alertReqs' = alertReqs \cup {r} /\ UNCHANGED <<stored, mailing>>
    BY <1>12 DEF Alerts!FlipAllow
  <2>4. /\ alertUi' \in AlertsShown /\ alertUi'.shown = alertUi.shown /\ alertUi'.fetched = alertUi.fetched
        /\ alertUi'.flips = Alerts!Crossed({"allow", "fetch"}) /\ alertUi'.allow = ~alertUi.allow
    <3> DEFINE d == Alerts!Crossed({"allow", "fetch"})
    <3>1. d \in {"one", "many", "lost"}
      BY <1>0 DEF Alerts!Crossed, AlertsShown
    <3> DEFINE v(c, n) == [[alertUi EXCEPT !.allow = ~@, !.flips = c] EXCEPT !.asks = n]
    <3>2. \A c \in {"one", "many", "lost"}, n \in Nat :
             /\ v(c, n) \in AlertsShown /\ v(c, n).shown = alertUi.shown /\ v(c, n).fetched = alertUi.fetched
             /\ v(c, n).flips = c /\ v(c, n).allow = ~alertUi.allow
      BY <1>0 DEF AlertsShown
    <3>3. alertUi.asks + 1 \in Nat
      BY <1>0 DEF AlertsShown
    <3>4. alertUi' = v(d, alertUi.asks + 1)
      BY <1>0, <1>12 DEF Alerts!FlipAllow, Alerts!Asking, AlertsShown
    <3> HIDE DEF v
    <3> HIDE DEF d
    <3>5. /\ alertUi' \in AlertsShown /\ alertUi'.shown = alertUi.shown /\ alertUi'.fetched = alertUi.fetched
          /\ alertUi'.flips = d /\ alertUi'.allow = ~alertUi.allow
      BY <3>1, <3>2, <3>3, <3>4
    <3> QED
      BY <3>5 DEF d
  <2> HIDE DEF r
  <2>5. AlertAllows' = AlertAllows \cup {r} /\ AlertFetches' = AlertFetches
    BY <2>2, <2>3 DEF AlertAllows, AlertFetches
  <2>6. alertUi'.flips = "one" => SwitchInStep'
    <3> HAVE alertUi'.flips = "one"
    <3>1. alertUi.flips = "one" /\ AlertFetches = {} /\ AlertAllows = {}
      BY <2>4 DEF Alerts!Crossed, AlertFetches, AlertAllows
    <3>2. alertUi.allow = stored.allow
      BY <3>1 DEF AlertInv, SwitchInStep
    <3> QED
      BY <2>1, <2>2, <2>3, <2>4, <2>5, <3>1, <3>2 DEF SwitchInStep
  <2>7. AlertsTyped'
    BY <2>2, <2>3, <2>4 DEF AlertInv, AlertsTyped
  <2> QED
    BY <2>3, <2>4, <2>5, <2>6, <2>7 DEF AlertInv, FetchesInStep, MailsInStep, Alerts!ReplacedOnly
<1>13. CASE Alerts!TypePassword
  BY <1>0, <1>13, AlertUiKept DEF Alerts!TypePassword, AlertsShown, AlertInv, MailsInStep, Alerts!ReplacedOnly
<1>14. CASE Alerts!SaveSmtp
  <2>1. Alerts!SmtpPayload \in {"same", "new"}
    BY DEF Alerts!SmtpPayload
  <2> QED
    BY <1>14, <2>1, AlertAskKept DEF Alerts!SaveSmtp, Alerts!ReplacedOnly
<1>15. CASE Alerts!CreateMails
  <2>1. /\ mailing' \in AlertsMailing /\ mailing'.all = mailing'.todo /\ mailing'.state = "runs"
    BY <1>0, <1>15 DEF Alerts!CreateMails, AlertsMailing, AlertsShown
  <2>2. /\ alertUi' \in AlertsShown /\ alertUi'.allow = alertUi.allow /\ alertUi'.shown = alertUi.shown
        /\ alertUi'.fetched = alertUi.fetched /\ alertUi'.flips = alertUi.flips
    <3>1. \A q \in Nat : [alertUi EXCEPT !.asks = q] \in AlertsShown
      BY <1>0 DEF AlertsShown
    <3>2. alertUi.asks + 1 \in Nat
      BY <1>0 DEF AlertsShown
    <3>3. alertUi' = [alertUi EXCEPT !.asks = alertUi.asks + 1]
      BY <1>15 DEF Alerts!CreateMails, Alerts!Asking
    <3> QED
      BY <1>0, <3>1, <3>2, <3>3 DEF AlertsShown
  <2>3. UNCHANGED <<stored, alertReqs>>
    BY <1>15 DEF Alerts!CreateMails
  <2>4. MailsInStep'
    BY <2>1 DEF MailsInStep
  <2> QED
    BY <2>1, <2>2, <2>3, <2>4, AlertUiKept DEF Alerts!ReplacedOnly
<1>16. CASE \E d \in {"rule", "mail", "delete"} : Alerts!OpenDialog(d)
  BY <1>0, <1>16, AlertUiKept DEF Alerts!OpenDialog, AlertsShown, AlertInv, MailsInStep, Alerts!ReplacedOnly
<1>17. CASE \E i \in Insts : Alerts!Select(i)
  <2>1. PICK i \in Insts : Alerts!Select(i)
    BY <1>17
  <2>2. (IF i \in alertUi.selected THEN alertUi.selected \ {i} ELSE alertUi.selected \cup {i}) \in SUBSET Insts
    BY <1>0 DEF AlertsShown
  <2>3. /\ alertUi' \in AlertsShown /\ alertUi'.allow = alertUi.allow /\ alertUi'.shown = alertUi.shown
        /\ alertUi'.fetched = alertUi.fetched /\ alertUi'.flips = alertUi.flips
    BY <1>0, <2>1, <2>2 DEF Alerts!Select, AlertsShown
  <2> QED
    BY <1>0, <2>1, <2>3, AlertUiKept DEF Alerts!Select, AlertInv, MailsInStep, Alerts!ReplacedOnly
<1> QED
  BY <1>1, <1>2, <1>3, <1>4, <1>5, <1>6, <1>7, <1>8, <1>9, <1>10, <1>11, <1>12, <1>13, <1>14, <1>15, <1>16,
     <1>17 DEF Alerts!AlertNext, Alerts!AlertSystem

(* The invariant implies the properties of the page.                         *)
LEMMA AlertPromises ==
  AlertInv => Alerts!AlertTypeOK /\ Alerts!RulesInStep /\ Alerts!AllowHonest /\ Alerts!MailsForAll
<1> SUFFICES ASSUME AlertInv PROVE Alerts!AlertTypeOK /\ Alerts!RulesInStep /\ Alerts!AllowHonest /\ Alerts!MailsForAll
  OBVIOUS
<1>1. Alerts!AlertTypeOK
  BY DEF AlertInv, AlertsTyped, MailsInStep, Alerts!AlertTypeOK, AlertsStored, AlertsShown, AlertsMailing, AlertsAsked
<1>2. alertReqs = {} => AlertFetches = {} /\ AlertAllows = {}
  BY DEF AlertFetches, AlertAllows
<1>3. Alerts!RulesInStep /\ Alerts!AllowHonest
  BY <1>2 DEF AlertInv, FetchesInStep, SwitchInStep, Alerts!RulesInStep, Alerts!AllowHonest
<1>4. Alerts!MailsForAll
  BY DEF AlertInv, MailsInStep, Alerts!MailsForAll
<1> QED
  BY <1>1, <1>3, <1>4

-----------------------------------------------------------------------------
(* ShepherdPage: the form is of the row of its dialog.                     *)

ShepherdModes == {"edit", "copy", "delete", "add"}
ShepherdState == [process : Shepherd!Processes, rows : SUBSET Shepherd!Rows]
ShepherdShown == [loading : BOOLEAN, process : Shepherd!Processes, rows : SUBSET Shepherd!Rows,
                  acting : {"no", "sent", "status", "lists"},
                  dialog : [mode : ShepherdModes \cup {"none"}, id : Shepherd!Rows \cup {NoRow}],
                  held : Shepherd!Rows \cup {NoRow}, online : [Accts -> {"unknown", "asked", "online", "offline"}],
                  log : BOOLEAN, auto : BOOLEAN, timers : {0, 1}, asks : Nat]
ShepherdSaves == [mode : ShepherdModes \cup {"none"}, id : Shepherd!Rows, of : Shepherd!Rows]
ShepherdAsked == [saves : SUBSET ShepherdSaves, checks : SUBSET Accts]

ShepherdInv ==
    /\ bs \in ShepherdState /\ bsUi \in ShepherdShown /\ bsReqs \in ShepherdAsked
    \* The form is of the row of the dialog, and of none when there is no dialog.
    /\ bsUi.dialog = Shepherd!NoDialog => bsUi.held = NoRow
    /\ bsUi.dialog # Shepherd!NoDialog => bsUi.dialog.id \in Shepherd!Rows /\ bsUi.held = bsUi.dialog.id
    /\ Shepherd!RowSavedAsEdited /\ Shepherd!LogPolled

(* The page opens with its invariant.                                        *)
LEMMA ShepherdInitial == ASSUME Shepherd!ShepherdAssumption, Shepherd!ShepherdInit PROVE ShepherdInv
<1>1. bs \in ShepherdState
  BY DEF Shepherd!ShepherdInit, ShepherdState, Shepherd!Processes
<1>2. /\ bsUi \in ShepherdShown /\ bsUi.dialog = Shepherd!NoDialog /\ bsUi.held = NoRow
      /\ bsUi.log = FALSE /\ bsUi.timers = 0
  BY DEF Shepherd!ShepherdInit, ShepherdShown, Shepherd!Processes, Shepherd!NoDialog
<1>3. bsReqs \in ShepherdAsked /\ bsReqs.saves = {}
  BY DEF Shepherd!ShepherdInit, ShepherdAsked
<1> QED
  BY <1>1, <1>2, <1>3 DEF ShepherdInv, Shepherd!RowSavedAsEdited, Shepherd!LogPolled, Shepherd!Interval

\* The steps that change neither the dialog nor what polls the log.
LEMMA ShepherdSeenKept ==
  ASSUME ShepherdInv, bs' \in ShepherdState, bsUi' \in ShepherdShown, bsReqs' \in ShepherdAsked,
         bsUi'.dialog = bsUi.dialog, bsUi'.held = bsUi.held, bsUi'.log = bsUi.log, bsUi'.auto = bsUi.auto,
         bsUi'.timers = bsUi.timers, bsReqs'.saves \subseteq bsReqs.saves
  PROVE  ShepherdInv'
  BY DEF ShepherdInv, Shepherd!RowSavedAsEdited, Shepherd!LogPolled, Shepherd!Interval

(* What is enough of a step of the dialogs to keep the invariant.            *)
LEMMA ShepherdDialogKept ==
  ASSUME ShepherdInv, bs' \in ShepherdState, bsUi' \in ShepherdShown, bsReqs' \in ShepherdAsked,
         bsUi'.log = bsUi.log, bsUi'.auto = bsUi.auto, bsUi'.timers = bsUi.timers,
         bsReqs'.saves \subseteq bsReqs.saves,
         bsUi'.dialog = Shepherd!NoDialog => bsUi'.held = NoRow,
         bsUi'.dialog # Shepherd!NoDialog => bsUi'.dialog.id \in Shepherd!Rows /\ bsUi'.held = bsUi'.dialog.id
  PROVE  ShepherdInv'
  BY DEF ShepherdInv, Shepherd!RowSavedAsEdited, Shepherd!LogPolled, Shepherd!Interval

(* The form that is mounted is of the row of its dialog.                     *)
LEMMA MountedIsOf ==
  ASSUME NEW u \in ShepherdShown, u.held = NoRow, NEW mode \in ShepherdModes, NEW r \in Shepherd!Rows
  PROVE  /\ Shepherd!Mounted(u, mode, r) \in ShepherdShown /\ Shepherd!Mounted(u, mode, r).dialog = [mode |-> mode, id |-> r]
         /\ Shepherd!Mounted(u, mode, r).dialog # Shepherd!NoDialog /\ Shepherd!Mounted(u, mode, r).dialog.id = r
         /\ Shepherd!Mounted(u, mode, r).held = r /\ Shepherd!Mounted(u, mode, r).log = u.log /\ Shepherd!Mounted(u, mode, r).auto = u.auto
         /\ Shepherd!Mounted(u, mode, r).timers = u.timers
<1> DEFINE d == [mode |-> mode, id |-> r]
<1>1. d \in [mode : ShepherdModes \cup {"none"}, id : Shepherd!Rows \cup {NoRow}] /\ d.id = r /\ d.mode = mode
  OBVIOUS
<1>2. d # Shepherd!NoDialog
  BY <1>1 DEF Shepherd!NoDialog, ShepherdModes
<1>3. Shepherd!Mounted(u, mode, r) = [u EXCEPT !.dialog = d, !.held = r]
  BY DEF Shepherd!Mounted, ShepherdShown
<1> HIDE DEF d
<1>4. /\ Shepherd!Mounted(u, mode, r) \in ShepherdShown /\ Shepherd!Mounted(u, mode, r).dialog = d
      /\ Shepherd!Mounted(u, mode, r).held = r /\ Shepherd!Mounted(u, mode, r).log = u.log /\ Shepherd!Mounted(u, mode, r).auto = u.auto
      /\ Shepherd!Mounted(u, mode, r).timers = u.timers
  BY <1>1, <1>3 DEF ShepherdShown
<1> QED
  BY <1>1, <1>2, <1>4 DEF d

(* A closed dialog leaves no form.                                           *)
LEMMA UnmountedIsNone ==
  ASSUME NEW u \in ShepherdShown
  PROVE  /\ Shepherd!Unmounted(u) \in ShepherdShown /\ Shepherd!Unmounted(u).dialog = Shepherd!NoDialog /\ Shepherd!Unmounted(u).held = NoRow
         /\ Shepherd!Unmounted(u).log = u.log /\ Shepherd!Unmounted(u).auto = u.auto /\ Shepherd!Unmounted(u).timers = u.timers
<1>1. Shepherd!NoDialog \in [mode : ShepherdModes \cup {"none"}, id : Shepherd!Rows \cup {NoRow}]
  BY DEF Shepherd!NoDialog
<1> QED
  BY <1>1 DEF Shepherd!Unmounted, ShepherdShown

\* A button counts what was asked.
LEMMA ShepherdAsking ==
  ASSUME NEW u \in ShepherdShown, bsUi \in ShepherdShown, Shepherd!Asking(u)
  PROVE  /\ bsUi' \in ShepherdShown /\ bsUi'.dialog = u.dialog /\ bsUi'.held = u.held /\ bsUi'.log = u.log
         /\ bsUi'.auto = u.auto /\ bsUi'.timers = u.timers
<1>1. bsUi' = [u EXCEPT !.asks = u.asks + 1]
  BY DEF Shepherd!Asking
<1>2. \A q \in Nat : [u EXCEPT !.asks = q] \in ShepherdShown
  BY DEF ShepherdShown
<1>3. u.asks + 1 \in Nat
  BY DEF ShepherdShown
<1> QED
  BY <1>1, <1>2, <1>3 DEF ShepherdShown

(* Each step of the page, its answers included, keeps the invariant.         *)
LEMMA ShepherdNextKept ==
  ASSUME Shepherd!ShepherdAssumption, ShepherdInv, Shepherd!ShepherdNext
  PROVE  ShepherdInv'
<1>0. bs \in ShepherdState /\ bsUi \in ShepherdShown /\ bsReqs \in ShepherdAsked
  BY DEF ShepherdInv
<1>1. CASE Shepherd!Acted
  <2>1. bs' \in ShepherdState
    BY <1>0, <1>1 DEF Shepherd!Acted, ShepherdState, ShepherdShown, Shepherd!Toggled, Shepherd!Processes
  <2>2. PICK a \in {"status", "no"} : bsUi' = [bsUi EXCEPT !.acting = a] /\ bsReqs' = bsReqs
    BY <1>1 DEF Shepherd!Acted
  <2> QED
    BY <1>0, <2>1, <2>2, ShepherdSeenKept DEF ShepherdShown
<1>2. CASE Shepherd!ActRefreshes
  <2>1. PICK a \in {"lists", "no"} : bsUi' \in {[bsUi EXCEPT !.acting = a], [bsUi EXCEPT !.acting = a, !.process = bs.process],
                                               [bsUi EXCEPT !.acting = a, !.rows = bs.rows]}
    BY <1>2 DEF Shepherd!ActRefreshes
  <2>2. UNCHANGED <<bs, bsReqs>>
    BY <1>2 DEF Shepherd!ActRefreshes
  <2>3. /\ bsUi' \in ShepherdShown /\ bsUi'.dialog = bsUi.dialog /\ bsUi'.held = bsUi.held /\ bsUi'.log = bsUi.log
        /\ bsUi'.auto = bsUi.auto /\ bsUi'.timers = bsUi.timers
    <3>1. CASE bsUi' = [bsUi EXCEPT !.acting = a]
      BY <1>0, <3>1 DEF ShepherdShown, ShepherdState
    <3>2. CASE bsUi' = [bsUi EXCEPT !.acting = a, !.process = bs.process]
      BY <1>0, <3>2 DEF ShepherdShown, ShepherdState
    <3>3. CASE bsUi' = [bsUi EXCEPT !.acting = a, !.rows = bs.rows]
      BY <1>0, <3>3 DEF ShepherdShown, ShepherdState
    <3> QED
      BY <2>1, <3>1, <3>2, <3>3
  <2> QED
    BY <1>0, <2>2, <2>3, ShepherdSeenKept
<1>3. CASE \E a \in Accts : Shepherd!Online(a)
  <2>1. PICK a \in Accts : Shepherd!Online(a)
    BY <1>3
  <2>2. PICK o \in {"online", "offline"} : bsUi' = [bsUi EXCEPT !.online[a] = o]
    BY <2>1 DEF Shepherd!Online
  <2>3. [bsUi.online EXCEPT ![a] = o] \in [Accts -> {"unknown", "asked", "online", "offline"}]
    BY <1>0 DEF ShepherdShown
  <2>4. bsUi' = [bsUi EXCEPT !.online = [bsUi.online EXCEPT ![a] = o]]
    BY <1>0, <2>2 DEF ShepherdShown
  <2>5. /\ bsUi' \in ShepherdShown /\ bsUi'.dialog = bsUi.dialog /\ bsUi'.held = bsUi.held /\ bsUi'.log = bsUi.log
        /\ bsUi'.auto = bsUi.auto /\ bsUi'.timers = bsUi.timers
    BY <1>0, <2>3, <2>4 DEF ShepherdShown
  <2>6. bsReqs' \in ShepherdAsked /\ bsReqs'.saves = bsReqs.saves
    BY <1>0, <2>1 DEF Shepherd!Online, ShepherdAsked
  <2> QED
    BY <1>0, <2>1, <2>5, <2>6, ShepherdSeenKept DEF Shepherd!Online
<1>4. CASE \E s \in bsReqs.saves : Shepherd!Saved(s)
  <2>1. PICK s \in bsReqs.saves : Shepherd!Saved(s)
    BY <1>4
  <2>2. s \in ShepherdSaves
    BY <1>0 DEF ShepherdAsked
  <2>3. bs' \in ShepherdState
    BY <1>0, <2>1, <2>2 DEF Shepherd!Saved, ShepherdState, ShepherdSaves
  <2>4. bsReqs' \in ShepherdAsked /\ bsReqs'.saves \subseteq bsReqs.saves
    BY <1>0, <2>1 DEF Shepherd!Saved, ShepherdAsked
  <2>5. bsUi' = bsUi \/ bsUi' = Shepherd!Unmounted(bsUi)
    BY <2>1 DEF Shepherd!Saved
  <2>6. CASE bsUi' = bsUi
    BY <1>0, <2>3, <2>4, <2>6, ShepherdSeenKept
  <2>7. CASE bsUi' = Shepherd!Unmounted(bsUi)
    BY <1>0, <2>3, <2>4, <2>7, UnmountedIsNone, ShepherdDialogKept
  <2> QED
    BY <2>5, <2>6, <2>7
<1>5. CASE \E s \in bsReqs.saves : Shepherd!SaveLost(s)
  <2>1. bsReqs' \in ShepherdAsked /\ bsReqs'.saves \subseteq bsReqs.saves
    BY <1>0, <1>5 DEF Shepherd!SaveLost, ShepherdAsked
  <2> QED
    BY <1>0, <1>5, <2>1, ShepherdSeenKept DEF Shepherd!SaveLost
<1>6. CASE Shepherd!Status \/ Shepherd!Lists
  <2>1. bsUi' \in {[bsUi EXCEPT !.process = bs.process, !.loading = FALSE], [bsUi EXCEPT !.loading = FALSE],
                   [bsUi EXCEPT !.rows = bs.rows]}
    BY <1>6 DEF Shepherd!Status, Shepherd!Lists
  <2>2. UNCHANGED <<bs, bsReqs>>
    BY <1>6 DEF Shepherd!Status, Shepherd!Lists
  <2>3. /\ bsUi' \in ShepherdShown /\ bsUi'.dialog = bsUi.dialog /\ bsUi'.held = bsUi.held /\ bsUi'.log = bsUi.log
        /\ bsUi'.auto = bsUi.auto /\ bsUi'.timers = bsUi.timers
    <3>1. CASE bsUi' = [bsUi EXCEPT !.process = bs.process, !.loading = FALSE]
      BY <1>0, <3>1 DEF ShepherdShown, ShepherdState
    <3>2. CASE bsUi' = [bsUi EXCEPT !.loading = FALSE]
      BY <1>0, <3>2 DEF ShepherdShown, ShepherdState
    <3>3. CASE bsUi' = [bsUi EXCEPT !.rows = bs.rows]
      BY <1>0, <3>3 DEF ShepherdShown, ShepherdState
    <3> QED
      BY <2>1, <3>1, <3>2, <3>3
  <2> QED
    BY <1>0, <2>2, <2>3, ShepherdSeenKept
<1>7. CASE Shepherd!Act
  <2> DEFINE u == [bsUi EXCEPT !.acting = "sent"]
  <2>1. /\ u \in ShepherdShown /\ u.dialog = bsUi.dialog /\ u.held = bsUi.held /\ u.log = bsUi.log
        /\ u.auto = bsUi.auto /\ u.timers = bsUi.timers
    BY <1>0 DEF ShepherdShown
  <2>2. Shepherd!Asking(u) /\ UNCHANGED <<bs, bsReqs>>
    BY <1>7 DEF Shepherd!Act
  <2> HIDE DEF u
  <2> QED
    BY <1>0, <2>1, <2>2, ShepherdAsking, ShepherdSeenKept
<1>8. CASE Shepherd!Dies
  BY <1>0, <1>8, ShepherdSeenKept DEF Shepherd!Dies, ShepherdState, Shepherd!Processes
<1>9. CASE Shepherd!CloseDialog
  BY <1>0, <1>9, UnmountedIsNone, ShepherdDialogKept DEF Shepherd!CloseDialog
<1>10. CASE Shepherd!SaveRow
  <2> DEFINE s == [mode |-> bsUi.dialog.mode, id |-> bsUi.dialog.id, of |-> bsUi.held]
  <2>1. bsUi.dialog.id \in Shepherd!Rows /\ bsUi.held = bsUi.dialog.id
    BY <1>10 DEF Shepherd!SaveRow, ShepherdInv
  <2>2. bsUi.dialog.mode \in ShepherdModes \cup {"none"}
    BY <1>0 DEF ShepherdShown
  <2>3. s \in ShepherdSaves /\ s.of = s.id
    BY <2>1, <2>2 DEF ShepherdSaves
  <2>4. Shepherd!Asking(bsUi) /\ bs' = bs /\ bsReqs' = [bsReqs EXCEPT !.saves = bsReqs.saves \cup {s}]
    BY <1>10 DEF Shepherd!SaveRow
  <2> HIDE DEF s
  <2>5. bsReqs' \in ShepherdAsked /\ bsReqs'.saves = bsReqs.saves \cup {s}
    BY <1>0, <2>3, <2>4 DEF ShepherdAsked
  <2>6. /\ bsUi' \in ShepherdShown /\ bsUi'.dialog = bsUi.dialog /\ bsUi'.held = bsUi.held /\ bsUi'.log = bsUi.log
        /\ bsUi'.auto = bsUi.auto /\ bsUi'.timers = bsUi.timers
    BY <1>0, <2>4, ShepherdAsking
  <2> QED
    BY <1>0, <2>3, <2>4, <2>5, <2>6 DEF ShepherdInv, Shepherd!RowSavedAsEdited, Shepherd!LogPolled, Shepherd!Interval
<1>11. CASE Shepherd!OpenLog \/ Shepherd!CloseLog \/ Shepherd!SwitchAuto
  <2>1. PICK l \in BOOLEAN, a \in BOOLEAN : /\ bsUi' = Shepherd!Effect([bsUi EXCEPT !.log = l, !.auto = a])
                                            /\ UNCHANGED <<bs, bsReqs>>
    <3>1. CASE Shepherd!OpenLog
      <4>1. [bsUi EXCEPT !.log = TRUE] = [bsUi EXCEPT !.log = TRUE, !.auto = bsUi.auto]
        BY <1>0 DEF ShepherdShown
      <4> QED
        BY <1>0, <3>1, <4>1 DEF Shepherd!OpenLog, ShepherdShown
    <3>2. CASE Shepherd!CloseLog
      <4>1. [bsUi EXCEPT !.log = FALSE] = [bsUi EXCEPT !.log = FALSE, !.auto = bsUi.auto]
        BY <1>0 DEF ShepherdShown
      <4> QED
        BY <1>0, <3>2, <4>1 DEF Shepherd!CloseLog, ShepherdShown
    <3>3. CASE Shepherd!SwitchAuto
      <4>1. PICK a \in BOOLEAN : a = ~bsUi.auto
        BY <1>0 DEF ShepherdShown
      <4>2. [bsUi EXCEPT !.auto = ~@] = [bsUi EXCEPT !.log = bsUi.log, !.auto = a]
        BY <1>0, <4>1 DEF ShepherdShown
      <4> QED
        BY <1>0, <3>3, <4>2 DEF Shepherd!SwitchAuto, ShepherdShown
    <3> QED
      BY <1>11, <3>1, <3>2, <3>3
  <2> DEFINE u == [bsUi EXCEPT !.log = l, !.auto = a]
  <2>2. /\ u \in ShepherdShown /\ u.log = l /\ u.auto = a /\ u.timers = bsUi.timers
        /\ u.dialog = bsUi.dialog /\ u.held = bsUi.held
    BY <1>0 DEF ShepherdShown
  <2>3. bsUi' = [u EXCEPT !.timers = bsUi.timers - Shepherd!Interval(bsUi) + Shepherd!Interval(u)]
    BY <2>1, <2>2 DEF Shepherd!Effect
  <2> HIDE DEF u
  <2>4. bsUi.timers = Shepherd!Interval(bsUi) /\ Shepherd!Interval(u) \in {0, 1} /\ Shepherd!Interval(bsUi) \in {0, 1}
    BY DEF ShepherdInv, Shepherd!LogPolled, Shepherd!Interval
  <2>5. bsUi' = [u EXCEPT !.timers = Shepherd!Interval(u)]
    BY <2>3, <2>4
  <2>6. /\ bsUi' \in ShepherdShown /\ bsUi'.log = u.log /\ bsUi'.auto = u.auto /\ bsUi'.timers = Shepherd!Interval(u)
        /\ bsUi'.dialog = bsUi.dialog /\ bsUi'.held = bsUi.held
    BY <2>2, <2>4, <2>5 DEF ShepherdShown
  <2>7. Shepherd!Interval(bsUi)' = Shepherd!Interval(u)
    BY <2>6 DEF Shepherd!Interval
  <2> QED
    BY <1>0, <2>1, <2>6, <2>7 DEF ShepherdInv, Shepherd!RowSavedAsEdited, Shepherd!LogPolled
<1>12. CASE \E r \in Conns : Shepherd!OpenAdd(r)
  <2>1. PICK r \in Conns : Shepherd!OpenAdd(r)
    BY <1>12
  <2>2. bsUi.held = NoRow /\ r \in Shepherd!Rows /\ "add" \in ShepherdModes
    BY <2>1 DEF Shepherd!OpenAdd, Shepherd!Page, ShepherdInv, Shepherd!Rows, ShepherdModes
  <2> QED
    <3>1. bsUi' = Shepherd!Mounted(bsUi, "add", r) /\ UNCHANGED <<bs, bsReqs>>
      BY <2>1 DEF Shepherd!OpenAdd
    <3>2. /\ bsUi' \in ShepherdShown /\ bsUi'.dialog # Shepherd!NoDialog /\ bsUi'.dialog.id = r /\ bsUi'.held = r
          /\ bsUi'.log = bsUi.log /\ bsUi'.auto = bsUi.auto /\ bsUi'.timers = bsUi.timers
      BY <1>0, <2>2, <3>1, MountedIsOf
    <3> QED
      BY <1>0, <2>2, <3>1, <3>2, ShepherdDialogKept
<1>13. CASE \E r \in Shepherd!Rows, mode \in {"edit", "copy", "delete"} : Shepherd!OpenRow(mode, r)
  <2>1. PICK r \in Shepherd!Rows, mode \in {"edit", "copy", "delete"} : Shepherd!OpenRow(mode, r)
    BY <1>13
  <2>2. bsUi.held = NoRow /\ r \in Shepherd!Rows /\ mode \in ShepherdModes
    BY <2>1 DEF Shepherd!OpenRow, Shepherd!Actions, Shepherd!Page, ShepherdInv, ShepherdModes
  <2> QED
    <3>1. bsUi' = Shepherd!Mounted(bsUi, mode, r) /\ UNCHANGED <<bs, bsReqs>>
      BY <2>1 DEF Shepherd!OpenRow
    <3>2. /\ bsUi' \in ShepherdShown /\ bsUi'.dialog # Shepherd!NoDialog /\ bsUi'.dialog.id = r /\ bsUi'.held = r
          /\ bsUi'.log = bsUi.log /\ bsUi'.auto = bsUi.auto /\ bsUi'.timers = bsUi.timers
      BY <1>0, <2>2, <3>1, MountedIsOf
    <3> QED
      BY <1>0, <2>2, <3>1, <3>2, ShepherdDialogKept
<1>14. CASE \E a \in Accts : Shepherd!CheckOnline(a)
  <2>1. PICK a \in Accts : Shepherd!CheckOnline(a)
    BY <1>14
  <2>2. [bsUi.online EXCEPT ![a] = "asked"] \in [Accts -> {"unknown", "asked", "online", "offline"}]
    BY <1>0 DEF ShepherdShown
  <2>3. bsUi' = [bsUi EXCEPT !.online = [bsUi.online EXCEPT ![a] = "asked"]]
    BY <1>0, <2>1 DEF Shepherd!CheckOnline, ShepherdShown
  <2>4. /\ bsUi' \in ShepherdShown /\ bsUi'.dialog = bsUi.dialog /\ bsUi'.held = bsUi.held /\ bsUi'.log = bsUi.log
        /\ bsUi'.auto = bsUi.auto /\ bsUi'.timers = bsUi.timers
    BY <1>0, <2>2, <2>3 DEF ShepherdShown
  <2>5. bsReqs' \in ShepherdAsked /\ bsReqs'.saves = bsReqs.saves
    BY <1>0, <2>1 DEF Shepherd!CheckOnline, ShepherdAsked
  <2> QED
    BY <1>0, <2>1, <2>4, <2>5, ShepherdSeenKept DEF Shepherd!CheckOnline
<1> QED
  BY <1>1, <1>2, <1>3, <1>4, <1>5, <1>6, <1>7, <1>8, <1>9, <1>10, <1>11, <1>12, <1>13, <1>14
     DEF Shepherd!ShepherdNext, Shepherd!ShepherdSystem

(* The invariant implies the properties of the page.                         *)
LEMMA ShepherdPromises == ShepherdInv => Shepherd!ShepherdTypeOK /\ Shepherd!RowSavedAsEdited /\ Shepherd!LogPolled
  BY DEF ShepherdInv, Shepherd!ShepherdTypeOK, ShepherdState, ShepherdShown, ShepherdAsked

-----------------------------------------------------------------------------
(* BackendPage: what is shown is under the timer, in the save sent last,   *)
(* or in the library when that one was stored last; a target of an         *)
(* injection is to do, being written, refused, or has the endpoint.        *)

(* A sequence without one of its elements is one of the same kind.           *)
LEMMA LibRemoved ==
  ASSUME NEW S, NEW s \in Seq(S), NEW i \in 1..Len(s)
  PROVE  Backend!RemoveAt(s, i) \in Seq(S)
<1>1. Len(s) \in Nat /\ \A k \in 1..Len(s) : s[k] \in S
  BY ElementOfSeq
<1>2. SubSeq(s, 1, i - 1) \in Seq(S) /\ SubSeq(s, i + 1, Len(s)) \in Seq(S)
  BY <1>1, SubSeqProperties
<1> QED
  BY <1>2, ConcatProperties DEF Backend!RemoveAt
LibEntries == [url : Urls, probing : BOOLEAN]
LibTimers == {"save"} \X Seq(Urls)
LibShown == [entries : Seq(LibEntries), loading : BOOLEAN, timer : LibTimers \cup {Backend!NoTimer}, sent : Nat,
             saves : SUBSET (Nat \X Seq(Urls)), held : Nat, probes : SUBSET ((Nat \ {0}) \X (0..MaxBackendAsks)),
             collect : SUBSET SUBSET Urls, moved : BOOLEAN, asks : 0..MaxBackendAsks]
LibLists == SUBSET (Urls \cup {Own})
LibInjections == [kind : {"bs", "nc"}, url : Urls \cup {Own}, all : SUBSET Targets, todo : SUBSET Targets,
               at : SUBSET Targets, read : LibLists, failed : BOOLEAN, busy : BOOLEAN,
               refused : SUBSET Targets, unread : SUBSET Targets]

\* The timer holds what is shown; so does the save it left, and then the manager.
SavesInStep ==
    /\ lib.timer # Backend!NoTimer => lib.timer[2] = Backend!Payload(lib.entries)
    /\ lib.timer = Backend!NoTimer =>
         \A s \in lib.saves : s[1] = lib.sent => s[2] = Backend!Payload(lib.entries)
    /\ lib.timer = Backend!NoTimer /\ lib.held = lib.sent => library = Backend!Payload(lib.entries)
    /\ lib.held \in 0..lib.sent /\ \A s \in lib.saves : s[1] \in 1..lib.sent

InjectionInStep ==
    /\ inject.todo \cup inject.at \subseteq inject.all /\ inject.refused \subseteq inject.all
    /\ \A t, w \in inject.at : t = w
    /\ inject.at # {} => inject.busy
    /\ ~inject.busy => inject.todo = {} /\ inject.at = {}
    /\ ~inject.failed => \A t \in inject.all \ inject.refused :
                            t \in inject.todo \/ t \in inject.at \/ inject.url \in targets[t]
    /\ \A t \in inject.at \ inject.unread : inject.read = targets[t]

\* The saves are left alone.
SameSaves(l) == l.sent = lib.sent /\ l.saves = lib.saves /\ l.held = lib.held

BackendInv ==
    /\ library \in Seq(Urls) /\ lib \in LibShown /\ targets \in [Targets -> LibLists] /\ inject \in LibInjections
    /\ SavesInStep /\ Backend!ProbeSettles /\ InjectionInStep

-----------------------------------------------------------------------------
(* Each entry has an address of the library.                                 *)
LEMMA EntryTyped ==
  ASSUME NEW es \in Seq(LibEntries)
  PROVE  /\ Len(es) \in Nat /\ DOMAIN es = 1..Len(es)
         /\ \A i \in DOMAIN es : es[i] \in LibEntries /\ es[i].url \in Urls /\ es[i].probing \in BOOLEAN
<1>1. Len(es) \in Nat /\ DOMAIN es = 1..Len(es)
  BY LenProperties
<1>2. \A i \in DOMAIN es : es[i] \in LibEntries
  BY <1>1, ElementOfSeq
<1> QED
  BY <1>1, <1>2 DEF LibEntries

(* What is saved of entries is their addresses.                              *)
LEMMA PayloadTyped == ASSUME NEW es \in Seq(LibEntries) PROVE Backend!Payload(es) \in Seq(Urls)
<1>1. Len(es) \in Nat /\ DOMAIN es = 1..Len(es) /\ \A i \in 1..Len(es) : es[i].url \in Urls
  BY EntryTyped
<1>2. [i \in 1..Len(es) |-> es[i].url] \in Seq(Urls)
  BY <1>1, IsASeq
<1> QED
  BY <1>1, <1>2 DEF Backend!Payload

\* LibEntries that are not being probed, and those there are.
LibIdle == [url : Urls, probing : {FALSE}]

(* Entries that are not probed are entries.                                  *)
LEMMA IdleEntries ==
  /\ \A u \in Urls : Backend!Entry(u) \in LibIdle /\ Backend!Entry(u) \in LibEntries
  /\ \A es \in Seq(LibIdle) : es \in Seq(LibEntries) /\ \A i \in DOMAIN es : ~es[i].probing
<1>1. \A u \in Urls : Backend!Entry(u) \in LibIdle /\ Backend!Entry(u) \in LibEntries
  BY DEF Backend!Entry, LibIdle, LibEntries
<1>2. LibIdle \subseteq LibEntries
  BY DEF LibIdle, LibEntries
<1>3. ASSUME NEW es \in Seq(LibIdle) PROVE es \in Seq(LibEntries) /\ \A i \in DOMAIN es : ~es[i].probing
  <2>1. es \in Seq(LibEntries)
    BY <1>2, SeqMonotonic
  <2>2. \A i \in DOMAIN es : es[i] \in LibIdle
    BY ElementOfSeq, LenProperties
  <2> QED
    BY <2>1, <2>2 DEF LibIdle
<1> QED
  BY <1>1, <1>3

(* What is loaded or collected comes in as entries that are not probed.      *)
LEMMA MappedIdle == ASSUME NEW us \in Seq(Urls) PROVE Backend!Mapped(us) \in Seq(LibIdle)
<1>1. Len(us) \in Nat /\ DOMAIN us = 1..Len(us) /\ \A i \in 1..Len(us) : Backend!Entry(us[i]) \in LibIdle
  BY ElementOfSeq, LenProperties, IdleEntries
<1>2. [i \in 1..Len(us) |-> Backend!Entry(us[i])] \in Seq(LibIdle)
  BY <1>1, IsASeq
<1> QED
  BY <1>1, <1>2 DEF Backend!Mapped

(* A finite set of addresses, put in an order, is a sequence of them.        *)
LEMMA SetAsSeq ==
  ASSUME Backend!BackendAssumption, NEW us \in SUBSET Urls
  PROVE  Backend!SetToSeq(us) \in Seq(Urls)
<1>0. IsFiniteSet(Urls) /\ Backend!Cardinality(us) = Cardinality(us)
  BY DEF Backend!BackendAssumption, Backend!IsFiniteSet, IsFiniteSet, Backend!Cardinality, Cardinality
<1>1. IsFiniteSet(us) /\ Cardinality(us) \in Nat /\ ExistsBijection(1..Cardinality(us), us)
  BY <1>0, FS_Subset, FS_CardinalityType
<1>2. \E f \in [1..Cardinality(us) -> us] : Backend!IsInjective(f)
  BY <1>1 DEF ExistsBijection, Bijection, Injection, IsInjective, Backend!IsInjective
<1>3. Backend!SetToSeq(us) \in [1..Cardinality(us) -> us]
  BY <1>0, <1>2 DEF Backend!SetToSeq
<1>4. Backend!SetToSeq(us) \in [1..Cardinality(us) -> Urls]
  BY <1>3
<1> QED
  BY <1>1, <1>4, SeqDef

\* The effect on the entries.
LEMMA ChangedIs ==
  ASSUME NEW l \in LibShown, NEW es \in Seq(LibEntries)
  PROVE  /\ Backend!Changed(l, es) \in LibShown /\ Backend!Changed(l, es).entries = es /\ Backend!Changed(l, es).timer # Backend!NoTimer
         /\ Backend!Changed(l, es).timer[2] = Backend!Payload(es) /\ Backend!Changed(l, es).asks = l.asks
         /\ Backend!Changed(l, es).moved = l.moved /\ Backend!Changed(l, es).probes = l.probes
         /\ SameSaves(l) => SameSaves(Backend!Changed(l, es))
<1> DEFINE t == <<"save", Backend!Payload(es)>>
<1>1. t \in LibTimers /\ t # Backend!NoTimer /\ t[2] = Backend!Payload(es)
  BY PayloadTyped DEF LibTimers, LibShown, Backend!NoTimer
<1>2. Backend!Changed(l, es) = [l EXCEPT !.entries = es, !.timer = t]
  BY DEF Backend!Changed
<1> HIDE DEF t
<1> QED
  BY <1>1, <1>2 DEF LibShown, SameSaves

(* A step that is counted does no more than what is counted.                 *)
LEMMA LibAsking ==
  ASSUME Backend!BackendAssumption, lib \in LibShown, NEW l \in LibShown, l.asks = lib.asks, Backend!Asked(l)
  PROVE  /\ lib' \in LibShown /\ lib'.entries = l.entries /\ lib'.timer = l.timer /\ lib'.moved = l.moved
         /\ lib'.probes = l.probes /\ lib'.sent = l.sent /\ lib'.saves = l.saves /\ lib'.held = l.held
<1>1. lib' = [l EXCEPT !.asks = lib.asks + 1] /\ lib.asks < MaxBackendAsks
  BY DEF Backend!Asked
<1>2. lib.asks \in 0..MaxBackendAsks
  BY DEF LibShown
<1>3. lib.asks + 1 \in 0..MaxBackendAsks
  BY <1>1, <1>2 DEF Backend!BackendAssumption
<1>4. \A q \in 0..MaxBackendAsks : [l EXCEPT !.asks = q] \in LibShown
  BY DEF LibShown
<1> QED
  BY <1>1, <1>3, <1>4 DEF LibShown

\* Whatever changes the entries sets the timer; what it leaves of probes is to
\* be shown.
LEMMA EntriesKept ==
  ASSUME BackendInv, UNCHANGED <<library, targets, inject>>, NEW es \in Seq(LibEntries), lib' \in LibShown,
         lib'.entries = es, lib'.timer # Backend!NoTimer, lib'.timer[2] = Backend!Payload(es), SameSaves(lib'),
         lib'.moved \/ \A i \in DOMAIN es : es[i].probing => \E p \in lib'.probes : p[1] = i
  PROVE  BackendInv'
<1>1. Backend!ProbeSettles'
  BY DEF Backend!ProbeSettles
<1>2. SavesInStep'
  BY DEF SavesInStep, SameSaves, BackendInv
<1> QED
  BY <1>1, <1>2 DEF BackendInv, InjectionInStep

\* The same, asked for by the administrator.
LEMMA EntriesAsked ==
  ASSUME Backend!BackendAssumption, BackendInv, UNCHANGED <<library, targets, inject>>, NEW es \in Seq(LibEntries),
         NEW l \in LibShown, l.asks = lib.asks, SameSaves(l), Backend!Asked(Backend!Changed(l, es)),
         l.moved \/ \A i \in DOMAIN es : es[i].probing => \E p \in l.probes : p[1] = i
  PROVE  BackendInv'
<1> DEFINE c == Backend!Changed(l, es)
<1>1. /\ c \in LibShown /\ c.entries = es /\ c.timer # Backend!NoTimer /\ c.timer[2] = Backend!Payload(es) /\ c.asks = lib.asks
      /\ c.moved = l.moved /\ c.probes = l.probes /\ SameSaves(c)
  BY ChangedIs
<1>2. Backend!Asked(c) /\ lib \in LibShown
  BY DEF BackendInv
<1> HIDE DEF c
<1>3. /\ lib' \in LibShown /\ lib'.entries = es /\ lib'.timer # Backend!NoTimer /\ lib'.timer[2] = Backend!Payload(es)
      /\ lib'.moved = l.moved /\ lib'.probes = l.probes /\ SameSaves(lib')
  BY <1>1, <1>2, LibAsking DEF SameSaves
<1> QED
  BY <1>3, EntriesKept

\* The entries stay what they are, and so do timer, saves and probes.
LEMMA EntriesUntouched ==
  ASSUME BackendInv, UNCHANGED library, lib' \in LibShown, targets' \in [Targets -> LibLists],
         inject' \in LibInjections, InjectionInStep',
         lib'.entries = lib.entries, lib'.timer = lib.timer, SameSaves(lib'),
         lib'.moved = lib.moved, lib'.probes = lib.probes
  PROVE  BackendInv'
  BY DEF BackendInv, SavesInStep, SameSaves, Backend!ProbeSettles

(* The page opens with no entries, and with a save of none under its timer;  *)
(* what was sent before is under way still.                                  *)
LEMMA OpenedIs ==
  ASSUME Backend!BackendAssumption
  PROVE  /\ Backend!Opened \in LibShown /\ Backend!Opened.entries = <<>> /\ Backend!Opened.timer # Backend!NoTimer
         /\ Backend!Opened.timer[2] = Backend!Payload(<<>>) /\ Backend!Opened.sent = 0 /\ Backend!Opened.saves = {}
         /\ Backend!Opened.held = 0
<1>1. <<>> \in Seq(LibEntries) /\ <<>> \in Seq(Urls) /\ 0 \in 0..MaxBackendAsks
  BY DEF Backend!BackendAssumption
<1>2. <<"save", <<>>>> \in LibTimers /\ <<"save", <<>>>> # Backend!NoTimer
  BY <1>1 DEF LibTimers, Backend!NoTimer
<1>3. Backend!Payload(<<>>) = <<>>
  BY DEF Backend!Payload
<1>4. Backend!Opened \in LibShown
  BY <1>1, <1>2 DEF Backend!Opened, LibShown
<1> QED
  BY <1>2, <1>3, <1>4 DEF Backend!Opened

(* The page opens without an injection.                                      *)
LEMMA NoInjectionIs ==
  /\ Backend!NoInjection \in LibInjections /\ Backend!NoInjection.todo = {} /\ Backend!NoInjection.at = {} /\ Backend!NoInjection.all = {}
  /\ Backend!NoInjection.busy = FALSE /\ Backend!NoInjection.refused = {} /\ Backend!NoInjection.unread = {}
  BY DEF Backend!NoInjection, LibInjections, LibLists

(* The page opens with its invariant.                                        *)
LEMMA BackendInitial == ASSUME Backend!BackendAssumption, Backend!BackendInit PROVE BackendInv
<1>1. library \in Seq(Urls) /\ lib = Backend!Opened /\ inject = Backend!NoInjection
  <2>1. PICK u \in Urls : library \in {<<>>, <<u>>}
    BY DEF Backend!BackendInit
  <2>2. <<>> \in Seq(Urls) /\ <<u>> \in Seq(Urls)
    BY <2>1
  <2> QED
    BY <2>1, <2>2 DEF Backend!BackendInit
<1>2. targets \in [Targets -> LibLists]
  BY DEF Backend!BackendInit, LibLists
<1>3. SavesInStep /\ Backend!ProbeSettles
  BY <1>1, OpenedIs DEF SavesInStep, Backend!ProbeSettles
<1>4. InjectionInStep
  BY <1>1, NoInjectionIs DEF InjectionInStep
<1> QED
  BY <1>1, <1>2, <1>3, <1>4, OpenedIs, NoInjectionIs DEF BackendInv

-----------------------------------------------------------------------------
\* An injection goes past a target.
LEMMA PastIs ==
  ASSUME inject \in LibInjections, NEW t \in Targets, NEW i,
         i \in {Backend!Past(t), Backend!Failing(t), [Backend!Past(t) EXCEPT !.refused = @ \cup {t}]}
  PROVE  /\ i \in LibInjections /\ i.all = inject.all /\ i.todo = inject.todo \ {t} /\ i.at = {} /\ i.url = inject.url
         /\ i.busy = inject.busy /\ i.unread = inject.unread
         /\ inject.refused \subseteq i.refused /\ i.refused \subseteq inject.refused \cup {t}
         /\ inject.failed => i.failed
         /\ Backend!Failing(t).failed /\ t \in [Backend!Past(t) EXCEPT !.refused = @ \cup {t}].refused
<1>1. Backend!Failing(t).failed /\ t \in [Backend!Past(t) EXCEPT !.refused = @ \cup {t}].refused
  BY DEF Backend!Failing, Backend!Past, LibInjections
<1>2. /\ i \in LibInjections /\ i.all = inject.all /\ i.todo = inject.todo \ {t} /\ i.at = {} /\ i.url = inject.url
      /\ i.busy = inject.busy /\ i.unread = inject.unread
      /\ inject.refused \subseteq i.refused /\ i.refused \subseteq inject.refused \cup {t}
      /\ inject.failed => i.failed
  <2>1. CASE i = Backend!Past(t)
    BY <2>1 DEF Backend!Past, LibInjections, LibLists
  <2>2. CASE i = Backend!Failing(t)
    BY <2>2 DEF Backend!Failing, Backend!Past, LibInjections, LibLists
  <2>3. CASE i = [Backend!Past(t) EXCEPT !.refused = @ \cup {t}]
    BY <2>3 DEF Backend!Past, LibInjections, LibLists
  <2> QED
    BY <2>1, <2>2, <2>3
<1> QED
  BY <1>1, <1>2

(* Reading a target turns it from one to do into the one that is written.    *)
LEMMA WritingIs ==
  ASSUME inject \in LibInjections, NEW t \in Targets, NEW e \in LibLists, NEW i,
         i = Backend!Writing(t, e) \/ (i = Backend!WritingUnread(t) /\ e = {})
  PROVE  /\ i \in LibInjections /\ i.all = inject.all /\ i.todo = inject.todo \ {t} /\ i.at = {t} /\ i.url = inject.url
         /\ i.failed = inject.failed /\ i.busy = inject.busy /\ i.refused = inject.refused /\ i.read = e
         /\ t \in Backend!WritingUnread(t).unread
<1>1. t \in Backend!WritingUnread(t).unread
  BY DEF Backend!WritingUnread, Backend!Writing, LibInjections
<1>2. CASE i = Backend!Writing(t, e)
  BY <1>1, <1>2 DEF Backend!Writing, LibInjections
<1>3. CASE i = Backend!WritingUnread(t) /\ e = {}
  BY <1>1, <1>3 DEF Backend!WritingUnread, Backend!Writing, LibInjections
<1> QED
  BY <1>2, <1>3

(* A step of an injection leaves the library in step.                        *)
LEMMA InjectionKept ==
  ASSUME BackendInv, UNCHANGED <<library, lib>>, targets' \in [Targets -> LibLists], inject' \in LibInjections,
         InjectionInStep'
  PROVE  BackendInv'
  BY EntriesUntouched DEF BackendInv, SameSaves

(* An injection starts with all its targets to do.                           *)
LEMMA InjectionStarts ==
  ASSUME Backend!BackendAssumption, BackendInv, NEW kind \in {"bs", "nc"}, NEW i \in DOMAIN lib.entries,
         NEW T \in SUBSET Targets, Backend!Inject(kind, i, T)
  PROVE  BackendInv'
<1>0. lib \in LibShown /\ lib.entries \in Seq(LibEntries) /\ UNCHANGED <<library, targets>> /\ Backend!Asked(lib)
  BY DEF BackendInv, LibShown, Backend!Inject
<1>1. lib.entries[i].url \in Urls
  BY <1>0, EntryTyped
<1>2. inject' = [Backend!NoInjection EXCEPT !.kind = kind, !.url = lib.entries[i].url, !.all = T, !.todo = T,
                                            !.busy = TRUE, !.unread = inject.unread]
  BY DEF Backend!Inject
<1>u. inject.unread \in SUBSET Targets
  BY DEF BackendInv, LibInjections
<1>3. /\ inject' \in LibInjections /\ inject'.all = T /\ inject'.todo = T /\ inject'.busy = TRUE /\ inject'.at = {}
      /\ inject'.refused = {}
  BY <1>1, <1>2, <1>u, NoInjectionIs DEF LibInjections
<1>4. InjectionInStep'
  BY <1>3 DEF InjectionInStep
<1>5. /\ lib' \in LibShown /\ lib'.entries = lib.entries /\ lib'.timer = lib.timer
      /\ SameSaves(lib') /\ lib'.moved = lib.moved /\ lib'.probes = lib.probes
  BY <1>0, LibAsking DEF SameSaves
<1> QED
  BY <1>0, <1>3, <1>4, <1>5, EntriesUntouched DEF BackendInv

(* A target is passed with the endpoint, as refused, or as failed.           *)
LEMMA PastKept ==
  ASSUME BackendInv, UNCHANGED <<library, lib>>, NEW t \in inject.all, inject.at \subseteq {t},
         targets' \in [Targets -> LibLists], \A w \in Targets : w # t => targets'[w] = targets[w],
         inject' \in {Backend!Past(t), Backend!Failing(t), [Backend!Past(t) EXCEPT !.refused = @ \cup {t}]},
         inject'.failed \/ t \in inject'.refused \/ inject.url \in targets'[t]
  PROVE  BackendInv'
<1>0. inject \in LibInjections /\ InjectionInStep /\ inject.all \subseteq Targets
  BY DEF BackendInv, LibInjections
<1>1. /\ inject' \in LibInjections /\ inject'.all = inject.all /\ inject'.todo = inject.todo \ {t} /\ inject'.at = {}
      /\ inject'.url = inject.url /\ inject'.busy = inject.busy /\ inject'.unread = inject.unread
      /\ inject.refused \subseteq inject'.refused /\ inject'.refused \subseteq inject.refused \cup {t}
      /\ inject.failed => inject'.failed
  <2> DEFINE i == inject'
  <2>1. t \in Targets /\ i \in {Backend!Past(t), Backend!Failing(t), [Backend!Past(t) EXCEPT !.refused = @ \cup {t}]}
    BY <1>0
  <2> HIDE DEF i
  <2>2. /\ i \in LibInjections /\ i.all = inject.all /\ i.todo = inject.todo \ {t} /\ i.at = {} /\ i.url = inject.url
        /\ i.busy = inject.busy /\ i.unread = inject.unread
        /\ inject.refused \subseteq i.refused /\ i.refused \subseteq inject.refused \cup {t}
        /\ inject.failed => i.failed
    BY <1>0, <2>1, PastIs
  <2> QED
    BY <2>2 DEF i
<1>2. InjectionInStep'
  <2>1. /\ inject'.todo \cup inject'.at \subseteq inject'.all /\ inject'.refused \subseteq inject'.all
        /\ inject'.at = {} /\ (~inject'.busy => inject'.todo = {})
    BY <1>0, <1>1 DEF InjectionInStep
  <2>2. ~inject'.failed => \A w \in inject'.all \ inject'.refused :
                             w \in inject'.todo \/ w \in inject'.at \/ inject'.url \in targets'[w]
    BY <1>0, <1>1 DEF InjectionInStep
  <2> QED
    BY <2>1, <2>2 DEF InjectionInStep
<1> QED
  BY <1>1, <1>2, InjectionKept

(* The steps of a running injection.                                         *)
LEMMA InjectionNextKept ==
  ASSUME BackendInv, \E t \in Targets : Backend!ReadFailed(t) \/ Backend!Read(t) \/ Backend!Write(t)
  PROVE  BackendInv' /\ Backend!AddedOnly
<1>0. inject \in LibInjections /\ targets \in [Targets -> LibLists] /\ InjectionInStep
  BY DEF BackendInv
<1>1. PICK t \in Targets : Backend!ReadFailed(t) \/ Backend!Read(t) \/ Backend!Write(t)
  OBVIOUS
<1>2. UNCHANGED <<library, lib>>
  BY <1>1 DEF Backend!ReadFailed, Backend!Read, Backend!Write
<1>3. CASE Backend!ReadFailed(t) /\ inject.kind = "bs"
  <2>1. inject' = Backend!Failing(t) /\ targets' = targets /\ t \in inject.all /\ inject.at = {}
    BY <1>0, <1>3 DEF Backend!ReadFailed, Backend!NextTarget, InjectionInStep
  <2>2. inject'.failed
    BY <1>0, <1>1, <2>1, PastIs
  <2> QED
    BY <1>0, <1>2, <2>1, <2>2, PastKept DEF Backend!AddedOnly
<1>4. ASSUME NEW e \in LibLists, inject' = Backend!Writing(t, e) \/ (inject' = Backend!WritingUnread(t) /\ e = {}),
             t \in inject'.unread \/ e = targets[t], Backend!NextTarget(t), targets' = targets
      PROVE  BackendInv' /\ Backend!AddedOnly
  <2>1. inject.busy /\ inject.at = {} /\ t \in inject.todo
    BY <1>4 DEF Backend!NextTarget
  <2>2. /\ inject' \in LibInjections /\ inject'.all = inject.all /\ inject'.todo = inject.todo \ {t}
        /\ inject'.at = {t} /\ inject'.url = inject.url /\ inject'.failed = inject.failed
        /\ inject'.busy = inject.busy /\ inject'.refused = inject.refused
        /\ t \in inject'.unread \/ inject'.read = targets[t]
    <3> DEFINE i == inject'
    <3>1. i = Backend!Writing(t, e) \/ (i = Backend!WritingUnread(t) /\ e = {})
      BY <1>4
    <3> HIDE DEF i
    <3>2. /\ i \in LibInjections /\ i.all = inject.all /\ i.todo = inject.todo \ {t} /\ i.at = {t} /\ i.url = inject.url
          /\ i.failed = inject.failed /\ i.busy = inject.busy /\ i.refused = inject.refused /\ i.read = e
      BY <1>0, <1>1, <1>4, <3>1, WritingIs
    <3> QED
      BY <1>4, <3>2 DEF i
  <2>3. InjectionInStep'
    BY <1>0, <1>4, <2>1, <2>2 DEF InjectionInStep
  <2>4. Backend!AddedOnly
    BY <1>4 DEF Backend!AddedOnly
  <2> QED
    BY <1>0, <1>2, <1>4, <2>2, <2>3, <2>4, InjectionKept
<1>5. CASE Backend!ReadFailed(t) /\ inject.kind # "bs"
  <2>1. {} \in LibLists
    BY DEF LibLists
  <2>2. inject' = Backend!WritingUnread(t) /\ Backend!NextTarget(t) /\ targets' = targets
    BY <1>5 DEF Backend!ReadFailed
  <2>3. t \in inject'.unread
    BY <1>0, <1>1, <2>1, <2>2, WritingIs
  <2> QED
    BY <1>4, <2>1, <2>2, <2>3
<1>6. CASE Backend!Read(t) /\ inject.url \in targets[t]
  <2>1. inject' = Backend!Past(t) /\ targets' = targets /\ inject.at = {} /\ t \in inject.all
    BY <1>0, <1>6 DEF Backend!Read, Backend!NextTarget, InjectionInStep
  <2> QED
    BY <1>0, <1>2, <1>6, <2>1, PastKept DEF Backend!AddedOnly
<1>7. CASE Backend!Read(t) /\ inject.url \notin targets[t]
  <2>1. targets[t] \in LibLists
    BY <1>0, <1>1
  <2>2. inject' = Backend!Writing(t, targets[t]) /\ Backend!NextTarget(t) /\ targets' = targets
    BY <1>7 DEF Backend!Read
  <2> QED
    BY <1>4, <2>1, <2>2
<1>8. CASE Backend!Write(t)
  <2>1. t \in inject.at /\ inject.at \subseteq {t} /\ t \in inject.all
    BY <1>0, <1>8 DEF Backend!Write, InjectionInStep
  <2> DEFINE l == inject.read \cup {inject.url}
  <2>2. l \in LibLists
    BY <1>0 DEF LibInjections, LibLists
  <2>3. Backend!Written(t) = [targets EXCEPT ![t] = l]
    BY DEF Backend!Written
  <2>4. inject.url \in l /\ (t \notin inject.unread => targets[t] \subseteq l)
    BY <1>0, <2>1 DEF InjectionInStep
  <2>5. targets' = targets \/ targets' = [targets EXCEPT ![t] = l]
    BY <1>8, <2>3 DEF Backend!Write
  <2>7. inject' \in {Backend!Past(t), Backend!Failing(t), [Backend!Past(t) EXCEPT !.refused = @ \cup {t}]}
    BY <1>8 DEF Backend!Write
  <2> HIDE DEF l
  <2>8. /\ targets' \in [Targets -> LibLists] /\ \A w \in Targets : w # t => targets'[w] = targets[w]
        /\ targets' = [targets EXCEPT ![t] = l] => targets'[t] = l
    BY <1>0, <2>2, <2>5
  <2>9. inject'.failed \/ t \in inject'.refused \/ inject.url \in targets'[t]
    <3>1. CASE targets' = [targets EXCEPT ![t] = l]
      BY <2>4, <2>8, <3>1
    <3>2. CASE inject' = Backend!Failing(t) \/ inject' = [Backend!Past(t) EXCEPT !.refused = @ \cup {t}]
      BY <1>0, <1>1, <3>2, PastIs
    <3> QED
      BY <1>8, <2>3, <3>1, <3>2 DEF Backend!Write, l
  <2>10. Backend!AddedOnly
    BY <1>0, <2>4, <2>5, <2>8 DEF Backend!AddedOnly
  <2> QED
    BY <1>0, <1>2, <2>1, <2>7, <2>8, <2>9, <2>10, PastKept
<1> QED
  BY <1>1, <1>3, <1>5, <1>6, <1>7, <1>8

-----------------------------------------------------------------------------
(* Each step of the page, its answers included, keeps the invariant.         *)
LEMMA BackendNextKept ==
  ASSUME Backend!BackendAssumption, BackendInv, Backend!BackendNext
  PROVE  BackendInv'
<1>0. /\ library \in Seq(Urls) /\ lib \in LibShown /\ lib.entries \in Seq(LibEntries)
      /\ targets \in [Targets -> LibLists] /\ inject \in LibInjections /\ InjectionInStep
      /\ DOMAIN lib.entries = 1..Len(lib.entries)
  BY LenProperties DEF BackendInv, LibShown
<1>s. lib.moved \/ \A i \in DOMAIN lib.entries : lib.entries[i].probing => \E p \in lib.probes : p[1] = i
  BY DEF BackendInv, Backend!ProbeSettles
<1>1. CASE Backend!Loaded /\ library # <<>>
  <2> DEFINE m == lib.moved \/ lib.probes # {}
             l == [lib EXCEPT !.loading = FALSE, !.moved = m]
             es == Backend!Mapped(library)
  <2>1. m \in BOOLEAN
    BY <1>0 DEF LibShown
  <2>2. lib' = Backend!Changed(l, es) /\ UNCHANGED <<library, targets, inject>>
    BY <1>0, <1>1 DEF Backend!Loaded, LibShown
  <2>3. es \in Seq(LibEntries) /\ \A i \in DOMAIN es : ~es[i].probing
    BY <1>0, MappedIdle, IdleEntries
  <2> HIDE DEF m, es
  <2>4. l \in LibShown /\ SameSaves(l)
    BY <1>0, <2>1 DEF LibShown, SameSaves
  <2> HIDE DEF l
  <2> QED
    BY <2>2, <2>3, <2>4, ChangedIs, EntriesKept
<1>2. CASE (Backend!Loaded /\ library = <<>>) \/ Backend!LoadFailed
  <2>1. lib' = [lib EXCEPT !.loading = FALSE] /\ UNCHANGED <<library, targets, inject>>
    BY <1>2 DEF Backend!Loaded, Backend!LoadFailed
  <2>2. InjectionInStep'
    BY <1>0, <2>1 DEF InjectionInStep
  <2> QED
    BY <1>0, <2>1, <2>2, EntriesUntouched DEF LibShown, SameSaves
<1>3. CASE Backend!TimerFires
  <2>1. lib.timer \in LibTimers /\ lib.timer[2] = Backend!Payload(lib.entries) /\ lib.timer[2] \in Seq(Urls)
    BY <1>0, <1>3 DEF Backend!TimerFires, BackendInv, SavesInStep, LibShown, LibTimers
  <2> DEFINE n == lib.sent + 1
             w == <<n, lib.timer[2]>>
  <2>2. n \in Nat /\ n > lib.sent /\ lib.sent \in Nat /\ w \in Nat \X Seq(Urls) /\ w[1] = n /\ w[2] = lib.timer[2]
    BY <1>0, <2>1 DEF LibShown
  <2>3. lib' = [lib EXCEPT !.sent = n, !.saves = lib.saves \cup {w}, !.timer = Backend!NoTimer]
    BY <1>0, <1>3 DEF Backend!TimerFires, LibShown
  <2> HIDE DEF n, w
  <2>4. /\ lib' \in LibShown /\ lib'.entries = lib.entries /\ lib'.timer = Backend!NoTimer
        /\ lib'.sent = n /\ lib'.saves = lib.saves \cup {w} /\ lib'.held = lib.held
        /\ lib'.moved = lib.moved /\ lib'.probes = lib.probes
    BY <1>0, <2>2, <2>3 DEF LibShown
  <2>5. UNCHANGED <<library, targets, inject>>
    BY <1>3 DEF Backend!TimerFires
  <2>6. n = lib.sent + 1 /\ lib.held \in 0..lib.sent /\ \A s \in lib.saves : s[1] \in 1..lib.sent
    BY DEF n, BackendInv, SavesInStep
  <2>7. SavesInStep'
    BY <2>1, <2>2, <2>4, <2>6 DEF SavesInStep
  <2> QED
    BY <2>4, <2>5, <2>7 DEF BackendInv, Backend!ProbeSettles, InjectionInStep
<1>4. CASE \E s \in lib.saves : Backend!Stored(s) \/ Backend!StoreFailed(s)
  <2>1. PICK s \in lib.saves : Backend!Stored(s) \/ Backend!StoreFailed(s)
    BY <1>4
  <2>2. s[1] \in Nat /\ s[2] \in Seq(Urls) /\ UNCHANGED <<targets, inject>>
    BY <1>0, <2>1 DEF LibShown, Backend!Stored, Backend!StoreFailed
  <2>3. /\ lib' \in LibShown /\ lib'.entries = lib.entries /\ lib'.timer = lib.timer /\ lib'.saves = lib.saves \ {s}
        /\ lib'.moved = lib.moved /\ lib'.probes = lib.probes /\ lib'.sent = lib.sent
        /\ IF Backend!Stored(s) THEN lib'.held = s[1] /\ library' = s[2] ELSE lib'.held = lib.held /\ library' = library
        /\ library' \in Seq(Urls)
    BY <1>0, <2>1, <2>2 DEF Backend!Stored, Backend!StoreFailed, LibShown
  <2>4. SavesInStep'
    <3>1. s[1] \in 1..lib.sent /\ lib.sent \in Nat
      BY <1>0, <2>1 DEF BackendInv, SavesInStep, LibShown
    <3> QED
      BY <2>1, <2>3, <3>1 DEF BackendInv, SavesInStep
  <2> QED
    BY <2>2, <2>3, <2>4 DEF BackendInv, Backend!ProbeSettles, InjectionInStep
<1>5. CASE Backend!Reopen
  <2> DEFINE o == [Backend!Opened EXCEPT !.sent = lib.sent, !.saves = lib.saves, !.held = lib.held]
  <2>1. /\ Backend!Asked(o) /\ inject' = [Backend!NoInjection EXCEPT !.unread = inject.unread]
        /\ UNCHANGED <<library, targets>>
    BY <1>5 DEF Backend!Reopen
  <2>2. /\ lib.sent \in Nat /\ lib.saves \in SUBSET (Nat \X Seq(Urls)) /\ lib.held \in Nat
        /\ lib.asks \in 0..MaxBackendAsks /\ MaxBackendAsks \in Nat
    BY <1>0 DEF LibShown, Backend!BackendAssumption
  <2>3. /\ o \in LibShown /\ o.entries = <<>> /\ o.timer # Backend!NoTimer
        /\ o.timer[2] = Backend!Payload(<<>>) /\ SameSaves(o)
    BY <2>2, OpenedIs DEF LibShown, SameSaves
  <2>4. lib' = [o EXCEPT !.asks = lib.asks + 1] /\ lib.asks + 1 \in 0..MaxBackendAsks
    BY <2>1, <2>2 DEF Backend!Asked
  <2> HIDE DEF o
  <2>5. /\ lib' \in LibShown /\ lib'.entries = <<>> /\ lib'.timer # Backend!NoTimer
        /\ lib'.timer[2] = Backend!Payload(<<>>)
        /\ lib'.sent = lib.sent /\ lib'.saves = lib.saves /\ lib'.held = lib.held
    BY <2>3, <2>4 DEF LibShown, SameSaves
  <2>6. SavesInStep' /\ Backend!ProbeSettles'
    BY <2>5 DEF BackendInv, SavesInStep, Backend!ProbeSettles
  <2>7. inject.unread \in SUBSET Targets
    BY <1>0 DEF LibInjections
  <2>8. /\ inject' \in LibInjections /\ inject'.todo = {} /\ inject'.at = {} /\ inject'.all = {} /\ inject'.refused = {}
        /\ inject'.busy = FALSE
    BY <2>1, <2>7, NoInjectionIs DEF LibInjections
  <2>9. InjectionInStep'
    BY <2>8 DEF InjectionInStep
  <2> QED
    BY <1>0, <2>1, <2>5, <2>6, <2>8, <2>9 DEF BackendInv
<1>6. CASE \E u \in Urls : Backend!Add(u)
  <2>1. PICK u \in Urls : Backend!Add(u)
    BY <1>6
  <2> DEFINE es == Append(lib.entries, Backend!Entry(u))
  <2>2. es \in Seq(LibEntries)
    BY <1>0, <2>1, IdleEntries, AppendProperties
  <2>3. \A i \in DOMAIN es : es[i].probing => i \in DOMAIN lib.entries /\ lib.entries[i].probing
    <3>1. Backend!Entry(u).probing = FALSE
      BY DEF Backend!Entry
    <3>2. DOMAIN es = 1..(Len(lib.entries) + 1) /\ Len(lib.entries) \in Nat
      BY <1>0, <2>1, <2>2, IdleEntries, AppendProperties, LenProperties
    <3>3. /\ \A i \in 1..Len(lib.entries) : es[i] = lib.entries[i]
          /\ es[Len(lib.entries) + 1] = Backend!Entry(u)
      BY <1>0, <2>1, IdleEntries, AppendProperties
    <3> HIDE DEF es
    <3> QED
      BY <1>0, <3>1, <3>2, <3>3
  <2>4. Backend!Asked(Backend!Changed(lib, es)) /\ UNCHANGED <<library, targets, inject>> /\ SameSaves(lib)
    BY <2>1 DEF Backend!Add, SameSaves
  <2> HIDE DEF es
  <2> QED
    BY <1>0, <1>s, <2>2, <2>3, <2>4, EntriesAsked
<1>7. CASE \E u \in Urls : \E i \in DOMAIN lib.entries : Backend!Edit(i, u)
  <2>1. PICK u \in Urls, i \in DOMAIN lib.entries : Backend!Edit(i, u)
    BY <1>7
  <2> DEFINE es == Backend!Edited(lib.entries, i, u)
  <2>2. lib.entries[i] \in LibEntries
    BY <1>0, <2>1, ElementOfSeq
  <2>3. [lib.entries[i] EXCEPT !.url = u] \in LibEntries /\ [lib.entries[i] EXCEPT !.url = u].probing = lib.entries[i].probing
    BY <2>1, <2>2 DEF LibEntries
  <2>4. es = [lib.entries EXCEPT ![i] = [lib.entries[i] EXCEPT !.url = u]]
    BY DEF Backend!Edited
  <2>5. es \in Seq(LibEntries) /\ DOMAIN es = DOMAIN lib.entries
    BY <1>0, <2>1, <2>3, <2>4, ExceptSeq
  <2>6. \A k \in DOMAIN es : es[k].probing = lib.entries[k].probing
    BY <2>1, <2>3, <2>4
  <2>7. Backend!Asked(Backend!Changed(lib, es)) /\ UNCHANGED <<library, targets, inject>> /\ SameSaves(lib)
    BY <2>1 DEF Backend!Edit, SameSaves
  <2> HIDE DEF es
  <2> QED
    BY <1>0, <1>s, <2>5, <2>6, <2>7, EntriesAsked
<1>8. CASE Backend!Collect
  <2> DEFINE c == {{u \in Urls : Backend!Has(u)}}
             l == [lib EXCEPT !.collect = c]
  <2>1. c \in SUBSET SUBSET Urls
    OBVIOUS
  <2>2. Backend!Asked(l) /\ UNCHANGED <<library, targets, inject>>
    BY <1>8 DEF Backend!Collect
  <2> HIDE DEF c
  <2>3. /\ l \in LibShown /\ l.asks = lib.asks /\ l.entries = lib.entries /\ l.timer = lib.timer
        /\ SameSaves(l) /\ l.moved = lib.moved /\ l.probes = lib.probes
    BY <1>0, <2>1 DEF LibShown, SameSaves
  <2> HIDE DEF l
  <2>4. /\ lib' \in LibShown /\ lib'.entries = lib.entries /\ lib'.timer = lib.timer
        /\ SameSaves(lib') /\ lib'.moved = lib.moved /\ lib'.probes = lib.probes
    BY <1>0, <2>2, <2>3, LibAsking DEF SameSaves
  <2>5. InjectionInStep'
    BY <1>0, <2>2 DEF InjectionInStep
  <2> QED
    BY <1>0, <2>2, <2>4, <2>5, EntriesUntouched
<1>9. CASE \E had, us \in SUBSET Urls : Backend!Collected(had, us)
  <2>1. PICK had \in SUBSET Urls, us \in SUBSET Urls : Backend!Collected(had, us)
    BY <1>9
  <2>2. UNCHANGED <<library, targets, inject>>
    BY <2>1 DEF Backend!Collected
  <2>3. CASE us = {}
    <3>1. lib' = [lib EXCEPT !.collect = {}]
      BY <2>1, <2>3 DEF Backend!Collected
    <3>2. /\ lib' \in LibShown /\ lib'.entries = lib.entries /\ lib'.timer = lib.timer
          /\ SameSaves(lib') /\ lib'.moved = lib.moved /\ lib'.probes = lib.probes
      BY <1>0, <3>1 DEF LibShown, SameSaves
    <3>3. InjectionInStep'
      BY <1>0, <2>2 DEF InjectionInStep
    <3> QED
      BY <1>0, <2>2, <3>2, <3>3, EntriesUntouched
  <2>4. CASE us # {}
    <3> DEFINE l == [lib EXCEPT !.collect = {}]
               ns == Backend!Mapped(Backend!SetToSeq(us))
               es == lib.entries \o ns
    <3>1. ns \in Seq(LibIdle) /\ ns \in Seq(LibEntries) /\ \A i \in DOMAIN ns : ~ns[i].probing
      BY <2>1, SetAsSeq, MappedIdle, IdleEntries
    <3>2. lib' = Backend!Changed(l, es)
      BY <2>1, <2>4 DEF Backend!Collected
    <3> HIDE DEF ns
    <3>3. /\ es \in Seq(LibEntries) /\ Len(es) = Len(lib.entries) + Len(ns)
          /\ \A i \in 1..(Len(lib.entries) + Len(ns)) :
                es[i] = IF i <= Len(lib.entries) THEN lib.entries[i] ELSE ns[i - Len(lib.entries)]
      BY <1>0, <3>1, ConcatProperties
    <3>4. DOMAIN es = 1..Len(es) /\ DOMAIN ns = 1..Len(ns) /\ Len(ns) \in Nat /\ Len(lib.entries) \in Nat
      BY <1>0, <3>1, <3>3, LenProperties
    <3> HIDE DEF es
    <3>5. \A i \in DOMAIN es : es[i].probing => i \in DOMAIN lib.entries /\ lib.entries[i].probing
      <4> SUFFICES ASSUME NEW i \in DOMAIN es, es[i].probing PROVE i \in DOMAIN lib.entries /\ lib.entries[i].probing
        OBVIOUS
      <4>1. CASE i <= Len(lib.entries)
        BY <1>0, <3>3, <3>4, <4>1
      <4>2. CASE ~(i <= Len(lib.entries))
        <5>1. i - Len(lib.entries) \in DOMAIN ns /\ es[i] = ns[i - Len(lib.entries)]
          BY <3>3, <3>4, <4>2
        <5> QED
          BY <3>1, <5>1
      <4> QED
        BY <4>1, <4>2
    <3>6. l \in LibShown /\ l.moved = lib.moved /\ l.probes = lib.probes /\ SameSaves(l)
      BY <1>0 DEF LibShown, SameSaves
    <3> HIDE DEF l
    <3>7. /\ lib' \in LibShown /\ lib'.entries = es /\ lib'.timer # Backend!NoTimer
          /\ lib'.timer[2] = Backend!Payload(es) /\ lib'.moved = lib.moved /\ lib'.probes = lib.probes
          /\ SameSaves(lib')
      BY <3>2, <3>3, <3>6, ChangedIs
    <3>8. lib'.moved \/ \A i \in DOMAIN es : es[i].probing => \E p \in lib'.probes : p[1] = i
      BY <1>s, <3>5, <3>7
    <3> QED
      BY <2>2, <3>3, <3>7, <3>8, EntriesKept
  <2> QED
    BY <2>3, <2>4
<1>10. CASE \E i \in DOMAIN lib.entries : Backend!Delete(i)
  <2>1. PICK i \in DOMAIN lib.entries : Backend!Delete(i)
    BY <1>10
  <2> DEFINE m == lib.moved \/ lib.probes # {}
             l == [lib EXCEPT !.moved = m]
             es == Backend!RemoveAt(lib.entries, i)
  <2>1a. m \in BOOLEAN
    BY <1>0 DEF LibShown
  <2>2. Backend!Asked(Backend!Changed(l, es)) /\ UNCHANGED <<library, targets, inject>>
    BY <1>0, <2>1 DEF Backend!Delete, LibShown
  <2>3. es \in Seq(LibEntries)
    BY <1>0, <2>1, LibRemoved
  <2>4. ~m => \A k \in DOMAIN es : ~es[k].probing
    <3> SUFFICES ASSUME ~m PROVE \A k \in DOMAIN es : ~es[k].probing
      OBVIOUS
    <3>1. \A k \in 1..Len(lib.entries) : lib.entries[k] \in LibEntries /\ ~lib.entries[k].probing
      BY <1>0, <1>s, ElementOfSeq
    <3>2. \A k \in 1..Len(lib.entries) : lib.entries[k] \in LibIdle
      BY <3>1 DEF LibEntries, LibIdle
    <3>3. lib.entries \in Seq(LibIdle)
      BY <1>0, <3>2, LenProperties, SeqDef
    <3>4. es \in Seq(LibIdle)
      BY <1>0, <2>1, <3>3, LibRemoved
    <3> HIDE DEF es
    <3> QED
      BY <3>4, IdleEntries
  <2> HIDE DEF m, es
  <2>5. l \in LibShown /\ l.asks = lib.asks /\ l.moved = m /\ l.probes = lib.probes /\ SameSaves(l)
    BY <1>0, <2>1a DEF LibShown, SameSaves
  <2> HIDE DEF l
  <2> QED
    BY <2>2, <2>3, <2>4, <2>5, EntriesAsked
<1>11. ASSUME NEW S \in SUBSET DOMAIN lib.entries, Backend!Probing(S)
       PROVE  BackendInv'
  <2> DEFINE ps == lib.probes \cup {<<i, lib.asks>> : i \in S}
             l == [lib EXCEPT !.probes = ps]
             e(i) == IF i \in S THEN [lib.entries[i] EXCEPT !.probing = TRUE] ELSE lib.entries[i]
             es == [i \in DOMAIN lib.entries |-> e(i)]
  <2>1. Backend!Asked(Backend!Changed(l, es)) /\ UNCHANGED <<library, targets, inject>>
    BY <1>11 DEF Backend!Probing
  <2>2. Len(lib.entries) \in Nat /\ \A i \in 1..Len(lib.entries) : lib.entries[i] \in LibEntries
    BY <1>0, ElementOfSeq, LenProperties
  <2>3. \A i \in 1..Len(lib.entries) : e(i) \in LibEntries /\ (i \notin S => e(i) = lib.entries[i])
    BY <2>2 DEF LibEntries
  <2>4. es \in Seq(LibEntries) /\ DOMAIN es = DOMAIN lib.entries /\ \A i \in DOMAIN es : i \notin S => es[i] = lib.entries[i]
    <3>1. es = [i \in 1..Len(lib.entries) |-> e(i)]
      BY <1>0
    <3> HIDE DEF e
    <3>2. [i \in 1..Len(lib.entries) |-> e(i)] \in Seq(LibEntries)
      BY <2>2, <2>3, IsASeq
    <3> QED
      BY <1>0, <2>3, <3>1, <3>2
  <2>5. ps \in SUBSET ((Nat \ {0}) \X (0..MaxBackendAsks)) /\ \A i \in S : \E p \in ps : p[1] = i
    <3>1. lib.asks \in 0..MaxBackendAsks /\ lib.probes \in SUBSET ((Nat \ {0}) \X (0..MaxBackendAsks))
      BY <1>0 DEF LibShown
    <3>2. \A i \in S : i \in Nat \ {0}
      BY <1>0, <2>2
    <3> DEFINE q(i) == <<i, lib.asks>>
    <3>3. \A i \in S : q(i) \in (Nat \ {0}) \X (0..MaxBackendAsks) /\ q(i)[1] = i
      BY <3>1, <3>2
    <3>4. ps = lib.probes \cup {q(i) : i \in S}
      OBVIOUS
    <3> HIDE DEF ps, q
    <3> QED
      BY <3>1, <3>3, <3>4
  <2>6. lib.probes \subseteq ps
    OBVIOUS
  <2> HIDE DEF ps, es
  <2>7. l \in LibShown /\ l.asks = lib.asks /\ l.moved = lib.moved /\ l.probes = ps /\ SameSaves(l)
    BY <1>0, <2>5 DEF LibShown, SameSaves
  <2> HIDE DEF l
  <2>8. l.moved \/ \A i \in DOMAIN es : es[i].probing => \E p \in l.probes : p[1] = i
    BY <1>s, <2>4, <2>5, <2>6, <2>7
  <2> QED
    BY <2>1, <2>4, <2>7, <2>8, EntriesAsked
<1>12. CASE (\E i \in DOMAIN lib.entries : Backend!Probe(i)) \/ Backend!ProbeAll
  BY <1>11, <1>12 DEF Backend!Probe, Backend!ProbeAll
<1>13. CASE \E p \in lib.probes : Backend!Probed(p)
  <2>1. PICK p \in lib.probes : Backend!Probed(p)
    BY <1>13
  <2> DEFINE l == [lib EXCEPT !.probes = lib.probes \ {p}]
             es == IF p[1] \in DOMAIN lib.entries
                     THEN [lib.entries EXCEPT ![p[1]] = [lib.entries[p[1]] EXCEPT !.probing = FALSE]]
                     ELSE lib.entries
  <2>2. lib' = Backend!Changed(l, es) /\ UNCHANGED <<library, targets, inject>>
    BY <2>1 DEF Backend!Probed
  <2>3. l \in LibShown /\ l.moved = lib.moved /\ l.probes = lib.probes \ {p} /\ SameSaves(l)
    BY <1>0 DEF LibShown, SameSaves
  <2>4. /\ es \in Seq(LibEntries) /\ DOMAIN es = DOMAIN lib.entries
        /\ \A i \in DOMAIN es : IF i = p[1] THEN ~es[i].probing ELSE es[i] = lib.entries[i]
    <3>1. CASE p[1] \in DOMAIN lib.entries
      <4>1. lib.entries[p[1]] \in LibEntries
        BY <1>0, <3>1, ElementOfSeq
      <4>2. /\ [lib.entries[p[1]] EXCEPT !.probing = FALSE] \in LibEntries
            /\ ~[lib.entries[p[1]] EXCEPT !.probing = FALSE].probing
        BY <4>1 DEF LibEntries
      <4> QED
        BY <1>0, <3>1, <4>2, ExceptSeq
    <3>2. CASE p[1] \notin DOMAIN lib.entries
      BY <1>0, <3>2
    <3> QED
      BY <3>1, <3>2
  <2> HIDE DEF l, es
  <2>5. l.moved \/ \A i \in DOMAIN es : es[i].probing => \E q \in l.probes : q[1] = i
    BY <1>s, <2>3, <2>4
  <2> QED
    BY <2>2, <2>3, <2>4, <2>5, ChangedIs, EntriesKept
<1>14. CASE \E i \in DOMAIN lib.entries, T \in SUBSET Targets : Backend!InjectBS(i, T) \/ Backend!InjectNC(i, T)
  BY <1>14, InjectionStarts DEF Backend!InjectBS, Backend!InjectNC
<1>15. CASE Backend!Injected
  <2>1. inject' = [inject EXCEPT !.busy = FALSE] /\ UNCHANGED <<library, lib, targets>>
        /\ inject.todo = {} /\ inject.at = {}
    BY <1>15 DEF Backend!Injected
  <2>2. /\ inject' \in LibInjections /\ inject'.todo = inject.todo /\ inject'.at = inject.at /\ inject'.all = inject.all
        /\ inject'.url = inject.url /\ inject'.failed = inject.failed
    BY <1>0, <2>1 DEF LibInjections
  <2>3. InjectionInStep'
    BY <1>0, <2>1, <2>2 DEF InjectionInStep
  <2> QED
    BY <1>0, <2>1, <2>2, <2>3, InjectionKept
<1>16. CASE \E t \in Targets : Backend!ReadFailed(t) \/ Backend!Read(t) \/ Backend!Write(t)
  BY <1>16, InjectionNextKept
<1> QED
  BY <1>1, <1>2, <1>3, <1>4, <1>5, <1>6, <1>7, <1>8, <1>9, <1>10, <1>12, <1>13, <1>14, <1>15, <1>16
     DEF Backend!BackendNext

(* No step takes an endpoint from a target that was read.                    *)
LEMMA BackendAdds == ASSUME BackendInv, [Backend!BackendNext]_backendVars PROVE Backend!AddedOnly
<1>1. CASE \E t \in Targets : Backend!ReadFailed(t) \/ Backend!Read(t) \/ Backend!Write(t)
  BY <1>1, InjectionNextKept
<1>2. CASE targets' = targets
  BY <1>2 DEF Backend!AddedOnly
<1>3. (\E t \in Targets : Backend!ReadFailed(t) \/ Backend!Read(t) \/ Backend!Write(t)) \/ targets' = targets
  BY DEF Backend!BackendNext, backendVars, Backend!Loaded, Backend!LoadFailed, Backend!TimerFires, Backend!Reopen,
         Backend!ProbeAll, Backend!Injected, Backend!Stored, Backend!StoreFailed, Backend!Add, Backend!Edit,
         Backend!Collect, Backend!Collected, Backend!Delete, Backend!Probe, Backend!Probing, Backend!Probed,
         Backend!InjectBS, Backend!InjectNC, Backend!Inject
<1> QED
  BY <1>1, <1>2, <1>3

(* The invariant implies the properties of the page.                         *)
LEMMA BackendPromises ==
  ASSUME BackendInv
  PROVE  Backend!BackendTypeOK /\ Backend!SavedAsShown /\ Backend!ProbeSettles /\ Backend!InjectedAll
<1>1. lib \in LibShown /\ lib.entries \in Seq(LibEntries) /\ inject \in LibInjections
  BY DEF BackendInv, LibShown
<1>2. \A i \in DOMAIN lib.entries : lib.entries[i].url \in Urls /\ lib.entries[i].probing \in BOOLEAN
  BY <1>1, EntryTyped
<1>3. Backend!BackendTypeOK
  <2>1. /\ library \in Seq(Urls) /\ {lib.loading, lib.moved} \subseteq BOOLEAN
        /\ targets \in [Targets -> SUBSET (Urls \cup {Own})]
    BY <1>1 DEF BackendInv, LibShown, LibLists
  <2>2. lib.held \in 0..lib.sent /\ \A s \in lib.saves : s[1] \in 1..lib.sent /\ s[2] \in Seq(Urls)
    <3>1. lib.saves \in SUBSET (Nat \X Seq(Urls))
      BY <1>1 DEF LibShown
    <3> QED
      BY <3>1 DEF BackendInv, SavesInStep
  <2>3. \A p \in lib.probes : p[1] \in Nat \ {0} /\ p[2] \in 0..MaxBackendAsks
    BY <1>1 DEF LibShown
  <2>4. /\ inject.todo \cup inject.at \subseteq inject.all /\ inject.all \subseteq Targets
        /\ inject.at # {} => inject.busy
        /\ inject.refused \subseteq inject.all /\ inject.unread \subseteq Targets
    BY <1>1 DEF BackendInv, InjectionInStep, LibInjections
  <2> QED
    BY <1>2, <2>1, <2>2, <2>3, <2>4 DEF Backend!BackendTypeOK
<1>4. Backend!SavedAsShown
  BY DEF BackendInv, SavesInStep, Backend!SavedAsShown
<1>5. Backend!InjectedAll
  BY DEF BackendInv, InjectionInStep, Backend!InjectedAll
<1> QED
  BY <1>3, <1>4, <1>5 DEF BackendInv

-----------------------------------------------------------------------------
(* NetworkTab: unless saves and loads were mixed, no file has the fields   *)
(* of another account; unless they overlapped, a save is of the file on    *)
(* show and alone.                                                         *)

NetAccount == Uins \cup {0}
NetEps == [id : NetAccount, on : BOOLEAN]
NetContent == [extra : NetAccount, eps : Seq(NetEps)]
NetDialogs == [open : BOOLEAN, index : Nat, data : NetEps]
NetShown == [file : NetAccount, extra : NetAccount, eps : Seq(NetEps), shown : {"loading", "none", "config"},
             dialog : NetDialogs, saving : BOOLEAN, overlap : BOOLEAN, crossed : BOOLEAN, mixed : BOOLEAN,
             asks : Nat]
NetLoads == [id : Nat, file : NetAccount]
NetSaves == [id : Nat, file : Uins, content : NetContent]
NetAsked == [loads : SUBSET NetLoads, saves : SUBSET NetSaves]

NetTyped ==
    /\ DOMAIN files \subseteq Uins /\ files \in [DOMAIN files -> NetContent]
    /\ net \in NetShown /\ netReqs \in NetAsked
    /\ net.file \in DOMAIN files \cup {0}
    /\ \A l \in netReqs.loads : l.file \in DOMAIN files \cup {0}
    /\ \A s \in netReqs.saves : s.file \in DOMAIN files

\* No file has the fields of another account, nor has what will be saved.
NetUnmixed ==
    /\ \A u \in DOMAIN files : files[u].extra = u
    /\ \A s \in netReqs.saves : s.content.extra = s.file
    /\ netReqs.loads = {} /\ net.shown = "config" /\ ~net.crossed /\ net.file # 0 => net.extra = net.file

\* One request at a time: a save is of the file on show, and the only request.
NetApart ==
    /\ netReqs.saves # {} => netReqs.loads = {} /\ net.shown = "config" /\ net.saving
    /\ \A s, t \in netReqs.saves : s = t
    /\ \A s \in netReqs.saves : s.file = net.file
    /\ netReqs.loads = {} /\ netReqs.saves = {} /\ net.shown = "config" /\ ~net.crossed
       => net.file \in DOMAIN files /\ net.eps = files[net.file].eps

NetInv ==
    /\ NetTyped
    /\ ~net.mixed => NetUnmixed
    /\ ~net.overlap => NetApart

-----------------------------------------------------------------------------
(* A set of numbers has a lowest one.                                        *)
LEMMA Lowest == ASSUME NEW S \in SUBSET Nat, S # {} PROVE \E x \in S : \A y \in S : x <= y
<1>1. PICK x \in S : \A y \in S : ~(<<y, x>> \in OpToRel(<, Nat))
  <2>1. IsWellFoundedOn(OpToRel(<, Nat), Nat)
    BY NatLessThanWellFounded
  <2> QED
    BY <2>1, WFMin
<1>2. \A y \in S : ~(y < x)
  BY <1>1 DEF OpToRel
<1>3. \A y \in S : x <= y
  BY <1>2
<1> QED
  BY <1>3

(* The last of a set of files, by their accounts, is one of them.            *)
LEMMA Highest ==
  ASSUME Network!NetAssumption, NEW S \in SUBSET Uins, S # {}
  PROVE  Network!Max(S) \in S
<1>1. PICK m \in Nat : \A u \in Uins : u \in Nat /\ u <= m
  BY DEF Network!NetAssumption
<1> DEFINE T == {m - x : x \in S}
<1>2. T \in SUBSET Nat /\ T # {}
  BY <1>1
<1>3. PICK t \in T : \A y \in T : t <= y
  <2> HIDE DEF T
  <2> QED
    BY <1>2, Lowest
<1>4. PICK x \in S : t = m - x
  OBVIOUS
<1>5. \A y \in S : x >= y
  BY <1>1, <1>3, <1>4
<1> QED
  BY <1>5 DEF Network!Max

(* A sequence without one of its elements is one of the same kind.           *)
LEMMA NetRemoved ==
  ASSUME NEW S, NEW s \in Seq(S), NEW i \in 1..Len(s)
  PROVE  Network!RemoveAt(s, i) \in Seq(S)
<1>1. Len(s) \in Nat /\ \A k \in 1..Len(s) : s[k] \in S
  BY ElementOfSeq
<1>2. SubSeq(s, 1, i - 1) \in Seq(S) /\ SubSeq(s, i + 1, Len(s)) \in Seq(S)
  BY <1>1, SubSeqProperties
<1> QED
  BY <1>2, ConcatProperties DEF Network!RemoveAt

(* A sequence with one more element is one of the same kind.                 *)
LEMMA AppendedSeq == ASSUME NEW S, NEW s \in Seq(S), NEW e \in S PROVE Append(s, e) \in Seq(S)
  BY AppendProperties

(* A sequence with one element changed is one of the same kind.              *)
LEMMA ChangedSeq ==
  ASSUME NEW S, NEW s \in Seq(S), NEW i \in 1..Len(s), NEW e \in S
  PROVE  [s EXCEPT ![i] = e] \in Seq(S)
  BY ExceptSeq

(* Endpoints, and the files that are made for an account, are of that account. *)
LEMMA EpTyped ==
  /\ \A u \in NetAccount : Network!Endpoint(u) \in NetEps /\ <<Network!Endpoint(u)>> \in Seq(NetEps)
  /\ \A u \in Uins : Network!FileOf(u) \in NetContent /\ Network!FileOf(u).extra = u
  /\ Network!NoDialog \in NetDialogs /\ <<>> \in Seq(NetEps) /\ 0 \in NetAccount /\ Uins \subseteq NetAccount
<1>1. 0 \in NetAccount /\ Uins \subseteq NetAccount
  BY DEF NetAccount
<1>2. \A u \in NetAccount : Network!Endpoint(u) \in NetEps
  BY DEF Network!Endpoint, NetEps
<1>3. \A u \in NetAccount : <<Network!Endpoint(u)>> \in Seq(NetEps)
  BY <1>2
<1>4. \A u \in Uins : Network!FileOf(u) \in NetContent /\ Network!FileOf(u).extra = u
  BY <1>1, <1>3 DEF Network!FileOf, NetContent
<1>5. Network!NoDialog \in NetDialogs
  BY <1>1, <1>2 DEF Network!NoDialog, NetDialogs, Network!NewEndpoint
<1> QED
  BY <1>1, <1>2, <1>3, <1>4, <1>5

(* The page opens with its invariant.                                        *)
LEMMA NetInitial == ASSUME Network!NetAssumption, Network!NetInit PROVE NetInv
<1>1. PICK U \in SUBSET Uins : files = [u \in U |-> Network!FileOf(u)]
  BY DEF Network!NetInit
<1>2. DOMAIN files \subseteq Uins /\ files \in [DOMAIN files -> NetContent] /\ \A u \in DOMAIN files : files[u].extra = u
  BY <1>1, EpTyped
<1>3. net \in NetShown /\ net.file = 0 /\ net.shown = "loading"
  BY EpTyped DEF Network!NetInit, NetShown
<1>4. netReqs \in NetAsked /\ netReqs.saves = {} /\ netReqs.loads = {Network!FirstLoad} /\ Network!FirstLoad.file = 0
  BY EpTyped DEF Network!NetInit, NetAsked, Network!FirstLoad, NetLoads
<1> QED
  BY <1>2, <1>3, <1>4 DEF NetInv, NetTyped, NetUnmixed, NetApart

-----------------------------------------------------------------------------
\* What is shown when a load found nothing, and while another one is under way.
LEMMA NoConfigIs ==
  ASSUME net \in NetShown
  PROVE  /\ Network!NoConfig(net) \in NetShown /\ Network!NoConfig(net).shown = "none" /\ Network!NoConfig(net).file = net.file
         /\ Network!NoConfig(net).mixed = net.mixed /\ Network!NoConfig(net).overlap = net.overlap
         /\ Network!NoConfig(net).saving = net.saving
  BY EpTyped DEF Network!NoConfig, NetShown

(* The answer to a load has changed nothing else of the page yet.            *)
LEMMA LoadingIs ==
  ASSUME NEW n \in NetShown
  PROVE  /\ Network!Loading(n) \in NetShown /\ Network!Loading(n).file = n.file /\ Network!Loading(n).mixed = n.mixed
         /\ Network!Loading(n).overlap = n.overlap /\ Network!Loading(n).saving = n.saving
<1>1. (IF n.shown = "loading" THEN n.shown ELSE "config") \in {"loading", "none", "config"}
  OBVIOUS
<1> QED
  BY <1>1 DEF Network!Loading, NetShown

(* A step that is counted does no more than what is counted.                 *)
LEMMA NetAsking ==
  ASSUME net \in NetShown, NEW n \in NetShown, n.asks = net.asks, Network!Asked(n)
  PROVE  /\ net' \in NetShown /\ net' = [n EXCEPT !.asks = net.asks + 1] /\ net.asks + 1 \in Nat
         /\ net'.file = n.file /\ net'.extra = n.extra /\ net'.eps = n.eps /\ net'.shown = n.shown
         /\ net'.saving = n.saving /\ net'.overlap = n.overlap /\ net'.crossed = n.crossed /\ net'.mixed = n.mixed
<1>1. net' = [n EXCEPT !.asks = net.asks + 1]
  BY DEF Network!Asked
<1>2. net.asks + 1 \in Nat
  BY DEF NetShown
<1>3. \A q \in Nat : [n EXCEPT !.asks = q] \in NetShown
  BY DEF NetShown
<1> QED
  BY <1>1, <1>2, <1>3 DEF NetShown

\* The dialog is opened and closed.
LEMMA NetDialogKept ==
  ASSUME NetInv, UNCHANGED <<files, netReqs>>, NEW d \in NetDialogs, net' = [net EXCEPT !.dialog = d]
  PROVE  NetInv'
<1>1. net \in NetShown
  BY DEF NetInv, NetTyped
<1>2. /\ net' \in NetShown /\ net'.file = net.file /\ net'.extra = net.extra /\ net'.eps = net.eps
      /\ net'.shown = net.shown /\ net'.saving = net.saving /\ net'.overlap = net.overlap
      /\ net'.crossed = net.crossed /\ net'.mixed = net.mixed
  BY <1>1 DEF NetShown
<1> QED
  BY <1>2 DEF NetInv, NetTyped, NetUnmixed, NetApart

\* A file is saved as a whole.
LEMMA NetSaveKept ==
  ASSUME Network!NetAssumption, NetInv, NEW d \in NetDialogs, NEW n, n \in {net, [net EXCEPT !.dialog = d]},
         NEW es \in Seq(NetEps), Network!Save(n, es)
  PROVE  NetInv'
<1>0. net \in NetShown /\ netReqs \in NetAsked
  BY DEF NetInv, NetTyped
<1>1. /\ n \in NetShown /\ n.file = net.file /\ n.extra = net.extra /\ n.shown = net.shown /\ n.asks = net.asks
      /\ n.overlap = net.overlap /\ n.crossed = net.crossed /\ n.mixed = net.mixed
  BY <1>0 DEF NetShown
<1> DEFINE o == n.overlap \/ netReqs.loads \cup netReqs.saves # {}
           x == n.mixed \/ netReqs.loads # {} \/ net.crossed
           w == [n EXCEPT !.saving = TRUE, !.overlap = o, !.mixed = x]
           s == [id |-> net.asks + 1, file |-> net.file, content |-> [extra |-> net.extra, eps |-> es]]
<1>2. o \in BOOLEAN /\ x \in BOOLEAN
  BY <1>0, <1>1 DEF NetShown
<1>3. /\ Network!Asked(w) /\ net.shown = "config" /\ net.file # 0 /\ files' = files
      /\ netReqs' = [netReqs EXCEPT !.saves = netReqs.saves \cup {s}]
  BY <1>1 DEF Network!Save, NetShown
<1> HIDE DEF o, x
<1>4. /\ w \in NetShown /\ w.asks = net.asks /\ w.file = net.file /\ w.extra = net.extra /\ w.shown = net.shown
      /\ w.saving = TRUE /\ w.overlap = o /\ w.crossed = net.crossed /\ w.mixed = x
  BY <1>1, <1>2 DEF NetShown
<1> HIDE DEF w
<1>5. /\ net' \in NetShown /\ net.asks + 1 \in Nat /\ net'.file = net.file /\ net'.extra = net.extra
      /\ net'.shown = "config" /\ net'.saving = TRUE /\ net'.overlap = o /\ net'.crossed = net.crossed
      /\ net'.mixed = x
  BY <1>0, <1>3, <1>4, NetAsking
<1>6. net.file \in Uins /\ net.file \in DOMAIN files /\ net.extra \in NetAccount
  BY <1>0, <1>3 DEF NetInv, NetTyped, NetShown, NetAccount
<1>7. s \in NetSaves /\ s.file = net.file /\ s.content.extra = net.extra
  <2>1. [extra |-> net.extra, eps |-> es] \in NetContent
    BY <1>6 DEF NetContent
  <2> QED
    BY <1>5, <1>6, <2>1 DEF NetSaves
<1> HIDE DEF s
<1>8. netReqs' \in NetAsked /\ netReqs'.loads = netReqs.loads /\ netReqs'.saves = netReqs.saves \cup {s}
  BY <1>0, <1>3, <1>7 DEF NetAsked
<1>9. NetTyped'
  BY <1>3, <1>5, <1>6, <1>7, <1>8 DEF NetInv, NetTyped
<1>10. ~net'.mixed => NetUnmixed'
  <2> HAVE ~net'.mixed
  <2>1. ~net.mixed /\ netReqs.loads = {} /\ ~net.crossed
    BY <1>1, <1>5 DEF x
  <2>2. NetUnmixed
    BY <2>1 DEF NetInv
  <2>3. net.extra = net.file
    BY <1>3, <2>1, <2>2 DEF NetUnmixed
  <2> QED
    BY <1>3, <1>5, <1>7, <1>8, <2>2, <2>3 DEF NetUnmixed
<1>11. ~net'.overlap => NetApart'
  <2> HAVE ~net'.overlap
  <2>1. netReqs.loads = {} /\ netReqs.saves = {}
    BY <1>5 DEF o
  <2> QED
    BY <1>5, <1>7, <1>8, <2>1 DEF NetApart
<1> QED
  BY <1>9, <1>10, <1>11 DEF NetInv

(* Each step of the page, its answers included, keeps the invariant.         *)
LEMMA NetNextKept == ASSUME Network!NetAssumption, NetInv, Network!NetNext PROVE NetInv'
<1>0. /\ net \in NetShown /\ netReqs \in NetAsked /\ DOMAIN files \subseteq Uins
      /\ files \in [DOMAIN files -> NetContent]
  BY DEF NetInv, NetTyped
<1>1. CASE \E l \in netReqs.loads : Network!Found(l)
  <2>1. PICK l \in netReqs.loads : Network!Found(l)
    BY <1>1
  <2>2. l \in NetLoads
    BY <1>0 DEF NetAsked
  <2>3. CASE net' = Network!NoConfig(net) /\ netReqs' = [netReqs EXCEPT !.loads = netReqs.loads \ {l}]
    <3>1. netReqs' \in NetAsked /\ netReqs'.loads = netReqs.loads \ {l} /\ netReqs'.saves = netReqs.saves
      BY <1>0, <2>3 DEF NetAsked
    <3>2. files' = files
      BY <2>1 DEF Network!Found
    <3> QED
      BY <1>0, <2>3, <3>1, <3>2, NoConfigIs DEF NetInv, NetTyped, NetUnmixed, NetApart
  <2>4. CASE /\ DOMAIN files # {} /\ net' = [net EXCEPT !.file = Network!Max(DOMAIN files)]
             /\ netReqs' = [netReqs EXCEPT !.loads = (netReqs.loads \ {l}) \cup
                                                      {[l EXCEPT !.file = Network!Max(DOMAIN files)]}]
    <3>1. PICK m \in DOMAIN files : m = Network!Max(DOMAIN files)
      BY <1>0, <2>4, Highest
    <3>2. m \in NetAccount
      BY <1>0, <3>1 DEF NetAccount
    <3>3. /\ net' \in NetShown /\ net'.file = m /\ net'.shown = net.shown /\ net'.mixed = net.mixed
          /\ net'.overlap = net.overlap /\ net'.saving = net.saving
      BY <1>0, <2>4, <3>1, <3>2 DEF NetShown
    <3>4. [l EXCEPT !.file = m] \in NetLoads /\ [l EXCEPT !.file = m].file = m
      BY <2>2, <3>2 DEF NetLoads
    <3>5. /\ netReqs' \in NetAsked /\ netReqs'.saves = netReqs.saves
          /\ netReqs'.loads = (netReqs.loads \ {l}) \cup {[l EXCEPT !.file = m]}
      BY <1>0, <2>4, <3>1, <3>4 DEF NetAsked
    <3>6. files' = files
      BY <2>1 DEF Network!Found
    <3>7. NetTyped'
      BY <3>1, <3>3, <3>4, <3>5, <3>6 DEF NetInv, NetTyped
    <3>8. netReqs'.loads # {}
      BY <3>5
    <3>9. ~net.mixed => NetUnmixed'
      BY <3>5, <3>6, <3>8 DEF NetInv, NetUnmixed
    <3>10. ~net.overlap => NetApart'
      BY <2>1, <3>5, <3>8 DEF NetInv, NetApart
    <3> QED
      BY <3>3, <3>7, <3>9, <3>10 DEF NetInv
  <2> QED
    BY <2>1, <2>3, <2>4 DEF Network!Found
<1>2. CASE \E l \in netReqs.loads : Network!Loaded(l)
  <2>1. PICK l \in netReqs.loads : Network!Loaded(l)
    BY <1>2
  <2>2. netReqs' \in NetAsked /\ netReqs'.loads = netReqs.loads \ {l} /\ netReqs'.saves = netReqs.saves /\ files' = files
    BY <1>0, <2>1 DEF Network!Loaded, NetAsked
  <2>3. CASE net' = Network!NoConfig(net)
    BY <1>0, <2>1, <2>2, <2>3, NoConfigIs DEF NetInv, NetTyped, NetUnmixed, NetApart
  <2>4. CASE net' = [net EXCEPT !.extra = files[l.file].extra, !.eps = files[l.file].eps, !.shown = "config",
                                !.crossed = l.file # net.file]
    <3>1. l.file \in DOMAIN files /\ files[l.file] \in NetContent
      BY <1>0, <2>1 DEF Network!Loaded, NetInv, NetTyped
    <3>2. files[l.file].extra \in NetAccount /\ files[l.file].eps \in Seq(NetEps)
      BY <3>1 DEF NetContent
    <3>3. PICK c \in BOOLEAN : c <=> l.file # net.file
      OBVIOUS
    <3>4. net' = [net EXCEPT !.extra = files[l.file].extra, !.eps = files[l.file].eps, !.shown = "config",
                             !.crossed = c]
      BY <2>4, <3>3
    <3>5. /\ net' \in NetShown /\ net'.file = net.file /\ net'.extra = files[l.file].extra
          /\ net'.eps = files[l.file].eps /\ net'.shown = "config" /\ net'.crossed = c
          /\ net'.mixed = net.mixed /\ net'.overlap = net.overlap
      BY <1>0, <3>2, <3>4 DEF NetShown
    <3>6. NetTyped'
      BY <2>2, <3>5 DEF NetInv, NetTyped
    <3>7. ~net.mixed => NetUnmixed'
      BY <2>2, <3>1, <3>3, <3>5 DEF NetInv, NetUnmixed
    <3>8. ~net.overlap => NetApart'
      BY <2>1, <2>2, <3>1, <3>3, <3>5 DEF NetInv, NetApart
    <3> QED
      BY <3>5, <3>6, <3>7, <3>8 DEF NetInv
  <2> QED
    BY <2>1, <2>3, <2>4 DEF Network!Loaded
<1>3. CASE \E s \in netReqs.saves : Network!Saved(s)
  <2>1. PICK s \in netReqs.saves : Network!Saved(s)
    BY <1>3
  <2>2. s \in NetSaves /\ s.file \in DOMAIN files /\ s.content \in NetContent /\ s.content.eps \in Seq(NetEps)
    BY <1>0 DEF NetInv, NetTyped, NetAsked, NetSaves, NetContent
  <2>3. files' = [files EXCEPT ![s.file] = s.content]
    BY <2>1 DEF Network!Saved
  <2>4. /\ netReqs' \in NetAsked /\ netReqs'.loads = netReqs.loads /\ netReqs'.saves = netReqs.saves \ {s}
    BY <1>0, <2>1 DEF Network!Saved, NetAsked
  <2>5. /\ net' \in NetShown /\ net'.file = net.file /\ net'.extra = net.extra /\ net'.eps = s.content.eps
        /\ net'.shown = net.shown /\ net'.crossed = net.crossed /\ net'.mixed = net.mixed
        /\ net'.overlap = net.overlap
    BY <1>0, <2>1, <2>2 DEF Network!Saved, NetShown
  <2>6. /\ DOMAIN files' = DOMAIN files /\ files' \in [DOMAIN files' -> NetContent] /\ files'[s.file] = s.content
        /\ \A u \in DOMAIN files : u # s.file => files'[u] = files[u]
    BY <1>0, <2>2, <2>3
  <2>7. NetTyped'
    BY <2>4, <2>5, <2>6 DEF NetInv, NetTyped
  <2>8. ~net.mixed => NetUnmixed'
    BY <2>4, <2>5, <2>6 DEF NetInv, NetUnmixed
  <2>9. ~net.overlap => NetApart'
    BY <2>2, <2>4, <2>5, <2>6 DEF NetInv, NetApart
  <2> QED
    BY <2>5, <2>7, <2>8, <2>9 DEF NetInv
<1>4. CASE \E s \in netReqs.saves : Network!SaveFailed(s)
  <2>1. PICK s \in netReqs.saves : Network!SaveFailed(s)
    BY <1>4
  <2>2. s \in NetSaves /\ s.file \in DOMAIN files /\ s.content \in NetContent /\ s.id \in Nat
    BY <1>0 DEF NetInv, NetTyped, NetAsked, NetSaves
  <2>3. files' = files \/ files' = [files EXCEPT ![s.file] = s.content]
    BY <2>1 DEF Network!SaveFailed
  <2> DEFINE l == [id |-> s.id, file |-> 0]
  <2>4. l \in NetLoads /\ l.file = 0
    BY <2>2, EpTyped DEF NetLoads
  <2>5. netReqs' = [loads |-> netReqs.loads \cup {l}, saves |-> netReqs.saves \ {s}]
    BY <2>1 DEF Network!SaveFailed
  <2> HIDE DEF l
  <2>6. /\ netReqs' \in NetAsked /\ netReqs'.loads = netReqs.loads \cup {l} /\ netReqs'.saves = netReqs.saves \ {s}
    BY <1>0, <2>4, <2>5 DEF NetAsked
  <2>7. /\ net' \in NetShown /\ net'.file = net.file /\ net'.mixed = net.mixed /\ net'.overlap = net.overlap
    <3> DEFINE n == [net EXCEPT !.saving = FALSE]
    <3>1. n \in NetShown /\ n.file = net.file /\ n.mixed = net.mixed /\ n.overlap = net.overlap
      BY <1>0 DEF NetShown
    <3>2. net' = Network!Loading(n)
      BY <2>1 DEF Network!SaveFailed
    <3> HIDE DEF n
    <3> QED
      BY <3>1, <3>2, LoadingIs
  <2>8. /\ DOMAIN files' = DOMAIN files /\ files' \in [DOMAIN files' -> NetContent]
        /\ \A u \in DOMAIN files : files'[u] = files[u] \/ (u = s.file /\ files'[u] = s.content)
    <3>0. DOMAIN files' = DOMAIN files
      BY <2>3
    <3>1. CASE files' = files
      BY <1>0, <3>1
    <3>2. CASE files' = [files EXCEPT ![s.file] = s.content]
      BY <1>0, <2>2, <3>2
    <3> QED
      BY <2>3, <3>1, <3>2
  <2>9. NetTyped'
    BY <2>4, <2>6, <2>7, <2>8 DEF NetInv, NetTyped
  <2>10. netReqs'.loads # {}
    BY <2>6
  <2>11. ~net.mixed => NetUnmixed'
    BY <2>6, <2>8, <2>10 DEF NetInv, NetUnmixed
  <2>12. ~net.overlap => netReqs'.saves = {}
    BY <2>6 DEF NetInv, NetApart
  <2>13. ~net.overlap => NetApart'
    BY <2>10, <2>12 DEF NetApart
  <2> QED
    BY <2>7, <2>9, <2>11, <2>13 DEF NetInv
<1>5. CASE Network!Refresh
  <2> DEFINE l == [id |-> net.asks + 1, file |-> 0]
  <2>1. /\ Network!Loading(net) \in NetShown /\ Network!Loading(net).file = net.file /\ Network!Loading(net).mixed = net.mixed
        /\ Network!Loading(net).overlap = net.overlap /\ Network!Loading(net).asks = net.asks
    BY <1>0, LoadingIs DEF Network!Loading, NetShown
  <2>2. Network!Asked(Network!Loading(net)) /\ files' = files /\ netReqs' = [netReqs EXCEPT !.loads = netReqs.loads \cup {l}]
    BY <1>5 DEF Network!Refresh
  <2>3. /\ net' \in NetShown /\ net'.file = net.file /\ net'.mixed = net.mixed /\ net'.overlap = net.overlap
        /\ net.asks + 1 \in Nat
    BY <1>0, <2>1, <2>2, NetAsking
  <2>4. l \in NetLoads /\ l.file = 0
    BY <2>3, EpTyped DEF NetLoads
  <2> HIDE DEF l
  <2>5. netReqs' \in NetAsked /\ netReqs'.loads = netReqs.loads \cup {l} /\ netReqs'.saves = netReqs.saves
    BY <1>0, <2>2, <2>4 DEF NetAsked
  <2>6. NetTyped'
    BY <2>2, <2>3, <2>4, <2>5 DEF NetInv, NetTyped
  <2>7. netReqs'.loads # {}
    BY <2>5
  <2>8. ~net.mixed => NetUnmixed'
    BY <2>2, <2>5, <2>7 DEF NetInv, NetUnmixed
  <2>9. ~net.overlap => NetApart'
    BY <1>5, <2>5, <2>7 DEF NetInv, NetApart, Network!Refresh
  <2> QED
    BY <2>3, <2>6, <2>8, <2>9 DEF NetInv
<1>6. CASE Network!OpenAdd
  <2>1. [Network!NoDialog EXCEPT !.open = TRUE] \in NetDialogs
    BY EpTyped DEF NetDialogs
  <2> QED
    BY <1>6, <2>1, NetDialogKept DEF Network!OpenAdd
<1>7. CASE Network!CloseDialog
  BY <1>7, EpTyped, NetDialogKept DEF Network!CloseDialog
<1>8. CASE Network!SaveEndpoint
  <2> DEFINE e == [net.dialog.data EXCEPT !.id = 0]
             i == net.dialog.index
  <2>1. e \in NetEps /\ i \in Nat /\ net.eps \in Seq(NetEps)
    BY <1>0, EpTyped DEF NetShown, NetDialogs, NetEps
  <2>2. Network!Save([net EXCEPT !.dialog = Network!NoDialog], Network!Put(net.eps, i, e))
    BY <1>8 DEF Network!SaveEndpoint
  <2> HIDE DEF e, i
  <2>3. Network!Put(net.eps, i, e) \in Seq(NetEps)
    BY <2>1, ChangedSeq, AppendedSeq, LenProperties DEF Network!Put
  <2> QED
    BY <2>2, <2>3, EpTyped, NetSaveKept
<1>9. CASE Network!DeleteEndpoint
  <2> DEFINE es == IF net.dialog.index \in DOMAIN net.eps THEN Network!RemoveAt(net.eps, net.dialog.index) ELSE net.eps
  <2>1. net.eps \in Seq(NetEps)
    BY <1>0 DEF NetShown
  <2>2. es \in Seq(NetEps)
    BY <2>1, NetRemoved, LenProperties
  <2>3. Network!Save([net EXCEPT !.dialog = Network!NoDialog], es)
    BY <1>9 DEF Network!DeleteEndpoint
  <2> HIDE DEF es
  <2> QED
    BY <2>2, <2>3, EpTyped, NetSaveKept
<1>10. CASE \E u \in Uins : Network!LogIn(u)
  <2>1. PICK u \in Uins : Network!LogIn(u)
    BY <1>10
  <2>2. u \notin DOMAIN files /\ UNCHANGED <<net, netReqs>>
    BY <2>1 DEF Network!LogIn
  <2>3. /\ DOMAIN files' = DOMAIN files \cup {u} /\ files'[u] = Network!FileOf(u) /\ files' \in [DOMAIN files' -> NetContent]
        /\ \A v \in DOMAIN files : files'[v] = files[v]
    BY <1>0, <2>1, <2>2, EpTyped DEF Network!LogIn
  <2>4. NetTyped'
    BY <2>2, <2>3 DEF NetInv, NetTyped
  <2>5. ~net.mixed => NetUnmixed'
    BY <2>2, <2>3, EpTyped DEF NetInv, NetUnmixed
  <2>6. ~net.overlap => NetApart'
    BY <2>2, <2>3 DEF NetInv, NetApart
  <2> QED
    BY <2>2, <2>4, <2>5, <2>6 DEF NetInv
<1>11. CASE \E i \in DOMAIN net.eps : Network!Toggle(i)
  <2>1. PICK i \in DOMAIN net.eps : Network!Toggle(i)
    BY <1>11
  <2>2. net.eps \in Seq(NetEps) /\ i \in 1..Len(net.eps)
    BY <1>0, LenProperties DEF NetShown
  <2>3. net.eps[i] \in NetEps
    BY <2>2, ElementOfSeq
  <2>4. [net.eps[i] EXCEPT !.on = ~@] \in NetEps
    BY <2>3 DEF NetEps
  <2>5. [net.eps EXCEPT ![i].on = ~@] \in Seq(NetEps)
    BY <2>2, <2>4, ChangedSeq
  <2>6. Network!Save(net, [net.eps EXCEPT ![i].on = ~@])
    BY <2>1 DEF Network!Toggle
  <2> QED
    BY <2>5, <2>6, EpTyped, NetSaveKept
<1>12. CASE \E i \in DOMAIN net.eps : Network!OpenEdit(i)
  <2>1. PICK i \in DOMAIN net.eps : Network!OpenEdit(i)
    BY <1>12
  <2>2. net.eps \in Seq(NetEps) /\ i \in 1..Len(net.eps) /\ i \in Nat
    BY <1>0, LenProperties DEF NetShown
  <2>3. net.eps[i] \in NetEps
    BY <2>2, ElementOfSeq
  <2>4. [open |-> TRUE, index |-> i, data |-> net.eps[i]] \in NetDialogs
    BY <2>2, <2>3 DEF NetDialogs
  <2> QED
    BY <2>1, <2>4, NetDialogKept DEF Network!OpenEdit
<1> QED
  BY <1>1, <1>2, <1>3, <1>4, <1>5, <1>6, <1>7, <1>8, <1>9, <1>10, <1>11, <1>12 DEF Network!NetNext

(* The invariant implies the properties of the page.                         *)
LEMMA NetPromises ==
  ASSUME Network!NetAssumption, NetInv
  PROVE  Network!NetTypeOK /\ Network!SavedToItsFile /\ Network!ShownIsStored
<1>1. net \in NetShown /\ netReqs \in NetAsked
  BY DEF NetInv, NetTyped
<1>2. \A i \in DOMAIN net.eps : net.eps[i].id \in Uins \cup {0}
  <2>1. net.eps \in Seq(NetEps)
    BY <1>1 DEF NetShown
  <2>2. \A i \in DOMAIN net.eps : net.eps[i] \in NetEps
    BY <2>1, ElementOfSeq, LenProperties
  <2> QED
    BY <2>2 DEF NetEps, NetAccount
<1>3. \A u \in DOMAIN files : files[u].extra \in Uins \cup {0}
  BY DEF NetInv, NetTyped, NetContent, NetAccount
<1>4. Network!NetTypeOK
  BY <1>1, <1>2, <1>3 DEF NetInv, NetTyped, Network!NetTypeOK, NetShown, NetAsked, NetLoads, NetDialogs, NetAccount
<1>5. Network!SavedToItsFile /\ Network!ShownIsStored
  BY DEF NetInv, NetUnmixed, NetApart, Network!SavedToItsFile, Network!ShownIsStored
<1> QED
  BY <1>4, <1>5

-----------------------------------------------------------------------------
(* FilesTab: folder and path are of one answer, and editor and saves have  *)
(* the text of the file they are of, or none if it was deleted.             *)

FileIds == Files!Items \cup {Files!NoItem}
FilesDoomed == [open : BOOLEAN, item : FileIds, listed : Files!Folders]
FilesShown == [path : Files!Folders, listed : Files!Folders, names : SUBSET FileNames, loading : BOOLEAN,
               editing : FileIds, text : FileIds, gone : SUBSET Files!Items, saving : BOOLEAN, doomed : FilesDoomed,
               deleting : BOOLEAN, asks : 0..MaxFilesAsks]
FilesSaves == [item : Files!Items, text : FileIds, path : Files!Folders, id : 1..MaxFilesAsks]
FilesAsked == [lists : SUBSET (Nat \X Files!Folders), reads : SUBSET ((1..MaxFilesAsks) \X Files!Items),
               saves : SUBSET FilesSaves, deletes : SUBSET (Nat \X Files!Items \X Files!Folders)]

\* The text of a file, or none if it has been deleted.
TextOf(text, i, gone) == text = i \/ (text = Files!Empty /\ i \in gone)

FilesInv ==
    /\ fm \in FilesShown /\ fmReqs \in FilesAsked
    /\ DOMAIN disk \subseteq Files!Items /\ Files!Items \subseteq DOMAIN disk \cup fm.gone /\ Files!TextKept
    \* The editor and what it saves have the text of the file they are of.
    /\ fm.editing # Files!NoItem => TextOf(fm.text, fm.editing, fm.gone)
    /\ \A s \in fmReqs.saves : TextOf(s.text, s.item, fm.gone)
    \* Folder and path are of one answer, and the deletion is of both.
    /\ fm.path = fm.listed
    /\ Files!DeletesListed

(* The page opens with its invariant.                                        *)
LEMMA FilesInitial == ASSUME Files!FilesAssumption, Files!FilesInit PROVE FilesInv
<1>1. "root" \in Files!Folders /\ 0 \in 0..MaxFilesAsks /\ Files!NoItem \in FileIds
  BY DEF Files!FilesAssumption, Files!Folders, FileIds
<1>2. [open |-> FALSE, item |-> Files!NoItem, listed |-> "root"] \in FilesDoomed
  BY <1>1 DEF FilesDoomed
<1>3. /\ fm \in FilesShown /\ fm.path = fm.listed /\ fm.editing = Files!NoItem /\ fm.doomed.open = FALSE
  BY <1>1, <1>2 DEF Files!FilesInit, FilesShown, Files!Empty
<1>4. fmReqs \in FilesAsked /\ fmReqs.saves = {}
  BY <1>1 DEF Files!FilesInit, FilesAsked
<1>5. DOMAIN disk = Files!Items /\ Files!TextKept
  BY DEF Files!FilesInit, Files!TextKept
<1> QED
  BY <1>3, <1>4, <1>5 DEF FilesInv, Files!DeletesListed

\* What is asked for is counted.
LEMMA FilesAsking ==
  ASSUME Files!FilesAssumption, fm \in FilesShown, NEW f \in FilesShown, Files!Asked(f), f.asks = fm.asks
  PROVE  /\ fm' \in FilesShown /\ fm'.path = f.path /\ fm'.listed = f.listed /\ fm'.editing = f.editing
         /\ fm'.text = f.text /\ fm'.gone = f.gone /\ fm'.doomed = f.doomed
         /\ fm.asks + 1 \in 1..MaxFilesAsks /\ fm.asks + 1 \in Nat
<1>1. fm' = [f EXCEPT !.asks = fm.asks + 1] /\ fm.asks < MaxFilesAsks
  BY DEF Files!Asked
<1>2. \A q \in 0..MaxFilesAsks : [f EXCEPT !.asks = q] \in FilesShown
  BY DEF FilesShown
<1>3. fm.asks \in 0..MaxFilesAsks
  BY DEF FilesShown
<1>4. fm.asks + 1 \in 0..MaxFilesAsks /\ fm.asks + 1 \in 1..MaxFilesAsks /\ fm.asks + 1 \in Nat
  BY <1>1, <1>3 DEF Files!FilesAssumption
<1> QED
  BY <1>1, <1>2, <1>4 DEF FilesShown

(* A listing that is sent leaves the saves under way alone.                  *)
LEMMA FilesListing ==
  ASSUME NEW f \in FilesAsked, NEW id \in Nat, NEW d \in Files!Folders, Files!Listing(f, id, d)
  PROVE  fmReqs' \in FilesAsked /\ fmReqs'.saves = f.saves
  BY DEF Files!Listing, FilesAsked

\* The steps that change neither the disk nor what the editor and its saves hold.
LEMMA FilesSeenKept ==
  ASSUME FilesInv, disk' = disk, fm' \in FilesShown, fmReqs' \in FilesAsked,
         fmReqs'.saves \subseteq fmReqs.saves,
         fm'.editing \in {Files!NoItem, fm.editing}, fm'.text = fm.text, fm'.gone = fm.gone,
         fm'.path = fm'.listed, fm'.doomed.open => fm'.doomed = fm.doomed \/ fm'.doomed.item[1] = fm'.doomed.listed
  PROVE  FilesInv'
  BY DEF FilesInv, Files!TextKept, Files!DeletesListed

(* Each step of the page, its answers included, keeps the invariant.         *)
LEMMA FilesNextKept == ASSUME Files!FilesAssumption, FilesInv, Files!FilesNext PROVE FilesInv'
<1>0. fm \in FilesShown /\ fmReqs \in FilesAsked /\ fm.path = fm.listed /\ fm.doomed \in FilesDoomed
  BY DEF FilesInv, FilesShown
<1>1. CASE \E l \in fmReqs.lists : Files!Listed(l)
  <2>1. PICK l \in fmReqs.lists : Files!Listed(l)
    BY <1>1
  <2>2. l[2] \in Files!Folders /\ Files!InFolder(l[2]) \in SUBSET FileNames
    BY <1>0 DEF FilesAsked, Files!InFolder
  <2>3. fmReqs' \in FilesAsked /\ fmReqs'.saves = fmReqs.saves
    BY <1>0, <2>1 DEF Files!Listed, FilesAsked
  <2>4. /\ fm' \in FilesShown /\ fm'.path = fm'.listed /\ fm'.editing = fm.editing /\ fm'.text = fm.text /\ fm'.gone = fm.gone
        /\ fm'.doomed = fm.doomed
    <3>1. CASE fm' = [fm EXCEPT !.loading = FALSE, !.path = l[2], !.listed = l[2], !.names = Files!InFolder(l[2])]
      BY <1>0, <2>2, <3>1 DEF FilesShown
    <3>2. CASE fm' = [fm EXCEPT !.loading = FALSE]
      BY <1>0, <3>2 DEF FilesShown
    <3> QED
      BY <2>1, <3>1, <3>2 DEF Files!Listed
  <2> QED
    BY <2>1, <2>3, <2>4, FilesSeenKept DEF Files!Listed
<1>2. CASE \E r \in fmReqs.reads : Files!Opened(r)
  <2>1. PICK r \in fmReqs.reads : Files!Opened(r)
    BY <1>2
  <2>2. fmReqs' \in FilesAsked /\ fmReqs'.saves = fmReqs.saves /\ disk' = disk
    BY <1>0, <2>1 DEF Files!Opened, FilesAsked
  <2>3. CASE fm' = [fm EXCEPT !.loading = FALSE, !.editing = r[2], !.text = Files!Text(r[2])]
    <3>1. r[2] \in Files!Items
      BY <1>0, <2>1 DEF FilesAsked
    <3>2. TextOf(Files!Text(r[2]), r[2], fm.gone) /\ {r[2], Files!Text(r[2])} \subseteq FileIds
      BY <3>1 DEF FilesInv, Files!TextKept, Files!Text, TextOf, FileIds, Files!Empty
    <3>3. /\ fm' \in FilesShown /\ fm'.path = fm.path /\ fm'.listed = fm.listed /\ fm'.doomed = fm.doomed
          /\ fm'.gone = fm.gone /\ fm'.editing = r[2] /\ fm'.text = Files!Text(r[2])
      BY <1>0, <2>3, <3>2 DEF FilesShown
    <3> QED
      BY <2>2, <3>2, <3>3 DEF FilesInv, Files!TextKept, Files!DeletesListed
  <2>4. CASE fm' = [fm EXCEPT !.loading = FALSE]
    BY <1>0, <2>2, <2>4, FilesSeenKept DEF FilesShown
  <2> QED
    BY <2>1, <2>3, <2>4 DEF Files!Opened
<1>3. CASE \E s \in fmReqs.saves : Files!Saved(s)
  <2>1. PICK s \in fmReqs.saves : Files!Saved(s)
    BY <1>3
  <2>2. s \in FilesSaves /\ TextOf(s.text, s.item, fm.gone)
    BY <1>0 DEF FilesAsked, FilesInv
  <2>3. s.item \in Files!Items /\ s.path \in Files!Folders /\ s.id \in Nat
    BY <2>2 DEF FilesSaves
  <2>4. disk' = Files!Overwritten(s) /\ fm'.gone = fm.gone
    BY <1>0, <2>1 DEF Files!Saved, FilesShown
  <2>9. /\ DOMAIN disk' \subseteq Files!Items /\ Files!Items \subseteq DOMAIN disk' \cup fm'.gone
        /\ Files!TextKept'
    BY <2>2, <2>3, <2>4 DEF Files!Overwritten, FilesInv, Files!TextKept, TextOf
  <2>5. [fmReqs EXCEPT !.saves = {}] \in FilesAsked /\ [fmReqs EXCEPT !.saves = {}].saves = {}
    BY <1>0 DEF FilesAsked
  <2>6. fmReqs' \in FilesAsked /\ fmReqs'.saves = {}
    BY <2>1, <2>3, <2>5, FilesListing DEF Files!Saved
  <2>7. Files!NoItem \in FileIds
    BY DEF FileIds
  <2>8. /\ fm' \in FilesShown /\ fm'.path = fm.path /\ fm'.listed = fm.listed /\ fm'.doomed = fm.doomed
        /\ fm'.editing = Files!NoItem
    BY <1>0, <2>1, <2>7 DEF Files!Saved, FilesShown
  <2> QED
    BY <1>0, <2>6, <2>8, <2>9 DEF FilesInv, Files!DeletesListed
<1>4. CASE \E s \in fmReqs.saves : Files!SaveFailed(s)
  <2>1. PICK s \in fmReqs.saves : Files!SaveFailed(s)
    BY <1>4
  <2>2. s \in FilesSaves /\ TextOf(s.text, s.item, fm.gone)
    BY <1>0 DEF FilesAsked, FilesInv
  <2>3. s.item \in Files!Items
    BY <2>2 DEF FilesSaves
  <2>4. disk' \in {disk, Files!Overwritten(s)} /\ fm'.gone = fm.gone
    BY <1>0, <2>1 DEF Files!SaveFailed, FilesShown
  <2>7. /\ DOMAIN disk' \subseteq Files!Items /\ Files!Items \subseteq DOMAIN disk' \cup fm'.gone
        /\ Files!TextKept'
    BY <2>2, <2>3, <2>4 DEF Files!Overwritten, FilesInv, Files!TextKept, TextOf
  <2>5. fmReqs' \in FilesAsked /\ fmReqs'.saves = {}
    BY <1>0, <2>1 DEF Files!SaveFailed, FilesAsked
  <2>6. /\ fm' \in FilesShown /\ fm'.path = fm.path /\ fm'.listed = fm.listed /\ fm'.doomed = fm.doomed
        /\ fm'.editing = fm.editing /\ fm'.text = fm.text /\ fm'.gone = fm.gone
    BY <1>0, <2>1 DEF Files!SaveFailed, FilesShown
  <2> QED
    BY <1>0, <2>4, <2>5, <2>6, <2>7 DEF FilesInv, Files!DeletesListed
<1>5. CASE \E d \in fmReqs.deletes : Files!Deleted(d) \/ Files!DeleteFailed(d)
  <2>1. PICK d \in fmReqs.deletes : Files!Deleted(d) \/ Files!DeleteFailed(d)
    BY <1>5
  <2>2. d[1] \in Nat /\ d[2] \in Files!Items /\ d[3] \in Files!Folders
    BY <1>0 DEF FilesAsked
  <2>3. [fmReqs EXCEPT !.deletes = {}] \in FilesAsked /\ [fmReqs EXCEPT !.deletes = {}].saves = fmReqs.saves
    BY <1>0 DEF FilesAsked
  <2>4. fmReqs' \in FilesAsked /\ fmReqs'.saves = fmReqs.saves
    BY <2>1, <2>2, <2>3, FilesListing DEF Files!Deleted, Files!DeleteFailed
  <2>5. [fm.doomed EXCEPT !.open = FALSE] \in FilesDoomed /\ [fm.doomed EXCEPT !.open = FALSE].open = FALSE
    BY <1>0 DEF FilesDoomed
  <2>6. fm.gone \cup {d[2]} \in SUBSET Files!Items
    BY <1>0, <2>2 DEF FilesShown
  <2>7. /\ fm' \in FilesShown /\ fm'.path = fm.path /\ fm'.listed = fm.listed
        /\ fm'.doomed = fm.doomed \/ fm'.doomed.open = FALSE
        /\ fm'.editing = fm.editing /\ fm'.text = fm.text
        /\ (disk' = disk /\ fm'.gone = fm.gone) \/ (disk' = Files!Without(d[2]) /\ fm'.gone = fm.gone \cup {d[2]})
    <3>1. CASE Files!Deleted(d)
      <4>1. fm' = [fm EXCEPT !.deleting = FALSE, !.doomed = [fm.doomed EXCEPT !.open = FALSE], !.loading = TRUE,
                             !.gone = fm.gone \cup {d[2]}]
        BY <1>0, <3>1 DEF Files!Deleted, FilesShown
      <4> QED
        BY <1>0, <2>5, <2>6, <3>1, <4>1 DEF FilesShown, Files!Deleted
    <3>2. CASE disk' = disk /\ fm' = [fm EXCEPT !.deleting = FALSE]
      BY <1>0, <3>2 DEF FilesShown
    <3>3. CASE disk' = Files!Without(d[2]) /\ fm' = [fm EXCEPT !.deleting = FALSE, !.gone = fm.gone \cup {d[2]}]
      BY <1>0, <2>6, <3>3 DEF FilesShown
    <3> QED
      BY <1>0, <2>1, <3>1, <3>2, <3>3 DEF Files!DeleteFailed, FilesShown
  <2>8. DOMAIN disk' \subseteq Files!Items /\ Files!Items \subseteq DOMAIN disk' \cup fm'.gone /\ Files!TextKept'
    BY <2>2, <2>7 DEF Files!Without, FilesInv, Files!TextKept
  <2>9. /\ fm'.editing # Files!NoItem => TextOf(fm'.text, fm'.editing, fm'.gone)
        /\ \A s \in fmReqs'.saves : TextOf(s.text, s.item, fm'.gone)
    BY <2>4, <2>7 DEF FilesInv, TextOf
  <2> QED
    BY <1>0, <2>4, <2>7, <2>8, <2>9 DEF FilesInv, Files!DeletesListed
<1>6. CASE Files!CloseEditor
  <2>1. Files!NoItem \in FileIds
    BY DEF FileIds
  <2> QED
    BY <1>0, <1>6, <2>1, FilesSeenKept DEF Files!CloseEditor, FilesShown
<1>7. CASE Files!SaveFile
  <2> DEFINE f == [fm EXCEPT !.saving = TRUE]
             s == [item |-> fm.editing, text |-> fm.text, path |-> fm.path, id |-> fm.asks + 1]
  <2>1. /\ f \in FilesShown /\ f.asks = fm.asks /\ f.path = fm.path /\ f.listed = fm.listed
        /\ f.editing = fm.editing /\ f.text = fm.text /\ f.gone = fm.gone /\ f.doomed = fm.doomed
    BY <1>0 DEF FilesShown
  <2>2. Files!Asked(f) /\ disk' = disk /\ fmReqs' = [fmReqs EXCEPT !.saves = {s}]
    BY <1>7 DEF Files!SaveFile
  <2>3. /\ fm.editing \in Files!Items /\ TextOf(fm.text, fm.editing, fm.gone) /\ fm.text \in FileIds
        /\ fm.path \in Files!Folders
    BY <1>0, <1>7 DEF Files!SaveFile, FilesInv, FilesShown, FileIds
  <2> HIDE DEF f
  <2>4. fm.asks + 1 \in 1..MaxFilesAsks
    BY <1>0, <2>1, <2>2, FilesAsking
  <2>5. s \in FilesSaves /\ TextOf(s.text, s.item, fm.gone)
    BY <2>3, <2>4 DEF FilesSaves
  <2> HIDE DEF s
  <2>6. fmReqs' \in FilesAsked /\ fmReqs'.saves = {s}
    BY <1>0, <2>2, <2>5 DEF FilesAsked
  <2>7. /\ fm' \in FilesShown /\ fm'.path = fm.path /\ fm'.listed = fm.listed /\ fm'.doomed = fm.doomed
        /\ fm'.editing = fm.editing /\ fm'.text = fm.text /\ fm'.gone = fm.gone
    BY <1>0, <2>1, <2>2, FilesAsking
  <2> QED
    BY <2>2, <2>5, <2>6, <2>7 DEF FilesInv, Files!TextKept, Files!DeletesListed
<1>8. CASE Files!CloseDelete
  <2>1. [fm.doomed EXCEPT !.open = FALSE] \in FilesDoomed /\ [fm.doomed EXCEPT !.open = FALSE].open = FALSE
    BY <1>0 DEF FilesDoomed
  <2>2. fm' = [fm EXCEPT !.doomed = [fm.doomed EXCEPT !.open = FALSE]] /\ UNCHANGED <<disk, fmReqs>>
    BY <1>0, <1>8 DEF Files!CloseDelete, FilesShown
  <2>3. /\ fm' \in FilesShown /\ fm'.path = fm.path /\ fm'.listed = fm.listed /\ fm'.doomed.open = FALSE
        /\ fm'.editing = fm.editing /\ fm'.text = fm.text /\ fm'.gone = fm.gone
    BY <1>0, <2>1, <2>2 DEF FilesShown
  <2> QED
    BY <1>0, <2>2, <2>3, FilesSeenKept
<1>9. CASE Files!ConfirmDelete
  <2> DEFINE f == [fm EXCEPT !.deleting = TRUE]
             d == <<fm.asks + 1, fm.doomed.item, fm.path>>
  <2>1. /\ f \in FilesShown /\ f.asks = fm.asks /\ f.path = fm.path /\ f.listed = fm.listed
        /\ f.editing = fm.editing /\ f.text = fm.text /\ f.gone = fm.gone /\ f.doomed = fm.doomed
    BY <1>0 DEF FilesShown
  <2>2. Files!Asked(f) /\ disk' = disk /\ fmReqs' = [fmReqs EXCEPT !.deletes = {d}]
    BY <1>9 DEF Files!ConfirmDelete
  <2>3. fm.doomed.item \in Files!Items /\ fm.path \in Files!Folders
    <3>1. fm.doomed.item[1] \in Files!Folders
      BY <1>0, <1>9 DEF FilesInv, Files!DeletesListed, Files!ConfirmDelete, FilesDoomed
    <3> QED
      BY <1>0, <3>1 DEF FilesShown, FilesDoomed, FileIds, Files!NoItem, Files!Folders
  <2> HIDE DEF f
  <2>4. fm.asks + 1 \in Nat
    BY <1>0, <2>1, <2>2, FilesAsking
  <2>5. d \in Nat \X Files!Items \X Files!Folders
    BY <2>3, <2>4
  <2> HIDE DEF d
  <2>6. fmReqs' \in FilesAsked /\ fmReqs'.saves = fmReqs.saves
    BY <1>0, <2>2, <2>5 DEF FilesAsked
  <2>7. /\ fm' \in FilesShown /\ fm'.path = fm.path /\ fm'.listed = fm.listed /\ fm'.doomed = fm.doomed
        /\ fm'.editing = fm.editing /\ fm'.text = fm.text /\ fm'.gone = fm.gone
    BY <1>0, <2>1, <2>2, FilesAsking
  <2> QED
    BY <1>0, <2>2, <2>6, <2>7, FilesSeenKept
<1>10. CASE \E d \in Files!Folders : Files!Go(d)
  <2>1. PICK d \in Files!Folders : Files!Go(d)
    BY <1>10
  <2> DEFINE f == [fm EXCEPT !.loading = TRUE]
  <2>2. /\ f \in FilesShown /\ f.asks = fm.asks /\ f.path = fm.path /\ f.listed = fm.listed
        /\ f.editing = fm.editing /\ f.text = fm.text /\ f.gone = fm.gone /\ f.doomed = fm.doomed
    BY <1>0 DEF FilesShown
  <2>3. Files!Asked(f) /\ disk' = disk /\ Files!Listing(fmReqs, fm.asks + 1, d) /\ d \in Files!Folders
    BY <2>1 DEF Files!Go
  <2> HIDE DEF f
  <2>4. /\ fm' \in FilesShown /\ fm'.path = fm.path /\ fm'.listed = fm.listed /\ fm'.doomed = fm.doomed
        /\ fm'.editing = fm.editing /\ fm'.text = fm.text /\ fm'.gone = fm.gone /\ fm.asks + 1 \in Nat
    BY <1>0, <2>2, <2>3, FilesAsking
  <2>5. fmReqs' \in FilesAsked /\ fmReqs'.saves = fmReqs.saves
    BY <1>0, <2>3, <2>4, FilesListing
  <2> QED
    BY <1>0, <2>3, <2>4, <2>5, FilesSeenKept
<1>11. CASE \E n \in FileNames : Files!Edit(n)
  <2>1. PICK n \in FileNames : Files!Edit(n)
    BY <1>11
  <2> DEFINE f == [fm EXCEPT !.loading = TRUE]
             r == <<fm.asks + 1, <<fm.path, n>>>>
  <2>2. /\ f \in FilesShown /\ f.asks = fm.asks /\ f.path = fm.path /\ f.listed = fm.listed
        /\ f.editing = fm.editing /\ f.text = fm.text /\ f.gone = fm.gone /\ f.doomed = fm.doomed
    BY <1>0 DEF FilesShown
  <2>3. Files!Asked(f) /\ disk' = disk /\ fmReqs' = [fmReqs EXCEPT !.reads = fmReqs.reads \cup {r}]
    BY <2>1 DEF Files!Edit
  <2>4. <<fm.path, n>> \in Files!Items
    BY <1>0, <2>1 DEF FilesShown, Files!Items
  <2> HIDE DEF f
  <2>5. /\ fm' \in FilesShown /\ fm'.path = fm.path /\ fm'.listed = fm.listed /\ fm'.doomed = fm.doomed
        /\ fm'.editing = fm.editing /\ fm'.text = fm.text /\ fm'.gone = fm.gone /\ fm.asks + 1 \in 1..MaxFilesAsks
    BY <1>0, <2>2, <2>3, FilesAsking
  <2>6. r \in (1..MaxFilesAsks) \X Files!Items
    BY <2>4, <2>5
  <2> HIDE DEF r
  <2>7. fmReqs' \in FilesAsked /\ fmReqs'.saves = fmReqs.saves
    BY <1>0, <2>3, <2>6 DEF FilesAsked
  <2> QED
    BY <1>0, <2>3, <2>5, <2>7, FilesSeenKept
<1>12. CASE \E n \in FileNames : Files!OpenDelete(n)
  <2>1. PICK n \in FileNames : Files!OpenDelete(n)
    BY <1>12
  <2> DEFINE d == [open |-> TRUE, item |-> <<fm.path, n>>, listed |-> fm.listed]
  <2>2. <<fm.path, n>> \in FileIds /\ fm.listed \in Files!Folders
    BY <1>0, <2>1 DEF FilesShown, Files!Items, FileIds
  <2>3. d \in FilesDoomed /\ d.item[1] = d.listed
    BY <1>0, <2>2 DEF FilesDoomed
  <2>4. fm' = [fm EXCEPT !.doomed = d] /\ UNCHANGED <<disk, fmReqs>>
    BY <2>1 DEF Files!OpenDelete
  <2> HIDE DEF d
  <2>5. /\ fm' \in FilesShown /\ fm'.path = fm.path /\ fm'.listed = fm.listed /\ fm'.doomed = d
        /\ fm'.editing = fm.editing /\ fm'.text = fm.text /\ fm'.gone = fm.gone
    BY <1>0, <2>3, <2>4 DEF FilesShown
  <2> QED
    BY <1>0, <2>3, <2>4, <2>5, FilesSeenKept
<1> QED
  BY <1>1, <1>2, <1>3, <1>4, <1>5, <1>6, <1>7, <1>8, <1>9, <1>10, <1>11, <1>12 DEF Files!FilesNext, Files!FilesSystem

(* The invariant implies the properties of the page.                         *)
LEMMA FilesPromises == FilesInv => Files!FilesTypeOK /\ Files!TextKept /\ Files!DeletesListed
  BY DEF FilesInv, Files!FilesTypeOK, FilesShown, FilesAsked, FilesDoomed, FileIds

-----------------------------------------------------------------------------
(* The console: one page is mounted, the others rest *)

ConsoleInv ==
    /\ DashInv /\ PanelInv /\ UsersInv /\ ShellInv /\ ListInv /\ ClusterInv
    /\ NodesInv /\ AlertInv /\ ShepherdInv /\ BackendInv /\ NetInv /\ FilesInv

(* A page that rests keeps its invariant.                                   *)
LEMMA DashRests == ASSUME DashInv, UNCHANGED dashVars PROVE DashInv'
  BY DEF DashInv, dashVars, Dash!BatchHitsTicked, Dash!SelectionScoped

LEMMA PanelRests == ASSUME PanelInv, UNCHANGED panelVars PROVE PanelInv'
  BY DEF PanelInv, panelVars

LEMMA UsersRests == ASSUME UsersInv, UNCHANGED usersVars PROVE UsersInv'
  BY DEF UsersInv, usersVars, Users!SavedAsMeant, Users!KeyOfOwner

LEMMA ShellRests == ASSUME ShellInv, UNCHANGED shellVars PROVE ShellInv'
  BY DEF ShellInv, shellVars

LEMMA ListRests == ASSUME ListInv, UNCHANGED listVars PROVE ListInv'
  BY DEF ListInv, listVars, List!ListInStep, List!OnePoll

LEMMA ClusterRests == ASSUME ClusterInv, UNCHANGED clusterVars PROVE ClusterInv'
  BY DEF ClusterInv, clusterVars, Cluster!SavedComesBack

LEMMA NodesRests == ASSUME NodesInv, UNCHANGED nodesVars PROVE NodesInv'
  BY DEF NodesInv, nodesVars, Nodes!SavedForNode, Nodes!LogOfNode

LEMMA AlertRests == ASSUME AlertInv, UNCHANGED alertVars PROVE AlertInv'
  BY DEF AlertInv, alertVars, AlertsTyped, FetchesInStep, MailsInStep, SwitchInStep, AlertFetches, AlertAllows

LEMMA ShepherdRests == ASSUME ShepherdInv, UNCHANGED shepherdVars PROVE ShepherdInv'
  BY DEF ShepherdInv, shepherdVars, Shepherd!RowSavedAsEdited, Shepherd!LogPolled

LEMMA BackendRests == ASSUME BackendInv, UNCHANGED backendVars PROVE BackendInv'
  BY DEF BackendInv, backendVars, SavesInStep, Backend!ProbeSettles, InjectionInStep

LEMMA NetRests == ASSUME NetInv, UNCHANGED netVars PROVE NetInv'
  BY DEF NetInv, netVars, NetTyped, NetUnmixed, NetApart

LEMMA FilesRests == ASSUME FilesInv, UNCHANGED filesVars PROVE FilesInv'
  BY DEF FilesInv, filesVars, Files!TextKept, Files!DeletesListed

(* Every page opens with its invariant.                                     *)
LEMMA ConsoleInitial == Init => ConsoleInv
<1> SUFFICES ASSUME Init PROVE ConsoleInv
  OBVIOUS
<1>1. DashInv /\ PanelInv /\ UsersInv /\ ShellInv
  BY PagesAssumption, DashInitial, PanelInitial, UsersInitial, ShellInitial DEF Init
<1>2. ListInv /\ ClusterInv /\ NodesInv /\ AlertInv
  BY PagesAssumption, ListInitial, ClusterInitial, NodesInitial, AlertInitial DEF Init
<1>3. ShepherdInv /\ BackendInv /\ NetInv /\ FilesInv
  BY PagesAssumption, ShepherdInitial, BackendInitial, NetInitial, FilesInitial DEF Init
<1> QED
  BY <1>1, <1>2, <1>3 DEF ConsoleInv

(* What a step of the mounted page keeps, and may do.                       *)
LEMMA ConsoleStep ==
  ASSUME ConsoleInv, [Next]_vars
  PROVE  /\ ConsoleInv'
         /\ UNCHANGED shellVars \/ MenuAnswered
         /\ UNCHANGED clusterVars \/ Cluster!EditedOnly
         /\ UNCHANGED alertVars \/ Alerts!ReplacedOnly
         /\ UNCHANGED backendVars \/ Backend!AddedOnly
<1>1. /\ UNCHANGED dashVars \/ Dash!Next
      /\ UNCHANGED panelVars \/ Panel!PanelNext
      /\ UNCHANGED usersVars \/ Users!UsersNext
      /\ UNCHANGED shellVars \/ Shell!ShellNext
      /\ UNCHANGED listVars \/ List!ListNext
      /\ UNCHANGED clusterVars \/ Cluster!ClusterNext
      /\ UNCHANGED nodesVars \/ Nodes!NodesNext
      /\ UNCHANGED alertVars \/ Alerts!AlertNext
      /\ UNCHANGED shepherdVars \/ Shepherd!ShepherdNext
      /\ UNCHANGED backendVars \/ Backend!BackendNext
      /\ UNCHANGED netVars \/ Network!NetNext
      /\ UNCHANGED filesVars \/ Files!FilesNext
  BY DEF Next, vars
<1>2. /\ DashInv /\ PanelInv /\ UsersInv /\ ShellInv /\ ListInv /\ ClusterInv
      /\ NodesInv /\ AlertInv /\ ShepherdInv /\ BackendInv /\ NetInv /\ FilesInv
  BY DEF ConsoleInv
<1>3. DashInv'
  BY PagesAssumption, <1>1, <1>2, DashNextKept, DashRests
<1>4. PanelInv'
  BY PagesAssumption, <1>1, <1>2, PanelNextKept, PanelRests
<1>5. UsersInv'
  BY PagesAssumption, <1>1, <1>2, UsersNextKept, UsersRests
<1>6. ShellInv' /\ (UNCHANGED shellVars \/ MenuAnswered)
  BY PagesAssumption, <1>1, <1>2, ShellNextKept, ShellRests
<1>7. ListInv'
  BY PagesAssumption, <1>1, <1>2, ListNextKept, ListRests
<1>8. ClusterInv' /\ (UNCHANGED clusterVars \/ Cluster!EditedOnly)
  BY PagesAssumption, <1>1, <1>2, ClusterNextKept, ClusterRests
<1>9. NodesInv'
  BY PagesAssumption, <1>1, <1>2, NodesNextKept, NodesRests
<1>10. AlertInv' /\ (UNCHANGED alertVars \/ Alerts!ReplacedOnly)
  BY PagesAssumption, <1>1, <1>2, AlertNextKept, AlertRests
<1>11. ShepherdInv'
  BY PagesAssumption, <1>1, <1>2, ShepherdNextKept, ShepherdRests
<1>12. BackendInv' /\ (UNCHANGED backendVars \/ Backend!AddedOnly)
  BY PagesAssumption, <1>1, <1>2, BackendNextKept, BackendRests, BackendAdds
<1>13. NetInv'
  BY PagesAssumption, <1>1, <1>2, NetNextKept, NetRests
<1>14. FilesInv'
  BY PagesAssumption, <1>1, <1>2, FilesNextKept, FilesRests
<1> QED
  BY <1>3, <1>4, <1>5, <1>6, <1>7, <1>8, <1>9, <1>10, <1>11, <1>12, <1>13, <1>14 DEF ConsoleInv

(* The invariant of every page holds whichever page is mounted.             *)
LEMMA ConsoleKept == Spec => []ConsoleInv
<1>1. ConsoleInv /\ [Next]_vars => ConsoleInv'
  BY ConsoleStep
<1> QED
  BY <1>1, ConsoleInitial, PTL DEF Spec

(* What the invariants of the pages promise.                                *)
LEMMA ConsolePromises ==
  ASSUME ConsoleInv
  PROVE  /\ TypeOK /\ SentAsMeant /\ QuietInStep /\ NothingLeftRunning /\ DoneIsDone
         /\ Users!KeyOfOwner /\ Nodes!LogOfNode /\ Files!TextKept
<1>1. Dash!TypeOK /\ Dash!BatchHitsTicked /\ Dash!SelectionScoped
  BY DashPromises DEF ConsoleInv
<1>2. Panel!PanelTypeOK /\ Panel!LastWordShown
  BY PagesAssumption, PanelPromises DEF ConsoleInv
<1>3. Users!UsersTypeOK /\ Users!SavedAsMeant /\ Users!KeyOfOwner
  BY UsersPromises DEF ConsoleInv
<1>4. Shell!ShellTypeOK
  BY ShellPromises DEF ConsoleInv
<1>5. List!ListTypeOK /\ List!ListInStep /\ List!OnePoll
  BY ListPromises DEF ConsoleInv
<1>6. Cluster!ClusterTypeOK /\ Cluster!KeyKept /\ Cluster!SavedComesBack
  BY ClusterPromises DEF ConsoleInv
<1>7. Nodes!NodesTypeOK /\ Nodes!NodesSettle /\ Nodes!SavedForNode /\ Nodes!LogOfNode
  BY PagesAssumption, NodesPromises DEF ConsoleInv
<1>8. Alerts!AlertTypeOK /\ Alerts!RulesInStep /\ Alerts!AllowHonest /\ Alerts!MailsForAll
  BY AlertPromises DEF ConsoleInv
<1>9. Shepherd!ShepherdTypeOK /\ Shepherd!RowSavedAsEdited /\ Shepherd!LogPolled
  BY ShepherdPromises DEF ConsoleInv
<1>10. Backend!BackendTypeOK /\ Backend!SavedAsShown /\ Backend!ProbeSettles /\ Backend!InjectedAll
  BY BackendPromises DEF ConsoleInv
<1>11. Network!NetTypeOK /\ Network!SavedToItsFile /\ Network!ShownIsStored
  BY PagesAssumption, NetPromises DEF ConsoleInv
<1>12. Files!FilesTypeOK /\ Files!TextKept /\ Files!DeletesListed
  BY FilesPromises DEF ConsoleInv
<1> QED
  BY <1>1, <1>2, <1>3, <1>4, <1>5, <1>6, <1>7, <1>8, <1>9, <1>10, <1>11, <1>12
     DEF TypeOK, SentAsMeant, QuietInStep, NothingLeftRunning, DoneIsDone

(* Every variable of every page keeps its type.                             *)
THEOREM PagesTyped == Spec => []TypeOK
<1>1. ConsoleInv => TypeOK
  BY ConsolePromises
<1> QED
  BY <1>1, ConsoleKept, PTL

(* What a page sends is meant for the thing whose button was pressed: the   *)
(* batch of Dashboard.tsx, the saves of UserManager, NodeManager, BotShepherd *)
(* and NetworkConfig, the deletions of FilesManager, the key of ClusterConfig. *)
THEOREM MeantIsSent == Spec => []SentAsMeant
<1>1. ConsoleInv => SentAsMeant
  BY ConsolePromises
<1> QED
  BY <1>1, ConsoleKept, PTL

(* Once nothing is under way a page shows what the manager has, however its *)
(* requests and pushes were ordered before.                                 *)
THEOREM ShownOnceQuiet == Spec => []QuietInStep
<1>1. ConsoleInv => QuietInStep
  BY ConsolePromises
<1> QED
  BY <1>1, ConsoleKept, PTL

(* One timer polls while there is something to poll for, and no veil stays  *)
(* over what no request is under way for.                                   *)
THEOREM NothingSpins == Spec => []NothingLeftRunning
<1>1. ConsoleInv => NothingLeftRunning
  BY ConsolePromises
<1> QED
  BY <1>1, ConsoleKept, PTL

(* A sequence of requests that is reported as done did all of them: the     *)
(* mail rules of AlertSettings.tsx, the injections of the endpoint library *)
(* but for the targets BotShepherd refused.                                 *)
THEOREM ReportedIsDone == Spec => []DoneIsDone
<1>1. ConsoleInv => DoneIsDone
  BY ConsolePromises
<1> QED
  BY <1>1, ConsoleKept, PTL

(* An answer is shown as what it is of, and the administrator's menu is     *)
(* entered only with an administrator's cookie (the auth check of           *)
(* AdminLayout).                                                            *)
THEOREM OwnersAreShown == Spec => ShownOfOwner
<1>1. ConsoleInv => Users!KeyOfOwner /\ Nodes!LogOfNode /\ Files!TextKept
  BY ConsolePromises
<1>2. Spec => [](Users!KeyOfOwner /\ Nodes!LogOfNode /\ Files!TextKept)
  BY <1>1, ConsoleKept, PTL
<1>3. ConsoleInv /\ [Next]_vars => [MenuAnswered]_shellVars
  BY ConsoleStep
<1>4. Spec => [][MenuAnswered]_shellVars
  BY <1>3, ConsoleKept, PTL DEF Spec
<1>5. [MenuAnswered]_shellVars <=>
        [tab'.route = "/admin" /\ tab'.knows = "yes" /\ tab'.menu = "admin" /\ "auth" \in asked \ asked'
           => server.cookie = "admin"]_Shell!shellVars
  BY DEF MenuAnswered, shellVars, Shell!shellVars
<1> QED
  BY <1>2, <1>4, <1>5, PTL DEF ShownOfOwner, Shell!MenuEarned

(* A save of a whole form changes what was edited and no more: no setting   *)
(* that nobody touched, no password that is not sent to the page, no        *)
(* endpoint a target has, unless its configuration was not read.            *)
THEOREM EditsAreKept == Spec => OnlyEdited
<1>1. ASSUME ConsoleInv, [Next]_vars PROVE [Cluster!EditedOnly /\ Alerts!ReplacedOnly /\ Backend!AddedOnly]_vars
  <2>1. UNCHANGED clusterVars => Cluster!EditedOnly
    BY DEF clusterVars, Cluster!EditedOnly
  <2>2. UNCHANGED alertVars => Alerts!ReplacedOnly
    BY DEF alertVars, Alerts!ReplacedOnly
  <2>3. UNCHANGED backendVars => Backend!AddedOnly
    BY DEF backendVars, Backend!AddedOnly
  <2> QED
    BY <1>1, <2>1, <2>2, <2>3, ConsoleStep
<1>2. ConsoleInv /\ [Next]_vars => [Cluster!EditedOnly /\ Alerts!ReplacedOnly /\ Backend!AddedOnly]_vars
  BY <1>1
<1> QED
  BY <1>2, ConsoleKept, PTL DEF Spec, OnlyEdited
==============================================================================
