---------------------------- MODULE FileList_proofs ----------------------------
(***************************************************************************)
(* Proofs about FileList, with any number of files, versions and requests, *)
(* and answers in any order.  PressInv: what is deleted or downloaded is   *)
(* the file that was in the row when its button was pressed.  TypeInv:     *)
(* the types, and that there are never more answers than requests were     *)
(* sent, so that answers are counted within the bound.  AnswerInv, which   *)
(* rests on it: the screen lists the folder, or an answer that does is on  *)
(* the way.                                                                *)
(***************************************************************************)
EXTENDS FileList, FiniteSetTheorems, WellFoundedInduction, TLAPS

\* Requests and what is in front of the user have their fields, whatever is in them.
Fields == {"n", "op", "id", "version", "pressed", "wanted", "reply", "rows", "order", "late"}
Shaped(q) == DOMAIN q = Fields
Placed(p) == DOMAIN p = {"at", "row", "pressed", "last"}

Faithful(q) == q.op = "delete" \/ (q.op = "download" /\ q.wanted = 0) => q.id = q.pressed

\* The dialog and the picker keep the file that was pressed in a field that no
\* callback replaces by another file.
PressInv ==
  /\ \A q \in net : Shaped(q) /\ Faithful(q)
  /\ Placed(front)
  /\ At("confirm") => mFileId = front.pressed
  /\ At("folderPicker") /\ front.last = 0 => selected = NoRow \/ selected.id = front.pressed

----------------------------------------------------------------------------
LEMMA Renumbered ==
  ASSUME NEW q, Shaped(q), NEW m
  PROVE  LET r == [q EXCEPT !.n = m]
         IN  /\ Shaped(r) /\ r.op = q.op /\ r.id = q.id /\ r.pressed = q.pressed
             /\ r.wanted = q.wanted
BY DEF Shaped, Fields

LEMMA MarkedLate ==
  ASSUME NEW q, Shaped(q), NEW b
  PROVE  LET r == [q EXCEPT !.late = b]
         IN  /\ Shaped(r) /\ r.op = q.op /\ r.id = q.id /\ r.pressed = q.pressed
             /\ r.wanted = q.wanted
BY DEF Shaped, Fields

LEMMA Fresh ==
  ASSUME NEW op, NEW id
  PROVE  /\ Shaped(Request(op, id)) /\ Faithful(Request(op, id))
         /\ Request(op, id).op = op /\ Request(op, id).id = id
BY DEF Shaped, Fields, Faithful, Request

LEMMA Answered ==
  ASSUME NEW op, NEW m, NEW how, NEW rows, NEW o
  PROVE  LET r == [Request(op, 0) EXCEPT !.n = m, !.reply = how, !.rows = rows, !.order = o]
         IN  Shaped(r) /\ Faithful(r)
<1> DEFINE q == Request(op, 0)
           r == [q EXCEPT !.n = m, !.reply = how, !.rows = rows, !.order = o]
<1>1. Shaped(q) /\ q.id = 0 /\ q.pressed = 0
  BY DEF Request, Shaped, Fields
<1> HIDE DEF q
<1>2. Shaped(r)
  BY <1>1 DEF Shaped
<1>3. r.id = 0 /\ r.pressed = 0
  BY <1>1 DEF Shaped, Fields
<1> HIDE DEF r
<1>4. Shaped(r) /\ Faithful(r)
  BY <1>2, <1>3 DEF Faithful
<1> QED BY <1>4 DEF r, q

\* What is sent is added to the net.
LEMMA SendKeeps ==
  ASSUME PressInv, NEW qs, \A i \in DOMAIN qs : Shaped(qs[i]) /\ Faithful(qs[i]), Send(qs)
  PROVE  \A q \in net' : Shaped(q) /\ Faithful(q)
<1> SUFFICES ASSUME NEW q \in net' PROVE Shaped(q) /\ Faithful(q)
  OBVIOUS
<1>1. CASE q \in net
  BY <1>1 DEF PressInv
<1>2. CASE q \notin net
  <2>1. PICK i \in DOMAIN qs : q = [qs[i] EXCEPT !.n = sent + i]
    BY <1>2 DEF Send
  <2>2. Shaped(qs[i]) /\ Faithful(qs[i])
    OBVIOUS
  <2> DEFINE r == [qs[i] EXCEPT !.n = sent + i]
  <2>3. /\ Shaped(r) /\ r.op = qs[i].op /\ r.id = qs[i].id /\ r.pressed = qs[i].pressed
        /\ r.wanted = qs[i].wanted
    BY <2>2, Renumbered
  <2> HIDE DEF r
  <2>4. Shaped(r) /\ Faithful(r)
    BY <2>2, <2>3 DEF Faithful
  <2> QED BY <2>1, <2>4 DEF r
<1> QED BY <1>1, <1>2

\* An orphan keeps what it is about.
LEMMA OrphanKeeps ==
  ASSUME NEW q, Shaped(q), Faithful(q)
  PROVE  Shaped([q EXCEPT !.n = 0]) /\ Faithful([q EXCEPT !.n = 0])
<1> DEFINE r == [q EXCEPT !.n = 0]
<1>1. /\ Shaped(r) /\ r.op = q.op /\ r.id = q.id /\ r.pressed = q.pressed /\ r.wanted = q.wanted
  BY Renumbered
<1> HIDE DEF r
<1>2. Shaped(r) /\ Faithful(r)
  BY <1>1 DEF Faithful
<1> QED BY <1>2 DEF r

LEMMA OvertakenKeeps ==
  ASSUME NEW N, \A p \in N : Shaped(p) /\ Faithful(p), NEW q
  PROVE  \A r \in Overtaken(N, q) : Shaped(r) /\ Faithful(r)
<1> SUFFICES ASSUME NEW r \in Overtaken(N, q) PROVE Shaped(r) /\ Faithful(r)
  OBVIOUS
<1>1. PICK p \in N : r = [p EXCEPT !.late = @ \/ (p.reply # "none" /\ p.order < q.order)]
  BY DEF Overtaken
<1> DEFINE b == p.late \/ (p.reply # "none" /\ p.order < q.order)
<1>2. r = [p EXCEPT !.late = b] /\ Shaped(p) /\ Faithful(p)
  BY <1>1
<1> HIDE DEF b
<1>3. Shaped(r) /\ r.op = p.op /\ r.id = p.id /\ r.pressed = p.pressed /\ r.wanted = p.wanted
  BY <1>2, MarkedLate
<1> QED BY <1>2, <1>3 DEF Faithful

LEMMA InitPress == Init => PressInv
BY DEF Init, PressInv, At, Place, Placed

----------------------------------------------------------------------------
(* The server, the answers and the network.                                *)

LEMMA ServeKeeps == ASSUME PressInv, NEW q \in net, Serve(q) PROVE PressInv'
<1>1. PICK how, rows : Reply(q, how, rows)
  BY DEF Serve, HandleLoad, HandleAddFolder, HandleUpload, HandleDelete, HandleSearch,
         HandleOther, Refuse, ReplyListing
<1>2. UNCHANGED <<front, fields>>
  BY <1>1 DEF Reply
<1>3. \A p \in net' : Shaped(p) /\ Faithful(p)
  <2> DEFINE r == [Request(q.op, 0) EXCEPT !.n = q.n, !.reply = how, !.rows = rows,
                                    !.order = Max({p.order : p \in net}) + 1]
  <2>1. Shaped(r) /\ Faithful(r)
    BY Answered
  <2>2. net' = (net \ {q}) \cup {r} \/ net' = Overtaken(net \ {q}, r)
    BY <1>1 DEF Reply
  <2> HIDE DEF r
  <2>3. \A p \in Overtaken(net \ {q}, r) : Shaped(p) /\ Faithful(p)
    BY OvertakenKeeps DEF PressInv
  <2> QED BY <2>1, <2>2, <2>3 DEF PressInv
<1> QED BY <1>2, <1>3 DEF PressInv, At, fields

LEMMA AnswerKeeps == ASSUME PressInv, NEW q \in net, Answer(q) PROVE PressInv'
<1>1. CASE UpdateFiles(q)
  <2>1. UNCHANGED <<front, fields>>
    BY <1>1 DEF UpdateFiles
  <2>2. \A r \in net' : Shaped(r) /\ Faithful(r)
    BY <1>1, OvertakenKeeps DEF UpdateFiles, PressInv
  <2> QED BY <2>1, <2>2 DEF PressInv, At, fields
<1>2. CASE ~UpdateFiles(q)
  <2>1. /\ net' \subseteq net /\ mFileId' = mFileId
        /\ front' = front \/ front' = Place("away")
        /\ selected' = selected \/ selected' = NoRow
    BY <1>2 DEF Answer, OnFailure, NoHits, Downloaded, Tagged, fields
  <2> QED BY <2>1 DEF PressInv, At, Place, Placed
<1> QED BY <1>1, <1>2

LEMMA NetworkKeeps == ASSUME PressInv, NEW q \in net, Lose(q) \/ Strand(q) PROVE PressInv'
<1>1. /\ UNCHANGED <<front, mFileId>>
      /\ selected' = selected \/ selected' = NoRow
      /\ net' = Overtaken(net \ {q}, q) \/ net' = (net \ {q}) \cup {[q EXCEPT !.n = 0]}
  BY DEF Lose, Strand, GoesOnAlone, OnFailure, fields
<1>2. Shaped([q EXCEPT !.n = 0]) /\ Faithful([q EXCEPT !.n = 0])
  BY OrphanKeeps DEF PressInv
<1>3. \A p \in net' : Shaped(p) /\ Faithful(p)
  BY <1>1, <1>2, OvertakenKeeps DEF PressInv
<1> QED BY <1>1, <1>3 DEF PressInv, At

----------------------------------------------------------------------------
(* The user.                                                               *)

LEMMA TurnKeeps ==
  ASSUME PressInv, NEW p, Turn(p), Placed(p),
         p.at = "confirm" => mFileId' = p.pressed,
         p.at = "folderPicker" /\ p.last = 0 => selected' = NoRow \/ selected'.id = p.pressed
  PROVE  PressInv'
BY DEF PressInv, Turn, At

\* Back at the list, with requests sent that are about what was pressed.
LEMMA ListKeeps ==
  ASSUME PressInv, NEW qs, \A i \in DOMAIN qs : Shaped(qs[i]) /\ Faithful(qs[i]), Send(qs),
         front' = Place("list")
  PROVE  PressInv'
BY SendKeeps DEF PressInv, At, Place, Placed

LEMMA DieKeeps == ASSUME PressInv, Die PROVE PressInv'
<1>1. ASSUME NEW q \in net' PROVE Shaped(q) /\ Faithful(q)
  <2>1. PICK p \in net : q = [p EXCEPT !.n = 0]
    BY DEF Die
  <2> QED BY <2>1, OrphanKeeps DEF PressInv
<1>2. front' = Place("closed")
  BY DEF Die
<1> QED BY <1>1, <1>2 DEF PressInv, At, Place, Placed

LEMMA AskKeeps ==
  ASSUME PressInv, NEW q, Shaped(q), Faithful(q), Ask(q)
  PROVE  PressInv'
<1>1. \A i \in DOMAIN <<q>> : Shaped(<<q>>[i]) /\ Faithful(<<q>>[i])
  OBVIOUS
<1>2. Send(<<q>>) /\ front' = Place("list")
  BY DEF Ask
<1> QED BY <1>1, <1>2, ListKeeps

\* The load of onResume comes last.
LEMMA ResumeKeeps ==
  ASSUME PressInv, NEW S, \A q \in S : Shaped(q) /\ Faithful(q), Load \in S,
         NEW qs \in Seq(S), Resume(qs)
  PROVE  PressInv'
<1>1. ASSUME NEW i \in DOMAIN Append(qs, Load)
      PROVE  Append(qs, Load)[i] \in S
  OBVIOUS
<1>2. \A i \in DOMAIN Append(qs, Load) :
        Shaped(Append(qs, Load)[i]) /\ Faithful(Append(qs, Load)[i])
  BY <1>1
<1>3. Send(Append(qs, Load)) /\ front' = Place("list")
  BY DEF Resume
<1> QED BY <1>2, <1>3, ListKeeps

LEMMA ReturnKeeps == ASSUME PressInv, Resume(<<>>) PROVE PressInv'
<1>1. \A q \in {Load} : Shaped(q) /\ Faithful(q)
  BY Fresh DEF Load
<1>2. <<>> \in Seq({Load})
  OBVIOUS
<1> QED BY <1>1, <1>2, ResumeKeeps

LEMMA ResumeWith ==
  ASSUME PressInv, NEW q, Shaped(q), Faithful(q), Resume(<<q>>)
  PROVE  PressInv'
<1>1. \A p \in {q, Load} : Shaped(p) /\ Faithful(p)
  BY Fresh DEF Load
<1>2. <<q>> \in Seq({q, Load})
  OBVIOUS
<1> QED BY <1>1, <1>2, ResumeKeeps

LEMMA DownloadKeeps == ASSUME PressInv, PickFolder PROVE PressInv'
<1> DEFINE v == IF selected.dir THEN 0
                ELSE IF downloadVersion = 0 THEN selected.version ELSE downloadVersion
           b == Request("download", selected.id)
           q == [b EXCEPT !.version = v, !.pressed = front.pressed, !.wanted = front.last]
<1>1. CASE selected = NoRow
  BY <1>1, ReturnKeeps DEF PickFolder
<1>2. CASE selected # NoRow
  <2>1. Resume(<<q>>)
    BY <1>2 DEF PickFolder
  <2>2. Shaped(b) /\ b.op = "download" /\ b.id = selected.id
    BY Fresh
  <2> HIDE DEF v, b
  <2>3. Shaped(q) /\ q.op = b.op /\ q.id = b.id /\ q.pressed = front.pressed
        /\ q.wanted = front.last
    BY <2>2 DEF Shaped, Fields
  <2>4. front.last = 0 => selected.id = front.pressed
    BY <1>2 DEF PickFolder, PressInv
  <2> HIDE DEF q
  <2>5. Faithful(q)
    BY <2>2, <2>3, <2>4 DEF Faithful
  <2> QED BY <2>1, <2>3, <2>5, ResumeWith
<1> QED BY <1>1, <1>2

LEMMA UserKeeps == ASSUME PressInv, User PROVE PressInv'
<1>1. CASE Open
  <2>1. \A i \in DOMAIN <<Load, Load>> :
          Shaped(<<Load, Load>>[i]) /\ Faithful(<<Load, Load>>[i])
    BY Fresh DEF Load
  <2> QED BY <1>1, <2>1, ListKeeps DEF Open
<1>2. CASE Kill \/ PressGone
  BY <1>2, DieKeeps DEF Kill, PressGone
<1>3. CASE Cancel
  BY <1>3, TurnKeeps DEF Cancel, Place, Placed
<1>4. CASE Return
  BY <1>4, ReturnKeeps DEF Return
<1>5. ASSUME NEW r \in ItemId, OpenMenu(r) PROVE PressInv'
  <2> DEFINE p == [Place("menu") EXCEPT !.row = r, !.last = IF shown[r].dir THEN 0 ELSE shown[r].version]
  <2>1. Placed(p) /\ p.at = "menu"
    BY DEF Place, Placed
  <2>2. Turn(p)
    BY <1>5 DEF OpenMenu
  <2> HIDE DEF p
  <2> QED BY <2>1, <2>2, TurnKeeps
<1>6. CASE PressDelete
  <2> DEFINE p == [front EXCEPT !.at = "confirm", !.pressed = Row.id]
  <2>1. Placed(p) /\ p.at = "confirm" /\ p.pressed = Row.id
    BY DEF PressInv, Placed
  <2>2. Turn(p) /\ mFileId' = Row.id
    BY <1>6 DEF PressDelete
  <2> HIDE DEF p
  <2> QED BY <2>1, <2>2, TurnKeeps
<1>7. CASE ConfirmDelete
  <2> DEFINE b == Request("delete", mFileId)
             q == [b EXCEPT !.pressed = front.pressed]
  <2>0. Shaped(b) /\ b.id = mFileId
    BY Fresh
  <2>1. Shaped(q) /\ q.id = mFileId /\ q.pressed = front.pressed
    <3> HIDE DEF b
    <3> QED BY <2>0 DEF Shaped, Fields
  <2>2. Ask(q) /\ mFileId = front.pressed
    BY <1>7 DEF ConfirmDelete, PressInv
  <2> HIDE DEF q
  <2>3. Faithful(q)
    BY <2>1, <2>2 DEF Faithful
  <2> QED BY <2>1, <2>2, <2>3, AskKeeps
<1>8. CASE PressTags
  <2> DEFINE p == [front EXCEPT !.at = "tags", !.pressed = Row.id]
  <2>1. Placed(p) /\ p.at = "tags"
    BY DEF PressInv, Placed
  <2>2. Turn(p)
    BY <1>8 DEF PressTags
  <2> HIDE DEF p
  <2> QED BY <2>1, <2>2, TurnKeeps
<1>9. CASE SaveTags
  <2> DEFINE b == Request("tags", Row.id)
             q == [b EXCEPT !.pressed = front.pressed]
  <2>0. Shaped(b) /\ b.op = "tags"
    BY Fresh
  <2>1. Shaped(q) /\ q.op = "tags"
    <3> HIDE DEF b
    <3> QED BY <2>0 DEF Shaped, Fields
  <2>2. Ask(q)
    BY <1>9 DEF SaveTags
  <2> HIDE DEF q
  <2>3. Faithful(q)
    BY <2>1 DEF Faithful
  <2> QED BY <2>1, <2>2, <2>3, AskKeeps
<1>10. CASE PressShare \/ OpenPicker
  BY <1>10, TurnKeeps DEF PressShare, OpenPicker, Place, Placed
<1>11. CASE PressDownload
  <2> DEFINE p == [Place("folderPicker") EXCEPT !.pressed = Row.id]
  <2>1. Placed(p) /\ p.at = "folderPicker" /\ p.pressed = Row.id
    BY DEF Place, Placed
  <2>2. Turn(p) /\ selected' = Row
    BY <1>11 DEF PressDownload
  <2> HIDE DEF p
  <2> QED BY <2>1, <2>2, TurnKeeps
<1>12. CASE PressPrevious
  <2> DEFINE p == [front EXCEPT !.at = "choose", !.pressed = Row.id, !.last = Row.version]
  <2>1. Placed(p) /\ p.at = "choose"
    BY DEF PressInv, Placed
  <2>2. Turn(p)
    BY <1>12 DEF PressPrevious
  <2> HIDE DEF p
  <2> QED BY <2>1, <2>2, TurnKeeps
<1>13. ASSUME NEW v \in 1 .. MaxVersion, Choose(v) PROVE PressInv'
  <2> DEFINE p == [front EXCEPT !.at = "folderPicker", !.last = v]
  <2>1. Placed(p) /\ p.at = "folderPicker" /\ p.last = v
    BY DEF PressInv, Placed
  <2>2. Turn(p) /\ v # 0
    BY <1>13 DEF Choose
  <2> HIDE DEF p
  <2> QED BY <2>1, <2>2, TurnKeeps
<1>14. CASE PickFolder
  BY <1>14, DownloadKeeps
<1>15. ASSUME NEW i \in 0 .. MaxItem, PickFile(i) PROVE PressInv'
  <2>1. Shaped(Request("upload", i)) /\ Faithful(Request("upload", i))
    BY Fresh
  <2> QED BY <1>15, <2>1, ResumeWith DEF PickFile
<1>16. CASE AddFolder \/ Search
  <2>1. \A op \in {"addFolder", "search"} : Shaped(Request(op, 0)) /\ Faithful(Request(op, 0))
    BY Fresh
  <2> QED BY <1>16, <2>1, AskKeeps DEF AddFolder, Search
<1>17. CASE SearchNothing
  BY <1>17 DEF SearchNothing, PressInv, At, fields
<1> QED BY <1>1, <1>2, <1>3, <1>4, <1>5, <1>6, <1>7, <1>8, <1>9, <1>10, <1>11, <1>12, <1>13,
           <1>14, <1>15, <1>16, <1>17 DEF User

LEMMA NextPress == PressInv /\ [Next]_vars => PressInv'
<1> SUFFICES ASSUME PressInv, [Next]_vars PROVE PressInv'
  OBVIOUS
<1>1. CASE UNCHANGED vars
  BY <1>1 DEF vars, fields, PressInv, At
<1>2. CASE Next
  BY <1>2, ServeKeeps, AnswerKeeps, NetworkKeeps, UserKeeps DEF Next, Server, Answers, Network
<1> QED BY <1>1, <1>2

\* Whatever listings arrive, and however many, while a confirmation or a picker is
\* open: what is deleted, or downloaded in its last version, was in the row that
\* was pressed (FileListActivity's mFileId and selectedFileForDownload).
THEOREM FileListActsOnTheRowPressed == Spec => []ActsOnTheRowPressed
<1>1. PressInv => ActsOnTheRowPressed
  BY DEF PressInv, Faithful, ActsOnTheRowPressed
<1> QED BY <1>1, InitPress, NextPress, PTL DEF Spec

----------------------------------------------------------------------------
(* Listings: rows in the order of the nodes, one per file or folder.       *)

\* A folder of the server: ids in 1 .. made, each a record of an item.
IsFolder(F) == DOMAIN F \subseteq ItemId /\ \A i \in DOMAIN F : F[i] \in Items

\* Every item has a place of its own, and every place an item.
LEMMA PlacesAreTaken ==
  ASSUME NEW F, IsFolder(F), NEW I \in SUBSET DOMAIN F
  PROVE  /\ Cardinality(I) \in 0 .. MaxItem
         /\ \A i \in 1 .. Cardinality(I) : \E a \in I : Position(F, I, a) = i
<1> DEFINE Pred(a) == {b \in I : Before(F, b, a)}
           n == Cardinality(I)
           h == [a \in I |-> Position(F, I, a)]
<1>1. /\ IsFiniteSet(ItemId) /\ Cardinality(ItemId) = MaxItem
  BY FS_Interval, FileListAssumption DEF ItemId
<1>2. IsFiniteSet(I) /\ n \in Nat /\ n <= MaxItem
  <2>1. I \subseteq ItemId
    BY DEF IsFolder
  <2> QED BY <1>1, <2>1, FS_Subset, FS_CardinalityType
<1>3. /\ \A a \in I : ~Before(F, a, a)
      /\ \A a, b \in I : a # b => Before(F, a, b) \/ Before(F, b, a)
      /\ \A a, b, c \in I : Before(F, a, b) /\ Before(F, b, c) => Before(F, a, c)
  <2>1. \A a \in I : a \in Nat /\ F[a].dir \in BOOLEAN
    BY DEF IsFolder, Items, ItemId
  <2> QED BY <2>1 DEF Before
<1>4. ASSUME NEW a \in I
      PROVE  IsFiniteSet(Pred(a)) /\ Cardinality(Pred(a)) \in Nat /\ Cardinality(Pred(a)) < n
  <2>1. Pred(a) \subseteq I /\ Pred(a) # I
    BY <1>3
  <2>2. IsFiniteSet(Pred(a)) /\ Cardinality(Pred(a)) \in Nat
    BY <1>2, <2>1, FS_Subset, FS_CardinalityType
  <2>3. Cardinality(Pred(a)) <= n /\ Cardinality(Pred(a)) # n
    BY <1>2, <2>1, FS_Subset
  <2> HIDE DEF Pred, n
  <2> QED BY <1>2, <2>2, <2>3
<1>5. ASSUME NEW a \in I, NEW b \in I, Before(F, a, b)
      PROVE  Position(F, I, a) # Position(F, I, b)
  <2>1. Pred(a) \subseteq Pred(b) /\ a \in Pred(b) /\ a \notin Pred(a)
    BY <1>3, <1>5
  <2>2. Pred(a) # Pred(b)
    BY <2>1
  <2>3. Cardinality(Pred(a)) # Cardinality(Pred(b))
    BY <1>4, <2>1, <2>2, FS_Subset
  <2>4. Cardinality(Pred(a)) \in Nat /\ Cardinality(Pred(b)) \in Nat
    BY <1>4
  <2> HIDE DEF Pred
  <2>5. Cardinality(Pred(a)) + 1 # Cardinality(Pred(b)) + 1
    BY <2>3, <2>4
  <2> QED BY <2>5 DEF Position, Pred
<1>6. \A a \in I : h[a] \in 1 .. n
  <2>1. \A a \in I : Cardinality(Pred(a)) + 1 \in 1 .. n
    <3> HIDE DEF Pred, n
    <3> QED BY <1>2, <1>4
  <2> QED BY <2>1 DEF Position
<1>7. h \in Injection(I, 1 .. n)
  BY <1>3, <1>5, <1>6 DEF Injection, IsInjective
<1>8. IsFiniteSet(1 .. n) /\ Cardinality(1 .. n) = n
  BY <1>2, FS_Interval
<1>9. h \in Surjection(I, 1 .. n)
  BY <1>7, <1>8, FS_Injection
<1>10. \A i \in 1 .. n : \E a \in I : h[a] = i
  BY <1>9 DEF Surjection
<1> QED BY <1>2, <1>10, FileListAssumption

LEMMA InOrderType ==
  ASSUME NEW F, IsFolder(F), NEW I \in SUBSET DOMAIN F
  PROVE  InOrder(F, I) \in [1 .. Cardinality(I) -> I] /\ Cardinality(I) \in 0 .. MaxItem
<1>1. \A i \in 1 .. Cardinality(I) : (CHOOSE a \in I : Position(F, I, a) = i) \in I
  BY PlacesAreTaken
<1> QED BY <1>1, PlacesAreTaken DEF InOrder

LEMMA NodesAnswerListings ==
  ASSUME NEW F, IsFolder(F)
  PROVE  /\ InfoNode(F) \in Listings /\ CreateDirNode(F) \in Listings
         /\ \A I \in SUBSET DOMAIN F : SearchNode(F, I) \in Listings
         /\ <<>> \in Listings
<1>0. MaxVersion \in Nat \ {0} /\ MaxItem \in Nat
  BY FileListAssumption
<1>1. ASSUME NEW I \in SUBSET DOMAIN F
      PROVE  /\ \A i \in 1 .. Cardinality(I) :
                  /\ InOrder(F, I)[i] \in ItemId /\ F[InOrder(F, I)[i]].dir \in BOOLEAN
                  /\ F[InOrder(F, I)[i]].revision \in 0 .. MaxVersion
             /\ DOMAIN InOrder(F, I) = 1 .. Cardinality(I)
             /\ Cardinality(I) \in 0 .. MaxItem
  <2>1. InOrder(F, I) \in [1 .. Cardinality(I) -> I] /\ Cardinality(I) \in 0 .. MaxItem
    BY InOrderType
  <2>2. \A a \in I : a \in ItemId /\ F[a].dir \in BOOLEAN /\ F[a].revision \in 0 .. MaxVersion
    BY <1>0 DEF IsFolder, Items
  <2> QED BY <2>1, <2>2
<1>2. InfoNode(F) \in [1 .. Cardinality(DOMAIN F) -> Rows]
  BY <1>1 DEF InfoNode, Listing, Rows
<1>3. CreateDirNode(F) \in [1 .. Cardinality(DOMAIN F) -> Rows]
  BY <1>0, <1>1 DEF CreateDirNode, Listing, Rows
<1>4. \A I \in SUBSET DOMAIN F : SearchNode(F, I) \in [1 .. Cardinality(I) -> Rows]
  BY <1>0, <1>1 DEF SearchNode, Listing, Rows
<1>5. \A n \in 0 .. MaxItem : \A r \in [1 .. n -> Rows] : r \in Listings
  BY DEF Listings
<1>6. <<>> \in Listings
  BY <1>0 DEF Listings
<1> QED BY <1>1, <1>2, <1>3, <1>4, <1>5, <1>6

LEMMA ListingRows ==
  ASSUME NEW l \in Listings, NEW r \in DOMAIN l
  PROVE  l[r] \in Rows /\ r \in ItemId
<1>1. PICK n \in 0 .. MaxItem : l \in [1 .. n -> Rows]
  BY DEF Listings
<1> QED BY <1>1, FileListAssumption DEF ItemId

\* The nodes agree on the rows: they differ in lastVersion only.
LEMMA SameRows == ASSUME NEW F PROVE Ids(CreateDirNode(F)) = Ids(InfoNode(F))
BY DEF Ids, CreateDirNode, InfoNode, Listing

\* A finite set of numbers has a greatest one.
LEMMA Greatest ==
  ASSUME NEW n \in Nat, NEW S \in SUBSET (0 .. n), S # {}
  PROVE  Max(S) \in S /\ \A y \in S : y <= Max(S)
<1> DEFINE U == {m \in Nat : \A y \in S : y <= m}
<1>1. n \in U
  OBVIOUS
<1>2. PICK m \in U : \A k \in U : ~(<<k, m>> \in OpToRel(<, Nat))
  BY <1>1, NatLessThanWellFounded, WFMin
<1>3. \A k \in U : ~(k < m)
  BY <1>2 DEF OpToRel
<1>4. /\ m \in Nat /\ \A y \in S : y \in Nat /\ y <= m
      /\ \A k \in Nat : (\A y \in S : y <= k) => ~(k < m)
  BY <1>3
<1> HIDE DEF U
<1>6. m \in S
  <2> SUFFICES ASSUME m \notin S PROVE FALSE
    OBVIOUS
  <2>1. \A y \in S : y \in Nat /\ y < m
    BY <1>4
  <2>2. PICK y \in S : TRUE
    OBVIOUS
  <2>3. m - 1 \in Nat /\ m - 1 < m
    BY <1>4, <2>1, <2>2
  <2>4. \A z \in S : z <= m - 1
    BY <1>4, <2>1
  <2> QED BY <1>4, <2>3, <2>4
<1>5. \E x \in S : \A y \in S : x >= y
  BY <1>4, <1>6
<1> QED BY <1>5 DEF Max

----------------------------------------------------------------------------
(* The requests on the way: what they are made of, that a number is given  *)
(* once, and that there are never more answers than requests were sent.    *)

Unanswered == {p.n : p \in {p \in net : p.reply = "none"}} \ {0}
Numbered == \A p, q \in net : p.n = q.n /\ p.n # 0 => p = q
Counted  == \A p \in net : p.order + Cardinality(Unanswered) <= sent
Alone    == \A p \in net : p.n = 0 => p.reply = "none"

NetInv ==
  /\ sent \in 0 .. MaxRequest /\ net \subseteq Requests /\ \A p \in net : p.n <= sent
  /\ Numbered /\ Counted /\ Alone

\* What the app sends has no answer yet.
Outgoing == {q \in Requests : q.reply = "none" /\ q.order = 0}

LEMMA RequestType ==
  ASSUME NEW op \in Operations, NEW id \in 0 .. MaxItem
  PROVE  Request(op, id) \in Outgoing
<1>1. <<>> \in Listings
  BY SMTT(30), FileListAssumption DEF Listings
<1>2. 0 \in 0 .. MaxRequest /\ 0 \in 0 .. MaxVersion /\ 0 \in 0 .. MaxItem
  BY FileListAssumption
<1> QED BY <1>1, <1>2 DEF Request, Requests, Outgoing

LEMMA PressedType ==
  ASSUME NEW q \in Outgoing, NEW a \in 0 .. MaxItem, NEW v \in 0 .. MaxVersion, NEW w \in 0 .. MaxVersion
  PROVE  /\ [q EXCEPT !.pressed = a] \in Outgoing
         /\ [q EXCEPT !.version = v, !.pressed = a, !.wanted = w] \in Outgoing
BY DEF Requests, Outgoing

LEMMA UnansweredType ==
  ASSUME NetInv
  PROVE  /\ Unanswered \subseteq 1 .. sent /\ IsFiniteSet(Unanswered)
         /\ Cardinality(Unanswered) \in 0 .. sent /\ sent \in Nat
<1>1. sent \in Nat
  BY FileListAssumption DEF NetInv
<1>2. \A p \in net : p.n \in 0 .. MaxRequest /\ p.n <= sent
  BY DEF NetInv, Requests
<1>3. Unanswered \subseteq 1 .. sent
  BY <1>1, <1>2, FileListAssumption DEF Unanswered
<1>4. IsFiniteSet(1 .. sent) /\ Cardinality(1 .. sent) = sent
  BY <1>1, FS_Interval
<1>5. /\ IsFiniteSet(Unanswered) /\ Cardinality(Unanswered) \in Nat
      /\ Cardinality(Unanswered) <= sent
  BY <1>3, <1>4, FS_Subset, FS_CardinalityType
<1> QED BY <1>1, <1>3, <1>5

\* r is p, marked late when it was answered before q.
Marked(r, p, q) ==
  /\ r.n = p.n /\ r.op = p.op /\ r.reply = p.reply /\ r.rows = p.rows /\ r.order = p.order
  /\ r.late <=> p.late \/ (p.reply # "none" /\ p.order < q.order)

LEMMA OvertakenEffect ==
  ASSUME NEW N \in SUBSET Requests, NEW q
  PROVE  /\ Overtaken(N, q) \subseteq Requests
         /\ \A r \in Overtaken(N, q) : \E p \in N : Marked(r, p, q)
         /\ \A p \in N : \E r \in Overtaken(N, q) : Marked(r, p, q)
<1> DEFINE late(p) == p.late \/ (p.reply # "none" /\ p.order < q.order)
           mark(p) == [p EXCEPT !.late = late(p)]
<1>1. ASSUME NEW p \in N
      PROVE  mark(p) \in Requests /\ Marked(mark(p), p, q) /\ mark(p) \in Overtaken(N, q)
  <2>1. late(p) \in BOOLEAN /\ p \in Requests
    BY DEF Requests
  <2>2. mark(p) \in Overtaken(N, q)
    BY DEF Overtaken
  <2>3. mark(p).late = late(p)
    BY <2>1 DEF Requests
  <2>4. mark(p).late <=> p.late \/ (p.reply # "none" /\ p.order < q.order)
    BY <2>3
  <2> HIDE DEF late
  <2>5. /\ mark(p) \in Requests /\ mark(p).n = p.n /\ mark(p).op = p.op
        /\ mark(p).reply = p.reply /\ mark(p).rows = p.rows /\ mark(p).order = p.order
    BY <2>1 DEF Requests
  <2> QED BY <2>2, <2>4, <2>5 DEF Marked
<1>2. \A r \in Overtaken(N, q) : \E p \in N : r = mark(p)
  BY DEF Overtaken
<1> HIDE DEF mark
<1>3. \A r \in Overtaken(N, q) : r \in Requests /\ \E p \in N : Marked(r, p, q)
  <2> TAKE r \in Overtaken(N, q)
  <2>1. PICK p \in N : r = mark(p)
    BY <1>2
  <2> QED BY <1>1, <2>1
<1>4. \A p \in N : \E r \in Overtaken(N, q) : Marked(r, p, q)
  BY <1>1
<1> QED BY <1>3, <1>4

\* Requests go, or are marked late: nothing new is on the way but what nobody
\* waits for.
LEMMA NetShrinks ==
  ASSUME NetInv, NEW N \in SUBSET net, NEW q,
         net' = Overtaken(N, q) \/ net' = N, sent' = sent
  PROVE  NetInv'
<1>0. N \in SUBSET Requests
  BY DEF NetInv
<1>1. ASSUME NEW r \in net'
      PROVE  /\ r \in Requests
             /\ \E p \in net : r.n = p.n /\ r.reply = p.reply /\ r.order = p.order
  <2>1. CASE net' = N
    BY <1>0, <2>1
  <2>2. CASE net' = Overtaken(N, q)
    <3>1. r \in Requests /\ \E p \in N : Marked(r, p, q)
      BY <1>0, <2>2, OvertakenEffect
    <3> QED BY <3>1 DEF Marked
  <2> QED BY <2>1, <2>2
<1>2. Numbered'
  <2> SUFFICES ASSUME NEW r \in net', NEW s \in net', r.n = s.n, r.n # 0
               PROVE  r = s
    BY DEF Numbered
  <2>1. CASE net' = N
    BY <2>1 DEF NetInv, Numbered
  <2>2. CASE net' = Overtaken(N, q)
    <3> DEFINE mark(p) == [p EXCEPT !.late = @ \/ (p.reply # "none" /\ p.order < q.order)]
    <3>1. PICK p \in N : r = mark(p)
      BY <2>2 DEF Overtaken
    <3>2. PICK k \in N : s = mark(k)
      BY <2>2 DEF Overtaken
    <3>3. \A x \in N : mark(x).n = x.n
      BY DEF NetInv, Requests
    <3> HIDE DEF mark
    <3>4. p.n = k.n /\ p.n # 0
      BY <3>1, <3>2, <3>3
    <3> QED BY <3>1, <3>2, <3>4 DEF NetInv, Numbered
  <2> QED BY <2>1, <2>2
<1>3. Unanswered' \subseteq Unanswered
  BY <1>1 DEF Unanswered
<1>4. /\ IsFiniteSet(Unanswered) /\ Cardinality(Unanswered) \in Nat /\ sent \in Nat
      /\ Cardinality(Unanswered') \in Nat /\ Cardinality(Unanswered') <= Cardinality(Unanswered)
  BY <1>3, UnansweredType, FS_Subset, FS_CardinalityType
<1>5. Counted'
  <2> SUFFICES ASSUME NEW r \in net' PROVE r.order + Cardinality(Unanswered') <= sent
    BY DEF Counted
  <2>1. PICK p \in net : r.order = p.order
    BY <1>1
  <2>2. p.order + Cardinality(Unanswered) <= sent /\ p.order \in Nat
    BY DEF NetInv, Counted, Requests
  <2>3. \A o, a, b, c \in Nat : o + a <= c /\ b <= a => o + b <= c
    OBVIOUS
  <2> QED BY <1>4, <2>1, <2>2, <2>3
<1>6. Alone' /\ \A r \in net' : r.n <= sent'
  BY <1>1 DEF Alone, NetInv
<1> QED BY <1>1, <1>2, <1>5, <1>6 DEF NetInv

\* A request goes on with nobody to wait for its answer.
LEMMA NetOrphans ==
  ASSUME NetInv, NEW q \in net, q.reply = "none",
         net' = (net \ {q}) \cup {[q EXCEPT !.n = 0]}, sent' = sent
  PROVE  NetInv'
<1> DEFINE o == [q EXCEPT !.n = 0]
<1>1. o \in Requests /\ o.n = 0 /\ o.reply = "none" /\ o.order = q.order
  BY FileListAssumption DEF NetInv, Requests
<1> HIDE DEF o
<1>2. net' = (net \ {q}) \cup {o}
  BY DEF o
<1>3. Numbered' /\ Alone'
  BY <1>1, <1>2 DEF NetInv, Numbered, Alone
<1>4. Unanswered' \subseteq Unanswered
  BY <1>1, <1>2 DEF Unanswered
<1>5. /\ IsFiniteSet(Unanswered) /\ Cardinality(Unanswered) \in Nat /\ sent \in Nat
      /\ Cardinality(Unanswered') \in Nat /\ Cardinality(Unanswered') <= Cardinality(Unanswered)
  BY <1>4, UnansweredType, FS_Subset, FS_CardinalityType
<1>6. Counted'
  <2> SUFFICES ASSUME NEW r \in net' PROVE r.order + Cardinality(Unanswered') <= sent
    BY DEF Counted
  <2>1. PICK p \in net : r.order = p.order
    BY <1>1, <1>2
  <2>2. p.order + Cardinality(Unanswered) <= sent /\ p.order \in Nat
    BY DEF NetInv, Counted, Requests
  <2>3. \A i, a, b, c \in Nat : i + a <= c /\ b <= a => i + b <= c
    OBVIOUS
  <2> QED BY <1>5, <2>1, <2>2, <2>3
<1>7. net' \subseteq Requests /\ \A r \in net' : r.n <= sent'
  BY <1>1, <1>2, <1>5 DEF NetInv
<1> QED BY <1>3, <1>6, <1>7 DEF NetInv
\* What a reply adds: an answer after all the others, or, when nobody waits, the
\* others are late.
ReplyTo(q, how, rows, a) ==
  /\ a.n = q.n /\ a.op = q.op /\ a.reply = how /\ a.rows = rows /\ ~a.late
  /\ a.order \in Nat /\ \A p \in net : p.order < a.order
  /\ IF q.n = 0 THEN net' = Overtaken(net \ {q}, a)
     ELSE a \in Requests /\ net' = (net \ {q}) \cup {a}

LEMMA ReplyEffect ==
  ASSUME NetInv, NEW q \in net, q.reply = "none",
         NEW how \in {"rows", "unreadable", "failed"}, NEW rows \in Listings,
         Reply(q, how, rows)
  PROVE  NetInv' /\ \E a : ReplyTo(q, how, rows, a)
<1> DEFINE orders == {p.order : p \in net}
           o == Max(orders) + 1
           a == [Request(q.op, 0) EXCEPT !.n = q.n, !.reply = how, !.rows = rows, !.order = o]
<1>0. /\ sent \in Nat /\ sent <= MaxRequest /\ MaxRequest \in Nat /\ q \in Requests
      /\ sent' = sent /\ q.n \in 0 .. sent
  <2>1. sent \in 0 .. MaxRequest /\ q \in Requests /\ q.n <= sent /\ sent' = sent
    BY DEF NetInv, Reply
  <2>2. q.n \in 0 .. MaxRequest
    BY <2>1 DEF Requests
  <2> QED BY <2>1, <2>2, FileListAssumption
<1>1. \A p \in net : p.order \in Nat /\ p.order + Cardinality(Unanswered) <= sent
  BY DEF NetInv, Counted, Requests
<1>2. Cardinality(Unanswered) \in Nat /\ IsFiniteSet(Unanswered)
  BY UnansweredType
<1>3. orders \in SUBSET (0 .. sent) /\ orders # {}
  <2>1. \A p \in net : p.order \in 0 .. sent
    BY <1>0, <1>1, <1>2
  <2> QED BY <2>1
<1>4. PICK p \in net : Max(orders) = p.order
  BY <1>0, <1>3, Greatest
<1>5. \A x \in net : x.order <= Max(orders)
  BY <1>0, <1>3, Greatest
<1> HIDE DEF orders
<1>6. o \in Nat /\ o + Cardinality(Unanswered) <= sent + 1
  BY <1>0, <1>1, <1>2, <1>4
<1>7. \A x \in net : x.order < o
  BY <1>1, <1>4, <1>5
<1>8. IF q.n = 0 THEN net' = Overtaken(net \ {q}, a) ELSE net' = (net \ {q}) \cup {a}
  BY DEF Reply, orders
<1> HIDE DEF o
<1>9. /\ a.n = q.n /\ a.op = q.op /\ a.reply = how /\ a.rows = rows /\ a.late = FALSE
      /\ a.order = o
  BY DEF Request
<1>10. o \in 0 .. MaxRequest => a \in Requests
  <2> DEFINE b == Request(q.op, 0)
  <2>1. q.op \in Operations /\ 0 \in 0 .. MaxItem
    BY <1>0, FileListAssumption DEF Requests
  <2>2. b \in Requests
    BY <2>1, RequestType DEF Outgoing
  <2>3. q.n \in 0 .. MaxRequest
    BY <1>0
  <2> HIDE DEF b
  <2> SUFFICES ASSUME o \in 0 .. MaxRequest
               PROVE  [b EXCEPT !.n = q.n, !.reply = how, !.rows = rows, !.order = o] \in Requests
    BY DEF b
  <2> QED BY <2>2, <2>3 DEF Requests
<1> HIDE DEF a
<1>11. CASE q.n = 0
  <2>1. NetInv'
    BY <1>0, <1>8, <1>11, NetShrinks
  <2> QED BY <2>1, <1>6, <1>7, <1>8, <1>9, <1>11 DEF ReplyTo
<1>12. CASE q.n # 0
  <2>1. q.n \in Unanswered
    BY <1>12 DEF Unanswered
  <2>2. Unanswered' = Unanswered \ {q.n}
    <3>1. \A k : k \in Unanswered' <=> k \in Unanswered /\ k # q.n
      BY <1>8, <1>9, <1>12 DEF Unanswered, NetInv, Numbered
    <3> QED BY <3>1
  <2>3. Cardinality(Unanswered') = Cardinality(Unanswered) - 1 /\ Cardinality(Unanswered') \in Nat
    BY <1>2, <2>1, <2>2, FS_RemoveElement, FS_CardinalityType
  <2>4. o <= sent
    BY <1>0, <1>2, <1>6, <2>3
  <2>5. a \in Requests
    BY <1>0, <1>6, <1>10, <2>4
  <2>6. Counted'
    <3> SUFFICES ASSUME NEW r \in net' PROVE r.order + Cardinality(Unanswered') <= sent
      BY <1>0 DEF Counted
    <3>1. CASE r \in net
      BY <1>0, <1>1, <1>2, <2>3, <3>1
    <3>2. CASE r = a
      BY <1>0, <1>2, <1>6, <1>9, <2>3, <3>2
    <3> QED BY <1>8, <1>12, <3>1, <3>2
  <2>7. Numbered' /\ Alone' /\ net' \subseteq Requests /\ \A r \in net' : r.n <= sent
    BY <1>0, <1>8, <1>9, <1>12, <2>5 DEF NetInv, Numbered, Alone
  <2>8. NetInv'
    BY <1>0, <2>6, <2>7 DEF NetInv
  <2> QED BY <2>5, <2>8, <1>6, <1>7, <1>8, <1>9, <1>12 DEF ReplyTo
<1> QED BY <1>11, <1>12

\* The app's own requests get the next numbers.
LEMMA SendNet ==
  ASSUME NetInv, NEW qs \in Seq(Outgoing), Send(qs)
  PROVE  /\ NetInv' /\ sent' = sent + Len(qs) /\ Len(qs) \in Nat /\ sent \in Nat
         /\ net \subseteq net'
         /\ \A r \in net' : r \in net \/ (r.reply = "none" /\ r.order = 0)
<1> DEFINE new(i) == [qs[i] EXCEPT !.n = sent + i]
<1>0. /\ sent \in Nat /\ Len(qs) \in Nat /\ sent' = sent + Len(qs) /\ sent' <= MaxRequest
      /\ DOMAIN qs = 1 .. Len(qs) /\ MaxRequest \in Nat
  BY FileListAssumption DEF NetInv, Send
<1>1. net' = net \cup {new(i) : i \in DOMAIN qs}
  BY DEF Send
<1>2. ASSUME NEW i \in DOMAIN qs
      PROVE  /\ new(i) \in Requests /\ new(i).n = sent + i /\ new(i).reply = "none"
             /\ new(i).order = 0
  <2>1. qs[i] \in Outgoing /\ sent + i \in 0 .. MaxRequest
    BY <1>0
  <2> QED BY <2>1 DEF Outgoing, Requests
<1> HIDE DEF new
<1>3. \A r \in net' : r \in net \/ \E i \in DOMAIN qs : r = new(i)
  BY <1>1
<1>4. \A r \in net' : r \in Requests /\ r.n <= sent'
  BY SMTT(30), <1>0, <1>2, <1>3 DEF NetInv, Requests
<1>5. Numbered'
  <2> SUFFICES ASSUME NEW r \in net', NEW s \in net', r.n = s.n, r.n # 0 PROVE r = s
    BY DEF Numbered
  <2>1. CASE r \in net /\ s \in net
    BY <2>1 DEF NetInv, Numbered
  <2>2. ASSUME NEW x \in net, NEW i \in DOMAIN qs PROVE x.n # new(i).n
    <3>1. x.n \in Nat /\ x.n <= sent
      BY <1>0 DEF NetInv, Requests
    <3> QED BY <1>0, <1>2, <3>1
  <2>3. \A i, k \in DOMAIN qs : new(i).n = new(k).n => i = k
    BY <1>0, <1>2
  <2> QED BY <1>3, <2>1, <2>2, <2>3
<1>6. Alone'
  <2>1. \A i \in DOMAIN qs : new(i).n # 0
    BY <1>0, <1>2
  <2> QED BY <1>3, <2>1 DEF NetInv, Alone
<1>7. Unanswered' \subseteq Unanswered \cup (sent + 1 .. sent + Len(qs))
  <2> SUFFICES ASSUME NEW k \in Unanswered'
               PROVE  k \in Unanswered \/ k \in sent + 1 .. sent + Len(qs)
    OBVIOUS
  <2>1. PICK p \in net' : p.reply = "none" /\ k = p.n /\ k # 0
    BY DEF Unanswered
  <2>2. CASE p \in net
    BY <2>1, <2>2 DEF Unanswered
  <2>3. CASE \E i \in DOMAIN qs : p = new(i)
    BY <1>0, <1>2, <2>1, <2>3
  <2> QED BY <1>3, <2>2, <2>3
<1>8. /\ Unanswered \subseteq 1 .. sent /\ IsFiniteSet(Unanswered)
      /\ Cardinality(Unanswered) \in 0 .. sent
  BY UnansweredType
<1>9. /\ IsFiniteSet(sent + 1 .. sent + Len(qs))
      /\ Cardinality(sent + 1 .. sent + Len(qs)) = Len(qs)
  <2>1. /\ IsFiniteSet(sent + 1 .. sent + Len(qs))
        /\ Cardinality(sent + 1 .. sent + Len(qs))
             = IF sent + 1 > sent + Len(qs) THEN 0 ELSE (sent + Len(qs)) - (sent + 1) + 1
    <3>1. sent + 1 \in Int /\ sent + Len(qs) \in Int
      BY <1>0
    <3> QED BY <3>1, FS_Interval
  <2> QED BY <1>0, <2>1
<1>10. (Unanswered \cap (sent + 1 .. sent + Len(qs))) = {}
  BY <1>0, <1>8
<1>11. /\ IsFiniteSet(Unanswered \cup (sent + 1 .. sent + Len(qs)))
       /\ Cardinality(Unanswered \cup (sent + 1 .. sent + Len(qs)))
            = Cardinality(Unanswered) + Len(qs) - Cardinality({})
  <2> DEFINE New == sent + 1 .. sent + Len(qs)
  <2>1. IsFiniteSet(New) /\ Cardinality(New) = Len(qs) /\ Unanswered \cap New = {}
    BY <1>9, <1>10
  <2> HIDE DEF New
  <2>2. /\ IsFiniteSet(Unanswered \cup New)
        /\ Cardinality(Unanswered \cup New)
             = Cardinality(Unanswered) + Cardinality(New) - Cardinality(Unanswered \cap New)
    BY <1>8, <2>1, FS_Union
  <2>3. /\ IsFiniteSet(Unanswered \cup New)
        /\ Cardinality(Unanswered \cup New) = Cardinality(Unanswered) + Len(qs) - Cardinality({})
    BY <2>1, <2>2
  <2> QED BY <2>3 DEF New
<1>12. Cardinality(Unanswered') \in Nat /\ Cardinality(Unanswered') <= Cardinality(Unanswered) + Len(qs)
  <2>1. Cardinality({}) = 0
    BY FS_EmptySet
  <2>2. /\ IsFiniteSet(Unanswered')
        /\ Cardinality(Unanswered') <= Cardinality(Unanswered \cup (sent + 1 .. sent + Len(qs)))
    BY <1>7, <1>11, FS_Subset
  <2>3. Cardinality(Unanswered') \in Nat
    BY <2>2, FS_CardinalityType
  <2> QED BY <1>0, <1>8, <1>11, <2>1, <2>2, <2>3
<1>13. Counted'
  <2> SUFFICES ASSUME NEW r \in net' PROVE r.order + Cardinality(Unanswered') <= sent'
    BY DEF Counted
  <2>1. CASE r \in net
    <3>1. r.order \in Nat /\ r.order + Cardinality(Unanswered) <= sent
      BY <2>1 DEF NetInv, Counted, Requests
    <3> QED BY <1>0, <1>8, <1>12, <3>1
  <2>2. CASE r.order = 0
    BY <1>0, <1>8, <1>12, <2>2
  <2> QED BY <1>2, <1>3, <2>1, <2>2
<1>14. \A r \in net' : r \in net \/ (r.reply = "none" /\ r.order = 0)
  BY <1>2, <1>3
<1> QED BY <1>0, <1>1, <1>4, <1>5, <1>6, <1>13, <1>14 DEF NetInv

LEMMA DieNet ==
  ASSUME NetInv, Die
  PROVE  /\ NetInv' /\ \A r \in net' : r.reply = "none"
         /\ \A r \in net' : \E q \in net : q.reply = "none" /\ r.order = q.order
<1> DEFINE o(q) == [q EXCEPT !.n = 0]
           Left == {p \in net : p.reply = "none" /\ p.op \in {"addFolder", "upload", "delete"}}
<1>1. net' = {o(q) : q \in Left} /\ sent' = sent
  BY DEF Die
<1>2. \A q \in Left : o(q) \in Requests /\ o(q).n = 0 /\ o(q).reply = "none" /\ o(q).order = q.order
  BY FileListAssumption DEF NetInv, Requests
<1> HIDE DEF o
<1>3. \A r \in net' : \E q \in net : /\ r \in Requests /\ r.n = 0 /\ r.reply = "none"
                                       /\ r.order = q.order /\ q.reply = "none"
  BY <1>1, <1>2
<1>4. Unanswered' = {}
  BY <1>3 DEF Unanswered
<1>5. \A r \in net' : r.order \in Nat /\ r.order <= sent
  <2>1. sent \in Nat /\ Cardinality(Unanswered) \in Nat
    BY UnansweredType
  <2>2. \A q \in net : q.order \in Nat /\ q.order + Cardinality(Unanswered) <= sent
    BY DEF NetInv, Counted, Requests
  <2>3. \A q \in net : q.order \in Nat /\ q.order <= sent
    BY <2>1, <2>2
  <2> QED BY <1>3, <2>3
<1>6. Counted'
  <2>1. Cardinality(Unanswered') = 0 /\ sent \in Nat
    BY <1>4, FS_EmptySet, UnansweredType
  <2> QED BY <1>1, <1>5, <2>1 DEF Counted
<1>7. Numbered' /\ Alone' /\ net' \subseteq Requests /\ \A r \in net' : r.n <= sent'
  <2>1. sent \in Nat
    BY UnansweredType
  <2> QED BY <1>1, <1>3, <2>1 DEF Numbered, Alone
<1>8. sent' \in 0 .. MaxRequest
  BY <1>1 DEF NetInv
<1> QED BY <1>3, <1>6, <1>7, <1>8 DEF NetInv
----------------------------------------------------------------------------
(* The types, of the server, of the screen and of what is on the way.      *)

Fronts == [at : Places, row : 0 .. MaxItem, pressed : 0 .. MaxItem, last : 0 .. MaxVersion]

FolderInv == made \in 0 .. MaxItem /\ DOMAIN folder \subseteq 1 .. made /\ \A i \in DOMAIN folder : folder[i] \in Items
ScreenInv ==
  /\ shown \in Listings /\ front \in Fronts
  /\ mFileId \in 0 .. MaxItem /\ selected \in Rows \cup {NoRow} /\ downloadVersion \in 0 .. MaxVersion - 1
  /\ waiting \subseteq 0 .. sent /\ stranded \subseteq 1 .. sent /\ blur \in BOOLEAN

TypeInv == FolderInv /\ ScreenInv /\ NetInv

LEMMA FolderType == ASSUME FolderInv PROVE IsFolder(folder)
BY FileListAssumption DEF FolderInv, IsFolder, ItemId

LEMMA PlainType == ASSUME NEW at \in Places PROVE Place(at) \in Fronts
BY FileListAssumption DEF Place, Fronts

LEMMA PlaceType ==
  ASSUME NEW at \in Places, NEW r \in 0 .. MaxItem, NEW b \in 0 .. MaxItem, NEW v \in 0 .. MaxVersion
  PROVE  /\ [Place(at) EXCEPT !.row = r, !.last = v] \in Fronts
         /\ [Place(at) EXCEPT !.pressed = b] \in Fronts
<1>1. Place(at) \in Fronts
  BY PlainType
<1> QED BY <1>1 DEF Fronts

LEMMA FrontType ==
  ASSUME front \in Fronts, NEW at \in Places, NEW b \in 0 .. MaxItem, NEW v \in 0 .. MaxVersion
  PROVE  /\ [front EXCEPT !.at = at, !.pressed = b] \in Fronts
         /\ [front EXCEPT !.at = at, !.pressed = b, !.last = v] \in Fronts
         /\ [front EXCEPT !.at = at, !.last = v] \in Fronts
         /\ front.pressed \in 0 .. MaxItem /\ front.last \in 0 .. MaxVersion /\ front.row \in 0 .. MaxItem
BY DEF Fronts

LEMMA RowType ==
  ASSUME ScreenInv, Present
  PROVE  /\ Row \in Rows \cup {NoRow} /\ Row.id \in 0 .. MaxItem /\ Row.version \in 0 .. MaxVersion
<1>1. Row \in Rows
  BY ListingRows DEF ScreenInv, Present, Row
<1> QED BY <1>1, FileListAssumption DEF Rows, ItemId

LEMMA InitType == Init => TypeInv
<1> SUFFICES ASSUME Init PROVE TypeInv
  OBVIOUS
<1>0. MaxItem \in Nat \ {0} /\ MaxVersion \in Nat \ {0} /\ MaxRequest \in Nat
  BY FileListAssumption
<1>1. DOMAIN folder = {1} /\ folder[1] = [dir |-> FALSE, revision |-> MaxVersion] /\ made = 1
  BY DEF Init
<1>2. FolderInv
  <2>1. 1 \in 0 .. MaxItem /\ MaxVersion \in 1 .. MaxVersion
    BY <1>0
  <2>2. [dir |-> FALSE, revision |-> MaxVersion] \in Items
    BY <2>1 DEF Items
  <2>3. \A i \in DOMAIN folder : folder[i] \in Items
    BY <1>1, <2>2
  <2>4. DOMAIN folder \subseteq 1 .. made
    BY <1>1
  <2> QED BY <1>1, <2>1, <2>3, <2>4 DEF FolderInv
<1>3. <<>> \in Listings
  BY <1>0 DEF Listings
<1>4. Place("closed") \in Fronts
  BY <1>0 DEF Fronts, Place, Places
<1>5. ScreenInv
  BY <1>0, <1>3, <1>4 DEF ScreenInv, Init
<1>6. NetInv
  BY <1>0 DEF Init, NetInv, Numbered, Counted, Alone
<1> QED BY <1>2, <1>5, <1>6 DEF TypeInv

LEMMA NetStays == ASSUME NetInv, net' = net, sent' = sent PROVE NetInv'
BY DEF NetInv, Numbered, Counted, Alone, Unanswered

\* What a node does: the folder stays one, and what it answers to a request that
\* lists is the folder after the change, a refusal or an empty listing.
Listed(q, how, rows) ==
  /\ ~Lists(q) \/ how = "failed" => UNCHANGED folder
  /\ Lists(q) => how \in {"failed", "unreadable"} \/ Ids(rows) = Ids(InfoNode(folder'))

LEMMA NewItemType == ASSUME FolderInv, NEW d \in BOOLEAN, NewItem(d) PROVE FolderInv'
<1>1. made \in Nat /\ made' = made + 1 /\ made' \in 0 .. MaxItem /\ DOMAIN folder \subseteq 1 .. made
  BY FileListAssumption DEF FolderInv, NewItem
<1>2. folder' = [i \in DOMAIN folder \cup {made'} |->
                  IF i = made' THEN [dir |-> d, revision |-> 1] ELSE folder[i]]
  BY DEF NewItem
<1>3. [dir |-> d, revision |-> 1] \in Items
  BY FileListAssumption DEF Items
<1>4. DOMAIN folder' = DOMAIN folder \cup {made'}
  BY <1>2
<1>5. \A i \in DOMAIN folder' : folder'[i] \in Items
  BY <1>2, <1>3 DEF FolderInv
<1>6. DOMAIN folder' \subseteq 1 .. made'
  BY <1>1, <1>4
<1> QED BY <1>1, <1>5, <1>6 DEF FolderInv

LEMMA ServeEffect ==
  ASSUME TypeInv, NEW q \in net, Serve(q)
  PROVE  /\ FolderInv' /\ q.reply = "none"
         /\ \E how \in {"rows", "unreadable", "failed"}, rows \in Listings :
              Reply(q, how, rows) /\ Listed(q, how, rows)
<1>0. q.reply = "none" /\ q \in Requests /\ IsFolder(folder) /\ FolderInv
  BY FolderType DEF Serve, TypeInv, NetInv
<1>1. FolderInv' => IsFolder(folder')
  BY FileListAssumption DEF FolderInv, IsFolder, ItemId
<1>2. <<>> \in Listings
  BY <1>0, NodesAnswerListings
<1>3. ASSUME FolderInv', ReplyListing(q, folder')
      PROVE  \E how \in {"rows", "unreadable", "failed"}, rows \in Listings :
               Reply(q, how, rows) /\ (how = "unreadable" \/ Ids(rows) = Ids(InfoNode(folder')))
                                   /\ how # "failed"
  <2>1. InfoNode(folder') \in Listings
    BY <1>1, <1>3, NodesAnswerListings
  <2> QED BY <1>2, <1>3, <2>1 DEF ReplyListing
<1>4. CASE HandleLoad(q)
  <2>1. FolderInv' /\ ReplyListing(q, folder') /\ Lists(q)
    BY <1>0, <1>4 DEF HandleLoad, FolderInv, Lists
  <2> QED BY <1>0, <1>3, <2>1 DEF Listed
<1>5. CASE HandleAddFolder(q)
  <2>1. FolderInv'
    BY <1>0, <1>5, NewItemType DEF HandleAddFolder
  <2>2. CreateDirNode(folder') \in Listings
    BY <1>1, <2>1, NodesAnswerListings
  <2>3. Lists(q) /\ (Reply(q, "rows", CreateDirNode(folder')) \/ Reply(q, "unreadable", <<>>))
    BY <1>5 DEF HandleAddFolder, Lists
  <2>4. Ids(CreateDirNode(folder')) = Ids(InfoNode(folder'))
    BY SameRows
  <2>5. CASE Reply(q, "rows", CreateDirNode(folder'))
    BY <1>0, <2>1, <2>2, <2>3, <2>4, <2>5 DEF Listed
  <2>6. CASE Reply(q, "unreadable", <<>>)
    BY <1>0, <1>2, <2>1, <2>3, <2>6 DEF Listed
  <2> QED BY <2>3, <2>5, <2>6
<1>6. CASE HandleUpload(q)
  <2>1. FolderInv'
    <3>1. CASE q.id \in DOMAIN folder
      <4>1. /\ folder[q.id].revision < MaxVersion /\ made' = made
            /\ folder' = [folder EXCEPT ![q.id].revision = @ + 1]
        BY <1>6, <3>1 DEF HandleUpload
      <4>2. folder[q.id] \in Items
        BY <1>0, <3>1 DEF FolderInv
      <4>3. [folder[q.id] EXCEPT !.revision = @ + 1] \in Items
        BY <4>1, <4>2, FileListAssumption DEF Items
      <4>4. \A i \in DOMAIN folder' : folder'[i] \in Items
        BY <1>0, <3>1, <4>1, <4>3 DEF FolderInv
      <4> QED BY <1>0, <4>1, <4>4 DEF FolderInv
    <3>2. CASE q.id \notin DOMAIN folder
      BY <1>0, <1>6, <3>2, NewItemType DEF HandleUpload
    <3> QED BY <3>1, <3>2
  <2>2. Lists(q) /\ ReplyListing(q, folder')
    BY <1>6 DEF HandleUpload, Lists
  <2> QED BY <1>0, <1>3, <2>1, <2>2 DEF Listed
<1>7. CASE HandleDelete(q)
  <2>1. FolderInv'
    BY <1>0, <1>7 DEF HandleDelete, Restrict, FolderInv
  <2>2. Lists(q) /\ ReplyListing(q, folder')
    BY <1>7 DEF HandleDelete, Lists
  <2> QED BY <1>0, <1>3, <2>1, <2>2 DEF Listed
<1>8. CASE HandleSearch(q)
  <2>1. FolderInv' /\ ~Lists(q) /\ folder' = folder
    BY <1>0, <1>8 DEF HandleSearch, FolderInv, Lists
  <2>2. PICK I \in SUBSET DOMAIN folder : Reply(q, "rows", SearchNode(folder, I))
    BY <1>8 DEF HandleSearch
  <2>3. SearchNode(folder, I) \in Listings
    BY <1>0, NodesAnswerListings
  <2> QED BY <1>0, <2>1, <2>2, <2>3 DEF Listed
<1>9. CASE HandleOther(q)
  BY <1>0, <1>2, <1>9 DEF HandleOther, FolderInv, Lists, Listed
<1>10. CASE Refuse(q)
  BY <1>0, <1>2, <1>10 DEF Refuse, FolderInv, Listed
<1> QED BY <1>4, <1>5, <1>6, <1>7, <1>8, <1>9, <1>10 DEF Serve

LEMMA ServeType == ASSUME TypeInv, NEW q \in net, Serve(q) PROVE TypeInv'
<1>1. /\ FolderInv' /\ q.reply = "none"
      /\ \E how \in {"rows", "unreadable", "failed"}, rows \in Listings :
           Reply(q, how, rows) /\ Listed(q, how, rows)
  BY ServeEffect
<1>2. NetInv /\ ScreenInv
  BY DEF TypeInv
<1>3. PICK how \in {"rows", "unreadable", "failed"} : \E rows \in Listings : Reply(q, how, rows)
  BY <1>1
<1>4. PICK rows \in Listings : Reply(q, how, rows)
  BY <1>3
<1>5. NetInv'
  BY <1>1, <1>2, <1>4, ReplyEffect
<1>6. ScreenInv'
  <2>1. /\ UNCHANGED <<sent, shown, front, fields, waiting, stranded>> /\ blur' \in BOOLEAN
    BY <1>4 DEF Reply
  <2> QED BY <1>2, <2>1 DEF ScreenInv, fields
<1> QED BY <1>1, <1>5, <1>6 DEF TypeInv

LEMMA AnswerType == ASSUME TypeInv, NEW q \in net, Answer(q) PROVE TypeInv'
<1>0. /\ FolderInv /\ ScreenInv /\ NetInv /\ q \in Requests /\ UNCHANGED server /\ sent' = sent
      /\ net \ {q} \in SUBSET net
  BY DEF TypeInv, NetInv, Answer
<1>1. FolderInv'
  BY <1>0 DEF FolderInv, server
<1>2. q.rows \in Listings
  BY <1>0 DEF Requests
<1>3. Place("away") \in Fronts
  BY PlainType DEF Places
<1>4. net' = net \ {q} \/ net' = Overtaken(net \ {q}, q)
  BY DEF Answer, UpdateFiles, NoHits, Downloaded, Tagged
<1>5. NetInv'
  BY <1>0, <1>4, NetShrinks
<1>6. ScreenInv'
  <2>1. CASE UpdateFiles(q)
    BY <1>0, <1>2, <2>1 DEF UpdateFiles, ScreenInv, fields
  <2>2. CASE NoHits(q)
    BY <1>0, <1>3, <2>2 DEF NoHits, ScreenInv, fields, history
  <2>3. CASE Downloaded(q) \/ Tagged(q)
    BY <1>0, <2>3 DEF Downloaded, Tagged, ScreenInv, fields, history
  <2>4. CASE OnFailure(q) /\ UNCHANGED history
    BY <1>0, <2>4 DEF OnFailure, ScreenInv, history
  <2> QED BY <2>1, <2>2, <2>3, <2>4 DEF Answer
<1> QED BY <1>1, <1>5, <1>6 DEF TypeInv

LEMMA NetworkType == ASSUME TypeInv, NEW q \in net, Lose(q) \/ Strand(q) PROVE TypeInv'
<1>0. /\ FolderInv /\ ScreenInv /\ NetInv /\ q \in Requests /\ UNCHANGED server /\ sent' = sent
      /\ net \ {q} \in SUBSET net /\ q.n # 0 /\ q.n <= sent
  BY DEF TypeInv, NetInv, Lose, Strand
<1>1. FolderInv'
  BY <1>0 DEF FolderInv, server
<1>2. q.n \in 1 .. sent
  BY <1>0, FileListAssumption DEF NetInv, Requests
<1>3. GoesOnAlone(q)
  BY DEF Lose, Strand
<1>4. NetInv'
  BY <1>0, <1>3, NetShrinks, NetOrphans DEF GoesOnAlone
<1>5. ScreenInv'
  <2>1. CASE Lose(q)
    BY <1>0, <2>1 DEF Lose, OnFailure, ScreenInv
  <2>2. CASE Strand(q)
    BY <1>0, <1>2, <2>2 DEF Strand, ScreenInv, fields
  <2> QED BY <2>1, <2>2
<1> QED BY <1>1, <1>4, <1>5 DEF TypeInv

----------------------------------------------------------------------------
(* The user's actions: they send, and leave the listing alone.             *)

Calm ==
  /\ UNCHANGED <<folder, made, shown, blur>>
  /\ net \subseteq net' /\ \A r \in net' : r \in net \/ (r.reply = "none" /\ r.order = 0)

LEMMA TurnType ==
  ASSUME TypeInv, NEW p \in Fronts, Turn(p), mFileId' \in 0 .. MaxItem,
         selected' \in Rows \cup {NoRow}, downloadVersion' \in 0 .. MaxVersion - 1
  PROVE  TypeInv' /\ Calm
<1>1. NetInv'
  BY NetStays DEF TypeInv, Turn
<1> QED BY <1>1 DEF Turn, TypeInv, FolderInv, ScreenInv, server, history, Calm

LEMMA SendType ==
  ASSUME TypeInv, NEW qs \in Seq(Outgoing), Send(qs), UNCHANGED <<folder, made, shown, stranded, blur>>,
         front' \in Fronts, mFileId' \in 0 .. MaxItem, selected' \in Rows \cup {NoRow},
         downloadVersion' \in 0 .. MaxVersion - 1,
         waiting' \subseteq waiting \cup (sent .. sent + Len(qs))
  PROVE  TypeInv' /\ Calm
<1>1. /\ NetInv' /\ sent' = sent + Len(qs) /\ Len(qs) \in Nat /\ sent \in Nat
      /\ net \subseteq net' /\ \A r \in net' : r \in net \/ (r.reply = "none" /\ r.order = 0)
  BY SendNet DEF TypeInv
<1>2. waiting' \subseteq 0 .. sent' /\ stranded' \subseteq 1 .. sent'
  <2>1. waiting \subseteq 0 .. sent /\ stranded \subseteq 1 .. sent
    BY DEF TypeInv, ScreenInv
  <2> QED BY <1>1, <2>1
<1> QED BY <1>1, <1>2 DEF TypeInv, FolderInv, ScreenInv, Calm

LEMMA ScreenFields ==
  ASSUME TypeInv
  PROVE  /\ front \in Fronts /\ mFileId \in 0 .. MaxItem /\ 0 \in 0 .. MaxItem
         /\ selected \in Rows \cup {NoRow} /\ NoRow \in Rows \cup {NoRow}
         /\ downloadVersion \in 0 .. MaxVersion - 1 /\ 0 \in 0 .. MaxVersion - 1
         /\ 0 \in 0 .. MaxVersion /\ sent \in Nat
BY FileListAssumption DEF TypeInv, ScreenInv, NetInv

LEMMA AskType ==
  ASSUME TypeInv, NEW q \in Outgoing, Ask(q), waiting' \in {waiting, {sent + 1}}
  PROVE  TypeInv' /\ Calm
<1>1. <<q>> \in Seq(Outgoing) /\ Len(<<q>>) = 1 /\ Send(<<q>>)
  BY DEF Ask
<1>2. Place("list") \in Fronts
  BY PlainType DEF Places
<1>3. waiting' \subseteq waiting \cup (sent .. sent + Len(<<q>>))
  BY <1>1, ScreenFields
<1> QED BY <1>1, <1>2, <1>3, SendType, ScreenFields DEF Ask, server, history

LEMMA ResumeType ==
  ASSUME TypeInv, NEW qs \in Seq(Outgoing), Resume(qs), mFileId' \in 0 .. MaxItem,
         selected' \in Rows \cup {NoRow}, downloadVersion' \in 0 .. MaxVersion - 1
  PROVE  TypeInv' /\ Calm
<1>1. Load \in Outgoing
  BY RequestType, ScreenFields DEF Load, Operations
<1>2. Append(qs, Load) \in Seq(Outgoing) /\ Len(Append(qs, Load)) = Len(qs) + 1 /\ Len(qs) \in Nat
  BY <1>1
<1>3. Place("list") \in Fronts
  BY PlainType DEF Places
<1> HIDE DEF Load
<1>4. waiting' \subseteq waiting \cup (sent .. sent + Len(Append(qs, Load)))
  BY <1>2, ScreenFields DEF Resume
<1> QED BY <1>2, <1>3, <1>4, SendType DEF Resume, server, history

LEMMA DieType == ASSUME TypeInv, Die PROVE TypeInv'
<1>1. NetInv'
  BY DieNet DEF TypeInv
<1>2. <<>> \in Listings /\ Place("closed") \in Fronts
  BY PlainType, FileListAssumption DEF Listings, Places
<1> QED BY <1>1, <1>2, ScreenFields DEF Die, TypeInv, FolderInv, ScreenInv, server

LEMMA PickFolderType == ASSUME TypeInv, PickFolder PROVE TypeInv' /\ Calm
<1> DEFINE version == IF selected.dir THEN 0
                      ELSE IF downloadVersion = 0 THEN selected.version ELSE downloadVersion
           b == Request("download", selected.id)
           q == [b EXCEPT !.version = version, !.pressed = front.pressed, !.wanted = front.last]
           qs == IF selected = NoRow THEN <<>> ELSE <<q>>
<1>1. /\ Resume(qs) /\ selected' = NoRow /\ mFileId' = mFileId
      /\ downloadVersion' \in {downloadVersion, 0}
  BY DEF PickFolder
<1>2. qs \in Seq(Outgoing)
  <2>1. selected.id \in 0 .. MaxItem /\ selected.version \in 0 .. MaxVersion
    BY ScreenFields, FileListAssumption DEF Rows, NoRow, ItemId
  <2>2. version \in 0 .. MaxVersion
    BY <2>1, ScreenFields, FileListAssumption
  <2>3. b \in Outgoing
    BY <2>1, RequestType DEF Operations
  <2>4. front.pressed \in 0 .. MaxItem /\ front.last \in 0 .. MaxVersion
    BY ScreenFields DEF Fronts
  <2> HIDE DEF version, b
  <2>5. q \in Outgoing
    BY <2>2, <2>3, <2>4, PressedType
  <2> QED BY <2>5
<1> HIDE DEF qs
<1> QED BY <1>1, <1>2, ResumeType, ScreenFields

LEMMA UserEffect == ASSUME TypeInv, User PROVE TypeInv' /\ (Calm \/ Die)
<1>0. ScreenInv
  BY DEF TypeInv
<1>1. CASE Open
  <2>1. Load \in Outgoing
    BY RequestType, ScreenFields DEF Load, Operations
  <2> HIDE DEF Load
  <2>2. <<Load, Load>> \in Seq(Outgoing) /\ Len(<<Load, Load>>) = 2
    BY <2>1
  <2>3. Place("list") \in Fronts
    BY PlainType DEF Places
  <2>4. waiting' \subseteq waiting \cup (sent .. sent + Len(<<Load, Load>>))
    BY <1>1, <2>2, ScreenFields DEF Open
  <2> QED BY <1>1, <2>2, <2>3, <2>4, SendType, ScreenFields DEF Open, server, fields, history
<1>2. CASE Kill \/ PressGone
  BY <1>2, DieType DEF Kill, PressGone
<1>3. CASE Cancel
  <2>1. Place("list") \in Fronts
    BY PlainType DEF Places
  <2> QED BY <1>3, <2>1, TurnType, ScreenFields DEF Cancel
<1>4. CASE Return
  <2>1. <<>> \in Seq(Outgoing)
    OBVIOUS
  <2> QED BY <1>4, <2>1, ResumeType, ScreenFields DEF Return
<1>5. ASSUME NEW r \in ItemId, OpenMenu(r) PROVE TypeInv' /\ Calm
  <2> DEFINE v == IF shown[r].dir THEN 0 ELSE shown[r].version
             p == [Place("menu") EXCEPT !.row = r, !.last = v]
  <2>1. shown[r] \in Rows /\ r \in ItemId
    BY <1>0, <1>5, ListingRows DEF ScreenInv, OpenMenu
  <2>2. v \in 0 .. MaxVersion /\ r \in 0 .. MaxItem
    BY SMTT(30), <2>1, ScreenFields, FileListAssumption DEF Rows, ItemId
  <2> HIDE DEF v
  <2>3. p \in Fronts
    BY <2>2, ScreenFields, PlaceType DEF Places
  <2>4. Turn(p) /\ UNCHANGED fields
    BY <1>5 DEF OpenMenu, v
  <2> HIDE DEF p
  <2> QED BY <2>3, <2>4, TurnType, ScreenFields DEF fields
<1>6. CASE PressDelete
  <2> DEFINE p == [front EXCEPT !.at = "confirm", !.pressed = Row.id]
  <2>1. Row.id \in 0 .. MaxItem
    BY SMTT(30), <1>0, <1>6, RowType DEF PressDelete
  <2>2. p \in Fronts
    BY ZenonT(40), <2>1, ScreenFields, FrontType DEF Places
  <2>3. Turn(p) /\ mFileId' = Row.id /\ UNCHANGED <<selected, downloadVersion>>
    BY <1>6 DEF PressDelete
  <2> HIDE DEF p
  <2> QED BY <2>1, <2>2, <2>3, TurnType, ScreenFields
<1>7. CASE ConfirmDelete
  <2> DEFINE b == Request("delete", mFileId)
             q == [b EXCEPT !.pressed = front.pressed]
  <2>1. b \in Outgoing
    BY RequestType, ScreenFields DEF Operations
  <2>2. front.pressed \in 0 .. MaxItem
    BY ScreenFields DEF Fronts
  <2> HIDE DEF b
  <2>3. q \in Outgoing
    BY <2>1, <2>2, ScreenFields, PressedType
  <2>4. Ask(q) /\ waiting' = waiting
    BY <1>7 DEF ConfirmDelete, b
  <2> HIDE DEF q
  <2> QED BY <2>3, <2>4, AskType
<1>8. CASE PressTags
  <2> DEFINE p == [front EXCEPT !.at = "tags", !.pressed = Row.id]
  <2>1. Row.id \in 0 .. MaxItem
    BY SMTT(30), <1>0, <1>8, RowType DEF PressTags
  <2>2. p \in Fronts
    BY ZenonT(40), <2>1, ScreenFields, FrontType DEF Places
  <2>3. Turn(p) /\ UNCHANGED fields
    BY <1>8 DEF PressTags
  <2> HIDE DEF p
  <2> QED BY <2>2, <2>3, TurnType, ScreenFields DEF fields
<1>9. CASE SaveTags
  <2> DEFINE b == Request("tags", Row.id)
             q == [b EXCEPT !.pressed = front.pressed]
  <2>0. Row.id \in 0 .. MaxItem
    BY <1>0, <1>9, RowType DEF SaveTags
  <2>1. b \in Outgoing
    BY <2>0, RequestType DEF Operations
  <2>2. front.pressed \in 0 .. MaxItem
    BY ScreenFields DEF Fronts
  <2> HIDE DEF b
  <2>3. q \in Outgoing
    BY <2>1, <2>2, ScreenFields, PressedType
  <2>4. Ask(q) /\ waiting' = waiting
    BY <1>9 DEF SaveTags, b
  <2> HIDE DEF q
  <2> QED BY <2>3, <2>4, AskType
<1>10. CASE PressShare \/ OpenPicker
  <2>1. Place("away") \in Fronts /\ Place("filePicker") \in Fronts
    BY PlainType DEF Places
  <2> QED BY <1>10, <2>1, TurnType, ScreenFields DEF PressShare, OpenPicker, fields
<1>11. CASE PressDownload
  <2> DEFINE p == [Place("folderPicker") EXCEPT !.pressed = Row.id]
  <2>1. Row.id \in 0 .. MaxItem /\ Row \in Rows \cup {NoRow}
    BY SMTT(30), <1>0, <1>11, RowType DEF PressDownload
  <2>2. p \in Fronts
    BY <2>1, ScreenFields, PlaceType DEF Places
  <2>3. Turn(p) /\ selected' = Row /\ UNCHANGED <<mFileId, downloadVersion>>
    BY <1>11 DEF PressDownload
  <2> HIDE DEF p
  <2> QED BY <2>1, <2>2, <2>3, TurnType, ScreenFields
<1>12. CASE PressPrevious
  <2> DEFINE p == [front EXCEPT !.at = "choose", !.pressed = Row.id, !.last = Row.version]
  <2>1. Row.id \in 0 .. MaxItem /\ Row.version \in 0 .. MaxVersion
    BY SMTT(30), <1>0, <1>12, RowType DEF PressPrevious
  <2>2. p \in Fronts
    BY ZenonT(40), <2>1, ScreenFields, FrontType DEF Places
  <2>3. Turn(p) /\ UNCHANGED fields
    BY <1>12 DEF PressPrevious
  <2> HIDE DEF p
  <2> QED BY <2>2, <2>3, TurnType, ScreenFields DEF fields
<1>13. ASSUME NEW v \in 1 .. MaxVersion, Choose(v) PROVE TypeInv' /\ Calm
  <2> DEFINE p == [front EXCEPT !.at = "folderPicker", !.last = v]
  <2>1. Row \in Rows \cup {NoRow}
    BY <1>0, <1>13, RowType DEF Choose
  <2>2. front.last \in 0 .. MaxVersion /\ v \in 1 .. front.last - 1 /\ v \in 0 .. MaxVersion
    BY <1>13, ScreenFields, FileListAssumption DEF Choose, Fronts
  <2>3. v \in 0 .. MaxVersion - 1
    BY SMTT(30), <2>2, FileListAssumption
  <2>4. p \in Fronts
    BY ZenonT(40), <2>2, ScreenFields, FrontType DEF Places
  <2>5. Turn(p) /\ selected' = Row /\ mFileId' = mFileId /\ downloadVersion' = v
    BY <1>13 DEF Choose
  <2> HIDE DEF p
  <2> QED BY <2>1, <2>3, <2>4, <2>5, TurnType, ScreenFields
<1>14. CASE PickFolder
  BY <1>14, PickFolderType
<1>15. ASSUME NEW i \in 0 .. MaxItem, PickFile(i) PROVE TypeInv' /\ Calm
  <2>1. Request("upload", i) \in Outgoing
    BY RequestType DEF Operations
  <2>2. <<Request("upload", i)>> \in Seq(Outgoing)
    BY <2>1
  <2> QED BY <1>15, <2>2, ResumeType, ScreenFields DEF PickFile, fields
<1>16. CASE AddFolder \/ Search
  <2>1. \A op \in {"addFolder", "search"} : Request(op, 0) \in Outgoing
    BY RequestType, ScreenFields DEF Operations
  <2> QED BY <1>16, <2>1, AskType DEF AddFolder, Search
<1>17. CASE SearchNothing
  <2>1. NetInv'
    BY <1>17, NetStays DEF SearchNothing, TypeInv
  <2>2. 0 \in 0 .. sent
    BY ScreenFields
  <2> QED BY <1>17, <2>1, <2>2 DEF SearchNothing, TypeInv, FolderInv, ScreenInv, Calm, server, fields, history
<1> QED BY <1>1, <1>2, <1>3, <1>4, <1>5, <1>6, <1>7, <1>8, <1>9, <1>10, <1>11, <1>12, <1>13,
           <1>14, <1>15, <1>16, <1>17 DEF User

LEMMA NextType == TypeInv /\ [Next]_vars => TypeInv'
<1> SUFFICES ASSUME TypeInv, [Next]_vars PROVE TypeInv'
  OBVIOUS
<1>1. CASE UNCHANGED vars
  <2>1. NetInv'
    BY <1>1, NetStays DEF TypeInv, vars
  <2> QED BY <1>1, <2>1 DEF vars, server, fields, history, TypeInv, FolderInv, ScreenInv
<1>2. CASE Next
  BY <1>2, ServeType, AnswerType, NetworkType, UserEffect DEF Next, Server, Answers, Network
<1> QED BY <1>1, <1>2

\* The app's fields, what is in front of the user and the requests on the way have
\* their types, with any number of requests: the rows are rows of the server's
\* folder and an answer never comes for a request that was not sent.
THEOREM FileListTypeCorrect == Spec => []TypeOK
<1>1. TypeInv => TypeOK
  <2> SUFFICES ASSUME TypeInv PROVE TypeOK
    OBVIOUS
  <2>1. front.at \in Places /\ front.row \in 0 .. MaxItem
    BY DEF TypeInv, ScreenInv, Fronts
  <2> QED BY <2>1 DEF TypeInv, FolderInv, ScreenInv, NetInv, TypeOK
<1> QED BY <1>1, InitType, NextType, PTL DEF Spec

----------------------------------------------------------------------------
(* What is shown and what is on the way: unless the screen is blurred, the *)
(* listing is the folder or an answer that says so is coming, and whatever *)
(* is on the way and not late is up to date or older than such an answer.  *)

Current(rows) == Ids(rows) = Ids(InfoNode(folder))
Pending == {p \in net : Lists(p) /\ p.reply \in {"rows", "unreadable"}}
Good(p) == ~p.late /\ (p.reply = "unreadable" \/ Current(p.rows))

Told   == ~blur => Current(shown) \/ \E p \in Pending : Good(p)
Queue  == \A p \in Pending : ~p.late => Good(p) \/ \E r \in Pending : p.order < r.order /\ Good(r)
Unsent == \A p \in net : p.reply = "none" => p.order = 0
AnswerInv == Told /\ Queue /\ Unsent

LEMMA Orders == ASSUME NetInv PROVE \A p \in net : p.order \in Nat /\ p.late \in BOOLEAN
BY FileListAssumption DEF NetInv, Requests

\* Marking the answers before q, and dropping q, keeps the rest of the queue.
LEMMA QueueOvertaken ==
  ASSUME NetInv, Queue, Unsent, NEW q \in net, net' = Overtaken(net \ {q}, q), folder' = folder
  PROVE  /\ Queue' /\ Unsent'
         /\ \A r \in Pending : r.order > q.order /\ Good(r) => \E s \in Pending' : Good(s)'
<1>0. /\ net \ {q} \in SUBSET Requests /\ q.order \in Nat
      /\ \A p \in net : p.order \in Nat /\ p.late \in BOOLEAN
  BY Orders DEF NetInv
<1>1. \A s \in net' : \E p \in net \ {q} : Marked(s, p, q)
  BY <1>0, OvertakenEffect
<1>2. \A p \in net \ {q} : \E s \in net' : Marked(s, p, q)
  BY <1>0, OvertakenEffect
<1>3. Unsent'
  BY ZenonT(40), <1>1 DEF Unsent, Marked
<1>4. ASSUME NEW r \in Pending, NEW p \in Nat, q.order <= p, p < r.order, Good(r)
      PROVE  \E s \in Pending' : p < s.order /\ Good(s)'
  <2>1. r \in net \ {q} /\ r.order \in Nat /\ ~(r.order < q.order)
    BY <1>0, <1>4 DEF Pending
  <2>2. PICK s \in net' : Marked(s, r, q)
    BY <1>2, <2>1
  <2>3. s \in Pending'
    BY <2>2 DEF Marked, Pending, Lists
  <2>4. ~s.late /\ s.order = r.order /\ s.reply = r.reply /\ s.rows = r.rows
    BY <1>4, <2>1, <2>2 DEF Marked, Good
  <2>5. Good(s)'
    BY <1>4, <2>4 DEF Good, Current
  <2> QED BY <1>4, <2>3, <2>4, <2>5
<1>5. Queue'
  <2> SUFFICES ASSUME NEW s \in Pending', ~s.late
               PROVE  Good(s)' \/ \E r \in Pending' : s.order < r.order /\ Good(r)'
    BY DEF Queue
  <2>1. PICK p \in net \ {q} : Marked(s, p, q)
    BY <1>1 DEF Pending
  <2>2. /\ p \in Pending /\ ~p.late /\ ~(p.order < q.order) /\ p.order \in Nat
        /\ s.order = p.order /\ s.reply = p.reply /\ s.rows = p.rows
    BY <1>0, <2>1 DEF Marked, Pending, Lists
  <2>3. CASE Good(p)
    BY <2>2, <2>3 DEF Good, Current
  <2>4. CASE \E r \in Pending : p.order < r.order /\ Good(r)
    BY <1>0, <1>4, <2>2, <2>4
  <2> QED BY <2>2, <2>3, <2>4 DEF Queue
<1>6. ASSUME NEW r \in Pending, r.order > q.order, Good(r) PROVE \E s \in Pending' : Good(s)'
  <2>1. q.order <= q.order /\ q.order < r.order
    BY <1>0, <1>6 DEF Pending
  <2> QED BY <1>0, <1>4, <1>6, <2>1
<1> QED BY <1>3, <1>5, <1>6

\* Requests that are not pending come and go without a trace.
LEMMA AnswerStays ==
  ASSUME AnswerInv, UNCHANGED <<folder, shown>>, blur => blur',
         \A r : r \in Pending' <=> r \in Pending, Unsent'
  PROVE  AnswerInv'
<1>1. \A r : Good(r)' <=> Good(r)
  BY DEF Good, Current
<1>2. Told'
  BY <1>1 DEF AnswerInv, Told, Current
<1>3. Queue'
  BY <1>1 DEF AnswerInv, Queue
<1> QED BY <1>2, <1>3 DEF AnswerInv

LEMMA ServeAnswers == ASSUME TypeInv, AnswerInv, NEW q \in net, Serve(q) PROVE AnswerInv'
<1>0. NetInv /\ q.reply = "none"
  BY ServeEffect DEF TypeInv
<1>1. PICK how \in {"rows", "unreadable", "failed"} :
        \E rows \in Listings : Reply(q, how, rows) /\ Listed(q, how, rows)
  BY ServeEffect
<1>2. PICK rows \in Listings : Reply(q, how, rows) /\ Listed(q, how, rows)
  BY <1>1
<1>3. PICK a : ReplyTo(q, how, rows, a)
  BY <1>0, <1>2, ReplyEffect
<1>4. shown' = shown /\ blur' = (blur \/ q.n = 0)
  BY <1>2 DEF Reply
<1>5. CASE q.n = 0
  <2>1. net' = Overtaken(net \ {q}, a) /\ net \ {q} \in SUBSET Requests
    BY <1>0, <1>3, <1>5 DEF ReplyTo, NetInv
  <2>2. \A s \in net' : \E p \in net \ {q} : Marked(s, p, a)
    BY <2>1, OvertakenEffect
  <2>3. \A s \in Pending' : s.late
    BY <1>3, <2>2 DEF Pending, Marked, ReplyTo
  <2>4. Unsent'
    BY <2>2 DEF AnswerInv, Unsent, Marked
  <2> QED BY <1>4, <1>5, <2>3, <2>4 DEF AnswerInv, Told, Queue
<1>6. CASE q.n # 0
  <2>1. /\ net' = (net \ {q}) \cup {a} /\ a.op = q.op /\ a.reply = how /\ a.rows = rows /\ ~a.late
        /\ \A p \in net : p.order < a.order
    BY <1>3, <1>6 DEF ReplyTo
  <2>2. q \notin Pending
    BY <1>0 DEF Pending
  <2>3. Unsent'
    BY <2>1 DEF AnswerInv, Unsent
  <2>4. CASE ~Lists(q) \/ how = "failed"
    <3>1. folder' = folder
      BY <1>2, <2>4 DEF Listed
    <3>2. \A r : r \in Pending' <=> r \in Pending
      BY <2>1, <2>2, <2>4 DEF Pending, Lists
    <3>3. blur => blur'
      BY <1>4
    <3> QED BY <1>4, <2>3, <3>1, <3>2, <3>3, AnswerStays
  <2>5. CASE Lists(q) /\ how # "failed"
    <3>1. a \in Pending'
      BY <2>1, <2>5 DEF Pending, Lists
    <3>2. Good(a)'
      BY <1>2, <2>1, <2>5 DEF Good, Current, Listed
    <3>3. \A p \in Pending' : p = a \/ p.order < a.order
      BY <2>1 DEF Pending
    <3> QED BY <2>3, <3>1, <3>2, <3>3 DEF AnswerInv, Told, Queue
  <2> QED BY <2>4, <2>5
<1> QED BY <1>5, <1>6

LEMMA AnswerAnswers == ASSUME TypeInv, AnswerInv, NEW q \in net, Answer(q) PROVE AnswerInv'
<1>0. NetInv /\ folder' = folder /\ q.reply # "none" /\ q \in Requests
  BY DEF TypeInv, NetInv, Answer, server
<1>1. CASE UpdateFiles(q) /\ q.reply # "failed"
  <2>1. /\ shown' = q.rows /\ net' = Overtaken(net \ {q}, q)
        /\ blur' = \/ q.reply = "unreadable"
                   \/ Ids(q.rows) # Ids(InfoNode(folder)) /\ (blur \/ q.late \/ q.op = "search")
        /\ Lists(q) \/ q.op = "search"
    BY <1>1 DEF UpdateFiles
  <2>2. /\ Queue' /\ Unsent'
        /\ \A r \in Pending : r.order > q.order /\ Good(r) => \E s \in Pending' : Good(s)'
    BY <1>0, <2>1, QueueOvertaken DEF AnswerInv
  <2>3. Told'
    <3>1. CASE Current(q.rows)
      BY <1>0, <2>1, <3>1 DEF Told, Current
    <3>2. CASE blur'
      BY <3>2 DEF Told
    <3>3. CASE ~Current(q.rows) /\ ~blur'
      <4>1. q.reply # "unreadable" /\ ~q.late /\ q.op # "search" /\ Lists(q)
        BY <2>1, <3>3 DEF Current, Lists
      <4>2. q.reply = "rows"
        BY <1>0, <1>1, <4>1 DEF Requests
      <4>3. q \in Pending /\ ~Good(q)
        BY <3>3, <4>1, <4>2 DEF Pending, Good
      <4>4. PICK r \in Pending : q.order < r.order /\ Good(r)
        BY <4>1, <4>3 DEF AnswerInv, Queue
      <4>5. r.order > q.order
        BY <1>0, <4>4, Orders DEF Pending
      <4>6. \E s \in Pending' : Good(s)'
        BY <2>2, <4>4, <4>5
      <4> QED BY <4>6 DEF Told
    <3> QED BY <3>1, <3>2, <3>3
  <2> QED BY <2>2, <2>3 DEF AnswerInv
<1>2. CASE /\ net' = net \ {q} /\ UNCHANGED <<shown, blur>>
           /\ ~Lists(q) \/ q.reply = "failed"
  <2>1. \A r : r \in Pending' <=> r \in Pending
    BY <1>2 DEF Pending
  <2>2. Unsent'
    BY <1>2 DEF AnswerInv, Unsent
  <2> QED BY <1>0, <1>2, <2>1, <2>2, AnswerStays
<1> QED BY <1>1, <1>2 DEF Answer, NoHits, Downloaded, Tagged, OnFailure, history, Lists

LEMMA NetworkAnswers ==
  ASSUME TypeInv, AnswerInv, NEW q \in net, Lose(q) \/ Strand(q) PROVE AnswerInv'
<1>0. /\ NetInv /\ folder' = folder /\ shown' = shown /\ blur' = (blur \/ q.reply # "none")
      /\ GoesOnAlone(q) /\ q \in Requests
  BY DEF TypeInv, NetInv, Lose, Strand, OnFailure, server
<1>1. CASE net' = Overtaken(net \ {q}, q)
  <2>1. /\ Queue' /\ Unsent'
        /\ \A r \in Pending : r.order > q.order /\ Good(r) => \E s \in Pending' : Good(s)'
    BY <1>0, <1>1, QueueOvertaken DEF AnswerInv
  <2>2. Told'
    <3>1. SUFFICES ASSUME ~blur' PROVE Current(shown)' \/ \E p \in Pending' : Good(p)'
      BY DEF Told
    <3>2. ~blur /\ q.reply = "none" /\ q.order = 0
      BY <1>0, <3>1 DEF AnswerInv, Unsent
    <3>3. CASE Current(shown)
      BY <1>0, <3>3 DEF Current
    <3>4. ASSUME NEW r \in Pending, Good(r) PROVE \E s \in Pending' : Good(s)'
      <4>1. CASE r.order > q.order
        BY <2>1, <3>4, <4>1
      <4>2. CASE ~(r.order > q.order)
        <5>1. r \in net \ {q} /\ r.order \in Nat /\ net \ {q} \in SUBSET Requests /\ r.late \in BOOLEAN
          BY <1>0, <3>2, <3>4, Orders DEF Pending, NetInv
        <5>2. PICK s \in Overtaken(net \ {q}, q) : Marked(s, r, q)
          BY <5>1, OvertakenEffect
        <5>3. ~(r.order < q.order)
          BY <3>2, <5>1
        <5>4. s \in Pending' /\ ~s.late /\ s.reply = r.reply /\ s.rows = r.rows
          BY <1>1, <3>4, <5>2, <5>3 DEF Marked, Pending, Lists, Good
        <5>5. Good(s)'
          BY <1>0, <3>4, <5>4 DEF Good, Current
        <5> QED BY <5>4, <5>5
      <4> QED BY <4>1, <4>2
    <3> QED BY <3>2, <3>3, <3>4 DEF AnswerInv, Told
  <2> QED BY <2>1, <2>2 DEF AnswerInv
<1>2. CASE q.reply = "none" /\ net' = (net \ {q}) \cup {[q EXCEPT !.n = 0]}
  <2> DEFINE o == [q EXCEPT !.n = 0]
  <2>1. o.reply = "none" /\ o.order = q.order
    BY <1>0, <1>2 DEF Requests
  <2>2. net' = (net \ {q}) \cup {o}
    BY <1>2
  <2> HIDE DEF o
  <2>3. \A r : r \in Pending' <=> r \in Pending
    BY <1>2, <2>1, <2>2 DEF Pending
  <2>4. Unsent'
    BY <1>2, <2>1, <2>2 DEF AnswerInv, Unsent
  <2>5. blur => blur'
    BY <1>0
  <2> QED BY <1>0, <2>3, <2>4, <2>5, AnswerStays
<1> QED BY <1>0, <1>1, <1>2 DEF GoesOnAlone

LEMMA UserAnswers == ASSUME TypeInv, AnswerInv, User PROVE AnswerInv'
<1>1. CASE Calm
  <2>1. \A r : r \in Pending' <=> r \in Pending
    BY <1>1 DEF Calm, Pending
  <2>3. Unsent'
    BY <1>1 DEF Calm, AnswerInv, Unsent
  <2> QED BY <1>1, <2>1, <2>3, AnswerStays DEF Calm
<1>2. CASE Die
  <2>1. /\ blur' = TRUE /\ \A r \in net' : r.reply = "none"
        /\ \A r \in net' : \E q \in net : q.reply = "none" /\ r.order = q.order
    BY <1>2, DieNet DEF TypeInv, Die
  <2>2. Pending' = {}
    BY <2>1 DEF Pending
  <2>3. Unsent'
    BY <2>1 DEF AnswerInv, Unsent
  <2> QED BY <2>1, <2>2, <2>3 DEF AnswerInv, Told, Queue
<1> QED BY <1>1, <1>2, UserEffect

LEMMA NextAnswers == TypeInv /\ AnswerInv /\ [Next]_vars => AnswerInv'
<1> SUFFICES ASSUME TypeInv, AnswerInv, [Next]_vars PROVE AnswerInv'
  OBVIOUS
<1>1. CASE UNCHANGED vars
  <2>1. UNCHANGED <<folder, shown, net>> /\ blur' = blur
    BY <1>1 DEF vars, server, history
  <2>2. \A r : r \in Pending' <=> r \in Pending
    BY <2>1 DEF Pending
  <2>3. Unsent'
    BY <2>1 DEF AnswerInv, Unsent
  <2> QED BY <2>1, <2>2, <2>3, AnswerStays
<1>2. CASE Next
  BY <1>2, ServeAnswers, AnswerAnswers, NetworkAnswers, UserAnswers
  DEF Next, Server, Answers, Network
<1> QED BY <1>1, <1>2

\* With nothing on the way, what mFiles shows is the server's folder, whatever
\* answers came and in whatever order, but for the cases that ScreenAgrees
\* excepts; in particular the three nodes that change the folder and list it
\* (create_dir_node.cc, receive_file_node.cc, delete_file_node.cc) list it as
\* changed.
THEOREM FileListScreenAgrees == Spec => []ScreenAgrees
<1>1. AnswerInv => ScreenAgrees
  BY DEF AnswerInv, Told, Pending, Current, ScreenAgrees
<1>2. Init => AnswerInv
  BY DEF Init, AnswerInv, Told, Queue, Unsent, Pending
<1> QED BY <1>1, <1>2, InitType, NextType, NextAnswers, PTL DEF Spec

=============================================================================
