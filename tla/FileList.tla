------------------------------- MODULE FileList -------------------------------
(***************************************************************************)
(* The file list of the Android client, over the REST nodes that answer    *)
(* it.  Requests are asynchronous: the main thread sends them, goes on     *)
(* with the user, and runs their callbacks when the answers come, in any   *)
(* order.  What the user points at is a position in the listing, and any   *)
(* answer may replace the listing; what a dialog or a file picker needs    *)
(* later is kept in fields, and any callback may change them.              *)
(*                                                                         *)
(* One folder, one device.  The server's side is what the nodes do in one  *)
(* call: one request at a time (see Server), whole (see Catalog).          *)
(***************************************************************************)
EXTENDS Naturals, FiniteSets, SequencesExt

CONSTANTS
  MaxItem,     \* bound: files and folders ever made
  MaxVersion,  \* bound: revisions of a file
  MaxRequest   \* bound: requests of the app

ASSUME FileListAssumption == MaxItem \in Nat \ {0} /\ MaxVersion \in Nat \ {0} /\ MaxRequest \in Nat

VARIABLES
  folder,    \* the server's folder: id -> whether a directory, last revision
  made,      \* the last id issued
  net,       \* requests without an answer yet
  sent,      \* how many requests the app has sent
  shown,     \* mFiles: the rows of the listing
  front,     \* what is in front of the user
  mFileId,   \* the file the delete dialog is about; 0 when nothing will read it
  selected,  \* selectedFileForDownload: a row; NoRow too when nothing will read it
  downloadVersion, \* the version chosen, or 0; static
  waiting,   \* requests that hold a progress dialog; 0 is none of them
  stranded,  \* history: requests whose connection went silent
  blur       \* history: what is shown need not be the folder

server  == <<folder, made>>
fields  == <<mFileId, selected, downloadVersion>>
history == <<stranded, blur>>
vars    == <<server, net, sent, shown, front, fields, waiting, history>>

ItemId     == 1 .. MaxItem
Items      == [dir : BOOLEAN, revision : 1 .. MaxVersion]
Rows       == [id : ItemId, dir : BOOLEAN, version : 0 .. MaxVersion]
NoRow      == [id |-> 0, dir |-> FALSE, version |-> 0]
Listings   == UNION {[1 .. n -> Rows] : n \in 0 .. MaxItem}
Operations == {"load", "addFolder", "upload", "delete", "tags", "download", "search"}
Lists(q)   == q.op \in {"load", "addFolder", "upload", "delete"}

\* `pressed', `wanted', `order' and `late' are histories: the file in the row when
\* its button was pressed, the version the user chose (0: the last), the place
\* among the answers on the way, and whether a later one is shown or lost already.
\* n = 0: nobody waits for an answer.
Requests == [n : 0 .. MaxRequest, op : Operations, id : 0 .. MaxItem,
             version : 0 .. MaxVersion, pressed : 0 .. MaxItem, wanted : 0 .. MaxVersion,
             reply : {"none", "rows", "unreadable", "failed"}, rows : Listings,
             order : 0 .. MaxRequest, late : BOOLEAN]
Request(op, id) == [n |-> 0, op |-> op, id |-> id, version |-> 0, pressed |-> id, wanted |-> 0,
                    reply |-> "none", rows |-> <<>>, order |-> 0, late |-> FALSE]
Load == Request("load", 0)

Places == {"closed", "list", "menu", "confirm", "tags", "choose", "folderPicker", "filePicker", "away"}
Place(at) == [at |-> at, row |-> 0, pressed |-> 0, last |-> 0]
At(at)    == front.at = at
\* The user can act: no progress dialog covers the screen.
Free(at)  == At(at) /\ waiting = {}

Init ==
  /\ made = 1 /\ folder = [i \in {1} |-> [dir |-> FALSE, revision |-> MaxVersion]]
  /\ net = {} /\ sent = 0
  /\ shown = <<>> /\ front = Place("closed") /\ waiting = {}
  /\ mFileId = 0 /\ selected = NoRow /\ downloadVersion = 0
  /\ stranded = {} /\ blur = TRUE

----------------------------------------------------------------------------
(* The nodes.  Directories come first, each kind in order of id.           *)

Before(F, a, b)  == IF F[a].dir = F[b].dir THEN a < b ELSE F[a].dir
Position(F, I, a) == Cardinality({b \in I : Before(F, b, a)}) + 1
InOrder(F, I)    == [i \in 1 .. Cardinality(I) |-> CHOOSE a \in I : Position(F, I, a) = i]

Listing(F, I, Version(_)) ==
  LET seq == InOrder(F, I)
  IN  [i \in DOMAIN seq |-> [id |-> seq[i], dir |-> F[seq[i]].dir, version |-> Version(seq[i])]]

\* Three nodes, three ideas of lastVersion.
InfoNode(F)      == Listing(F, DOMAIN F, LAMBDA i : F[i].revision)
CreateDirNode(F) == Listing(F, DOMAIN F, LAMBDA i : 0)
SearchNode(F, I) == Listing(F, I, LAMBDA i : 1)

Ids(rows) == [i \in DOMAIN rows |-> rows[i].id]

\* The requests N once answer q is gone: those answered before it are late.
Overtaken(N, q) == {[p EXCEPT !.late = @ \/ (p.reply # "none" /\ p.order < q.order)] : p \in N}

\* An answer nobody waits for is gone at once.
Reply(q, how, rows) ==
  /\ LET a == [Request(q.op, 0) EXCEPT !.n = q.n, !.reply = how, !.rows = rows,
                                       !.order = Max({p.order : p \in net}) + 1]
     IN  net' = IF q.n = 0 THEN Overtaken(net \ {q}, a) ELSE (net \ {q}) \cup {a}
  /\ blur' = (blur \/ q.n = 0)
  /\ UNCHANGED <<sent, shown, front, fields, waiting, stranded>>

\* A folder that cannot be read, because of one record in it or the database, is
\* answered like an empty one.
ReplyListing(q, F) == Reply(q, "rows", InfoNode(F)) \/ Reply(q, "unreadable", <<>>)

HandleLoad(q) == q.op = "load" /\ ReplyListing(q, folder) /\ UNCHANGED <<folder, made>>

NewItem(d) ==
  /\ made < MaxItem /\ made' = made + 1
  /\ folder' = [i \in DOMAIN folder \cup {made'} |->
                  IF i = made' THEN [dir |-> d, revision |-> 1] ELSE folder[i]]

\* The folder is made, whether its parent can be read again or not.
HandleAddFolder(q) ==
  /\ q.op = "addFolder" /\ NewItem(TRUE)
  /\ Reply(q, "rows", CreateDirNode(folder')) \/ Reply(q, "unreadable", <<>>)

HandleUpload(q) ==
  /\ q.op = "upload"
  /\ IF q.id \in DOMAIN folder
     THEN /\ folder[q.id].revision < MaxVersion
          /\ folder' = [folder EXCEPT ![q.id].revision = @ + 1] /\ UNCHANGED made
     ELSE NewItem(FALSE)
  /\ ReplyListing(q, folder')

\* A file that is not there is in the trash, and deleted again.  (The variant
\* lists the folder before it deletes.)
HandleDeleteListingFirst(q) ==
  /\ q.op = "delete" /\ folder' = Restrict(folder, DOMAIN folder \ {q.id})
  /\ ReplyListing(q, folder) /\ UNCHANGED made
HandleDelete(q) ==
  /\ q.op = "delete" /\ folder' = Restrict(folder, DOMAIN folder \ {q.id})
  /\ ReplyListing(q, folder') /\ UNCHANGED made

HandleSearch(q) ==
  /\ q.op = "search" /\ UNCHANGED <<folder, made>>
  /\ \E I \in SUBSET DOMAIN folder : Reply(q, "rows", SearchNode(folder, I))

HandleOther(q) == q.op \in {"tags", "download"} /\ Reply(q, "rows", <<>>) /\ UNCHANGED <<folder, made>>

\* Refused: the token, the quota, a folder without its parent...
Refuse(q) == Reply(q, "failed", <<>>) /\ UNCHANGED <<folder, made>>

Serve(q) ==
  /\ q.reply = "none"
  /\ \/ HandleLoad(q) \/ HandleAddFolder(q) \/ HandleUpload(q) \/ HandleDelete(q)
     \/ HandleSearch(q) \/ HandleOther(q) \/ Refuse(q)

----------------------------------------------------------------------------
(* The callbacks.                                                          *)


\* updateFiles, wherever the user is by then.
UpdateFiles(q) ==
  /\ Lists(q) \/ (q.op = "search" /\ q.rows # <<>>)
  /\ shown' = q.rows /\ waiting' = waiting \ {q.n}
  /\ net' = Overtaken(net \ {q}, q)
  /\ blur' = \/ q.reply = "unreadable"
             \/ Ids(q.rows) # Ids(InfoNode(folder)) /\ (blur \/ q.late \/ q.op = "search")
  /\ UNCHANGED <<front, fields, stranded>>

NoHits(q) ==
  /\ q.op = "search" /\ q.rows = <<>>
  /\ front' = Place("away") /\ waiting' = waiting \ {q.n} /\ net' = net \ {q}
  /\ UNCHANGED <<shown, fields, history>>

\* The end of a download, or its failure, forgets what is selected by then.
Downloaded(q) ==
  /\ q.op = "download" /\ selected' = NoRow /\ net' = net \ {q}
  /\ UNCHANGED <<shown, front, mFileId, downloadVersion, waiting, history>>

Tagged(q) ==
  q.op = "tags" /\ net' = net \ {q} /\ UNCHANGED <<shown, front, fields, waiting, history>>

\* A callback says so and, if it has a dialog, dismisses it.  (The variant
\* leaves the dialog.)
OnFailureKeepingDialog(q) ==
  /\ selected' = IF q.op = "download" THEN NoRow ELSE selected
  /\ UNCHANGED <<shown, front, mFileId, downloadVersion, waiting>>
OnFailure(q) ==
  /\ waiting' = waiting \ {q.n}
  /\ selected' = IF q.op = "download" THEN NoRow ELSE selected
  /\ UNCHANGED <<shown, front, mFileId, downloadVersion>>

Answer(q) ==
  /\ q.reply # "none" /\ UNCHANGED <<server, sent>>
  /\ IF q.reply = "failed" THEN OnFailure(q) /\ net' = net \ {q} /\ UNCHANGED history
     ELSE UpdateFiles(q) \/ NoHits(q) \/ Downloaded(q) \/ Tagged(q)

\* Nobody waits for q; if it changes the folder the server may still handle it.
GoesOnAlone(q) ==
  \/ net' = Overtaken(net \ {q}, q)
  \/ /\ q.reply = "none" /\ q.op \in {"addFolder", "upload", "delete"}
     /\ net' = (net \ {q}) \cup {[q EXCEPT !.n = 0]}

\* The connection breaks: the server may have handled the request, or may still.
Lose(q) ==
  /\ q.n # 0 /\ OnFailure(q) /\ GoesOnAlone(q)
  /\ blur' = (blur \/ q.reply # "none")
  /\ UNCHANGED <<server, sent, stranded>>

\* The connection goes silent; the client has no timeout.
Strand(q) ==
  /\ q.n # 0 /\ GoesOnAlone(q)
  /\ stranded' = stranded \cup ({q.n} \cap waiting) /\ blur' = (blur \/ q.reply # "none")
  /\ UNCHANGED <<server, sent, shown, front, fields, waiting>>

----------------------------------------------------------------------------
(* The user.                                                               *)

Send(qs) ==
  /\ sent + Len(qs) <= MaxRequest /\ sent' = sent + Len(qs)
  /\ net' = net \cup {[qs[i] EXCEPT !.n = sent + i] : i \in DOMAIN qs}

\* onCreate and onResume both load.
Open ==
  /\ At("closed") /\ Send(<<Load, Load>>) /\ waiting' = {sent + 1, sent + 2}
  /\ front' = Place("list") /\ UNCHANGED <<server, shown, fields, history>>

\* Back to the list: what the result asks for is sent first, then onResume loads.
Resume(qs) ==
  /\ Send(Append(qs, Load)) /\ waiting' = waiting \cup {sent + Len(qs) + 1}
  /\ front' = Place("list") /\ UNCHANGED <<server, shown, history>>

\* The process ends; its requests go on without it.
Die ==
  /\ net' = {[q EXCEPT !.n = 0] : q \in {p \in net : p.reply = "none" /\ p.op \in {"addFolder", "upload", "delete"}}}
  /\ front' = Place("closed") /\ shown' = <<>> /\ waiting' = {}
  /\ mFileId' = 0 /\ selected' = NoRow /\ downloadVersion' = 0
  /\ stranded' = {} /\ blur' = TRUE /\ UNCHANGED <<server, sent>>

\* The user ends an app that is stuck.
Kill == waiting \cap ({0} \cup stranded) # {} /\ Die

\* A row that is no longer there: IndexOutOfBoundsException.
PressGone == front.at \in {"menu", "tags", "choose"} /\ front.row > Len(shown) /\ Die

Turn(p) == front' = p /\ UNCHANGED <<server, net, sent, shown, waiting, history>>
Row     == shown[front.row]
Present == front.row \in DOMAIN shown

OpenMenu(r) ==
  /\ Free("list") /\ r \in DOMAIN shown /\ UNCHANGED fields
  /\ Turn([Place("menu") EXCEPT !.row = r, !.last = IF shown[r].dir THEN 0 ELSE shown[r].version])

\* The menu is hidden, a dialog cancelled.
Cancel ==
  /\ front.at \in {"menu", "confirm", "tags", "choose"} /\ Turn(Place("list"))
  /\ mFileId' = 0 /\ UNCHANGED <<selected, downloadVersion>>

PressDelete ==
  /\ At("menu") /\ Present /\ mFileId' = Row.id
  /\ Turn([front EXCEPT !.at = "confirm", !.pressed = Row.id])
  /\ UNCHANGED <<selected, downloadVersion>>

Ask(q) ==
  /\ Send(<<q>>) /\ front' = Place("list") /\ mFileId' = 0
  /\ UNCHANGED <<server, shown, selected, downloadVersion, history>>

\* (The variant looks the row up again.)
ConfirmDeleteRow ==
  /\ At("confirm") /\ Present /\ UNCHANGED waiting
  /\ Ask([Request("delete", Row.id) EXCEPT !.pressed = front.pressed])
ConfirmDelete ==
  /\ At("confirm") /\ UNCHANGED waiting
  /\ Ask([Request("delete", mFileId) EXCEPT !.pressed = front.pressed])

PressTags ==
  At("menu") /\ Present /\ Turn([front EXCEPT !.at = "tags", !.pressed = Row.id]) /\ UNCHANGED fields

\* The row is looked up again: it may be another file by now.
SaveTags ==
  /\ At("tags") /\ Present /\ UNCHANGED waiting
  /\ Ask([Request("tags", Row.id) EXCEPT !.pressed = front.pressed])

PressShare ==
  /\ At("menu") /\ Present /\ ~Row.dir /\ Turn(Place("away")) /\ UNCHANGED fields

PressDownload ==
  /\ At("menu") /\ Present /\ selected' = Row
  /\ Turn([Place("folderPicker") EXCEPT !.pressed = Row.id])
  /\ UNCHANGED <<mFileId, downloadVersion>>

\* "Previous versions" is in the menu of a file that had some when it opened.
PressPrevious ==
  /\ At("menu") /\ front.last > 1 /\ Present /\ Row.version > 1 /\ UNCHANGED fields
  /\ Turn([front EXCEPT !.at = "choose", !.pressed = Row.id, !.last = Row.version])

\* The version is kept for the download that follows, of the row as it is now.
\* (The variant offers the last version too.)
ChooseAny(v) ==
  /\ At("choose") /\ Present /\ v \in 1 .. front.last
  /\ downloadVersion' = v /\ selected' = Row /\ UNCHANGED mFileId
  /\ Turn([front EXCEPT !.at = "folderPicker", !.last = v])
Choose(v) ==
  /\ At("choose") /\ Present /\ v \in 1 .. front.last - 1
  /\ downloadVersion' = v /\ selected' = Row /\ UNCHANGED mFileId
  /\ Turn([front EXCEPT !.at = "folderPicker", !.last = v])

PickFolder ==
  /\ At("folderPicker") /\ selected' = NoRow /\ UNCHANGED mFileId
  /\ IF selected = NoRow \/ selected.dir THEN UNCHANGED downloadVersion ELSE downloadVersion' = 0
  /\ LET version == IF selected.dir THEN 0
                    ELSE IF downloadVersion = 0 THEN selected.version ELSE downloadVersion
     IN  Resume(IF selected = NoRow THEN <<>>
                ELSE <<[Request("download", selected.id) EXCEPT !.version = version,
                          !.pressed = front.pressed, !.wanted = front.last]>>)

\* A picker is cancelled, another screen is left, the quota forbids the upload.
Return ==
  /\ front.at \in {"folderPicker", "filePicker", "away"} /\ Resume(<<>>)
  /\ selected' = NoRow /\ UNCHANGED <<mFileId, downloadVersion>>

OpenPicker == Free("list") /\ Turn(Place("filePicker")) /\ UNCHANGED fields
\* A file of a new name, or of the name of file i.
PickFile(i) ==
  /\ At("filePicker") /\ (i = 0 \/ (i \in DOMAIN folder /\ ~folder[i].dir))
  /\ Resume(<<Request("upload", i)>>) /\ UNCHANGED fields

AddFolder == Free("list") /\ Ask(Request("addFolder", 0)) /\ UNCHANGED waiting
Search    == Free("list") /\ Ask(Request("search", 0)) /\ waiting' = {sent + 1}

\* A blank name: the progress dialog is there already, and nothing is sent.
SearchNothing ==
  Free("list") /\ waiting' = {0} /\ UNCHANGED <<server, net, sent, shown, front, fields, history>>

----------------------------------------------------------------------------
Server  == \E q \in net : Serve(q)
Answers == \E q \in net : Answer(q)
Network == \E q \in net : Lose(q) \/ Strand(q)
User ==
  \/ Open \/ Kill \/ PressGone \/ Cancel \/ Return
  \/ \E r \in ItemId : OpenMenu(r)
  \/ PressDelete \/ ConfirmDelete \/ PressTags \/ SaveTags \/ PressShare
  \/ PressDownload \/ PressPrevious \/ PickFolder \/ \E v \in 1 .. MaxVersion : Choose(v)
  \/ OpenPicker \/ \E i \in 0 .. MaxItem : PickFile(i)
  \/ AddFolder \/ Search \/ SearchNothing

Next == Server \/ Answers \/ Network \/ User

\* The server handles what reaches it, and its answers get through unless the
\* connection breaks or goes silent; users and networks owe nothing.
Fairness == WF_vars(Server) /\ WF_vars(Answers)

Spec == Init /\ [][Next]_vars /\ Fairness

----------------------------------------------------------------------------
(* Properties.                                                             *)

TypeOK ==
  /\ made \in 0 .. MaxItem /\ DOMAIN folder \subseteq 1 .. made
  /\ \A i \in DOMAIN folder : folder[i] \in Items
  /\ sent \in 0 .. MaxRequest
  /\ \A q \in net : q \in Requests /\ q.n <= sent
  /\ shown \in Listings /\ front.at \in Places /\ front.row \in 0 .. MaxItem
  /\ mFileId \in 0 .. MaxItem /\ selected \in Rows \cup {NoRow}
  /\ downloadVersion \in 0 .. MaxVersion - 1
  /\ waiting \subseteq 0 .. sent /\ stranded \subseteq 1 .. sent /\ blur \in BOOLEAN

\* What is deleted, and what is downloaded in its last version, is the file that
\* was in the row when the button was pressed, whatever listings arrived while
\* the confirmation or the picker was open.
ActsOnTheRowPressed ==
  \A q \in net : (q.op = "delete" \/ (q.op = "download" /\ q.wanted = 0)) => q.id = q.pressed

\* With nothing on the way, the screen lists the folder as the server has it:
\* every handler answers with the folder after its change.  Excepted are search
\* results, folders that could not be read, answers that were lost, and answers
\* that overtook each other, until the next listing that is up to date.
ScreenAgrees ==
  net = {} /\ ~blur => Ids(shown) = Ids(InfoNode(folder))

\* No progress dialog, which the user cannot cancel, stays for ever: excepted are
\* a search for a blank name and a connection that went silent.
ScreenComesBack ==
  waiting # {} ~> waiting = {} \/ 0 \in waiting \/ waiting \cap stranded # {}

\* "Download last version": with the screen up to date and nothing else on the
\* way, Download asks for the last version of the file.
UpToDate(q) == ~blur /\ \A p \in net : p = q \/ p.op = "load"
DownloadsLastVersion ==
  \A q \in net : (/\ q.op = "download" /\ q.wanted = 0 /\ q.reply = "none" /\ UpToDate(q)
                  /\ q.id \in DOMAIN folder /\ ~folder[q.id].dir)
                 => q.version = folder[q.id].revision

=============================================================================
