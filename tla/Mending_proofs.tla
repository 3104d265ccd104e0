---------------------------- MODULE Mending_proofs ----------------------------
(***************************************************************************)
(* What a request of RequestSteps owes the tables, and what a write and a  *)
(* crash do to it: the lemmas under the theorem of Crash_proofs.           *)
(*                                                                         *)
(* The argument has two halves.  What a request of user u writes is about  *)
(* what u owns, whatever died before, so nobody else can be hurt.  And in  *)
(* the program of a user who is not hurt each write that takes something   *)
(* away from the picture is answered by a later one: a share listed is     *)
(* granted, a file put in the trash leaves its directory, an erased record *)
(* is forgotten.  So at any time all that is wrong with what such users    *)
(* keep is what the writes still to do will mend.  A crash drops those     *)
(* writes.  Then either their user is hurt, or it owes the request and     *)
(* what is wrong is what the request will mend when it is repeated.        *)
(***************************************************************************)
EXTENDS RequestSteps_proofs

----------------------------------------------------------------------------
(* Writes by name.                                                         *)

ListShare(v, f)   == [op |-> "list_share", user |-> v, file |-> f]
GrantShare(v, f)  == [op |-> "grant_share", user |-> v, file |-> f]
UnlistShare(v, f) == [op |-> "unlist_share", user |-> v, file |-> f]
RevokeShare(v, f) == [op |-> "revoke_share", user |-> v, file |-> f]
ToTrash(u, f)     == [op |-> "trash", user |-> u, file |-> f]
Unlist(d, f)      == [op |-> "unlist", dir |-> d, file |-> f]
Relist(d, f)      == [op |-> "relist", dir |-> d, file |-> f]
UnlistDir(d, c)   == [op |-> "unlist_dir", dir |-> d, child |-> c]
EraseFile(f)      == [op |-> "erase_file", file |-> f]
RemoveBlob(b)     == [op |-> "remove", blob |-> b]
SaveBlob(b)       == [op |-> "save", blob |-> b]
Revise(f)         == [op |-> "revise", file |-> f]
EmptyTrash(u, S)  == [op |-> "empty_trash", user |-> u, files |-> S]

WritesOf(s) == {s[i] : i \in DOMAIN s}
Emptied(L, u, f) == \E w \in L : w.op = "empty_trash" /\ w.user = u /\ f \in w.files

----------------------------------------------------------------------------
(* What belongs to whom.                                                   *)

\* Directories and files have the owner of the directory they are in, a listed
\* sub-directory has its parent there, roots are their users' own, and lists hold
\* ids that were handed out.  This holds whatever dies.
Owned ==
  /\ \A d \in DOMAIN dir : \A c \in dir[d].directories_contained :
       /\ c < ticket.dir
       /\ c \in DOMAIN dir => dir[c].parent_directory = d /\ dir[c].owner = dir[d].owner
  /\ \A d \in DOMAIN dir : \A f \in dir[d].files_contained \cap DOMAIN file :
       file[f].owner = dir[d].owner
  /\ \A f \in DOMAIN file :
       /\ file[f].parent_directory < ticket.dir
       /\ file[f].parent_directory \in DOMAIN dir =>
            dir[file[f].parent_directory].owner = file[f].owner
  /\ \A u \in Users :
       /\ user[u].dir_root \in DOMAIN dir
       /\ dir[user[u].dir_root].owner = u
       /\ dir[user[u].dir_root].parent_directory = NoParent
       /\ \A f \in user[u].shared_files : f < ticket.file

OwnFile(u, f) == f \in DOMAIN file => file[f].owner = u
OwnDir(u, d)  == d \in DOMAIN dir => dir[d].owner = u
NewDir(d)  == /\ \A x \in DOMAIN dir : d \notin dir[x].directories_contained
              /\ \A f \in DOMAIN file : file[f].parent_directory # d
NewFile1(f) == \A v \in Users : f \notin user[v].shared_files

\* The file is in nobody's trash, nobody's that a crash has not hurt.
Untrashed(f) == f \in DOMAIN file /\ file[f].owner \notin hurt => ~InTrash(f)

\* A write of a request of user u is about what u owns; the one thing it does to
\* the file of another is to end u's own share of it.
Local(u, w) ==
  /\ w.op \in {"list_share", "grant_share"} => w.file < ticket.file /\ OwnFile(u, w.file)
  /\ w.op = "unlist_share" => w.user = u \/ OwnFile(u, w.file)
  /\ w.op = "revoke_share" => OwnFile(u, w.file) \/ (w.user = u /\ Untrashed(w.file))
  /\ w.op = "trash" => w.user = u
  /\ w.op = "unlist" => OwnDir(u, w.dir)
  /\ w.op \in {"relist", "adopt"} => w.dir < ticket.dir /\ OwnDir(u, w.dir) /\ OwnFile(u, w.file)
  /\ w.op = "unlist_dir" => OwnDir(u, w.dir)
  /\ w.op = "erase_dir" => OwnDir(u, w.dir) /\ w.dir # user[u].dir_root
  /\ w.op \in {"erase_file", "revise"} => OwnFile(u, w.file)
  /\ w.op \in {"save", "remove"} => w.blob[1] = u
  /\ w.op = "empty_trash" => w.user = u
  /\ w.op = "add_dir" => w.user = u /\ OwnDir(u, w.parent) /\ NewDir(w.dir)
  /\ w.op = "add_file" => /\ w.user = u /\ OwnDir(u, w.dir) /\ w.dir < ticket.dir
                          /\ NewFile1(w.file)

----------------------------------------------------------------------------
(* What the writes of a request do for one another.                        *)

Sharing   == {"list_share", "grant_share", "unlist_share", "revoke_share"}
Deleting  == {"unlist_share", "revoke_share", "trash", "unlist", "erase_dir", "unlist_dir"}
Purging   == {"remove", "erase_file", "empty_trash"}
Restoring == {"adopt", "relist", "empty_trash"}
Creating  == {"draw", "add_dir"}
Uploading == {"draw", "add_file", "save"}
Revising  == {"save", "revise"}
Sorts == {Sharing, Deleting, Purging, Restoring, Creating, Uploading, Revising}

Done(s, i) == {s[j] : j \in 1 .. i - 1}
Left(s, i) == {s[j] : j \in i + 1 .. Len(s)}

\* Write i of a program of user u, with the writes D before it and L after it.  The
\* two halves of a share are written one after the other.  What is put in the trash
\* was not there, leaves its directory and loses its shares; what leaves its
\* directory is in the trash; what is erased lists nothing, and is forgotten.
\* Physical files go before their record, the record before the list of deleted
\* files, and the list forgets what is gone or back.  What is saved gets its record.
Good(u, s, i, D, L) ==
  LET w == s[i] IN
  /\ w.op = "list_share" => GrantShare(w.user, w.file) \in L
  /\ w.op = "unlist_share" => RevokeShare(w.user, w.file) \in L
  /\ w.op = "grant_share" =>
       /\ IF i = 1 THEN w.file \in user[w.user].shared_files
                   ELSE s[i - 1] = ListShare(w.user, w.file)
       /\ w.file \in DOMAIN file => ~InTrash(w.file)
  /\ w.op = "revoke_share" =>
       IF i = 1 THEN w.file \notin user[w.user].shared_files
                ELSE s[i - 1] = UnlistShare(w.user, w.file)
  /\ w.op = "trash" =>
       /\ w.file \in DOMAIN file /\ w.file \notin Trash(u)
       /\ Unlist(file[w.file].parent_directory, w.file) \in L
       /\ \A v \in file[w.file].users_shared : RevokeShare(v, w.file) \in L
  /\ w.op = "unlist" => w.file \in Trash(u) \/ ToTrash(u, w.file) \in D
  /\ w.op = "erase_dir" /\ w.dir \in DOMAIN dir =>
       /\ \A f \in dir[w.dir].files_contained : Unlist(w.dir, f) \in D
       /\ \/ EraseDir(dir[w.dir].parent_directory) \in L
          \/ UnlistDir(dir[w.dir].parent_directory, w.dir) \in L
  /\ w.op = "remove" => EraseFile(w.blob[2]) \in L
  /\ w.op = "erase_file" =>
       /\ \A b \in stored : b[1] = u /\ b[2] = w.file => RemoveBlob(b) \in D
       /\ \A x \in DOMAIN dir : w.file \notin dir[x].files_contained
       /\ Emptied(L, u, w.file)
  /\ w.op = "empty_trash" =>
       \A f \in w.files \cap DOMAIN file :
         EraseFile(f) \in D \/ Listed(f) \/ \E d \in DirId : Relist(d, f) \in D
  /\ w.op = "relist" => w.file \in DOMAIN file /\ Emptied(L, u, w.file)
  /\ w.op = "add_file" => w.dir \in DOMAIN dir /\ SaveBlob(<<u, w.file, 1>>) \in L
  /\ w.op = "save" =>
       \/ w.blob[3] = 1 /\ \E x \in D : x.op = "add_file" /\ x.file = w.blob[2] /\ x.user = u
       \/ /\ w.blob[2] \in DOMAIN file /\ file[w.blob[2]].owner = u
          /\ \/ w.blob[3] <= file[w.blob[2]].revision
             \/ w.blob[3] = file[w.blob[2]].revision + 1 /\ Revise(w.blob[2]) \in L
  /\ w.op = "revise" =>
       /\ w.file \in DOMAIN file /\ file[w.file].owner = u
       /\ LET b == <<u, w.file, file[w.file].revision + 1>>
          IN  b \in stored \/ SaveBlob(b) \in D

\* No file is trashed twice.
Once(s) ==
  \A i, j \in DOMAIN s :
    s[i].op = "trash" /\ s[j].op = "trash" /\ s[i].file = s[j].file => i = j

\* A program of sort K whose every write is good.
Kept(u, K, s) ==
  /\ \A i \in DOMAIN s : s[i].op \in K /\ Good(u, s, i, Done(s, i), Left(s, i))
  /\ Once(s)

\* What a repeatable request may still have to write is what it was asked for.
OwnShare(u, s, a) == \A i \in DOMAIN s : s[i].file = a.file /\ OwnFile(u, a.file) /\ Untrashed(a.file)
Linked(u, s, a) ==
  /\ a.kind = "share" => /\ OwnShare(u, s, a)
       /\ \A i \in DOMAIN s : s[i].op \in {"list_share", "grant_share"} /\ s[i].user = a.user
  /\ a.kind = "unshare" => /\ OwnShare(u, s, a)
       /\ \A i \in DOMAIN s : s[i].op \in {"unlist_share", "revoke_share"} /\ s[i].user = a.user
  /\ a.kind = "overwrite" => /\ OwnShare(u, s, a)
       /\ \A i \in DOMAIN s : \/ s[i].op \in {"unlist_share", "revoke_share"}
                              \/ s[i].op \in {"list_share", "grant_share"} /\ s[i].user \in a.users
  /\ a.kind = "leave" => \A i \in DOMAIN s :
       /\ s[i].op \in {"unlist_share", "revoke_share"} /\ s[i].user = u /\ s[i].file = a.file
       /\ Untrashed(a.file)
  /\ a.kind = "recover" =>
       /\ u \notin hurt => a.files \subseteq DOMAIN file
       /\ \A i \in DOMAIN s : \/ s[i].op \in {"adopt", "relist"}
                              \/ s[i].op = "empty_trash" /\ s[i].files = a.files
  /\ a.kind = "revision" =>
       /\ Len(s) \in 1 .. 2 /\ s[Len(s)] = Revise(a.file)
       /\ run.begun => Len(s) = 1

----------------------------------------------------------------------------
(* What is true of users no crash has hurt, with the writes L to come and  *)
(* user u to repeat the request O[u].                                      *)

OwesRecovery(a, f) == a.kind = "recover" /\ f \in a.files
OwesGrant(a, v, f) == \/ a.kind = "share" /\ a.file = f /\ a.user = v
                      \/ a.kind = "overwrite" /\ a.file = f /\ v \in a.users
OwesRevoke(a, v, f) == \/ a.kind = "unshare" /\ a.file = f /\ a.user = v
                       \/ a.kind = "overwrite" /\ a.file = f
OwesLeave(a, f)    == a.kind = "leave" /\ a.file = f
OwesRevision(a, f) == a.kind = "revision" /\ a.file = f

TreeMended(L) ==
  \A d \in DOMAIN dir : dir[d].owner \notin hurt =>
    /\ \A c \in dir[d].directories_contained :
         c \in DOMAIN dir \/ EraseDir(d) \in L \/ UnlistDir(d, c) \in L
    /\ dir[d].files_contained \subseteq DOMAIN file

PlaceMended(L, O) ==
  \A f \in DOMAIN file : file[f].owner \notin hurt =>
    /\ ~Listed(f) => InTrash(f)
    /\ Listed(f) /\ InTrash(f) => \/ Unlist(file[f].parent_directory, f) \in L
                                  \/ Emptied(L, file[f].owner, f)
                                  \/ OwesRecovery(O[file[f].owner], f)

ShareMended(L, O) ==
  \A f \in DOMAIN file : file[f].owner \notin hurt =>
    /\ \A v \in Users \ hurt :
         /\ f \in user[v].shared_files /\ v \notin file[f].users_shared =>
              GrantShare(v, f) \in L \/ OwesGrant(O[file[f].owner], v, f)
         /\ f \notin user[v].shared_files /\ v \in file[f].users_shared =>
              \/ RevokeShare(v, f) \in L
              \/ OwesRevoke(O[file[f].owner], v, f) \/ OwesLeave(O[v], f)
    /\ InTrash(f) => \A v \in file[f].users_shared : RevokeShare(v, f) \in L

TrashMended(L) ==
  \A u \in Users \ hurt : \A f \in Trash(u) :
    user[u].files_deleted[f] = 1 /\ (f \in DOMAIN file \/ Emptied(L, u, f))

BlobsMended(L, O) ==
  /\ \A b \in stored : b[1] \notin hurt =>
       /\ b[2] \in DOMAIN file /\ file[b[2]].owner = b[1]
       /\ b[3] > file[b[2]].revision =>
            /\ b[3] = file[b[2]].revision + 1
            /\ Revise(b[2]) \in L \/ OwesRevision(O[b[1]], b[2])
  /\ \A f \in DOMAIN file : file[f].owner \notin hurt =>
       \A r \in 1 .. file[f].revision :
         LET b == <<file[f].owner, f, r>>
         IN  b \in stored \/ SaveBlob(b) \in L \/ EraseFile(f) \in L

MendWith(L, O) ==
  /\ TreeMended(L) /\ PlaceMended(L, O) /\ ShareMended(L, O)
  /\ TrashMended(L) /\ BlobsMended(L, O)

\* The user of a request in progress is doing what it owed.
Owing == [u \in Users |-> IF run # Idle /\ run.user = u THEN NoAsk ELSE owed[u]]

MendInv ==
  /\ Owned
  /\ MendWith(WritesOf(run.todo), Owing)
  /\ run # Idle =>
       /\ \A i \in DOMAIN run.todo : Local(run.user, run.todo[i])
       /\ run.user \notin hurt => \E K \in Sorts : Kept(run.user, K, run.todo)
       /\ Linked(run.user, run.todo, run.ask)
       /\ ~run.begun => MendWith({}, owed)

----------------------------------------------------------------------------
(* Lemmas about names and sequences of writes.                             *)

\* What the name of a write says.
LEMMA WriteNames ==
  ASSUME NEW w
  PROVE  /\ \A v, f : w = ListShare(v, f) => w.op = "list_share" /\ w.user = v /\ w.file = f
         /\ \A v, f : w = GrantShare(v, f) => w.op = "grant_share" /\ w.user = v /\ w.file = f
         /\ \A v, f : w = UnlistShare(v, f) => w.op = "unlist_share" /\ w.user = v /\ w.file = f
         /\ \A v, f : w = RevokeShare(v, f) => w.op = "revoke_share" /\ w.user = v /\ w.file = f
         /\ \A v, f : w = ToTrash(v, f) => w.op = "trash" /\ w.user = v /\ w.file = f
         /\ \A d, f : w = Unlist(d, f) => w.op = "unlist" /\ w.dir = d /\ w.file = f
         /\ \A d, f : w = Relist(d, f) => w.op = "relist" /\ w.dir = d /\ w.file = f
         /\ \A d, f : w = Adopt(d, f) => w.op = "adopt" /\ w.dir = d /\ w.file = f
         /\ \A d, c : w = UnlistDir(d, c) => w.op = "unlist_dir" /\ w.dir = d /\ w.child = c
         /\ \A d : w = EraseDir(d) => w.op = "erase_dir" /\ w.dir = d
         /\ \A f : w = EraseFile(f) => w.op = "erase_file" /\ w.file = f
         /\ \A f : w = Revise(f) => w.op = "revise" /\ w.file = f
         /\ \A b : w = SaveBlob(b) => w.op = "save" /\ w.blob = b
         /\ \A b : w = RemoveBlob(b) => w.op = "remove" /\ w.blob = b
         /\ \A u, S : w = EmptyTrash(u, S) => w.op = "empty_trash" /\ w.user = u /\ w.files = S
BY DEF ListShare, GrantShare, UnlistShare, RevokeShare, ToTrash, Unlist, Relist, Adopt, UnlistDir,
       EraseDir, EraseFile, Revise, SaveBlob, RemoveBlob, EmptyTrash

\* The writes after the first.
LEMMA RestWrites ==
  ASSUME NEW s \in Seq(Writes), s # <<>>
  PROVE  /\ WritesOf(Tail(s)) = Left(s, 1) /\ Done(s, 1) = {} /\ 1 \in DOMAIN s
         /\ WritesOf(s) = WritesOf(Tail(s)) \cup {s[1]}
         /\ \A i \in DOMAIN Tail(s) :
              /\ i \in Nat /\ i >= 1 /\ i + 1 \in DOMAIN s /\ Tail(s)[i] = s[i + 1]
              /\ Left(Tail(s), i) = Left(s, i + 1)
              /\ Done(s, i + 1) = Done(Tail(s), i) \cup {s[1]}
              /\ (i + 1) - 1 = i
              /\ i = 1 \/ (i > 1 /\ i - 1 \in DOMAIN Tail(s) /\ Tail(s)[i - 1] = s[i])
<1> DEFINE t == Tail(s)
           n == Len(t)
<1>1. /\ t \in Seq(Writes) /\ Len(s) = n + 1 /\ n \in Nat
      /\ DOMAIN t = 1 .. n /\ DOMAIN s = 1 .. n + 1
      /\ \A i \in 1 .. n : i + 1 \in 1 .. n + 1 /\ t[i] = s[i + 1]
  BY Rest
<1> HIDE DEF t, n
<1>2. n = Len(t)
  BY DEF n
<1>3. Left(s, 1) = {s[j] : j \in 2 .. n + 1}
  BY <1>1, <1>2 DEF Left
<1>4. WritesOf(t) = Left(s, 1)
  <2>1. \A j \in 2 .. n + 1 : j - 1 \in 1 .. n /\ t[j - 1] = s[j]
    BY <1>1
  <2>2. \A i \in 1 .. n : i + 1 \in 2 .. n + 1 /\ t[i] = s[i + 1]
    BY <1>1
  <2>3. WritesOf(t) = {t[i] : i \in 1 .. n}
    BY <1>1 DEF WritesOf
  <2>4. {t[i] : i \in 1 .. n} = {s[j] : j \in 2 .. n + 1}
    <3>1. ASSUME NEW i \in 1 .. n PROVE t[i] \in {s[j] : j \in 2 .. n + 1}
      BY <2>2
    <3>2. ASSUME NEW j \in 2 .. n + 1 PROVE s[j] \in {t[i] : i \in 1 .. n}
      BY <2>1
    <3> QED
      BY <3>1, <3>2
  <2> QED
    BY <1>3, <2>3, <2>4
<1>5. Done(s, 1) = {}
  BY DEF Done
<1>6. 1 \in DOMAIN s /\ \A j \in 1 .. n + 1 : j = 1 \/ j \in 2 .. n + 1
  BY <1>1
<1>7. WritesOf(s) = WritesOf(t) \cup {s[1]}
  <2>1. \A j \in 2 .. n + 1 : j \in 1 .. n + 1
    BY <1>1
  <2>2. WritesOf(s) = {s[j] : j \in 1 .. n + 1}
    BY <1>1 DEF WritesOf
  <2>3. {s[j] : j \in 1 .. n + 1} = {s[j] : j \in 2 .. n + 1} \cup {s[1]}
    BY <1>1, <1>6, <2>1, Zenon
  <2> QED
    BY <1>3, <1>4, <2>2, <2>3
<1>8. ASSUME NEW i \in DOMAIN t
      PROVE  /\ i \in Nat /\ i >= 1 /\ i + 1 \in DOMAIN s /\ t[i] = s[i + 1]
             /\ Left(t, i) = Left(s, i + 1)
             /\ Done(s, i + 1) = Done(t, i) \cup {s[1]}
             /\ (i + 1) - 1 = i
             /\ i = 1 \/ (i > 1 /\ i - 1 \in DOMAIN t /\ t[i - 1] = s[i])
  <2>1. i \in 1 .. n
    BY <1>1
  <2>2. i \in Nat /\ i >= 1 /\ i + 1 \in DOMAIN s /\ t[i] = s[i + 1] /\ (i + 1) - 1 = i
    BY <1>1, <2>1
  <2>3. Left(t, i) = Left(s, i + 1)
    <3>1. Left(t, i) = {t[j] : j \in i + 1 .. n}
      BY <1>2 DEF Left
    <3>2. Left(s, i + 1) = {s[j] : j \in (i + 1) + 1 .. n + 1}
      BY <1>1 DEF Left
    <3>3. \A j \in i + 1 .. n : j + 1 \in (i + 1) + 1 .. n + 1 /\ t[j] = s[j + 1]
      BY <1>1, <2>1
    <3>4. \A j \in (i + 1) + 1 .. n + 1 : j - 1 \in i + 1 .. n /\ t[j - 1] = s[j]
      <4> SUFFICES ASSUME NEW j \in (i + 1) + 1 .. n + 1
                   PROVE  j - 1 \in i + 1 .. n /\ t[j - 1] = s[j]
        OBVIOUS
      <4>1. j - 1 \in i + 1 .. n /\ j - 1 \in 1 .. n /\ (j - 1) + 1 = j
        BY <1>1, <2>1
      <4>2. t[j - 1] = s[(j - 1) + 1]
        BY <1>1, <4>1
      <4> QED
        BY <4>1, <4>2
    <3> QED
      BY <3>1, <3>2, <3>3, <3>4
  <2>4. Done(s, i + 1) = Done(t, i) \cup {s[1]}
    <3>1. Done(s, i + 1) = {s[j] : j \in 1 .. i} /\ Done(t, i) = {t[j] : j \in 1 .. i - 1}
      BY <2>2 DEF Done
    <3>2. \A j \in 1 .. i - 1 : j + 1 \in 1 .. i /\ t[j] = s[j + 1]
      BY <1>1, <2>1
    <3>3. \A j \in 1 .. i : j = 1 \/ (j - 1 \in 1 .. i - 1 /\ t[j - 1] = s[j])
      <4> SUFFICES ASSUME NEW j \in 1 .. i, j # 1
                   PROVE  j - 1 \in 1 .. i - 1 /\ t[j - 1] = s[j]
        OBVIOUS
      <4>1. j - 1 \in 1 .. i - 1 /\ j - 1 \in 1 .. n /\ (j - 1) + 1 = j
        BY <1>1, <2>1
      <4>2. t[j - 1] = s[(j - 1) + 1]
        BY <1>1, <4>1
      <4> QED
        BY <4>1, <4>2
    <3>4. 1 \in 1 .. i
      BY <2>2
    <3> QED
      BY <3>1, <3>2, <3>3, <3>4
  <2>5. i = 1 \/ (i > 1 /\ i - 1 \in DOMAIN t /\ t[i - 1] = s[i])
    <3>1. i # 1 => i > 1 /\ i - 1 \in 1 .. n /\ (i - 1) + 1 = i
      BY <1>1, <2>1
    <3>2. i # 1 => t[i - 1] = s[(i - 1) + 1]
      BY <1>1, <3>1
    <3> QED
      BY <1>1, <3>1, <3>2
  <2> QED
    BY <2>2, <2>3, <2>4, <2>5
<1> QED
  BY <1>4, <1>5, <1>6, <1>7, <1>8 DEF t
----------------------------------------------------------------------------
(* What a write does, field by field.                                      *)

UserOps == {"list_share", "unlist_share", "trash", "empty_trash"}
FileOps == {"grant_share", "revoke_share", "adopt", "revise", "erase_file", "add_file"}
DirOps  == {"unlist", "relist", "unlist_dir", "erase_dir", "add_dir", "add_file"}

UserEffect(w) ==
  \A v \in Users :
    /\ user'[v].dir_root = user[v].dir_root
    /\ user'[v].shared_files =
         IF w.op = "list_share" /\ w.user = v THEN user[v].shared_files \cup {w.file}
         ELSE IF w.op = "unlist_share" /\ w.user = v THEN user[v].shared_files \ {w.file}
         ELSE user[v].shared_files
    /\ \A f \in FileId : user'[v].files_deleted[f] =
         IF w.op = "trash" /\ w.user = v /\ w.file = f THEN user[v].files_deleted[f] + 1
         ELSE IF w.op = "empty_trash" /\ w.user = v /\ f \in w.files THEN 0
         ELSE user[v].files_deleted[f]

FileEffect(w) ==
  /\ DOMAIN file' = IF w.op = "add_file" THEN DOMAIN file \cup {w.file}
                    ELSE IF w.op = "erase_file" THEN DOMAIN file \ {w.file} ELSE DOMAIN file
  /\ w.op = "add_file" =>
       /\ file'[w.file].owner = w.user /\ file'[w.file].users_shared = {}
       /\ file'[w.file].parent_directory = w.dir /\ file'[w.file].revision = 1
  /\ \A f \in DOMAIN file' : f \in DOMAIN file =>
       /\ file'[f].owner = file[f].owner
       /\ file'[f].users_shared =
            IF w.op = "grant_share" /\ w.file = f THEN file[f].users_shared \cup {w.user}
            ELSE IF w.op = "revoke_share" /\ w.file = f THEN file[f].users_shared \ {w.user}
            ELSE file[f].users_shared
       /\ file'[f].parent_directory =
            IF w.op = "adopt" /\ w.file = f THEN w.dir ELSE file[f].parent_directory
       /\ file'[f].revision =
            IF w.op = "revise" /\ w.file = f THEN file[f].revision + 1 ELSE file[f].revision

DirEffect(w) ==
  /\ DOMAIN dir' = IF w.op = "add_dir" THEN DOMAIN dir \cup {w.dir}
                   ELSE IF w.op = "erase_dir" THEN DOMAIN dir \ {w.dir} ELSE DOMAIN dir
  /\ w.op = "add_dir" =>
       /\ dir'[w.dir].owner = w.user /\ dir'[w.dir].parent_directory = w.parent
       /\ dir'[w.dir].files_contained = {} /\ dir'[w.dir].directories_contained = {}
  /\ \A d \in DOMAIN dir' : d \in DOMAIN dir =>
       /\ dir'[d].owner = dir[d].owner
       /\ dir'[d].parent_directory = dir[d].parent_directory
       /\ dir'[d].files_contained =
            IF w.op = "unlist" /\ w.dir = d THEN dir[d].files_contained \ {w.file}
            ELSE IF w.op \in {"relist", "add_file"} /\ w.dir = d
                 THEN dir[d].files_contained \cup {w.file}
            ELSE dir[d].files_contained
       /\ dir'[d].directories_contained =
            IF w.op = "unlist_dir" /\ w.dir = d THEN dir[d].directories_contained \ {w.child}
            ELSE IF w.op = "add_dir" /\ w.parent = d
                 THEN dir[d].directories_contained \cup {w.dir}
            ELSE dir[d].directories_contained

DiskEffect(w) ==
  /\ stored' = IF w.op = "save" THEN stored \cup {w.blob}
               ELSE IF w.op = "remove" THEN stored \ {w.blob} ELSE stored
  /\ ticket.dir \in Nat /\ ticket'.dir \in Nat /\ ticket.dir <= ticket'.dir
  /\ ticket.file \in Nat /\ ticket'.file \in Nat /\ ticket.file <= ticket'.file

Effect(w) == UserEffect(w) /\ FileEffect(w) /\ DirEffect(w) /\ DiskEffect(w) /\ hurt' = hurt

\* The records that are not written.
LEMMA UserQuiet ==
  ASSUME NEW w, w.op \notin UserOps, user' = user
  PROVE  UserEffect(w)
BY DEF UserEffect, UserOps

LEMMA FileQuiet ==
  ASSUME NEW w, w.op \notin FileOps, file' = file
  PROVE  FileEffect(w)
BY DEF FileEffect, FileOps

LEMMA DirQuiet ==
  ASSUME NEW w, w.op \notin DirOps, dir' = dir
  PROVE  DirEffect(w)
BY DEF DirEffect, DirOps

LEMMA DiskQuiet ==
  ASSUME TypeOK, CatalogAssumption, NEW w, w.op \notin {"save", "remove"}, UNCHANGED <<stored, ticket>>
  PROVE  DiskEffect(w)
BY DEF DiskEffect, TypeOK, CatalogAssumption

LEMMA UserWritten ==
  ASSUME TypeOK, NEW w \in Writes,
         \/ w.op = "list_share"   /\ user' = [user EXCEPT ![w.user].shared_files = @ \cup {w.file}]
         \/ w.op = "unlist_share" /\ user' = [user EXCEPT ![w.user].shared_files = @ \ {w.file}]
         \/ w.op = "trash"        /\ user' = [user EXCEPT ![w.user].files_deleted[w.file] = @ + 1]
         \/ w.op = "empty_trash"  /\ user' = Without(w.user, w.files)
  PROVE  UserEffect(w)
<1> DEFINE x == w.user
           f == w.file
           F == IF w.op = "list_share" THEN user[x].shared_files \cup {f}
                ELSE user[x].shared_files \ {f}
           Counts == [user[x].files_deleted EXCEPT ![f] = @ + 1]
<1>1. x \in Users /\ (w.op # "empty_trash" => f \in FileId)
  BY WriteFields DEF SharingOps
<1>2. w.op \in {"list_share", "unlist_share"} => user' = [user EXCEPT ![x].shared_files = F]
  OBVIOUS
<1>3. w.op = "trash" => user' = [user EXCEPT ![x].files_deleted = Counts]
  OBVIOUS
<1>4. w.op \in {"list_share", "unlist_share", "trash", "empty_trash"}
  OBVIOUS
<1>5. user[x].files_deleted \in [FileId -> Nat]
  BY <1>1 DEF TypeOK, UserRecord
<1>6. w.op = "trash" => \A g \in FileId : Counts[g] = IF f = g THEN user[x].files_deleted[g] + 1
                                                      ELSE user[x].files_deleted[g]
  BY <1>1, <1>5
<1>7. /\ w.op = "list_share" => F = user[x].shared_files \cup {f}
      /\ w.op = "unlist_share" => F = user[x].shared_files \ {f}
  OBVIOUS
<1>8. w.op = "empty_trash" => user' = Without(x, w.files)
  OBVIOUS
<1> HIDE DEF F, Counts
<1>9. ASSUME NEW v \in Users
      PROVE  /\ user'[v].dir_root = user[v].dir_root
             /\ user'[v].shared_files =
                  IF w.op = "list_share" /\ x = v THEN user[v].shared_files \cup {f}
                  ELSE IF w.op = "unlist_share" /\ x = v THEN user[v].shared_files \ {f}
                  ELSE user[v].shared_files
             /\ \A g \in FileId : user'[v].files_deleted[g] =
                  IF w.op = "trash" /\ x = v /\ f = g THEN user[v].files_deleted[g] + 1
                  ELSE IF w.op = "empty_trash" /\ x = v /\ g \in w.files THEN 0
                  ELSE user[v].files_deleted[g]
  <2>1. user[v] \in UserRecord /\ user \in [Users -> UserRecord]
    BY DEF TypeOK
  <2>2. CASE w.op \in {"list_share", "unlist_share"}
    <3>1. user'[v] = IF v = x THEN [user[x] EXCEPT !.shared_files = F] ELSE user[v]
      BY <1>2, <2>1, <2>2
    <3>2. /\ user'[v].dir_root = user[v].dir_root
          /\ user'[v].files_deleted = user[v].files_deleted
          /\ user'[v].shared_files = IF v = x THEN F ELSE user[v].shared_files
      BY <2>1, <3>1 DEF UserRecord
    <3> QED
      BY <1>7, <2>2, <3>2
  <2>3. CASE w.op = "trash"
    <3>1. user'[v] = IF v = x THEN [user[x] EXCEPT !.files_deleted = Counts] ELSE user[v]
      BY <1>3, <2>1, <2>3
    <3>2. /\ user'[v].dir_root = user[v].dir_root
          /\ user'[v].shared_files = user[v].shared_files
          /\ user'[v].files_deleted = IF v = x THEN Counts ELSE user[v].files_deleted
      BY <2>1, <3>1 DEF UserRecord
    <3> QED
      BY <1>6, <2>3, <3>2
  <2>4. CASE w.op = "empty_trash"
    <3> DEFINE S == w.files
    <3>1. user' = Without(x, S)
      BY <1>8, <2>4
    <3> HIDE DEF S, x
    <3>2. /\ user'[v].dir_root = user[v].dir_root
          /\ user'[v].shared_files = user[v].shared_files
          /\ \A g \in FileId :
               user'[v].files_deleted[g] = IF v = x /\ g \in S THEN 0
                                           ELSE user[v].files_deleted[g]
      BY <1>1, <3>1, WithoutEffect
    <3> QED
      BY <2>4, <3>2 DEF S
  <2> QED
    BY <1>4, <2>2, <2>3, <2>4
<1> QED
  BY <1>9 DEF UserEffect

LEMMA FileWritten ==
  ASSUME TypeOK, NEW w,
         \/ w.op = "grant_share"  /\ file' = [file EXCEPT ![w.file].users_shared = @ \cup {w.user}]
         \/ w.op = "revoke_share" /\ file' = [file EXCEPT ![w.file].users_shared = @ \ {w.user}]
         \/ w.op = "adopt"        /\ file' = [file EXCEPT ![w.file].parent_directory = w.dir]
         \/ w.op = "revise"       /\ file' = [file EXCEPT ![w.file].revision = @ + 1]
  PROVE  FileEffect(w)
<1> DEFINE f == w.file
           r == IF w.op = "grant_share" THEN [file[f] EXCEPT !.users_shared = @ \cup {w.user}]
                ELSE IF w.op = "revoke_share" THEN [file[f] EXCEPT !.users_shared = @ \ {w.user}]
                ELSE IF w.op = "adopt" THEN [file[f] EXCEPT !.parent_directory = w.dir]
                ELSE [file[f] EXCEPT !.revision = @ + 1]
<1>1. file' = [file EXCEPT ![f] = r]
  OBVIOUS
<1>2. w.op \in {"grant_share", "revoke_share", "adopt", "revise"}
  OBVIOUS
<1>3. file[f] \in FileRecord =>
        /\ r.owner = file[f].owner
        /\ r.users_shared = IF w.op = "grant_share" THEN file[f].users_shared \cup {w.user}
                            ELSE IF w.op = "revoke_share" THEN file[f].users_shared \ {w.user}
                            ELSE file[f].users_shared
        /\ r.parent_directory = IF w.op = "adopt" THEN w.dir ELSE file[f].parent_directory
        /\ r.revision = IF w.op = "revise" THEN file[f].revision + 1 ELSE file[f].revision
  <2>1. CASE w.op = "grant_share"
    BY <2>1 DEF FileRecord
  <2>2. CASE w.op = "revoke_share"
    BY <2>2 DEF FileRecord
  <2>3. CASE w.op = "adopt"
    BY <2>3 DEF FileRecord
  <2>4. CASE w.op = "revise"
    BY <2>4 DEF FileRecord
  <2> QED
    BY <1>2, <2>1, <2>2, <2>3, <2>4
<1> HIDE DEF r
<1>4. DOMAIN file' = DOMAIN file
  BY <1>1
<1>5. \A g \in DOMAIN file : file[g] \in FileRecord /\ file'[g] = IF g = f THEN r ELSE file[g]
  BY <1>1 DEF TypeOK
<1> QED
  BY <1>2, <1>3, <1>4, <1>5 DEF FileEffect

LEMMA DirWritten ==
  ASSUME TypeOK, NEW w,
         \/ w.op = "unlist"     /\ dir' = [dir EXCEPT ![w.dir].files_contained = @ \ {w.file}]
         \/ w.op = "relist"     /\ dir' = [dir EXCEPT ![w.dir].files_contained = @ \cup {w.file}]
         \/ w.op = "unlist_dir" /\ dir' = [dir EXCEPT ![w.dir].directories_contained = @ \ {w.child}]
  PROVE  DirEffect(w)
<1> DEFINE d == w.dir
           r == IF w.op = "unlist" THEN [dir[d] EXCEPT !.files_contained = @ \ {w.file}]
                ELSE IF w.op = "relist" THEN [dir[d] EXCEPT !.files_contained = @ \cup {w.file}]
                ELSE [dir[d] EXCEPT !.directories_contained = @ \ {w.child}]
<1>1. dir' = [dir EXCEPT ![d] = r]
  OBVIOUS
<1>2. w.op \in {"unlist", "relist", "unlist_dir"}
  OBVIOUS
<1>3. dir[d] \in DirRecord =>
        /\ r.owner = dir[d].owner
        /\ r.parent_directory = dir[d].parent_directory
        /\ r.files_contained = IF w.op = "unlist" THEN dir[d].files_contained \ {w.file}
                               ELSE IF w.op = "relist" THEN dir[d].files_contained \cup {w.file}
                               ELSE dir[d].files_contained
        /\ r.directories_contained =
             IF w.op = "unlist_dir" THEN dir[d].directories_contained \ {w.child}
             ELSE dir[d].directories_contained
  <2>1. CASE w.op = "unlist"
    BY <2>1 DEF DirRecord
  <2>2. CASE w.op = "relist"
    BY <2>2 DEF DirRecord
  <2>3. CASE w.op = "unlist_dir"
    BY <2>3 DEF DirRecord
  <2> QED
    BY <1>2, <2>1, <2>2, <2>3
<1> HIDE DEF r
<1>4. DOMAIN dir' = DOMAIN dir
  BY <1>1
<1>5. \A g \in DOMAIN dir : dir[g] \in DirRecord /\ dir'[g] = IF g = d THEN r ELSE dir[g]
  BY SMTT(30), <1>1 DEF TypeOK
<1> QED
  BY SMTT(30), <1>2, <1>3, <1>4, <1>5 DEF DirEffect

LEMMA DirAdded ==
  ASSUME TypeOK, NEW w \in Writes, w.op = "add_dir", w.dir \notin DOMAIN dir,
         w.parent \in DOMAIN dir,
         dir' = Put([dir EXCEPT ![w.parent].directories_contained = @ \cup {w.dir}],
                    w.dir, EmptyDir(w.user, w.parent))
  PROVE  DirEffect(w)
<1> DEFINE d == w.dir
           p == w.parent
           u == w.user
           new == EmptyDir(u, p)
           base == [dir EXCEPT ![p].directories_contained = @ \cup {d}]
           result == Put(base, d, new)
<1>1. dir' = result
  OBVIOUS
<1>2. d \notin DOMAIN dir /\ p \in DOMAIN dir
  OBVIOUS
<1> HIDE DEF d, p, u
<1>3. /\ new.owner = u /\ new.parent_directory = p /\ new.files_contained = {}
      /\ new.directories_contained = {}
  BY DEF EmptyDir
<1>4. /\ DOMAIN base = DOMAIN dir
      /\ \A x \in DOMAIN dir :
           /\ base[x].owner = dir[x].owner
           /\ base[x].parent_directory = dir[x].parent_directory
           /\ base[x].files_contained = dir[x].files_contained
           /\ base[x].directories_contained =
                IF p = x THEN dir[x].directories_contained \cup {d}
                ELSE dir[x].directories_contained
  BY DEF TypeOK, DirRecord
<1> HIDE DEF new, base
<1>5. /\ DOMAIN result = DOMAIN base \cup {d} /\ result[d] = new
      /\ \A x \in DOMAIN base : x # d => result[x] = base[x]
  BY DEF Put
<1> HIDE DEF result
<1>6. DOMAIN dir' = DOMAIN dir \cup {d} /\ dir'[d] = new
  BY <1>1, <1>4, <1>5
<1>7. \A x \in DOMAIN dir : dir'[x] = base[x]
  BY <1>1, <1>2, <1>4, <1>5
<1>8. \A x \in DOMAIN dir :
        /\ dir'[x].owner = dir[x].owner
        /\ dir'[x].parent_directory = dir[x].parent_directory
        /\ dir'[x].files_contained = dir[x].files_contained
        /\ dir'[x].directories_contained =
             IF p = x THEN dir[x].directories_contained \cup {d}
             ELSE dir[x].directories_contained
  BY ZenonT(40), <1>4, <1>7
<1>9. /\ dir'[d].owner = u /\ dir'[d].parent_directory = p /\ dir'[d].files_contained = {}
      /\ dir'[d].directories_contained = {}
  BY <1>3, <1>6
<1>10. d = w.dir /\ p = w.parent /\ u = w.user
  BY DEF d, p, u
<1>11. DOMAIN dir' = DOMAIN dir \cup {w.dir}
  BY <1>6, <1>10
<1> QED
  BY ZenonT(40), <1>8, <1>9, <1>10, <1>11 DEF DirEffect

LEMMA FileAdded ==
  ASSUME TypeOK, NEW w \in Writes, w.op = "add_file", w.file \notin DOMAIN file,
         file' = Put(file, w.file, NewRecord(w.user, w.dir, w.name)),
         dir' = [dir EXCEPT ![w.dir].files_contained = @ \cup {w.file}]
  PROVE  FileEffect(w) /\ DirEffect(w)
<1> DEFINE f == w.file
           d == w.dir
           u == w.user
           new == NewRecord(u, d, w.name)
           result == Put(file, f, new)
<1>1. file' = result /\ f \notin DOMAIN file
  OBVIOUS
<1>2. dir' = [dir EXCEPT ![d].files_contained = @ \cup {f}]
  OBVIOUS
<1> HIDE DEF d, f, u
<1>3. new.owner = u /\ new.users_shared = {} /\ new.parent_directory = d /\ new.revision = 1
  BY DEF NewRecord
<1> HIDE DEF new
<1>4. /\ DOMAIN result = DOMAIN file \cup {f} /\ result[f] = new
      /\ \A x \in DOMAIN file : x # f => result[x] = file[x]
  BY DEF Put
<1> HIDE DEF result
<1>5. FileEffect(w)
  <2>1. DOMAIN file' = DOMAIN file \cup {f} /\ file'[f] = new
    BY <1>1, <1>4
  <2>2. \A x \in DOMAIN file : file'[x] = file[x]
    BY <1>1, <1>4
  <2> QED
    BY <1>3, <2>1, <2>2 DEF FileEffect, d, f, u
<1>6. DirEffect(w)
  <2> DEFINE r == [dir[d] EXCEPT !.files_contained = @ \cup {f}]
  <2>3. dir' = [dir EXCEPT ![d] = r]
    BY <1>2
  <2>4. dir[d] \in DirRecord =>
          /\ r.owner = dir[d].owner /\ r.parent_directory = dir[d].parent_directory
          /\ r.directories_contained = dir[d].directories_contained
          /\ r.files_contained = dir[d].files_contained \cup {f}
    BY DEF DirRecord
  <2> HIDE DEF r
  <2>5. DOMAIN dir' = DOMAIN dir
    BY <2>3
  <2>6. \A x \in DOMAIN dir : dir[x] \in DirRecord /\ dir'[x] = IF x = d THEN r ELSE dir[x]
    BY <2>3 DEF TypeOK
  <2>1. /\ DOMAIN dir' = DOMAIN dir
        /\ \A x \in DOMAIN dir :
             /\ dir'[x].owner = dir[x].owner
             /\ dir'[x].parent_directory = dir[x].parent_directory
             /\ dir'[x].directories_contained = dir[x].directories_contained
             /\ dir'[x].files_contained = IF d = x THEN dir[x].files_contained \cup {f}
                                          ELSE dir[x].files_contained
    <3>1. ASSUME NEW x \in DOMAIN dir
          PROVE  /\ dir'[x].owner = dir[x].owner
                 /\ dir'[x].parent_directory = dir[x].parent_directory
                 /\ dir'[x].directories_contained = dir[x].directories_contained
                 /\ dir'[x].files_contained = IF d = x THEN dir[x].files_contained \cup {f}
                                              ELSE dir[x].files_contained
      <4>1. CASE x = d
        <5>1. dir'[x] = r /\ dir[d] \in DirRecord
          BY <2>6, <4>1
        <5> QED
          BY <2>4, <4>1, <5>1
      <4>2. CASE x # d
        <5>1. dir'[x] = dir[x]
          BY <2>6, <4>2
        <5> QED
          BY <4>2, <5>1
      <4> QED
        BY <4>1, <4>2
    <3> QED
      BY <2>5, <3>1
  <2> QED
    BY <2>1 DEF DirEffect, d, f
<1> QED
  BY <1>5, <1>6

LEMMA DirErased ==
  ASSUME NEW w, w.op = "erase_dir", dir' = Erase(dir, {w.dir})
  PROVE  DirEffect(w)
<1> DEFINE d == w.dir
           result == Erase(dir, {d})
<1>1. dir' = result
  OBVIOUS
<1>2. DOMAIN result = DOMAIN dir \ {d} /\ \A x \in DOMAIN dir : x # d => result[x] = dir[x]
  BY DEF Erase
<1> HIDE DEF result
<1> QED
  BY <1>1, <1>2 DEF DirEffect

LEMMA FileErased ==
  ASSUME NEW w, w.op = "erase_file", file' = Erase(file, {w.file})
  PROVE  FileEffect(w)
<1> DEFINE f == w.file
           result == Erase(file, {f})
<1>1. file' = result
  OBVIOUS
<1>2. DOMAIN result = DOMAIN file \ {f} /\ \A x \in DOMAIN file : x # f => result[x] = file[x]
  BY DEF Erase
<1> HIDE DEF result
<1> QED
  BY <1>1, <1>2 DEF FileEffect

\* The next write has its effect.
LEMMA WriteEffect ==
  ASSUME CatalogAssumption, TypeOK, NEW s, s = run.todo, s # <<>>, Ready(s), Write
  PROVE  Effect(s[1])
<1> DEFINE w == s[1]
<1>1. /\ w \in Writes /\ W = w /\ Placed(s, 1)
      /\ \A op : Next1(op) => w.op = op
  BY FirstWrite
<1>2. hurt' = hurt
  BY WriteAdvances DEF Advance
<1>3. CASE CreateId
  <2>1. w.op = "draw" /\ UNCHANGED <<user, dir, file, stored>>
    BY <1>1, <1>3 DEF CreateId
  <2>2. /\ ticket.dir \in Nat /\ ticket'.dir \in Nat /\ ticket.dir <= ticket'.dir
        /\ ticket.file \in Nat /\ ticket'.file \in Nat /\ ticket.file <= ticket'.file
    <3>1. ticket \in [dir : 1 .. MaxDir + 1, file : 1 .. MaxFile + 1] /\ MaxDir \in Nat /\ MaxFile \in Nat
      BY DEF TypeOK, CatalogAssumption
    <3>2. ticket.dir \in Nat /\ ticket.file \in Nat
      BY <3>1
    <3>3. \/ ticket' = [ticket EXCEPT !.dir = @ + 1]
          \/ ticket' = [ticket EXCEPT !.file = @ + 1]
      BY <1>3 DEF CreateId
    <3>4. /\ ticket'.dir \in {ticket.dir, ticket.dir + 1}
          /\ ticket'.file \in {ticket.file, ticket.file + 1}
      BY <3>1, <3>3
    <3> QED
      BY <3>2, <3>4
  <2> QED
    BY <1>2, <2>1, <2>2, UserQuiet, FileQuiet, DirQuiet
       DEF Effect, DiskEffect, UserOps, FileOps, DirOps
<1>4. CASE AddDirectory
  <2>1. w.op = "add_dir" /\ UNCHANGED <<user, file, stored, ticket>>
    BY <1>1, <1>4 DEF AddDirectory
  <2>2. DirEffect(w)
    <3>1. dir' = Put([dir EXCEPT ![w.parent].directories_contained = @ \cup {w.dir}],
                     w.dir, EmptyDir(w.user, w.parent))
      BY <1>1, <1>4 DEF AddDirectory
    <3>2. w.dir \notin DOMAIN dir /\ w.parent \in DOMAIN dir
      BY <1>1, <2>1 DEF Placed
    <3> QED
      BY <1>1, <2>1, <3>1, <3>2, DirAdded
  <2> QED
    BY <1>2, <2>1, <2>2, UserQuiet, FileQuiet, DiskQuiet DEF Effect, UserOps, FileOps
<1>5. CASE AddFile
  <2>1. w.op = "add_file" /\ UNCHANGED <<user, stored, ticket>>
    BY SMTT(30), <1>1, <1>5 DEF AddFile
  <2>2. FileEffect(w) /\ DirEffect(w)
    <3>1. /\ file' = Put(file, w.file, NewRecord(w.user, w.dir, w.name))
          /\ dir' = [dir EXCEPT ![w.dir].files_contained = @ \cup {w.file}]
      BY <1>1, <1>5 DEF AddFile
    <3>2. w.file \notin DOMAIN file
      BY <1>1, <2>1 DEF Placed, FreshFile
    <3> QED
      BY <1>1, <2>1, <3>1, <3>2, FileAdded
  <2> QED
    BY <1>2, <2>1, <2>2, UserQuiet, DiskQuiet DEF Effect, UserOps
<1>6. CASE PhysicalFile
  <2>1. /\ UNCHANGED <<user, dir, file, ticket>>
        /\ \/ w.op = "save"   /\ stored' = stored \cup {w.blob}
           \/ w.op = "remove" /\ stored' = stored \ {w.blob}
    <3>1. /\ Next1("save") => w.op = "save"
          /\ Next1("remove") => w.op = "remove"
      BY <1>1
    <3> QED
      BY <1>1, <1>6, <3>1 DEF PhysicalFile
  <2>2. DiskEffect(w)
    BY SMTT(30), <2>1 DEF DiskEffect, TypeOK, CatalogAssumption
  <2> QED
    BY <1>2, <2>1, <2>2, UserQuiet, FileQuiet, DirQuiet DEF Effect, UserOps, FileOps, DirOps
<1>7. CASE ModifyUser
  <2>1. /\ UNCHANGED <<dir, file, stored, ticket>>
        /\ \/ w.op = "list_share"   /\ user' = [user EXCEPT ![w.user].shared_files = @ \cup {w.file}]
           \/ w.op = "unlist_share" /\ user' = [user EXCEPT ![w.user].shared_files = @ \ {w.file}]
           \/ w.op = "trash"        /\ user' = [user EXCEPT ![w.user].files_deleted[w.file] = @ + 1]
           \/ w.op = "empty_trash"  /\ user' = Without(w.user, w.files)
    <3>1. /\ Next1("list_share") => w.op = "list_share"
          /\ Next1("unlist_share") => w.op = "unlist_share"
          /\ Next1("trash") => w.op = "trash"
          /\ Next1("empty_trash") => w.op = "empty_trash"
      BY SMTT(30), <1>1
    <3> QED
      BY ZenonT(40), <1>1, <1>7, <3>1 DEF ModifyUser
  <2>2. UserEffect(w)
    BY ZenonT(40), <1>1, <2>1, UserWritten
  <2> QED
    BY ZenonT(40), <1>2, <2>1, <2>2, FileQuiet, DirQuiet, DiskQuiet DEF Effect, FileOps, DirOps
<1>8. CASE ModifyFile
  <2>1. /\ UNCHANGED <<user, dir, stored, ticket>>
        /\ \/ w.op = "grant_share"  /\ file' = [file EXCEPT ![w.file].users_shared = @ \cup {w.user}]
           \/ w.op = "revoke_share" /\ file' = [file EXCEPT ![w.file].users_shared = @ \ {w.user}]
           \/ w.op = "adopt"        /\ file' = [file EXCEPT ![w.file].parent_directory = w.dir]
           \/ w.op = "revise"       /\ file' = [file EXCEPT ![w.file].revision = @ + 1]
    <3>1. /\ Next1("grant_share") => w.op = "grant_share"
          /\ Next1("revoke_share") => w.op = "revoke_share"
          /\ Next1("adopt") => w.op = "adopt"
          /\ Next1("revise") => w.op = "revise"
      BY SMTT(30), <1>1
    <3> QED
      BY <1>1, <1>8, <3>1 DEF ModifyFile
  <2>2. FileEffect(w)
    BY SMTT(30), <2>1, FileWritten
  <2> QED
    BY SMTT(30), <1>2, <2>1, <2>2, UserQuiet, DirQuiet, DiskQuiet DEF Effect, UserOps, DirOps
<1>9. CASE ModifyDirectory
  <2>1. /\ UNCHANGED <<user, file, stored, ticket>>
        /\ \/ w.op = "unlist"     /\ dir' = [dir EXCEPT ![w.dir].files_contained = @ \ {w.file}]
           \/ w.op = "relist"     /\ dir' = [dir EXCEPT ![w.dir].files_contained = @ \cup {w.file}]
           \/ w.op = "unlist_dir" /\ dir' = [dir EXCEPT ![w.dir].directories_contained = @ \ {w.child}]
    <3>1. /\ Next1("unlist") => w.op = "unlist"
          /\ Next1("relist") => w.op = "relist"
          /\ Next1("unlist_dir") => w.op = "unlist_dir"
      BY SMTT(30), <1>1
    <3> QED
      BY <1>1, <1>9, <3>1 DEF ModifyDirectory
  <2>2. DirEffect(w)
    BY ZenonT(40), <2>1, DirWritten
  <2> QED
    BY SMTT(30), <1>2, <2>1, <2>2, UserQuiet, FileQuiet, DiskQuiet DEF Effect, UserOps, FileOps
<1>10. CASE EraseRecord
  <2>1. /\ UNCHANGED <<user, stored, ticket>>
        /\ \/ w.op = "erase_dir"  /\ dir' = Erase(dir, {w.dir}) /\ file' = file
           \/ w.op = "erase_file" /\ file' = Erase(file, {w.file}) /\ dir' = dir
    <3>1. /\ Next1("erase_dir") => w.op = "erase_dir"
          /\ Next1("erase_file") => w.op = "erase_file"
      BY <1>1
    <3> QED
      BY <1>1, <1>10, <3>1 DEF EraseRecord
  <2>2. CASE w.op = "erase_dir"
    <3>1. dir' = Erase(dir, {w.dir}) /\ file' = file
      BY <2>1, <2>2
    <3>2. DirEffect(w)
      BY <2>2, <3>1, DirErased
    <3> QED
      BY <1>2, <2>1, <2>2, <3>1, <3>2, UserQuiet, FileQuiet, DiskQuiet DEF Effect, UserOps, FileOps
  <2>3. CASE w.op = "erase_file"
    <3>1. file' = Erase(file, {w.file}) /\ dir' = dir
      BY <2>1, <2>3
    <3>2. FileEffect(w)
      BY <2>3, <3>1, FileErased
    <3> QED
      BY <1>2, <2>1, <2>3, <3>1, <3>2, UserQuiet, DirQuiet, DiskQuiet DEF Effect, UserOps, DirOps
  <2> QED
    BY <2>1, <2>2, <2>3
<1> QED
  BY <1>3, <1>4, <1>5, <1>6, <1>7, <1>8, <1>9, <1>10 DEF Write

\* The same, element by element.
LEMMA UserAfter ==
  ASSUME NEW w, UserEffect(w), NEW v \in Users
  PROVE  /\ user'[v].dir_root = user[v].dir_root
         /\ \A f : f \in user'[v].shared_files <=>
              \/ w.op = "list_share" /\ w.user = v /\ f = w.file
              \/ f \in user[v].shared_files /\ ~(w.op = "unlist_share" /\ w.user = v /\ f = w.file)
<1>1. /\ user'[v].dir_root = user[v].dir_root
      /\ user'[v].shared_files =
           IF w.op = "list_share" /\ w.user = v THEN user[v].shared_files \cup {w.file}
           ELSE IF w.op = "unlist_share" /\ w.user = v THEN user[v].shared_files \ {w.file}
           ELSE user[v].shared_files
  BY DEF UserEffect
<1>2. CASE w.op = "list_share" /\ w.user = v
  BY <1>1, <1>2
<1>3. CASE w.op = "unlist_share" /\ w.user = v
  BY <1>1, <1>3
<1>4. CASE ~(w.op \in {"list_share", "unlist_share"} /\ w.user = v)
  BY <1>1, <1>4
<1> QED
  BY <1>2, <1>3, <1>4

LEMMA FilesAfter ==
  ASSUME NEW w, FileEffect(w), NEW f
  PROVE  /\ f \in DOMAIN file' <=> \/ w.op = "add_file" /\ f = w.file
                                   \/ f \in DOMAIN file /\ ~(w.op = "erase_file" /\ f = w.file)
         /\ f \in DOMAIN file /\ f \in DOMAIN file' =>
              /\ file'[f].owner = file[f].owner
              /\ ~(w.op = "adopt" /\ w.file = f) =>
                   file'[f].parent_directory = file[f].parent_directory
              /\ ~(w.op = "revise" /\ w.file = f) => file'[f].revision = file[f].revision
              /\ w.op = "adopt" /\ w.file = f => file'[f].parent_directory = w.dir
              /\ w.op = "revise" /\ w.file = f => file'[f].revision = file[f].revision + 1
              /\ \A v : v \in file'[f].users_shared <=>
                   \/ w.op = "grant_share" /\ w.file = f /\ v = w.user
                   \/ /\ v \in file[f].users_shared
                      /\ ~(w.op = "revoke_share" /\ w.file = f /\ v = w.user)
         /\ w.op = "add_file" /\ f = w.file =>
              /\ file'[f].owner = w.user /\ file'[f].users_shared = {}
              /\ file'[f].parent_directory = w.dir /\ file'[f].revision = 1
<1>1. f \in DOMAIN file' <=> \/ w.op = "add_file" /\ f = w.file
                             \/ f \in DOMAIN file /\ ~(w.op = "erase_file" /\ f = w.file)
  <2>1. DOMAIN file' = IF w.op = "add_file" THEN DOMAIN file \cup {w.file}
                       ELSE IF w.op = "erase_file" THEN DOMAIN file \ {w.file} ELSE DOMAIN file
    BY DEF FileEffect
  <2>2. CASE w.op = "add_file"
    BY <2>1, <2>2
  <2>3. CASE w.op = "erase_file"
    BY <2>1, <2>3
  <2>4. CASE w.op \notin {"add_file", "erase_file"}
    BY <2>1, <2>4
  <2> QED
    BY <2>2, <2>3, <2>4
<1>2. ASSUME f \in DOMAIN file, f \in DOMAIN file'
      PROVE  /\ file'[f].owner = file[f].owner
             /\ ~(w.op = "adopt" /\ w.file = f) =>
                  file'[f].parent_directory = file[f].parent_directory
             /\ ~(w.op = "revise" /\ w.file = f) => file'[f].revision = file[f].revision
             /\ w.op = "adopt" /\ w.file = f => file'[f].parent_directory = w.dir
             /\ w.op = "revise" /\ w.file = f => file'[f].revision = file[f].revision + 1
             /\ \A v : v \in file'[f].users_shared <=>
                  \/ w.op = "grant_share" /\ w.file = f /\ v = w.user
                  \/ /\ v \in file[f].users_shared
                     /\ ~(w.op = "revoke_share" /\ w.file = f /\ v = w.user)
  <2>1. /\ file'[f].owner = file[f].owner
        /\ file'[f].users_shared =
             IF w.op = "grant_share" /\ w.file = f THEN file[f].users_shared \cup {w.user}
             ELSE IF w.op = "revoke_share" /\ w.file = f THEN file[f].users_shared \ {w.user}
             ELSE file[f].users_shared
        /\ file'[f].parent_directory =
             IF w.op = "adopt" /\ w.file = f THEN w.dir ELSE file[f].parent_directory
        /\ file'[f].revision =
             IF w.op = "revise" /\ w.file = f THEN file[f].revision + 1 ELSE file[f].revision
    BY <1>2 DEF FileEffect
  <2>2. \A v : v \in file'[f].users_shared <=>
                  \/ w.op = "grant_share" /\ w.file = f /\ v = w.user
                  \/ /\ v \in file[f].users_shared
                     /\ ~(w.op = "revoke_share" /\ w.file = f /\ v = w.user)
    <3>2. CASE w.op = "grant_share" /\ w.file = f
      BY <2>1, <3>2
    <3>3. CASE w.op = "revoke_share" /\ w.file = f
      BY <2>1, <3>3
    <3>4. CASE ~(w.op \in {"grant_share", "revoke_share"} /\ w.file = f)
      BY <2>1, <3>4
    <3> QED
      BY <3>2, <3>3, <3>4
  <2> QED
    BY <2>1, <2>2
<1>3. w.op = "add_file" =>
        /\ file'[w.file].owner = w.user /\ file'[w.file].users_shared = {}
        /\ file'[w.file].parent_directory = w.dir /\ file'[w.file].revision = 1
  BY DEF FileEffect
<1> QED
  BY <1>1, <1>2, <1>3

LEMMA DirsAfter ==
  ASSUME NEW w, DirEffect(w), NEW d
  PROVE  /\ d \in DOMAIN dir' <=> \/ w.op = "add_dir" /\ d = w.dir
                                  \/ d \in DOMAIN dir /\ ~(w.op = "erase_dir" /\ d = w.dir)
         /\ d \in DOMAIN dir /\ d \in DOMAIN dir' =>
              /\ dir'[d].owner = dir[d].owner
              /\ dir'[d].parent_directory = dir[d].parent_directory
              /\ \A f : f \in dir'[d].files_contained <=>
                   \/ w.op \in {"relist", "add_file"} /\ w.dir = d /\ f = w.file
                   \/ /\ f \in dir[d].files_contained
                      /\ ~(w.op = "unlist" /\ w.dir = d /\ f = w.file)
              /\ \A c : c \in dir'[d].directories_contained <=>
                   \/ w.op = "add_dir" /\ w.parent = d /\ c = w.dir
                   \/ /\ c \in dir[d].directories_contained
                      /\ ~(w.op = "unlist_dir" /\ w.dir = d /\ c = w.child)
         /\ w.op = "add_dir" /\ d = w.dir =>
              /\ dir'[d].owner = w.user /\ dir'[d].parent_directory = w.parent
              /\ dir'[d].files_contained = {} /\ dir'[d].directories_contained = {}
<1>1. d \in DOMAIN dir' <=> \/ w.op = "add_dir" /\ d = w.dir
                            \/ d \in DOMAIN dir /\ ~(w.op = "erase_dir" /\ d = w.dir)
  <2>1. DOMAIN dir' = IF w.op = "add_dir" THEN DOMAIN dir \cup {w.dir}
                      ELSE IF w.op = "erase_dir" THEN DOMAIN dir \ {w.dir} ELSE DOMAIN dir
    BY DEF DirEffect
  <2>2. CASE w.op = "add_dir"
    BY <2>1, <2>2
  <2>3. CASE w.op = "erase_dir"
    BY <2>1, <2>3
  <2>4. CASE w.op \notin {"add_dir", "erase_dir"}
    BY <2>1, <2>4
  <2> QED
    BY <2>2, <2>3, <2>4
<1>2. ASSUME d \in DOMAIN dir, d \in DOMAIN dir'
      PROVE  /\ dir'[d].owner = dir[d].owner
             /\ dir'[d].parent_directory = dir[d].parent_directory
             /\ \A f : f \in dir'[d].files_contained <=>
                  \/ w.op \in {"relist", "add_file"} /\ w.dir = d /\ f = w.file
                  \/ /\ f \in dir[d].files_contained
                     /\ ~(w.op = "unlist" /\ w.dir = d /\ f = w.file)
             /\ \A c : c \in dir'[d].directories_contained <=>
                  \/ w.op = "add_dir" /\ w.parent = d /\ c = w.dir
                  \/ /\ c \in dir[d].directories_contained
                     /\ ~(w.op = "unlist_dir" /\ w.dir = d /\ c = w.child)
  <2>1. /\ dir'[d].owner = dir[d].owner
        /\ dir'[d].parent_directory = dir[d].parent_directory
        /\ dir'[d].files_contained =
             IF w.op = "unlist" /\ w.dir = d THEN dir[d].files_contained \ {w.file}
             ELSE IF w.op \in {"relist", "add_file"} /\ w.dir = d
                  THEN dir[d].files_contained \cup {w.file}
             ELSE dir[d].files_contained
        /\ dir'[d].directories_contained =
             IF w.op = "unlist_dir" /\ w.dir = d THEN dir[d].directories_contained \ {w.child}
             ELSE IF w.op = "add_dir" /\ w.parent = d
                  THEN dir[d].directories_contained \cup {w.dir}
             ELSE dir[d].directories_contained
    BY <1>2 DEF DirEffect
  <2>2. \A f : f \in dir'[d].files_contained <=>
                  \/ w.op \in {"relist", "add_file"} /\ w.dir = d /\ f = w.file
                  \/ /\ f \in dir[d].files_contained
                     /\ ~(w.op = "unlist" /\ w.dir = d /\ f = w.file)
    <3>2. CASE w.op \in {"relist", "add_file"} /\ w.dir = d
      BY <2>1, <3>2
    <3>3. CASE w.op = "unlist" /\ w.dir = d
      BY <2>1, <3>3
    <3>4. CASE ~(w.op \in {"relist", "add_file", "unlist"} /\ w.dir = d)
      BY <2>1, <3>4
    <3> QED
      BY <3>2, <3>3, <3>4
  <2>3. \A c : c \in dir'[d].directories_contained <=>
                  \/ w.op = "add_dir" /\ w.parent = d /\ c = w.dir
                  \/ /\ c \in dir[d].directories_contained
                     /\ ~(w.op = "unlist_dir" /\ w.dir = d /\ c = w.child)
    <3>2. CASE w.op = "add_dir" /\ w.parent = d
      BY <2>1, <3>2
    <3>3. CASE w.op = "unlist_dir" /\ w.dir = d
      BY <2>1, <3>3
    <3>4. CASE ~(w.op = "add_dir" /\ w.parent = d) /\ ~(w.op = "unlist_dir" /\ w.dir = d)
      BY <2>1, <3>4
    <3> QED
      BY <3>2, <3>3, <3>4
  <2> QED
    BY <2>1, <2>2, <2>3
<1>3. w.op = "add_dir" =>
        /\ dir'[w.dir].owner = w.user /\ dir'[w.dir].parent_directory = w.parent
        /\ dir'[w.dir].files_contained = {} /\ dir'[w.dir].directories_contained = {}
  BY DEF DirEffect
<1> QED
  BY <1>1, <1>2, <1>3

LEMMA DiskAfter ==
  ASSUME NEW w, DiskEffect(w)
  PROVE  \A b : b \in stored' <=> \/ w.op = "save" /\ b = w.blob
                                  \/ b \in stored /\ ~(w.op = "remove" /\ b = w.blob)
<1>1. stored' = IF w.op = "save" THEN stored \cup {w.blob}
                ELSE IF w.op = "remove" THEN stored \ {w.blob} ELSE stored
  BY DEF DiskEffect
<1>2. CASE w.op = "save"
  BY <1>1, <1>2
<1>3. CASE w.op = "remove"
  BY <1>1, <1>3
<1>4. CASE w.op \notin {"save", "remove"}
  BY <1>1, <1>4
<1> QED
  BY <1>2, <1>3, <1>4

\* Who has what in the trash afterwards.
LEMMA TrashAfter ==
  ASSUME TypeOK, NEW w, UserEffect(w), NEW v \in Users, NEW f \in FileId
  PROVE  f \in Trash(v)' <=> \/ w.op = "trash" /\ w.user = v /\ w.file = f
                             \/ /\ f \in Trash(v)
                                /\ ~(w.op = "empty_trash" /\ w.user = v /\ f \in w.files)
<1>1. user[v].files_deleted[f] \in Nat
  BY DEF TypeOK, UserRecord
<1>2. user'[v].files_deleted[f] =
         IF w.op = "trash" /\ w.user = v /\ w.file = f THEN user[v].files_deleted[f] + 1
         ELSE IF w.op = "empty_trash" /\ w.user = v /\ f \in w.files THEN 0
         ELSE user[v].files_deleted[f]
  BY DEF UserEffect
<1> QED
  BY <1>1, <1>2 DEF Trash, FileId

LEMMA InTrashAfter ==
  ASSUME TypeOK, NEW w, UserEffect(w), FileEffect(w), NEW f \in DOMAIN file, f \in DOMAIN file'
  PROVE  InTrash(f)' <=> \/ w.op = "trash" /\ w.user = file[f].owner /\ w.file = f
                         \/ /\ InTrash(f)
                            /\ ~(w.op = "empty_trash" /\ w.user = file[f].owner /\ f \in w.files)
<1>0. file[f].owner \in Users /\ f \in FileId
  BY DEF TypeOK, FileRecord
<1>1. PICK o \in Users : o = file[f].owner
  BY <1>0
<1>2. file'[f].owner = o
  BY <1>1 DEF FileEffect
<1>3. (InTrash(f) <=> f \in Trash(o)) /\ (InTrash(f)' <=> f \in Trash(o)')
  BY <1>1, <1>2 DEF InTrash, Trash, FileId
<1>4. f \in Trash(o)' <=> \/ w.op = "trash" /\ w.user = o /\ w.file = f
                          \/ /\ f \in Trash(o)
                             /\ ~(w.op = "empty_trash" /\ w.user = o /\ f \in w.files)
  BY <1>0, <1>1, TrashAfter
<1> QED
  BY <1>1, <1>3, <1>4

----------------------------------------------------------------------------
(* What belongs to whom, and what the other writes of the request are      *)
(* about, stays.                                                           *)

LEMMA OwnedKept ==
  ASSUME TypeOK, CatalogAssumption, StoreInv, Owned, NEW u \in Users, NEW s, NEW w \in Writes, s[1] = w,
         Local(u, w), Placed(s, 1), Effect(w)
  PROVE  Owned'
<1>1. /\ w.op = "add_dir" => /\ w.dir \in Nat /\ w.dir < ticket.dir /\ w.dir \notin DOMAIN dir
                             /\ w.parent \in DOMAIN dir
      /\ w.op = "add_file" => FreshFile(w.file)
  BY WriteFields DEF Placed, DirId
<1>2. UserEffect(w) /\ FileEffect(w) /\ DirEffect(w) /\ DiskEffect(w)
  BY DEF Effect
<1>4. /\ ticket.dir \in Nat /\ ticket'.dir \in Nat /\ ticket.dir <= ticket'.dir
      /\ ticket.file \in Nat /\ ticket'.file \in Nat /\ ticket.file <= ticket'.file
  BY <1>2 DEF DiskEffect
<1>5. ASSUME NEW d \in DOMAIN dir', NEW c \in dir'[d].directories_contained
      PROVE  /\ c < ticket'.dir
             /\ c \in DOMAIN dir' => dir'[c].parent_directory = d /\ dir'[c].owner = dir'[d].owner
  <2>1. d \in DOMAIN dir
    BY <1>2, <1>5, DirsAfter
  <2>2. CASE c \in dir[d].directories_contained
    <3>1. c < ticket.dir /\ (c \in DOMAIN dir => dir[c].parent_directory = d /\ dir[c].owner = dir[d].owner)
      BY <2>1, <2>2 DEF Owned
    <3>2. w.op = "add_dir" => c # w.dir
      BY <2>1, <2>2 DEF Local, NewDir
    <3>3. c \in DOMAIN dir' => c \in DOMAIN dir
      BY <1>2, <3>2, DirsAfter
    <3>4. c \in Nat
      BY <2>1, <2>2 DEF TypeOK, DirRecord, DirId
    <3>5. c < ticket'.dir
      BY <1>4, <3>1, <3>4
    <3> QED
      BY <1>2, <1>5, <2>1, <3>1, <3>3, <3>5, DirsAfter
  <2>3. CASE c \notin dir[d].directories_contained
    <3>1. w.op = "add_dir" /\ w.parent = d /\ c = w.dir
      BY <1>2, <1>5, <2>1, <2>3, DirsAfter
    <3>2. dir'[c].parent_directory = d /\ dir'[c].owner = u
      BY <1>2, <3>1, DirsAfter DEF Local
    <3>3. dir'[d].owner = u
      BY <1>2, <1>5, <2>1, <3>1, DirsAfter DEF Local, OwnDir
    <3> QED
      BY <1>1, <1>4, <3>1, <3>2, <3>3
  <2> QED
    BY <2>2, <2>3
<1>6. ASSUME NEW d \in DOMAIN dir', NEW f \in dir'[d].files_contained \cap DOMAIN file'
      PROVE  file'[f].owner = dir'[d].owner
  <2>1. d \in DOMAIN dir
    BY <1>2, <1>6, DirsAfter
  <2>2. dir'[d].owner = dir[d].owner
    BY <1>2, <1>6, <2>1, DirsAfter
  <2>3. CASE f \in dir[d].files_contained
    <3>1. w.op = "add_file" => f # w.file
      BY <1>1, <2>1, <2>3 DEF FreshFile
    <3>2. f \in DOMAIN file
      BY <1>2, <1>6, <3>1, FilesAfter
    <3> QED
      BY <1>2, <1>6, <2>1, <2>2, <2>3, <3>2, FilesAfter DEF Owned
  <2>4. CASE f \notin dir[d].files_contained
    <3>1. w.op \in {"relist", "add_file"} /\ w.dir = d /\ f = w.file
      BY <1>2, <1>6, <2>1, <2>4, DirsAfter
    <3>2. dir[d].owner = u
      BY <2>1, <3>1 DEF Local, OwnDir
    <3>3. file'[f].owner = u
      <4>1. CASE w.op = "add_file"
        BY <1>2, <3>1, <4>1, FilesAfter DEF Local
      <4>2. CASE w.op = "relist"
        <5>1. f \in DOMAIN file
          BY <1>2, <1>6, <4>2, FilesAfter
        <5> QED
          BY <1>2, <1>6, <3>1, <4>2, <5>1, FilesAfter DEF Local, OwnFile
      <4> QED
        BY <3>1, <4>1, <4>2
    <3> QED
      BY <2>2, <3>2, <3>3
  <2> QED
    BY <2>3, <2>4
<1>7. ASSUME NEW f \in DOMAIN file'
      PROVE  /\ file'[f].parent_directory < ticket'.dir
             /\ file'[f].parent_directory \in DOMAIN dir' =>
                  dir'[file'[f].parent_directory].owner = file'[f].owner
  <2> DEFINE p == file'[f].parent_directory
             o == file'[f].owner
  <2>1. ASSUME NEW x \in DOMAIN dir', x \in DOMAIN dir PROVE dir'[x].owner = dir[x].owner
    BY <1>2, <2>1, DirsAfter
  <2>2. ASSUME NEW x \in DOMAIN dir', x \notin DOMAIN dir PROVE w.op = "add_dir" /\ x = w.dir
    BY <1>2, <2>2, DirsAfter
  <2>3. w.dir \in Nat \/ w.op \notin {"adopt", "add_file"}
    BY WriteFields DEF DirId
  <2>4. \/ /\ f \in DOMAIN file /\ p = file[f].parent_directory /\ o = file[f].owner
           /\ p \in Nat
           /\ w.op = "add_dir" => p # w.dir
        \/ w.op \in {"adopt", "add_file"} /\ p = w.dir /\ o = u
    <3>1. CASE f \in DOMAIN file /\ ~(w.op = "adopt" /\ w.file = f)
      <4>1. p = file[f].parent_directory /\ o = file[f].owner
        BY <1>2, <1>7, <3>1, FilesAfter
      <4>2. p \in Nat
        BY <3>1, <4>1 DEF TypeOK, FileRecord, DirId
      <4>3. w.op = "add_dir" => p # w.dir
        BY <3>1, <4>1 DEF Local, NewDir
      <4> QED
        BY <3>1, <4>1, <4>2, <4>3
    <3>2. CASE f \in DOMAIN file /\ w.op = "adopt" /\ w.file = f
      <4>1. p = w.dir /\ o = file[f].owner
        BY <1>2, <1>7, <3>2, FilesAfter
      <4>2. file[f].owner = u
        BY <3>2 DEF Local, OwnFile
      <4> QED
        BY <3>2, <4>1, <4>2
    <3>3. CASE f \notin DOMAIN file
      <4>1. w.op = "add_file" /\ w.file = f
        BY <1>2, <1>7, <3>3, FilesAfter
      <4>2. p = w.dir /\ o = u
        BY <1>2, <4>1, FilesAfter DEF Local
      <4> QED
        BY <4>1, <4>2
    <3> QED
      BY <3>1, <3>2, <3>3
  <2> HIDE DEF p, o
  <2>5. p \in Nat /\ p < ticket.dir /\ (p \in DOMAIN dir => dir[p].owner = o)
    <3>1. CASE w.op \in {"adopt", "add_file"} /\ p = w.dir /\ o = u
      BY <2>3, <3>1 DEF Local, OwnDir
    <3>2. CASE f \in DOMAIN file /\ p = file[f].parent_directory /\ o = file[f].owner /\ p \in Nat
      BY <3>2 DEF Owned
    <3> QED
      BY <2>4, <3>1, <3>2
  <2>6. w.op = "add_dir" => p # w.dir
    BY <2>4
  <2>7. p < ticket'.dir /\ (p \in DOMAIN dir' => dir'[p].owner = o)
    BY <1>4, <2>1, <2>2, <2>5, <2>6
  <2> QED
    BY <2>7 DEF p, o
<1>8. ASSUME NEW v \in Users
      PROVE  /\ user'[v].dir_root \in DOMAIN dir'
             /\ dir'[user'[v].dir_root].owner = v
             /\ dir'[user'[v].dir_root].parent_directory = NoParent
             /\ \A f \in user'[v].shared_files : f < ticket'.file
  <2> DEFINE r == user[v].dir_root
  <2>1. /\ r \in DOMAIN dir /\ dir[r].owner = v /\ dir[r].parent_directory = NoParent
        /\ \A f \in user[v].shared_files : f < ticket.file
    BY DEF Owned
  <2>2. user'[v].dir_root = r
    BY <1>2, UserAfter
  <2>3. w.op = "erase_dir" => w.dir # r
    BY <2>1 DEF Local, OwnDir
  <2>4. r \in DOMAIN dir' /\ dir'[r].owner = v /\ dir'[r].parent_directory = NoParent
    BY <1>2, <2>1, <2>3, DirsAfter
  <2>5. ASSUME NEW f \in user'[v].shared_files PROVE f < ticket'.file
    <3>1. \/ f \in user[v].shared_files
          \/ w.op = "list_share" /\ f = w.file
      BY <1>2, <2>5, UserAfter
    <3>2. f < ticket.file
      BY <2>1, <3>1 DEF Local
    <3>3. f \in Nat
      BY <3>1, WriteFields DEF TypeOK, UserRecord, FileId, SharingOps
    <3> QED
      BY <1>4, <3>2, <3>3
  <2> QED
    BY <2>2, <2>4, <2>5
<1> QED
  BY <1>5, <1>6, <1>7, <1>8 DEF Owned, Users, NoParent

LEMMA LocalKept ==
  ASSUME TypeOK, NEW u \in Users, NEW w \in Writes, Local(u, w), Effect(w),
         NEW x \in Writes, Local(u, x), x.op \in {"add_dir", "add_file"} => w.op = "draw"
  PROVE  Local(u, x)'
<1>1. UserEffect(w) /\ FileEffect(w) /\ DirEffect(w) /\ DiskEffect(w) /\ hurt' = hurt
  BY DEF Effect
<1>2. ASSUME NEW f, OwnFile(u, f) PROVE OwnFile(u, f)'
  <2>1. w.op = "add_file" => w.user = u
    BY DEF Local
  <2> QED
    BY <1>1, <1>2, <2>1, FilesAfter DEF OwnFile
<1>3. ASSUME NEW d, OwnDir(u, d) PROVE OwnDir(u, d)'
  <2>1. w.op = "add_dir" => w.user = u
    BY DEF Local
  <2> QED
    BY <1>1, <1>3, <2>1, DirsAfter DEF OwnDir
<1>4. ASSUME NEW f, Untrashed(f) PROVE OwnFile(u, f)' \/ Untrashed(f)'
  <2> SUFFICES ASSUME f \in DOMAIN file', file'[f].owner # u, file'[f].owner \notin hurt
               PROVE  ~InTrash(f)'
    BY <1>1 DEF OwnFile, Untrashed
  <2>1. w.op = "add_file" => w.user = u
    BY DEF Local
  <2>2. f \in DOMAIN file /\ file'[f].owner = file[f].owner
    BY <1>1, <2>1, FilesAfter
  <2>3. ~InTrash(f)
    BY <1>4, <2>2 DEF Untrashed
  <2>4. ~(w.op = "trash" /\ w.user = file[f].owner)
    BY <2>2 DEF Local
  <2> QED
    BY <1>1, <2>2, <2>3, <2>4, InTrashAfter
<1>5. /\ ticket.dir \in Nat /\ ticket'.dir \in Nat /\ ticket.dir <= ticket'.dir
      /\ ticket.file \in Nat /\ ticket'.file \in Nat /\ ticket.file <= ticket'.file
  BY <1>1 DEF DiskEffect
<1>6. x.op \in {"list_share", "grant_share"} => x.file < ticket'.file /\ OwnFile(u, x.file)'
  <2> SUFFICES ASSUME x.op \in {"list_share", "grant_share"} PROVE x.file < ticket'.file /\ OwnFile(u, x.file)'
    OBVIOUS
  <2>1. x.file < ticket.file /\ OwnFile(u, x.file)
    BY DEF Local
  <2>2. x.file \in Nat
    BY WriteFields DEF SharingOps, FileId
  <2>3. PICK f \in Nat : f = x.file
    BY <2>2
  <2>4. f < ticket'.file
    BY <1>5, <2>1, <2>3
  <2> QED
    BY <1>2, <2>1, <2>3, <2>4
<1>7. x.op \in {"relist", "adopt", "add_file"} => x.dir < ticket'.dir
  <2> SUFFICES ASSUME x.op \in {"relist", "adopt", "add_file"} PROVE x.dir < ticket'.dir
    OBVIOUS
  <2>1. x.dir < ticket.dir
    BY DEF Local
  <2>2. x.dir \in Nat
    BY WriteFields DEF DirId
  <2>3. PICK d \in Nat : d = x.dir
    BY <2>2
  <2> QED
    BY <1>5, <2>1, <2>3
<1>8. x.op \in {"add_dir", "add_file"} =>
        /\ DOMAIN dir' = DOMAIN dir /\ DOMAIN file' = DOMAIN file
        /\ \A d \in DOMAIN dir : dir'[d].directories_contained = dir[d].directories_contained
        /\ \A f \in DOMAIN file : file'[f].parent_directory = file[f].parent_directory
        /\ \A v \in Users : user'[v].shared_files = user[v].shared_files
  BY <1>1 DEF UserEffect, DirEffect, FileEffect
<1>9. x.op = "add_dir" => NewDir(x.dir)'
  BY <1>8 DEF NewDir, Local
<1>10. x.op = "add_file" => NewFile1(x.file)'
  BY <1>8 DEF NewFile1, Local, Users
<1>11. x.op = "erase_dir" => x.dir # user'[u].dir_root
  BY <1>1, UserAfter DEF Local
<1>12. x.op = "unlist_share" => x.user = u \/ OwnFile(u, x.file)'
  BY <1>2 DEF Local
<1>13. x.op = "revoke_share" => OwnFile(u, x.file)' \/ (x.user = u /\ Untrashed(x.file)')
  <2> SUFFICES ASSUME x.op = "revoke_share" PROVE OwnFile(u, x.file)' \/ (x.user = u /\ Untrashed(x.file)')
    OBVIOUS
  <2>1. PICK f : f = x.file
    OBVIOUS
  <2>2. OwnFile(u, f) \/ (x.user = u /\ Untrashed(f))
    BY <2>1 DEF Local
  <2>3. OwnFile(u, f)' \/ (x.user = u /\ Untrashed(f)')
    BY <1>2, <1>4, <2>2
  <2> QED
    BY <2>1, <2>3
<1>14. /\ x.op = "unlist" => OwnDir(u, x.dir)'
       /\ x.op \in {"relist", "adopt"} => OwnDir(u, x.dir)' /\ OwnFile(u, x.file)'
       /\ x.op = "unlist_dir" => OwnDir(u, x.dir)'
       /\ x.op = "erase_dir" => OwnDir(u, x.dir)'
       /\ x.op \in {"erase_file", "revise"} => OwnFile(u, x.file)'
       /\ x.op = "add_dir" => OwnDir(u, x.parent)'
       /\ x.op = "add_file" => OwnDir(u, x.dir)'
  BY <1>2, <1>3 DEF Local
<1>15. /\ x.op = "trash" => x.user = u
       /\ x.op \in {"save", "remove"} => x.blob[1] = u
       /\ x.op = "empty_trash" => x.user = u
       /\ x.op = "add_dir" => x.user = u
       /\ x.op = "add_file" => x.user = u
  BY DEF Local
<1> QED
  BY <1>6, <1>7, <1>9, <1>10, <1>11, <1>12, <1>13, <1>14, <1>15 DEF Local

----------------------------------------------------------------------------
(* What each write does to what is mended: M are the writes after it.      *)

LEMMA TreeStep ==
  ASSUME TypeOK, StoreInv, Owned, NEW u \in Users, NEW s, NEW w \in Writes, s[1] = w,
         Local(u, w), Effect(w), NEW L, NEW M, L \subseteq M \cup {w},
         u \notin hurt => Good(u, s, 1, {}, M), TreeMended(L)
  PROVE  TreeMended(M)'
<1>1. DirEffect(w) /\ FileEffect(w) /\ hurt' = hurt
  BY DEF Effect
<1>2. w.op = "add_dir" => w.user = u /\ OwnDir(u, w.parent)
  BY DEF Local
<1>3. ASSUME NEW d \in DOMAIN dir', dir'[d].owner \notin hurt
      PROVE  /\ \A c \in dir'[d].directories_contained :
                  c \in DOMAIN dir' \/ EraseDir(d) \in M \/ UnlistDir(d, c) \in M
             /\ dir'[d].files_contained \subseteq DOMAIN file'
  <2>1. CASE d \notin DOMAIN dir
    BY <1>1, <2>1, <1>3, DirsAfter
  <2>2. CASE d \in DOMAIN dir
    <3>1. dir[d].owner \notin hurt
      BY <1>1, <1>3, <2>2, DirsAfter
    <3>2. /\ \A c \in dir[d].directories_contained :
               c \in DOMAIN dir \/ EraseDir(d) \in L \/ UnlistDir(d, c) \in L
          /\ dir[d].files_contained \subseteq DOMAIN file
      BY <2>2, <3>1 DEF TreeMended
    <3>3. ASSUME NEW c \in dir'[d].directories_contained
          PROVE  c \in DOMAIN dir' \/ EraseDir(d) \in M \/ UnlistDir(d, c) \in M
      <4>1. CASE c \notin dir[d].directories_contained
        BY <1>1, <1>3, <2>2, <3>3, <4>1, DirsAfter
      <4>2. CASE c \in dir[d].directories_contained /\ EraseDir(d) \in L
        <5>1. w # EraseDir(d)
          BY <1>1, <1>3, <2>2, DirsAfter, WriteNames
        <5> QED
          BY <4>2, <5>1
      <4>3. CASE c \in dir[d].directories_contained /\ UnlistDir(d, c) \in L
        <5>1. w # UnlistDir(d, c)
          BY <1>1, <1>3, <2>2, <3>3, DirsAfter, WriteNames
        <5> QED
          BY <4>3, <5>1
      <4>4. CASE c \in dir[d].directories_contained /\ c \in DOMAIN dir
        <5> SUFFICES ASSUME c \notin DOMAIN dir' PROVE EraseDir(d) \in M \/ UnlistDir(d, c) \in M
          OBVIOUS
        <5>1. w.op = "erase_dir" /\ w.dir = c
          BY <1>1, <4>4, DirsAfter
        <5>2. dir[c].parent_directory = d /\ dir[c].owner = dir[d].owner
          BY <2>2, <4>4 DEF Owned
        <5>3. u \notin hurt
          BY <3>1, <4>4, <5>1, <5>2 DEF Local, OwnDir
        <5> QED
          BY <4>4, <5>1, <5>2, <5>3 DEF Good
      <4> QED
        BY <3>2, <4>1, <4>2, <4>3, <4>4
    <3>4. ASSUME NEW f \in dir'[d].files_contained
          PROVE  f \in DOMAIN file'
      <4>1. CASE f \in dir[d].files_contained
        <5>1. f \in DOMAIN file
          BY <3>2, <4>1
        <5>2. ~(w.op = "erase_file" /\ f = w.file)
          <6> SUFFICES ASSUME w.op = "erase_file", f = w.file PROVE FALSE
            OBVIOUS
          <6>1. file[f].owner = dir[d].owner
            BY <2>2, <4>1, <5>1 DEF Owned
          <6>2. u \notin hurt
            BY <3>1, <5>1, <6>1 DEF Local, OwnFile
          <6> QED
            BY <2>2, <4>1, <6>2 DEF Good
        <5> QED
          BY <1>1, <5>1, <5>2, FilesAfter
      <4>2. CASE f \notin dir[d].files_contained
        <5>1. w.op \in {"relist", "add_file"} /\ w.dir = d /\ f = w.file
          BY <1>1, <1>3, <2>2, <3>4, <4>2, DirsAfter
        <5>2. u \notin hurt
          BY <2>2, <3>1, <5>1 DEF Local, OwnDir
        <5>3. w.op = "relist" => f \in DOMAIN file
          BY <5>1, <5>2 DEF Good
        <5> QED
          BY <1>1, <5>1, <5>3, FilesAfter
      <4> QED
        BY <4>1, <4>2
    <3> QED
      BY <3>3, <3>4
  <2> QED
    BY <2>1, <2>2
<1> QED
  BY <1>1, <1>3 DEF TreeMended, EraseDir, UnlistDir

LEMMA PlaceStep ==
  ASSUME TypeOK, StoreInv, Owned, NEW u \in Users, NEW s, NEW w \in Writes, s[1] = w,
         Local(u, w), Effect(w), Backed(s, 1), Placed(s, 1),
         NEW L, NEW M, NEW O, L \subseteq M \cup {w},
         u \notin hurt => Good(u, s, 1, {}, M), PlaceMended(L, O)
  PROVE  PlaceMended(M, O)'
<1>1. UserEffect(w) /\ DirEffect(w) /\ FileEffect(w) /\ hurt' = hurt
  BY DEF Effect
<1>2. \A f \in DOMAIN file : file[f].owner \in Users /\ f \in FileId
  BY DEF TypeOK, FileRecord
<1>3. ASSUME NEW f \in DOMAIN file', file'[f].owner \notin hurt
      PROVE  /\ ~Listed(f)' => InTrash(f)'
             /\ Listed(f)' /\ InTrash(f)' => \/ Unlist(file'[f].parent_directory, f) \in M
                                             \/ Emptied(M, file'[f].owner, f)
                                             \/ OwesRecovery(O[file'[f].owner], f)
  <2>1. CASE f \notin DOMAIN file
    <3>1. w.op = "add_file" /\ f = w.file
      BY <1>1, <2>1, FilesAfter
    <3>2. w.user = u /\ file'[f].owner = u /\ file'[f].parent_directory = w.dir
      BY <1>1, <3>1, FilesAfter DEF Local
    <3>3. w.dir \in DOMAIN dir
      BY <1>3, <3>1, <3>2 DEF Good
    <3>4. Listed(f)'
      <4>1. w.dir \in DOMAIN dir'
        BY <1>1, <3>1, <3>3, DirsAfter
      <4>2. f \in dir'[w.dir].files_contained
        BY <1>1, <3>1, <3>3, <4>1, DirsAfter
      <4> QED
        BY <3>2, <4>1, <4>2 DEF Listed
    <3>5. ~InTrash(f)'
      <4>1. f \notin Trash(u) /\ f \in FileId
        BY <3>1, WriteFields DEF Placed, FreshFile
      <4>2. f \notin Trash(u)'
        BY <1>1, <3>1, <4>1, TrashAfter
      <4> QED
        BY <3>2, <4>2 DEF InTrash, Trash, FileId
    <3> QED
      BY <3>4, <3>5
  <2>2. CASE f \in DOMAIN file
    <3> DEFINE o == file[f].owner
               p == file[f].parent_directory
    <3>1. /\ file'[f].owner = o /\ o \notin hurt
          /\ InTrash(f)' <=> \/ w.op = "trash" /\ w.user = o /\ w.file = f
                             \/ InTrash(f) /\ ~(w.op = "empty_trash" /\ w.user = o /\ f \in w.files)
      BY <1>1, <1>3, <2>2, FilesAfter, InTrashAfter
    <3>2. /\ ~Listed(f) => InTrash(f)
          /\ Listed(f) /\ InTrash(f) => \/ Unlist(p, f) \in L
                                        \/ Emptied(L, o, f)
                                        \/ OwesRecovery(O[o], f)
      BY <2>2, <3>1 DEF PlaceMended
    <3>3. Listed(f) <=> p \in DOMAIN dir /\ f \in dir[p].files_contained
      BY <2>2 DEF Listed
    <3>4. p \in DOMAIN dir => dir[p].owner = o
      BY <2>2 DEF Owned
    \* A listed file keeps its directory.
    <3>5. Listed(f) => file'[f].parent_directory = p
      <4> SUFFICES ASSUME Listed(f), w.op = "adopt", w.file = f PROVE file'[f].parent_directory = p
        BY <1>1, <2>2, FilesAfter
      <4>1. p = w.dir
        BY <2>2, <3>3 DEF Backed
      <4> QED
        BY <1>1, <2>2, <4>1, FilesAfter
    \* A file comes out of its directory into the trash.
    <3>6. Listed(f) /\ ~Listed(f)' => InTrash(f) /\ InTrash(f)'
      <4> SUFFICES ASSUME Listed(f), ~Listed(f)' PROVE InTrash(f) /\ InTrash(f)'
        OBVIOUS
      <4>1. file'[f].parent_directory = p /\ p \in DOMAIN dir /\ f \in dir[p].files_contained
        BY <3>3, <3>5
      <4>2. ~(p \in DOMAIN dir' /\ f \in dir'[p].files_contained)
        BY <4>1 DEF Listed
      <4>3. \/ w.op = "erase_dir" /\ w.dir = p
            \/ w.op = "unlist" /\ w.dir = p /\ w.file = f
        BY <1>1, <4>1, <4>2, DirsAfter
      <4>4. u = o
        BY <3>4, <4>1, <4>3 DEF Local, OwnDir
      <4>5. Good(u, s, 1, {}, M)
        BY <3>1, <4>4
      <4>6. CASE w.op = "erase_dir" /\ w.dir = p
        BY <4>1, <4>5, <4>6 DEF Good
      <4>7. CASE w.op = "unlist" /\ w.dir = p /\ w.file = f
        <5>1. f \in Trash(u)
          BY <4>5, <4>7 DEF Good
        <5> QED
          BY <3>1, <4>4, <4>7, <5>1 DEF InTrash
      <4> QED
        BY <4>3, <4>6, <4>7
    \* A file comes back to a directory before the trash forgets it.
    <3>7. ~Listed(f) /\ Listed(f)' => Emptied(M, o, f)
      <4> SUFFICES ASSUME ~Listed(f), Listed(f)' PROVE Emptied(M, o, f)
        OBVIOUS
      <4>1. PICK q : q = file'[f].parent_directory
        OBVIOUS
      <4>2. q \in DOMAIN dir' /\ f \in dir'[q].files_contained
        BY <4>1 DEF Listed
      <4>3. q \in DOMAIN dir
        BY <1>1, <4>2, DirsAfter
      <4>4. w.op # "add_file" \/ w.file # f
        BY <2>2 DEF Placed, FreshFile
      <4>5. f \notin dir[q].files_contained
        <5>1. CASE q = p
          BY <3>3, <4>3, <5>1
        <5>2. CASE q # p
          BY <2>2, <4>3, <5>2 DEF StoreInv, ListedWhereItSays
        <5> QED
          BY <5>1, <5>2
      <4>6. w.op = "relist" /\ w.dir = q /\ w.file = f
        BY <1>1, <4>2, <4>3, <4>4, <4>5, DirsAfter
      <4>7. u = o
        BY <2>2, <4>6 DEF Local, OwnFile
      <4> QED
        BY <3>1, <4>6, <4>7 DEF Good
    <3>8. ~Listed(f)' => InTrash(f)'
      <4> SUFFICES ASSUME ~Listed(f)', ~Listed(f) PROVE InTrash(f)'
        BY <3>6
      <4>1. InTrash(f)
        BY <3>2
      <4>2. ~(w.op = "empty_trash" /\ w.user = o /\ f \in w.files)
        <5> SUFFICES ASSUME w.op = "empty_trash", w.user = o, f \in w.files PROVE FALSE
          OBVIOUS
        <5>1. u = o /\ Good(u, s, 1, {}, M)
          BY <3>1 DEF Local
        <5> QED
          BY <2>2, <5>1 DEF Good
      <4> QED
        BY <3>1, <4>1, <4>2
    <3>9. Listed(f)' /\ InTrash(f)' => \/ Unlist(file'[f].parent_directory, f) \in M
                                       \/ Emptied(M, o, f)
                                       \/ OwesRecovery(O[o], f)
      <4> SUFFICES ASSUME Listed(f)', InTrash(f)', Listed(f)
                   PROVE  \/ Unlist(p, f) \in M
                          \/ Emptied(M, o, f)
                          \/ OwesRecovery(O[o], f)
        BY <3>5, <3>7
      <4>1. CASE w.op = "trash" /\ w.user = o /\ w.file = f
        <5>1. Good(u, s, 1, {}, M)
          BY <3>1, <4>1 DEF Local
        <5> QED
          BY <4>1, <5>1 DEF Good
      <4>2. CASE InTrash(f) /\ Unlist(p, f) \in L
        <5>1. w # Unlist(p, f)
          <6> SUFFICES ASSUME w = Unlist(p, f) PROVE FALSE
            OBVIOUS
          <6>1. w.op = "unlist" /\ w.dir = p /\ w.file = f
            BY WriteNames
          <6>2. file'[f].parent_directory = p
            BY <3>5
          <6>3. p \in DOMAIN dir' /\ f \in dir'[p].files_contained
            BY <6>2 DEF Listed
          <6> QED
            BY <1>1, <3>3, <6>1, <6>3, DirsAfter
        <5> QED
          BY <4>2, <5>1
      <4>3. CASE InTrash(f) /\ Emptied(L, o, f)
        <5>1. ~(w.op = "empty_trash" /\ w.user = o /\ f \in w.files)
          BY <3>1
        <5> QED
          BY <4>3, <5>1 DEF Emptied
      <4>4. CASE InTrash(f) /\ OwesRecovery(O[o], f)
        BY <4>4
      <4> QED
        BY <3>1, <3>2, <4>1, <4>2, <4>3, <4>4
    <3> QED
      BY <3>1, <3>8, <3>9
  <2> QED
    BY <2>1, <2>2
<1> QED
  BY <1>1, <1>3 DEF PlaceMended, Unlist, Emptied, OwesRecovery

LEMMA ShareStep ==
  ASSUME TypeOK, StoreInv, NEW u \in Users, NEW s, NEW w \in Writes, s[1] = w,
         Local(u, w), Effect(w), Placed(s, 1),
         NEW L, NEW M, NEW O, L \subseteq M \cup {w},
         u \notin hurt => Good(u, s, 1, {}, M), ShareMended(L, O)
  PROVE  ShareMended(M, O)'
<1>1. UserEffect(w) /\ FileEffect(w) /\ hurt' = hurt
  BY DEF Effect
<1>2. ASSUME NEW f \in DOMAIN file', file'[f].owner \notin hurt
      PROVE  /\ \A v \in Users \ hurt :
                  /\ f \in user'[v].shared_files /\ v \notin file'[f].users_shared =>
                       GrantShare(v, f) \in M \/ OwesGrant(O[file'[f].owner], v, f)
                  /\ f \notin user'[v].shared_files /\ v \in file'[f].users_shared =>
                       \/ RevokeShare(v, f) \in M
                       \/ OwesRevoke(O[file'[f].owner], v, f) \/ OwesLeave(O[v], f)
             /\ InTrash(f)' => \A v \in file'[f].users_shared : RevokeShare(v, f) \in M
  <2>1. CASE f \notin DOMAIN file
    <3>1. w.op = "add_file" /\ f = w.file
      BY <1>1, <2>1, FilesAfter
    <3>2. \A v \in Users : f \notin user'[v].shared_files
      BY <1>1, <3>1, UserAfter DEF Local, NewFile1
    <3>3. file'[f].users_shared = {}
      BY <1>1, <3>1, FilesAfter
    <3> QED
      BY <3>2, <3>3
  <2>2. CASE f \in DOMAIN file
    <3>1. PICK o : o = file[f].owner
      OBVIOUS
    <3>2. /\ file'[f].owner = o /\ o \notin hurt
          /\ InTrash(f)' <=> \/ w.op = "trash" /\ w.user = o /\ w.file = f
                             \/ InTrash(f) /\ ~(w.op = "empty_trash" /\ w.user = o /\ f \in w.files)
      BY <1>1, <1>2, <2>2, <3>1, FilesAfter, InTrashAfter
    <3>3. /\ \A v \in Users \ hurt :
               /\ f \in user[v].shared_files /\ v \notin file[f].users_shared =>
                    GrantShare(v, f) \in L \/ OwesGrant(O[o], v, f)
               /\ f \notin user[v].shared_files /\ v \in file[f].users_shared =>
                    \/ RevokeShare(v, f) \in L
                    \/ OwesRevoke(O[o], v, f) \/ OwesLeave(O[v], f)
          /\ InTrash(f) => \A v \in file[f].users_shared : RevokeShare(v, f) \in L
      BY <2>2, <3>1, <3>2 DEF ShareMended
    <3>4. \A v : v \in file'[f].users_shared <=>
            \/ w.op = "grant_share" /\ w.file = f /\ v = w.user
            \/ /\ v \in file[f].users_shared
               /\ ~(w.op = "revoke_share" /\ w.file = f /\ v = w.user)
      BY <1>1, <2>2, FilesAfter
    <3>5. OwnFile(u, f) => u = o
      BY <2>2, <3>1 DEF OwnFile
    <3>6. ASSUME NEW v \in Users \ hurt, w.op \in {"list_share", "grant_share", "unlist_share", "revoke_share"},
                 w.user = v, w.file = f
          PROVE  Good(u, s, 1, {}, M)
      BY <3>2, <3>5, <3>6 DEF Local
    <3>7. ASSUME NEW v \in Users \ hurt
          PROVE  /\ f \in user'[v].shared_files /\ v \notin file'[f].users_shared =>
                      GrantShare(v, f) \in M \/ OwesGrant(O[o], v, f)
                 /\ f \notin user'[v].shared_files /\ v \in file'[f].users_shared =>
                      \/ RevokeShare(v, f) \in M
                      \/ OwesRevoke(O[o], v, f) \/ OwesLeave(O[v], f)
      <4>1. f \in user'[v].shared_files <=>
              \/ w.op = "list_share" /\ w.user = v /\ f = w.file
              \/ f \in user[v].shared_files /\ ~(w.op = "unlist_share" /\ w.user = v /\ f = w.file)
        BY <1>1, UserAfter
      <4>2. ASSUME f \in user'[v].shared_files, v \notin file'[f].users_shared
            PROVE  GrantShare(v, f) \in M \/ OwesGrant(O[o], v, f)
        <5>1. CASE w.op = "list_share" /\ w.user = v /\ f = w.file
          BY <3>6, <5>1 DEF Good
        <5>2. CASE f \in user[v].shared_files /\ v \notin file[f].users_shared
          <6>1. w # GrantShare(v, f)
            BY <3>4, <4>2, WriteNames
          <6> QED
            BY <3>3, <5>2, <6>1
        <5>3. CASE f \in user[v].shared_files /\ v \in file[f].users_shared
          <6>1. w.op = "revoke_share" /\ w.file = f /\ v = w.user
            BY <3>4, <4>2, <5>3
          <6>2. f \notin user[v].shared_files
            BY <3>6, <6>1 DEF Good
          <6> QED
            BY <5>3, <6>2
        <5> QED
          BY <4>1, <4>2, <5>1, <5>2, <5>3
      <4>3. ASSUME f \notin user'[v].shared_files, v \in file'[f].users_shared
            PROVE  RevokeShare(v, f) \in M \/ OwesRevoke(O[o], v, f) \/ OwesLeave(O[v], f)
        <5>1. CASE w.op = "unlist_share" /\ w.user = v /\ f = w.file
          BY <3>6, <5>1 DEF Good
        <5>2. CASE f \notin user[v].shared_files /\ v \in file[f].users_shared
          <6>1. w # RevokeShare(v, f)
            BY <3>4, <4>3, WriteNames
          <6> QED
            BY <3>3, <5>2, <6>1
        <5>3. CASE f \notin user[v].shared_files /\ v \notin file[f].users_shared
          <6>1. w.op = "grant_share" /\ w.file = f /\ v = w.user
            BY <3>4, <4>3, <5>3
          <6>2. f \in user[v].shared_files
            BY <3>6, <6>1 DEF Good
          <6> QED
            BY <5>3, <6>2
        <5> QED
          BY <4>1, <4>3, <5>1, <5>2, <5>3
      <4> QED
        BY <4>2, <4>3
    <3>8. ASSUME InTrash(f)', NEW v \in file'[f].users_shared
          PROVE  RevokeShare(v, f) \in M
      <4>1. CASE w.op = "trash" /\ w.user = o /\ w.file = f
        <5>1. Good(u, s, 1, {}, M)
          BY <3>2, <4>1 DEF Local
        <5>2. v \in file[f].users_shared
          BY <3>4, <3>8, <4>1
        <5> QED
          BY <4>1, <5>1, <5>2 DEF Good
      <4>2. CASE InTrash(f) /\ v \in file[f].users_shared
        <5>1. w # RevokeShare(v, f)
          BY <3>4, <3>8, WriteNames
        <5> QED
          BY <3>3, <4>2, <5>1
      <4>3. CASE InTrash(f) /\ v \notin file[f].users_shared
        <5>1. w.op = "grant_share" /\ w.file = f
          BY <3>4, <3>8, <4>3
        <5>2. Good(u, s, 1, {}, M)
          BY <3>2, <3>5, <5>1 DEF Local
        <5> QED
          BY <2>2, <4>3, <5>1, <5>2 DEF Good
      <4> QED
        BY <3>2, <3>8, <4>1, <4>2, <4>3
    <3> QED
      BY <3>2, <3>7, <3>8
  <2> QED
    BY <2>1, <2>2
<1> QED
  BY <1>1, <1>2 DEF ShareMended, GrantShare, RevokeShare, OwesGrant, OwesRevoke, OwesLeave, Users

LEMMA TrashStep ==
  ASSUME TypeOK, StoreInv, NEW u \in Users, NEW s, NEW w \in Writes, s[1] = w,
         Local(u, w), Effect(w), Backed(s, 1),
         NEW L, NEW M, L \subseteq M \cup {w},
         u \notin hurt => Good(u, s, 1, {}, M), TrashMended(L)
  PROVE  TrashMended(M)'
<1>1. UserEffect(w) /\ FileEffect(w) /\ hurt' = hurt
  BY DEF Effect
<1>2. ASSUME NEW v \in Users \ hurt, NEW f \in Trash(v)'
      PROVE  /\ user'[v].files_deleted[f] = 1
             /\ f \in DOMAIN file' \/ Emptied(M, v, f)
  <2>1. f \in FileId
    BY <1>2 DEF Trash, FileId
  <2>2. \/ w.op = "trash" /\ w.user = v /\ w.file = f
        \/ f \in Trash(v) /\ ~(w.op = "empty_trash" /\ w.user = v /\ f \in w.files)
    BY <1>1, <1>2, <2>1, TrashAfter
  <2>3. user'[v].files_deleted[f] =
          IF w.op = "trash" /\ w.user = v /\ w.file = f THEN user[v].files_deleted[f] + 1
          ELSE IF w.op = "empty_trash" /\ w.user = v /\ f \in w.files THEN 0
          ELSE user[v].files_deleted[f]
    BY ZenonT(40), <1>1, <2>1 DEF UserEffect
  <2>4. CASE w.op = "trash" /\ w.user = v /\ w.file = f
    <3>1. Good(u, s, 1, {}, M) /\ u = v
      BY <2>4 DEF Local
    <3>2. f \in DOMAIN file /\ f \notin Trash(v)
      BY <2>4, <3>1 DEF Good
    <3>3. user[v].files_deleted[f] = 0
      BY <2>1, <3>2 DEF Trash, TypeOK, UserRecord
    <3>4. f \in DOMAIN file'
      BY <1>1, <2>4, <3>2, FilesAfter
    <3> QED
      BY <2>3, <2>4, <3>3, <3>4
  <2>5. CASE f \in Trash(v) /\ w.op # "trash" /\ ~(w.op = "empty_trash" /\ w.user = v /\ f \in w.files)
    <3>1. user[v].files_deleted[f] = 1 /\ (f \in DOMAIN file \/ Emptied(L, v, f))
      BY <2>5 DEF TrashMended
    <3>2. user'[v].files_deleted[f] = 1
      BY <2>3, <2>5, <3>1
    <3>3. Emptied(L, v, f) => Emptied(M, v, f)
      BY <2>5 DEF Emptied
    <3>4. ASSUME f \in DOMAIN file, f \notin DOMAIN file' PROVE Emptied(M, v, f)
      <4>1. w.op = "erase_file" /\ w.file = f
        BY <1>1, <3>4, FilesAfter
      <4>2. file[f].owner = v
        BY <2>5, <3>4 DEF StoreInv
      <4>3. u = v
        BY <3>4, <4>1, <4>2 DEF Local, OwnFile
      <4> QED
        BY <4>1, <4>3 DEF Good
    <3> QED
      BY <3>1, <3>2, <3>3, <3>4
  <2>6. CASE f \in Trash(v) /\ w.op = "trash" /\ ~(w.user = v /\ w.file = f)
    <3>1. user[v].files_deleted[f] = 1 /\ (f \in DOMAIN file \/ Emptied(L, v, f))
      BY <2>6 DEF TrashMended
    <3>2. user'[v].files_deleted[f] = 1
      BY <2>3, <2>6, <3>1
    <3>3. Emptied(L, v, f) => Emptied(M, v, f)
      BY <2>6 DEF Emptied
    <3>4. f \in DOMAIN file => f \in DOMAIN file'
      BY <1>1, <2>6, FilesAfter
    <3> QED
      BY <3>1, <3>2, <3>3, <3>4
  <2> QED
    BY <2>2, <2>4, <2>5, <2>6
<1> QED
  BY <1>1, <1>2 DEF TrashMended, Emptied, Users

LEMMA BlobsStep ==
  ASSUME TypeOK, CatalogAssumption, NEW u \in Users, NEW s, NEW w \in Writes, s[1] = w,
         Local(u, w), Effect(w), Placed(s, 1),
         NEW L, NEW M, NEW O, L \subseteq M \cup {w},
         u \notin hurt => Good(u, s, 1, {}, M), BlobsMended(L, O)
  PROVE  BlobsMended(M, O)'
<1>1. FileEffect(w) /\ DiskEffect(w) /\ hurt' = hurt
  BY DEF Effect
<1>2. ASSUME NEW b \in stored', b[1] \notin hurt
      PROVE  /\ b[2] \in DOMAIN file' /\ file'[b[2]].owner = b[1]
             /\ b[3] > file'[b[2]].revision =>
                  /\ b[3] = file'[b[2]].revision + 1
                  /\ Revise(b[2]) \in M \/ OwesRevision(O[b[1]], b[2])
  <2>0. PICK g : g = b[2]
    OBVIOUS
  <2>1. b \in stored \/ (w.op = "save" /\ b = w.blob)
    BY <1>1, <1>2, DiskAfter
  <2>2. CASE b \in stored
    <3>1. /\ g \in DOMAIN file /\ file[g].owner = b[1]
          /\ b[3] > file[g].revision =>
               /\ b[3] = file[g].revision + 1
               /\ Revise(g) \in L \/ OwesRevision(O[b[1]], g)
      BY <1>2, <2>0, <2>2 DEF BlobsMended
    <3>2. ~(w.op = "erase_file" /\ w.file = g)
      <4> SUFFICES ASSUME w.op = "erase_file", w.file = g PROVE FALSE
        OBVIOUS
      <4>1. u = b[1]
        BY <3>1 DEF Local, OwnFile
      <4> QED
        BY <1>2, <2>0, <2>2, <4>1 DEF Good
    <3>3. g \in DOMAIN file' /\ file'[g].owner = b[1]
      BY <1>1, <3>1, <3>2, FilesAfter
    <3>4. b[3] \in Nat /\ file[g].revision \in Nat
      <4>1. stored \subseteq Users \X FileId \X (1 .. MaxRevision) /\ MaxRevision \in Nat
        BY DEF TypeOK, CatalogAssumption
      <4>2. b[3] \in 1 .. MaxRevision
        BY <2>2, <4>1
      <4>3. file[g].revision \in 1 .. MaxRevision
        BY <3>1 DEF TypeOK, FileRecord
      <4> QED
        BY <4>1, <4>2, <4>3
    <3>5. CASE w.op = "revise" /\ w.file = g
      <4>1. file'[g].revision = file[g].revision + 1
        BY <1>1, <3>1, <3>3, <3>5, FilesAfter
      <4>2. ~(b[3] > file'[g].revision)
        <5> DEFINE x == b[3]
                   y == file[g].revision
        <5>1. x \in Nat /\ y \in Nat /\ (x > y => x = y + 1)
          BY <3>1, <3>4
        <5> HIDE DEF x, y
        <5>2. ~(x > y + 1)
          BY <5>1
        <5> QED
          BY <4>1, <5>2 DEF x, y
      <4> QED
        BY <2>0, <3>3, <4>2
    <3>6. CASE ~(w.op = "revise" /\ w.file = g)
      <4>1. file'[g].revision = file[g].revision
        BY <1>1, <3>1, <3>3, <3>6, FilesAfter
      <4>2. w # Revise(g)
        BY <3>6, WriteNames
      <4> QED
        BY <2>0, <3>1, <3>3, <4>1, <4>2
    <3> QED
      BY <3>5, <3>6
  <2>3. CASE w.op = "save" /\ b = w.blob
    <3>1. u = b[1] /\ Good(u, s, 1, {}, M)
      BY <1>2, <2>3 DEF Local
    <3>2. /\ g \in DOMAIN file /\ file[g].owner = u
          /\ \/ b[3] <= file[g].revision
             \/ b[3] = file[g].revision + 1 /\ Revise(g) \in M
      BY <2>0, <2>3, <3>1 DEF Good
    <3>3. /\ g \in DOMAIN file' /\ file'[g].owner = u
          /\ file'[g].revision = file[g].revision
      BY <1>1, <2>3, <3>2, FilesAfter
    <3>4. b[3] \in Nat /\ file[g].revision \in Nat
      <4>1. MaxRevision \in Nat
        BY DEF CatalogAssumption
      <4>2. b[3] \in 1 .. MaxRevision
        BY <2>3, WriteFields
      <4>3. file[g].revision \in 1 .. MaxRevision
        BY <3>2 DEF TypeOK, FileRecord
      <4> QED
        BY <4>1, <4>2, <4>3
    <3>5. b[3] > file[g].revision => b[3] = file[g].revision + 1 /\ Revise(g) \in M
      BY <3>2, <3>4
    <3> QED
      BY <2>0, <3>1, <3>3, <3>5
  <2> QED
    BY <2>1, <2>2, <2>3
<1>3. ASSUME NEW f \in DOMAIN file', file'[f].owner \notin hurt, NEW r \in 1 .. file'[f].revision
      PROVE  LET b == <<file'[f].owner, f, r>>
             IN  b \in stored' \/ SaveBlob(b) \in M \/ EraseFile(f) \in M
  <2>1. PICK b : b = <<file'[f].owner, f, r>>
    OBVIOUS
  <2>2. CASE f \notin DOMAIN file
    <3>1. w.op = "add_file" /\ f = w.file
      BY <1>1, <2>2, FilesAfter
    <3>2. file'[f].owner = u /\ file'[f].revision = 1
      BY <1>1, <3>1, FilesAfter DEF Local
    <3>3. SaveBlob(<<u, f, 1>>) \in M
      BY <1>3, <3>1, <3>2 DEF Good
    <3>4. r = 1
      BY <1>3, <3>2
    <3> QED
      BY <3>2, <3>3, <3>4
  <2>3. CASE f \in DOMAIN file
    <3>1. PICK o : o = file[f].owner
      OBVIOUS
    <3>2. file'[f].owner = o /\ b = <<o, f, r>> /\ o \notin hurt
      BY <1>1, <1>3, <2>1, <2>3, <3>1, FilesAfter
    <3>3. OwnFile(u, f) => u = o
      BY <2>3, <3>1 DEF OwnFile
    <3>4. CASE r \in 1 .. file[f].revision
      <4>1. b \in stored \/ SaveBlob(b) \in L \/ EraseFile(f) \in L
        BY <2>3, <3>1, <3>2, <3>4 DEF BlobsMended
      <4>2. CASE b \in stored
        <5> SUFFICES ASSUME b \notin stored' PROVE EraseFile(f) \in M
          BY <2>1
        <5>1. w.op = "remove" /\ w.blob = b
          BY <1>1, <4>2, DiskAfter
        <5>2. u = o
          BY <3>2, <5>1 DEF Local
        <5> QED
          BY <3>2, <5>1, <5>2 DEF Good
      <4>3. CASE SaveBlob(b) \in L
        <5>1. w = SaveBlob(b) => b \in stored'
          BY <1>1, WriteNames, DiskAfter
        <5> QED
          BY <2>1, <4>3, <5>1
      <4>4. CASE EraseFile(f) \in L
        <5>1. w # EraseFile(f)
          BY <1>1, <1>3, <2>3, WriteNames, FilesAfter
        <5> QED
          BY <4>4, <5>1
      <4> QED
        BY <4>1, <4>2, <4>3, <4>4
    <3>5. CASE r \notin 1 .. file[f].revision
      <4>1. w.op = "revise" /\ w.file = f
        BY <1>1, <1>3, <2>3, <3>5, FilesAfter
      <4>2. file'[f].revision = file[f].revision + 1
        BY <1>1, <1>3, <2>3, <4>1, FilesAfter
      <4>3. r = file[f].revision + 1
        <5> DEFINE x == file[f].revision
        <5>1. x \in Nat /\ r \in 1 .. x + 1 /\ r \notin 1 .. x
          BY <1>3, <2>3, <3>5, <4>2 DEF TypeOK, FileRecord, CatalogAssumption
        <5> HIDE DEF x
        <5>2. r = x + 1
          BY <5>1
        <5> QED
          BY <5>2 DEF x
      <4>4. u = o /\ Good(u, s, 1, {}, M)
        BY <3>2, <3>3, <4>1 DEF Local
      <4>5. b \in stored
        BY <3>2, <4>1, <4>3, <4>4 DEF Good
      <4>6. b \in stored'
        BY <1>1, <4>1, <4>5, DiskAfter
      <4> QED
        BY <2>1, <4>6
    <3> QED
      BY <3>4, <3>5
  <2> QED
    BY <2>2, <2>3
<1> QED
  BY <1>1, <1>2, <1>3 DEF BlobsMended, Revise, OwesRevision, SaveBlob, EraseFile

\* The first write of a program leaves to the others what it does not mend.
LEMMA MendStep ==
  ASSUME TypeOK, CatalogAssumption, StoreInv, Owned, NEW u \in Users,
         NEW s \in Seq(Writes), s # <<>>, Local(u, s[1]), Effect(s[1]),
         Backed(s, 1), Placed(s, 1), NEW O,
         u \notin hurt => Good(u, s, 1, Done(s, 1), Left(s, 1)), MendWith(WritesOf(s), O)
  PROVE  MendWith(WritesOf(Tail(s)), O)'
<1>1. PICK w : w = s[1]
  OBVIOUS
<1>2. w \in Writes
  BY <1>1, Rest
<1>3. PICK L : L = WritesOf(s)
  OBVIOUS
<1>4. PICK M : M = WritesOf(Tail(s))
  OBVIOUS
<1>5. L \subseteq M \cup {w} /\ (u \notin hurt => Good(u, s, 1, {}, M))
  BY <1>1, <1>3, <1>4, RestWrites
<1>6. TreeMended(L) /\ PlaceMended(L, O) /\ ShareMended(L, O) /\ TrashMended(L) /\ BlobsMended(L, O)
  BY <1>3 DEF MendWith
<1>7. s[1] = w /\ Local(u, w) /\ Effect(w)
  BY <1>1
<1>8. TreeMended(M)'
  BY <1>2, <1>5, <1>6, <1>7, TreeStep
<1>9. PlaceMended(M, O)'
  BY <1>2, <1>5, <1>6, <1>7, PlaceStep
<1>10. ShareMended(M, O)'
  BY <1>2, <1>5, <1>6, <1>7, ShareStep
<1>11. TrashMended(M)'
  BY <1>2, <1>5, <1>6, <1>7, TrashStep
<1>12. BlobsMended(M, O)'
  BY <1>2, <1>5, <1>6, <1>7, BlobsStep
<1>13. MendWith(M, O)'
  BY <1>8, <1>9, <1>10, <1>11, <1>12 DEF MendWith
<1> QED
  BY <1>4, <1>13 DEF WritesOf

----------------------------------------------------------------------------
(* The writes after the first stay good.                                   *)

LEMMA SortOf ==
  ASSUME NEW K \in Sorts, NEW x, NEW w, x.op \in K, w.op \in K
  PROVE  /\ x.op \in {"list_share", "grant_share"} => w.op \in Sharing
         /\ x.op \in {"unlist_share", "revoke_share"} => w.op \in Sharing \cup Deleting
         /\ x.op \in {"trash", "unlist", "erase_dir", "unlist_dir"} => w.op \in Deleting
         /\ x.op \in {"remove", "erase_file"} => w.op \in Purging
         /\ x.op = "empty_trash" => w.op \in Purging \cup Restoring
         /\ x.op \in {"adopt", "relist"} => w.op \in Restoring
         /\ x.op = "add_dir" => w.op \in Creating
         /\ x.op = "add_file" => w.op \in Uploading
         /\ x.op = "save" => w.op \in Uploading \cup Revising
         /\ x.op = "revise" => w.op \in Revising
BY DEF Sorts, Sharing, Deleting, Purging, Restoring, Creating, Uploading, Revising

LEMMA GoodStep ==
  ASSUME TypeOK, StoreInv, NEW u \in Users, NEW s \in Seq(Writes), s # <<>>, NEW w \in Writes, s[1] = w,
         Local(u, w), Effect(w), Backed(s, 1), \A i \in DOMAIN s : Placed(s, i),
         NEW K \in Sorts, Kept(u, K, s), NEW i \in DOMAIN Tail(s)
  PROVE  Good(u, Tail(s), i, Done(Tail(s), i), Left(Tail(s), i))'
<1>0. PICK t : t = Tail(s)
  OBVIOUS
<1>1. PICK D : D = Done(t, i)
  OBVIOUS
<1>2. PICK L : L = Left(t, i)
  OBVIOUS
<1>3. /\ i \in Nat /\ i >= 1 /\ i + 1 \in DOMAIN s /\ t[i] = s[i + 1]
      /\ L = Left(s, i + 1) /\ Done(s, i + 1) = D \cup {w} /\ (i + 1) - 1 = i
      /\ i = 1 \/ (i > 1 /\ i - 1 \in DOMAIN t /\ t[i - 1] = s[i])
  BY <1>0, <1>1, <1>2, RestWrites
<1>4. 1 \in DOMAIN s
  BY RestWrites
<1>5. PICK x : x = t[i]
  OBVIOUS
<1>6. x \in Writes /\ x = s[i + 1] /\ i + 1 # 1
  BY <1>3, <1>5
<1>7. /\ x.op \in K /\ w.op \in K
      /\ Good(u, s, i + 1, D \cup {w}, L)
  BY <1>3, <1>4, <1>6 DEF Kept
<1>8. s[1] = w /\ Placed(s, 1)
  BY <1>4
<1>9. /\ x.op = "list_share" => GrantShare(x.user, x.file) \in L
      /\ x.op = "unlist_share" => RevokeShare(x.user, x.file) \in L
      /\ x.op = "grant_share" =>
           /\ s[i] = ListShare(x.user, x.file)
           /\ x.file \in DOMAIN file => ~InTrash(x.file)
      /\ x.op = "revoke_share" => s[i] = UnlistShare(x.user, x.file)
      /\ x.op = "trash" =>
           /\ x.file \in DOMAIN file /\ x.file \notin Trash(u)
           /\ Unlist(file[x.file].parent_directory, x.file) \in L
           /\ \A v \in file[x.file].users_shared : RevokeShare(v, x.file) \in L
      /\ x.op = "unlist" => x.file \in Trash(u) \/ ToTrash(u, x.file) \in D \cup {w}
      /\ x.op = "erase_dir" /\ x.dir \in DOMAIN dir =>
           /\ \A f \in dir[x.dir].files_contained : Unlist(x.dir, f) \in D \cup {w}
           /\ \/ EraseDir(dir[x.dir].parent_directory) \in L
              \/ UnlistDir(dir[x.dir].parent_directory, x.dir) \in L
      /\ x.op = "remove" => EraseFile(x.blob[2]) \in L
      /\ x.op = "erase_file" =>
           /\ \A b \in stored : b[1] = u /\ b[2] = x.file => RemoveBlob(b) \in D \cup {w}
           /\ \A d \in DOMAIN dir : x.file \notin dir[d].files_contained
           /\ Emptied(L, u, x.file)
      /\ x.op = "empty_trash" =>
           \A f \in x.files \cap DOMAIN file :
             EraseFile(f) \in D \cup {w} \/ Listed(f) \/ \E d \in DirId : Relist(d, f) \in D \cup {w}
      /\ x.op = "relist" => x.file \in DOMAIN file /\ Emptied(L, u, x.file)
      /\ x.op = "add_file" => x.dir \in DOMAIN dir /\ SaveBlob(<<u, x.file, 1>>) \in L
      /\ x.op = "save" =>
           \/ x.blob[3] = 1 /\ \E y \in D \cup {w} : y.op = "add_file" /\ y.file = x.blob[2] /\ y.user = u
           \/ /\ x.blob[2] \in DOMAIN file /\ file[x.blob[2]].owner = u
              /\ \/ x.blob[3] <= file[x.blob[2]].revision
                 \/ x.blob[3] = file[x.blob[2]].revision + 1 /\ Revise(x.blob[2]) \in L
      /\ x.op = "revise" =>
           /\ x.file \in DOMAIN file /\ file[x.file].owner = u
           /\ LET b == <<u, x.file, file[x.file].revision + 1>>
              IN  b \in stored \/ SaveBlob(b) \in D \cup {w}
  BY <1>3, <1>6, <1>7 DEF Good
<1>10. UserEffect(w) /\ FileEffect(w) /\ DirEffect(w) /\ DiskEffect(w)
  BY DEF Effect
<1>11. \A f \in DOMAIN file : f \in FileId /\ file[f].owner \in Users
  BY DEF TypeOK, FileRecord
<1>12. ASSUME x.op = "grant_share"
       PROVE  /\ IF i = 1 THEN x.file \in user'[x.user].shared_files
                          ELSE t[i - 1] = ListShare(x.user, x.file)
              /\ x.file \in DOMAIN file' => ~InTrash(x.file)'
  <2>1. w.op \in Sharing
    BY <1>7, <1>12, SortOf
  <2>2. x.user \in Users
    BY <1>6, <1>12, WriteFields DEF SharingOps
  <2>3. i = 1 => x.file \in user'[x.user].shared_files
    <3>1. i = 1 => w.op = "list_share" /\ w.user = x.user /\ w.file = x.file
      BY <1>9, <1>12, WriteNames
    <3> QED
      BY <1>10, <2>2, <3>1, UserAfter
  <2>4. x.file \in DOMAIN file' => ~InTrash(x.file)'
    <3> SUFFICES ASSUME x.file \in DOMAIN file' PROVE ~InTrash(x.file)'
      OBVIOUS
    <3>1. PICK f : f = x.file
      OBVIOUS
    <3>2. f \in DOMAIN file /\ w.op # "trash"
      BY <1>10, <2>1, <3>1, FilesAfter DEF Sharing
    <3>3. ~InTrash(f)
      BY <1>9, <1>12, <3>1, <3>2
    <3>4. ~InTrash(f)'
      BY <1>10, <3>1, <3>2, <3>3, InTrashAfter
    <3> QED
      BY <3>1, <3>4
  <2> QED
    BY <1>3, <1>9, <1>12, <2>3, <2>4
<1>13. ASSUME x.op = "revoke_share"
       PROVE  IF i = 1 THEN x.file \notin user'[x.user].shared_files
                       ELSE t[i - 1] = UnlistShare(x.user, x.file)
  <2>2. x.user \in Users
    BY <1>6, <1>13, WriteFields DEF SharingOps
  <2>3. i = 1 => x.file \notin user'[x.user].shared_files
    <3>1. i = 1 => w.op = "unlist_share" /\ w.user = x.user /\ w.file = x.file
      BY <1>9, <1>13, WriteNames
    <3> QED
      BY <1>10, <2>2, <3>1, UserAfter
  <2> QED
    BY <1>3, <1>9, <1>13, <2>3
<1>14. ASSUME x.op = "trash"
       PROVE  /\ x.file \in DOMAIN file' /\ x.file \notin Trash(u)'
              /\ Unlist(file'[x.file].parent_directory, x.file) \in L
              /\ \A v \in file'[x.file].users_shared : RevokeShare(v, x.file) \in L
  <2>1. PICK f : f = x.file
    OBVIOUS
  <2>2. /\ f \in DOMAIN file /\ f \notin Trash(u)
        /\ Unlist(file[f].parent_directory, f) \in L
        /\ \A v \in file[f].users_shared : RevokeShare(v, f) \in L
    BY <1>9, <1>14, <2>1
  <2>3. w.op \in Deleting
    BY <1>7, <1>14, SortOf
  <2>4. w.op \notin {"add_file", "erase_file", "adopt", "grant_share"}
    BY <2>3 DEF Deleting
  <2>5. ~(w.op = "trash" /\ w.file = f)
    BY <1>3, <1>4, <1>6, <1>14, <2>1 DEF Kept, Once
  <2>6. f \in DOMAIN file'
    BY <1>10, <2>2, <2>4, FilesAfter
  <2>7. f \notin Trash(u)'
    BY <1>10, <1>11, <2>2, <2>5, TrashAfter
  <2>8. /\ file'[f].parent_directory = file[f].parent_directory
        /\ file'[f].users_shared \subseteq file[f].users_shared
    BY <1>10, <2>2, <2>4, <2>6, FilesAfter
  <2> QED
    BY <2>1, <2>2, <2>6, <2>7, <2>8
<1>15. ASSUME x.op = "unlist"
       PROVE  x.file \in Trash(u)' \/ ToTrash(u, x.file) \in D
  <2>1. w.op # "empty_trash" /\ x.file \in FileId
    BY <1>6, <1>7, <1>15, SortOf, WriteFields DEF Deleting
  <2>2. PICK f \in FileId : f = x.file
    BY <2>1
  <2>3. w = ToTrash(u, f) => f \in Trash(u)'
    BY <1>10, WriteNames, TrashAfter
  <2>4. f \in Trash(u) => f \in Trash(u)'
    BY <1>10, <2>1, TrashAfter
  <2>5. f \in Trash(u)' \/ ToTrash(u, f) \in D
    BY <1>9, <1>15, <2>2, <2>3, <2>4
  <2> QED
    BY <2>2, <2>5
<1>16. ASSUME x.op = "erase_dir", x.dir \in DOMAIN dir'
       PROVE  /\ \A f \in dir'[x.dir].files_contained : Unlist(x.dir, f) \in D
              /\ \/ EraseDir(dir'[x.dir].parent_directory) \in L
                 \/ UnlistDir(dir'[x.dir].parent_directory, x.dir) \in L
  <2>1. PICK d : d = x.dir
    OBVIOUS
  <2>2. w.op \notin {"add_dir", "relist", "add_file"}
    BY <1>7, <1>16, SortOf DEF Deleting
  <2>3. d \in DOMAIN dir /\ d \in DOMAIN dir'
    BY <1>10, <1>16, <2>1, <2>2, DirsAfter
  <2>4. dir'[d].parent_directory = dir[d].parent_directory
    BY <1>10, <2>3, DirsAfter
  <2>5. ASSUME NEW f \in dir'[d].files_contained PROVE Unlist(d, f) \in D
    <3>1. f \in dir[d].files_contained
      BY <1>10, <2>2, <2>3, <2>5, DirsAfter
    <3>2. w # Unlist(d, f)
      BY <1>10, <2>2, <2>3, <2>5, WriteNames, DirsAfter
    <3> QED
      BY <1>9, <1>16, <2>1, <2>3, <3>1, <3>2
  <2> QED
    BY <1>9, <1>16, <2>1, <2>3, <2>4, <2>5
<1>17. ASSUME x.op = "erase_file"
       PROVE  /\ \A b \in stored' : b[1] = u /\ b[2] = x.file => RemoveBlob(b) \in D
              /\ \A d \in DOMAIN dir' : x.file \notin dir'[d].files_contained
  <2>1. w.op \in Purging
    BY <1>7, <1>17, SortOf
  <2>2. ASSUME NEW b \in stored', b[1] = u, b[2] = x.file PROVE RemoveBlob(b) \in D
    <3>1. b \in stored
      BY <1>10, <2>1, <2>2, DiskAfter DEF Purging
    <3>2. w # RemoveBlob(b)
      BY <1>10, <2>1, <2>2, WriteNames, DiskAfter
    <3> QED
      BY <1>9, <1>17, <2>2, <3>1, <3>2
  <2>3. ASSUME NEW d \in DOMAIN dir' PROVE x.file \notin dir'[d].files_contained
    <3>1. d \in DOMAIN dir
      BY <1>10, <2>1, <2>3, DirsAfter DEF Purging
    <3> QED
      BY <1>9, <1>10, <1>17, <2>1, <2>3, <3>1, DirsAfter DEF Purging
  <2> QED
    BY <2>2, <2>3
<1>18. ASSUME x.op = "empty_trash", NEW f \in x.files \cap DOMAIN file'
       PROVE  EraseFile(f) \in D \/ Listed(f)' \/ \E d \in DirId : Relist(d, f) \in D
  <2>1. w.op \in Purging \cup Restoring
    BY <1>7, <1>18, SortOf
  <2>2. f \in DOMAIN file
    BY <1>10, <1>18, <2>1, FilesAfter DEF Purging, Restoring
  <2>3. w # EraseFile(f)
    BY <1>10, <1>18, <2>2, WriteNames, FilesAfter
  <2>4. \A d \in DOMAIN dir : d \in DOMAIN dir' /\ dir[d].files_contained \subseteq dir'[d].files_contained
    BY <1>10, <2>1, DirsAfter DEF Purging, Restoring
  <2>5. PICK p : p = file[f].parent_directory
    OBVIOUS
  <2>6. ASSUME Listed(f) PROVE Listed(f)'
    <3>1. p \in DOMAIN dir /\ f \in dir[p].files_contained
      BY <2>5, <2>6 DEF Listed
    <3>2. w.op = "adopt" /\ w.file = f => p = w.dir
      BY <1>8, <2>2, <2>5, <3>1 DEF Backed
    <3>3. file'[f].parent_directory = p
      BY <1>10, <1>18, <2>2, <2>5, <3>2, FilesAfter
    <3> QED
      BY <1>18, <2>4, <3>1, <3>3 DEF Listed
  <2>7. ASSUME NEW d \in DirId, w = Relist(d, f) PROVE Listed(f)'
    <3>1. w.op = "relist" /\ w.dir = d /\ w.file = f
      BY <2>7, WriteNames
    <3>2. d \in DOMAIN dir
      BY <3>1 DEF Backed
    <3>3. p = d
      BY <2>2, <2>5, <3>1 DEF Backed
    <3>4. file'[f].parent_directory = d
      BY <1>10, <1>18, <2>2, <2>5, <3>1, <3>3, FilesAfter
    <3>5. d \in DOMAIN dir' /\ f \in dir'[d].files_contained
      BY <1>10, <2>4, <3>1, <3>2, DirsAfter
    <3> QED
      BY <1>18, <3>4, <3>5 DEF Listed
  <2> QED
    BY <1>9, <1>18, <2>2, <2>3, <2>6, <2>7
<1>19. ASSUME x.op = "relist"
       PROVE  x.file \in DOMAIN file'
  <2>1. w.op \in Restoring
    BY <1>7, <1>19, SortOf
  <2> QED
    BY <1>9, <1>10, <1>19, <2>1, FilesAfter DEF Restoring
<1>20. ASSUME x.op = "add_file"
       PROVE  x.dir \in DOMAIN dir'
  <2>1. w.op \in Uploading
    BY <1>7, <1>20, SortOf
  <2> QED
    BY <1>9, <1>10, <1>20, <2>1, DirsAfter DEF Uploading
<1>21. w.op # "revise"
  <2> SUFFICES ASSUME w.op = "revise" PROVE FALSE
    OBVIOUS
  <2>1. 1 = Len(s)
    BY <1>8 DEF Placed
  <2>2. DOMAIN s = 1 .. Len(s)
    OBVIOUS
  <2> QED
    BY <1>3, <2>1, <2>2
<1>22. ASSUME x.op = "save"
       PROVE  \/ x.blob[3] = 1 /\ \E y \in D : y.op = "add_file" /\ y.file = x.blob[2] /\ y.user = u
              \/ /\ x.blob[2] \in DOMAIN file' /\ file'[x.blob[2]].owner = u
                 /\ \/ x.blob[3] <= file'[x.blob[2]].revision
                    \/ x.blob[3] = file'[x.blob[2]].revision + 1 /\ Revise(x.blob[2]) \in L
  <2>1. w.op \in Uploading \cup Revising
    BY <1>7, <1>22, SortOf
  <2>2. PICK g : g = x.blob[2]
    OBVIOUS
  <2>3. ASSUME g \in DOMAIN file
        PROVE  /\ g \in DOMAIN file' /\ file'[g].owner = file[g].owner
               /\ file'[g].revision = file[g].revision
    <3>1. g \in DOMAIN file'
      BY <1>10, <2>1, <2>3, FilesAfter DEF Uploading, Revising
    <3> QED
      BY <1>10, <1>21, <2>3, <3>1, FilesAfter
  <2>4. ASSUME w.op = "add_file", w.file = g, w.user = u, x.blob[3] = 1
        PROVE  g \in DOMAIN file' /\ file'[g].owner = u /\ x.blob[3] <= file'[g].revision
    BY <1>10, <2>4, FilesAfter
  <2> QED
    BY <1>9, <1>22, <2>2, <2>3, <2>4
<1>23. ASSUME x.op = "revise"
       PROVE  /\ x.file \in DOMAIN file' /\ file'[x.file].owner = u
              /\ LET b == <<u, x.file, file'[x.file].revision + 1>>
                 IN  b \in stored' \/ SaveBlob(b) \in D
  <2>1. w.op \in Revising
    BY <1>7, <1>23, SortOf
  <2>2. PICK g : g = x.file
    OBVIOUS
  <2>3. /\ g \in DOMAIN file' /\ file'[g].owner = u
        /\ file'[g].revision = file[g].revision
    <3>1. g \in DOMAIN file'
      BY <1>9, <1>10, <1>23, <2>1, <2>2, FilesAfter DEF Revising
    <3> QED
      BY <1>9, <1>10, <1>21, <1>23, <2>2, <3>1, FilesAfter
  <2>4. PICK b : b = <<u, g, file[g].revision + 1>>
    OBVIOUS
  <2>5. b \in stored \/ SaveBlob(b) \in D \cup {w}
    BY <1>9, <1>23, <2>2, <2>4
  <2>6. b \in stored' \/ SaveBlob(b) \in D
    BY <1>10, <2>1, <2>5, WriteNames, DiskAfter DEF Revising
  <2> QED
    BY <2>2, <2>3, <2>4, <2>6
<1>24. Good(u, t, i, D, L)'
  <2>1. CASE x.op \in {"list_share", "unlist_share", "grant_share", "revoke_share"}
    BY SMTT(30), <1>5, <1>9, <1>12, <1>13, <2>1
       DEF Good, GrantShare, RevokeShare, ListShare, UnlistShare, ToTrash, Unlist, EraseDir,
           UnlistDir, EraseFile, RemoveBlob, Emptied, Relist, SaveBlob, Revise, DirId
  <2>2. CASE x.op \in {"trash", "unlist"}
    BY SMTT(30), <1>5, <1>9, <1>14, <1>15, <2>2
       DEF Good, GrantShare, RevokeShare, ListShare, UnlistShare, ToTrash, Unlist, EraseDir,
           UnlistDir, EraseFile, RemoveBlob, Emptied, Relist, SaveBlob, Revise, DirId
  <2>3. CASE x.op \in {"erase_dir", "remove"}
    BY SMTT(30), <1>5, <1>9, <1>16, <2>3
       DEF Good, GrantShare, RevokeShare, ListShare, UnlistShare, ToTrash, Unlist, EraseDir,
           UnlistDir, EraseFile, RemoveBlob, Emptied, Relist, SaveBlob, Revise, DirId
  <2>4. CASE x.op \in {"erase_file", "empty_trash"}
    BY <1>5, <1>9, <1>17, <1>18, <2>4
       DEF Good, GrantShare, RevokeShare, ListShare, UnlistShare, ToTrash, Unlist, EraseDir,
           UnlistDir, EraseFile, RemoveBlob, Emptied, Relist, SaveBlob, Revise, DirId
  <2>5. CASE x.op \in {"relist", "add_file"}
    BY SMTT(30), <1>5, <1>9, <1>19, <1>20, <2>5
       DEF Good, GrantShare, RevokeShare, ListShare, UnlistShare, ToTrash, Unlist, EraseDir,
           UnlistDir, EraseFile, RemoveBlob, Emptied, Relist, SaveBlob, Revise, DirId
  <2>6. CASE x.op \in {"save", "revise"}
    BY <1>5, <1>9, <1>22, <1>23, <2>6
       DEF Good, GrantShare, RevokeShare, ListShare, UnlistShare, ToTrash, Unlist, EraseDir,
           UnlistDir, EraseFile, RemoveBlob, Emptied, Relist, SaveBlob, Revise, DirId
  <2>7. CASE x.op \notin Sharing \cup {"trash", "unlist", "erase_dir", "remove", "erase_file",
                 "empty_trash", "relist", "add_file", "save", "revise"}
    BY <1>5, <2>7 DEF Good, Sharing
  <2> QED
    BY SMTT(30), <2>1, <2>2, <2>3, <2>4, <2>5, <2>6, <2>7 DEF Sharing
<1> QED
  BY <1>0, <1>1, <1>2, <1>24 DEF Done, Left

LEMMA KeptStep ==
  ASSUME TypeOK, StoreInv, NEW u \in Users, NEW s \in Seq(Writes), s # <<>>, NEW w \in Writes, s[1] = w,
         Local(u, w), Effect(w), Backed(s, 1), \A i \in DOMAIN s : Placed(s, i),
         NEW K \in Sorts, Kept(u, K, s)
  PROVE  Kept(u, K, Tail(s))'
<1>1. PICK t : t = Tail(s)
  OBVIOUS
<1>2. \A i \in DOMAIN t : /\ i \in Nat /\ i + 1 \in DOMAIN s /\ t[i] = s[i + 1]
                          /\ (i + 1) - 1 = i
  BY <1>1, RestWrites
<1>3. \A i \in DOMAIN t : t[i].op \in K
  BY <1>2 DEF Kept
<1>4. \A i \in DOMAIN t : Good(u, t, i, Done(t, i), Left(t, i))'
  BY <1>1, GoodStep
<1>5. Once(t)
  <2>1. ASSUME NEW i \in DOMAIN t, NEW j \in DOMAIN t, t[i].op = "trash", t[j].op = "trash",
               t[i].file = t[j].file
        PROVE  i = j
    <3>1. i + 1 = j + 1
      BY <1>2, <2>1 DEF Kept, Once
    <3> QED
      BY <1>2, <3>1
  <2> QED
    BY <2>1 DEF Once
<1>6. Kept(u, K, t)'
  BY <1>3, <1>4, <1>5 DEF Kept, Once
<1> QED
  BY <1>1, <1>6

\* What is left of a repeatable request is still what was asked for.
LEMMA LinkedStep ==
  ASSUME TypeOK, NEW u \in Users, NEW s \in Seq(Writes), s # <<>>, NEW w \in Writes, s[1] = w,
         Local(u, w), Effect(w), NEW a, Linked(u, s, a), Tail(s) # <<>>,
         w.op = "draw" => a.kind # "revision"
  PROVE  Linked(u, Tail(s), a)'
<1>1. PICK t : t = Tail(s)
  OBVIOUS
<1>2. /\ \A i \in DOMAIN t : i + 1 \in DOMAIN s /\ t[i] = s[i + 1]
      /\ 1 \in DOMAIN s
  BY <1>1, RestWrites
<1>3. UserEffect(w) /\ FileEffect(w) /\ hurt' = hurt
  BY DEF Effect
<1>4. ASSUME NEW f, OwnFile(u, f), w.op \notin {"trash", "add_file"} PROVE OwnFile(u, f)'
  BY <1>3, <1>4, FilesAfter DEF OwnFile
<1>5. ASSUME NEW f, Untrashed(f), w.op \notin {"trash", "add_file"} PROVE Untrashed(f)'
  BY <1>3, <1>5, FilesAfter, InTrashAfter DEF Untrashed
<1>6. ASSUME a.kind \in {"share", "unshare", "overwrite"}
      PROVE  OwnShare(u, t, a)'
  <2>1. /\ \A i \in DOMAIN s : s[i].file = a.file /\ OwnFile(u, a.file) /\ Untrashed(a.file)
        /\ w.op \notin {"trash", "add_file"}
    BY <1>2, <1>6 DEF Linked, OwnShare
  <2>2. PICK g : g = a.file
    OBVIOUS
  <2>3. OwnFile(u, g) /\ Untrashed(g)
    BY <1>2, <2>1, <2>2
  <2>4. OwnFile(u, g)' /\ Untrashed(g)'
    BY <1>4, <1>5, <2>1, <2>3
  <2>5. \A i \in DOMAIN t : t[i].file = g
    BY <1>2, <2>1, <2>2
  <2> QED
    BY <2>2, <2>4, <2>5 DEF OwnShare
<1>7. ASSUME a.kind = "leave", NEW i \in DOMAIN t
      PROVE  /\ t[i].op \in {"unlist_share", "revoke_share"} /\ t[i].user = u /\ t[i].file = a.file
             /\ Untrashed(a.file)'
  <2>1. w.op \notin {"trash", "add_file"} /\ Untrashed(a.file)
    BY <1>2, <1>7 DEF Linked
  <2>2. PICK g : g = a.file
    OBVIOUS
  <2>3. Untrashed(g)'
    BY <1>5, <2>1, <2>2
  <2> QED
    BY <1>2, <1>7, <2>2, <2>3 DEF Linked
<1>8. ASSUME a.kind = "recover"
      PROVE  /\ u \notin hurt' => a.files \subseteq DOMAIN file'
             /\ \A i \in DOMAIN t : \/ t[i].op \in {"adopt", "relist"}
                                    \/ t[i].op = "empty_trash" /\ t[i].files = a.files
  <2>1. w.op # "erase_file"
    BY <1>2, <1>8 DEF Linked
  <2>2. \A f \in DOMAIN file : f \in DOMAIN file'
    BY <1>3, <2>1, FilesAfter
  <2> QED
    BY <1>2, <1>3, <1>8, <2>2 DEF Linked
<1>9. ASSUME a.kind = "revision"
      PROVE  Len(t) = 1 /\ t[Len(t)] = Revise(a.file)
  <2>1. Len(s) \in 1 .. 2 /\ s[Len(s)] = Revise(a.file)
    BY <1>9 DEF Linked
  <2>2. Len(t) = Len(s) - 1 /\ Len(s) > 1 /\ Len(s) \in Nat /\ DOMAIN t = 1 .. Len(t)
    BY <1>1, Rest
  <2>3. Len(t) = 1 /\ Len(s) = 2 /\ 1 \in DOMAIN t
    BY <2>1, <2>2
  <2> QED
    BY <1>2, <2>1, <2>3
<1>10. Linked(u, t, a)'
  <2>1. a.kind = "share" => \A i \in DOMAIN t : t[i].op \in {"list_share", "grant_share"} /\ t[i].user = a.user
    BY <1>2 DEF Linked
  <2>2. a.kind = "unshare" => \A i \in DOMAIN t : t[i].op \in {"unlist_share", "revoke_share"} /\ t[i].user = a.user
    BY <1>2 DEF Linked
  <2>3. a.kind = "overwrite" =>
          \A i \in DOMAIN t : \/ t[i].op \in {"unlist_share", "revoke_share"}
                              \/ t[i].op \in {"list_share", "grant_share"} /\ t[i].user \in a.users
    BY <1>2 DEF Linked
  <2>4. a.kind = "revision" => Len(t) \in 1 .. 2 /\ t[Len(t)] = Revise(a.file) /\ Len(t) = 1
    BY <1>9
  <2> QED
    BY <1>6, <1>7, <1>8, <2>1, <2>2, <2>3, <2>4 DEF Linked, Revise
<1> QED
  BY <1>1, <1>10

----------------------------------------------------------------------------
(* When the writes to do or the requests owed become others.               *)

LEMMA MendCarried ==
  ASSUME TypeOK, UNCHANGED <<user, dir, file, stored>>, hurt \subseteq hurt', hurt' \subseteq Users,
         NEW L, NEW O, NEW M, NEW P, MendWith(L, O),
         \A d \in DOMAIN dir : dir[d].owner \notin hurt' =>
           /\ EraseDir(d) \in L => EraseDir(d) \in M
           /\ \A c : UnlistDir(d, c) \in L => UnlistDir(d, c) \in M,
         \A f \in DOMAIN file : file[f].owner \notin hurt' =>
           /\ Listed(f) /\ InTrash(f) =>
              (\/ Unlist(file[f].parent_directory, f) \in L
               \/ Emptied(L, file[f].owner, f)
               \/ OwesRecovery(O[file[f].owner], f)
               => \/ Unlist(file[f].parent_directory, f) \in M
                  \/ Emptied(M, file[f].owner, f)
                  \/ OwesRecovery(P[file[f].owner], f))
           /\ \A v \in Users \ hurt' :
                /\ GrantShare(v, f) \in L \/ OwesGrant(O[file[f].owner], v, f) =>
                     GrantShare(v, f) \in M \/ OwesGrant(P[file[f].owner], v, f)
                /\ v \in file[f].users_shared =>
                     (\/ RevokeShare(v, f) \in L
                      \/ OwesRevoke(O[file[f].owner], v, f) \/ OwesLeave(O[v], f)
                      => \/ RevokeShare(v, f) \in M
                         \/ OwesRevoke(P[file[f].owner], v, f) \/ OwesLeave(P[v], f))
           /\ InTrash(f) => \A v : RevokeShare(v, f) \in L => RevokeShare(v, f) \in M
           /\ \A b : SaveBlob(b) \in L /\ b[1] = file[f].owner => SaveBlob(b) \in M
           /\ EraseFile(f) \in L => EraseFile(f) \in M
           /\ Revise(f) \in L \/ OwesRevision(O[file[f].owner], f) =>
                Revise(f) \in M \/ OwesRevision(P[file[f].owner], f),
         \A u \in Users \ hurt' : \A f :
           Emptied(L, u, f) => Emptied(M, u, f) \/ f \in DOMAIN file
  PROVE  MendWith(M, P)'
<1>1. TreeMended(L) /\ PlaceMended(L, O) /\ ShareMended(L, O) /\ TrashMended(L) /\ BlobsMended(L, O)
  BY DEF MendWith
<1>2. TreeMended(M)'
  BY <1>1 DEF TreeMended, EraseDir, UnlistDir
<1>3. \A f : (InTrash(f)' <=> InTrash(f)) /\ (Listed(f)' <=> Listed(f))
  BY DEF InTrash, Trash, FileId, Listed
<1>10. \A f \in DOMAIN file : file[f].owner \in Users
  BY DEF TypeOK, FileRecord
<1>4. PlaceMended(M, P)'
  <2>1. ASSUME NEW f \in DOMAIN file, file[f].owner \notin hurt'
        PROVE  /\ ~Listed(f) => InTrash(f)
               /\ Listed(f) /\ InTrash(f) => \/ Unlist(file[f].parent_directory, f) \in M
                                             \/ Emptied(M, file[f].owner, f)
                                             \/ OwesRecovery(P[file[f].owner], f)
    <3>1. file[f].owner \notin hurt
      BY <2>1
    <3> QED
      BY <1>1, <2>1, <3>1 DEF PlaceMended
  <2> QED
    BY <1>3, <2>1 DEF PlaceMended, Unlist, Emptied, OwesRecovery
<1>5. ShareMended(M, P)'
  <2>1. ASSUME NEW f \in DOMAIN file, file[f].owner \notin hurt'
        PROVE  /\ \A v \in Users \ hurt' :
                    /\ f \in user[v].shared_files /\ v \notin file[f].users_shared =>
                         GrantShare(v, f) \in M \/ OwesGrant(P[file[f].owner], v, f)
                    /\ f \notin user[v].shared_files /\ v \in file[f].users_shared =>
                         \/ RevokeShare(v, f) \in M
                         \/ OwesRevoke(P[file[f].owner], v, f) \/ OwesLeave(P[v], f)
               /\ InTrash(f) => \A v \in file[f].users_shared : RevokeShare(v, f) \in M
    <3>1. file[f].owner \notin hurt
      BY <2>1
    <3>2. ASSUME NEW v \in Users \ hurt'
          PROVE  /\ f \in user[v].shared_files /\ v \notin file[f].users_shared =>
                      GrantShare(v, f) \in M \/ OwesGrant(P[file[f].owner], v, f)
                 /\ f \notin user[v].shared_files /\ v \in file[f].users_shared =>
                      \/ RevokeShare(v, f) \in M
                      \/ OwesRevoke(P[file[f].owner], v, f) \/ OwesLeave(P[v], f)
      <4>1. v \in Users \ hurt
        OBVIOUS
      <4> QED
        BY <1>1, <2>1, <3>1, <4>1 DEF ShareMended
    <3>3. InTrash(f) => \A v \in file[f].users_shared : RevokeShare(v, f) \in M
      BY <1>1, <2>1, <3>1 DEF ShareMended
    <3> QED
      BY <3>2, <3>3
  <2> QED
    BY <1>3, <2>1 DEF ShareMended, GrantShare, RevokeShare, OwesGrant, OwesRevoke, OwesLeave, Users
<1>6. TrashMended(M)'
  <2>1. ASSUME NEW u \in Users \ hurt', NEW f \in Trash(u)
        PROVE  user'[u].files_deleted[f] = 1 /\ (f \in DOMAIN file' \/ Emptied(M, u, f))
    BY <1>1, <2>1 DEF TrashMended
  <2>2. \A u \in Users : Trash(u)' = Trash(u)
    BY DEF Trash, FileId
  <2> QED
    BY <2>1, <2>2 DEF TrashMended, Emptied, Users
<1>7. BlobsMended(M, P)'
  <2>1. ASSUME NEW b \in stored, b[1] \notin hurt'
        PROVE  /\ b[2] \in DOMAIN file /\ file[b[2]].owner = b[1]
               /\ b[3] > file[b[2]].revision =>
                    /\ b[3] = file[b[2]].revision + 1
                    /\ Revise(b[2]) \in M \/ OwesRevision(P[b[1]], b[2])
    <3>1. b[1] \notin hurt
      BY <2>1
    <3>2. /\ b[2] \in DOMAIN file /\ file[b[2]].owner = b[1]
          /\ b[3] > file[b[2]].revision =>
               /\ b[3] = file[b[2]].revision + 1
               /\ Revise(b[2]) \in L \/ OwesRevision(O[b[1]], b[2])
      BY <1>1, <3>1 DEF BlobsMended
    <3> QED
      BY <2>1, <3>2
  <2>2. ASSUME NEW f \in DOMAIN file, file[f].owner \notin hurt', NEW r \in 1 .. file[f].revision
        PROVE  \/ <<file[f].owner, f, r>> \in stored \/ SaveBlob(<<file[f].owner, f, r>>) \in M
               \/ EraseFile(f) \in M
    <3>1. file[f].owner \notin hurt
      BY <2>2
    <3>2. \/ <<file[f].owner, f, r>> \in stored \/ SaveBlob(<<file[f].owner, f, r>>) \in L
          \/ EraseFile(f) \in L
      BY <1>1, <2>2, <3>1 DEF BlobsMended
    <3>3. PICK b : b = <<file[f].owner, f, r>>
      OBVIOUS
    <3>4. b[1] = file[f].owner
      BY <3>3
    <3> QED
      BY <2>2, <3>2, <3>3, <3>4
  <2> QED
    BY <2>1, <2>2 DEF BlobsMended, Revise, OwesRevision, SaveBlob, EraseFile
<1> QED
  BY <1>2, <1>4, <1>5, <1>6, <1>7 DEF MendWith

\* A user may come to owe a request without harm.
LEMMA OwedMore ==
  ASSUME TypeOK, NEW L, NEW O, NEW P, MendWith(L, O), \A v \in Users : O[v] = P[v] \/ O[v] = NoAsk
  PROVE  MendWith(L, P)
<1>1. \A v \in Users : \A f : /\ OwesRecovery(O[v], f) => OwesRecovery(P[v], f)
                              /\ \A x : OwesGrant(O[v], x, f) => OwesGrant(P[v], x, f)
                              /\ \A x : OwesRevoke(O[v], x, f) => OwesRevoke(P[v], x, f)
                              /\ OwesLeave(O[v], f) => OwesLeave(P[v], f)
                              /\ OwesRevision(O[v], f) => OwesRevision(P[v], f)
  BY DEF NoAsk, OwesRecovery, OwesGrant, OwesRevoke, OwesLeave, OwesRevision
<1>2. /\ \A f \in DOMAIN file : file[f].owner \in Users
      /\ \A b \in stored : b[1] \in Users
  BY DEF TypeOK, FileRecord
<1>3. TreeMended(L) /\ PlaceMended(L, O) /\ ShareMended(L, O) /\ TrashMended(L) /\ BlobsMended(L, O)
  BY DEF MendWith
<1>4. PlaceMended(L, P)
  BY <1>1, <1>2, <1>3 DEF PlaceMended
<1>5. ShareMended(L, P)
  BY <1>1, <1>2, <1>3 DEF ShareMended
<1>6. BlobsMended(L, P)
  BY <1>1, <1>2, <1>3 DEF BlobsMended
<1> QED
  BY <1>3, <1>4, <1>5, <1>6 DEF MendWith

\* Nothing is written, nothing else is owed.
LEMMA MendSame ==
  ASSUME TypeOK, UNCHANGED <<user, dir, file, stored, hurt>>, hurt \subseteq Users,
         NEW L, NEW O, MendWith(L, O)
  PROVE  MendWith(L, O)'
BY MendCarried

\* The writes of a request that come after a drawn id.
LEMMA AfterDraw ==
  ASSUME NEW s \in Seq(Writes), NEW K \in Kinds, s \in Planned(K), \A i \in DOMAIN s : Placed(s, i),
         NEW i \in DOMAIN s, i > 1, s[i].op \in {"add_dir", "add_file"}
  PROVE  s[1].op = "draw"
<1>1. /\ i \in 1 .. Len(s) /\ Len(s) \in Nat /\ 1 \in DOMAIN s
      /\ s[1].op \in K /\ s[i].op \in K
  BY DEF Planned
<1>2. s[i].op = "add_dir" => K = {"draw", "add_dir"}
  BY <1>1 DEF Kinds, DeletionOps, PurgeOps, RecoveryOps, SharingOps
<1>3. s[1].op = "add_dir" => 1 = Len(s)
  BY <1>1 DEF Placed
<1>4. s[i].op = "add_file" => s[1] = DrawFile
  BY <1>1 DEF Placed
<1> QED
  BY <1>1, <1>2, <1>3, <1>4 DEF DrawFile

\* A request that is about to draw an id is not a revision.
LEMMA DrawLinked ==
  ASSUME NEW s \in Seq(Writes), s # <<>>, NEW K \in Kinds, s \in Planned(K), NEW u, NEW a, Linked(u, s, a),
         s[1].op = "draw"
  PROVE  a.kind # "revision"
<1>1. /\ Len(s) \in Nat /\ Len(s) \in DOMAIN s /\ 1 \in DOMAIN s
  OBVIOUS
<1>2. s[1].op \in K /\ s[Len(s)].op \in K
  BY <1>1 DEF Planned
<1>3. a.kind = "revision" => s[Len(s)].op = "revise"
  BY DEF Linked, Revise
<1> QED
  BY <1>2, <1>3 DEF Kinds, DeletionOps, PurgeOps, RecoveryOps, SharingOps

LEMMA WriteMends ==
  ASSUME CatalogAssumption, StepsInv, MendInv, Write
  PROVE  MendInv'
<1>1. PICK s : s = run.todo
  OBVIOUS
<1>2. PICK u : u = run.user
  OBVIOUS
<1>3. /\ run # Idle /\ Advance
  BY WriteAdvances
<1>4. /\ s # <<>> /\ TypeOK /\ StoreInv /\ Ready(s) /\ u \in Users
      /\ run = [user |-> u, ask |-> run.ask, todo |-> s, ok |-> run.ok, begun |-> run.begun]
      /\ owed = [v \in Users |-> owed[v]] /\ hurt \subseteq Users
  BY <1>1, <1>2, <1>3 DEF StepsInv
<1>5. PICK w : w = s[1]
  OBVIOUS
<1>6. PICK K \in Kinds : /\ s \in Seq(Writes) /\ W = w /\ w \in Writes
                         /\ Backed(s, 1) /\ Placed(s, 1) /\ Len(s) \in Nat \ {0}
                         /\ s \in Planned(K) /\ \A i \in DOMAIN s : Placed(s, i)
                         /\ \A op : Next1(op) => w.op = op
  BY <1>1, <1>4, <1>5, FirstWrite
<1>7. Effect(w)
  BY <1>1, <1>4, <1>5, WriteEffect
<1>8. /\ Owned /\ MendWith(WritesOf(s), Owing)
      /\ \A i \in DOMAIN s : Local(u, s[i])
      /\ u \notin hurt => \E S \in Sorts : Kept(u, S, s)
      /\ Linked(u, s, run.ask)
      /\ ~run.begun => MendWith({}, owed)
  BY <1>1, <1>2, <1>3 DEF MendInv
<1>9. /\ 1 \in DOMAIN s /\ Local(u, w)
      /\ \A i \in DOMAIN Tail(s) : i \in Nat /\ i >= 1 /\ i + 1 \in DOMAIN s /\ Tail(s)[i] = s[i + 1]
  BY <1>4, <1>5, <1>6, <1>8, RestWrites
<1>10. Owned'
  BY <1>4, <1>5, <1>6, <1>7, <1>8, <1>9, OwnedKept
<1>11. hurt' = hurt
  BY <1>7 DEF Effect
<1>12. u \notin hurt => Good(u, s, 1, Done(s, 1), Left(s, 1))
  BY <1>8, <1>9 DEF Kept
<1>13. ASSUME NEW O, MendWith(WritesOf(s), O)
       PROVE  MendWith(WritesOf(Tail(s)), O)'
  BY <1>4, <1>5, <1>6, <1>7, <1>8, <1>9, <1>12, <1>13, MendStep
<1>14. CASE Len(s) > 1
  <2>1. PICK t : t = Tail(s)
    OBVIOUS
  <2>2. t # <<>>
    BY <1>4, <1>6, <1>14, <2>1, Rest
  <2>3. /\ run'.user = u /\ run'.todo = t /\ run'.ask = run.ask
        /\ run'.begun = (run.begun \/ w.op # "draw")
        /\ owed' = owed
    <3>1. /\ run' = [run EXCEPT !.todo = Tail(@), !.begun = @ \/ W.op # "draw"]
          /\ UNCHANGED <<before, owed>>
      BY <1>1, <1>3, <1>14 DEF Advance
    <3>2. PICK b : b = (run.begun \/ w.op # "draw")
      OBVIOUS
    <3>3. PICK r : r = run
      OBVIOUS
    <3>4. run' = [r EXCEPT !.todo = t, !.begun = b]
      <4>1. run' = [run EXCEPT !.todo = Tail(run.todo), !.begun = (run.begun \/ W.op # "draw")]
        BY <3>1
      <4>2. Tail(run.todo) = t /\ b = (run.begun \/ W.op # "draw")
        BY <1>1, <1>6, <2>1, <3>2
      <4> QED
        BY <3>3, <4>1, <4>2, Zenon
    <3>5. r = [user |-> u, ask |-> r.ask, todo |-> s, ok |-> r.ok, begun |-> r.begun]
      BY <1>4, <3>3, Zenon
    <3>6. run'.user = u /\ run'.todo = t /\ run'.ask = r.ask
      BY <3>4, <3>5
    <3>7. run'.begun = b
      BY <3>4, <3>5
    <3> QED
      BY <3>1, <3>2, <3>3, <3>6, <3>7, Zenon
  <2>4. /\ run' # Idle /\ run'.user = u /\ run'.todo = t /\ run'.ask = run.ask
        /\ run'.begun = (run.begun \/ w.op # "draw")
    BY <2>2, <2>3 DEF Idle
  <2>5. PICK O : O = Owing
    OBVIOUS
  <2>6. Owing' = O
    BY <1>2, <1>3, <2>3, <2>4, <2>5 DEF Owing, Users
  <2>7. MendWith(WritesOf(t), O)'
    BY <1>8, <1>13, <2>1, <2>5
  <2>8. MendWith(WritesOf(run.todo), Owing)'
    BY <2>4, <2>6, <2>7 DEF WritesOf
  <2>9. ASSUME NEW i \in DOMAIN t PROVE Local(u, t[i])'
    <3>1. PICK x \in Writes : x = t[i] /\ x = s[i + 1] /\ Local(u, x)
      BY <1>6, <1>8, <1>9, <2>1, <2>9
    <3>2. i + 1 > 1 /\ i + 1 \in DOMAIN s
      BY <1>9, <2>1, <2>9
    <3>3. x.op \in {"add_dir", "add_file"} => w.op = "draw"
      BY <1>5, <1>6, <3>1, <3>2, AfterDraw
    <3>4. Local(u, x)'
      BY <1>4, <1>6, <1>7, <1>9, <3>1, <3>3, LocalKept
    <3> QED
      BY <3>1, <3>4
  <2>10. u \notin hurt => \E S \in Sorts : Kept(u, S, t)'
    <3>1. SUFFICES ASSUME u \notin hurt PROVE \E S \in Sorts : Kept(u, S, t)'
      OBVIOUS
    <3>2. PICK S \in Sorts : Kept(u, S, s)
      BY <1>8, <3>1
    <3>3. Kept(u, S, Tail(s))'
      BY <1>4, <1>5, <1>6, <1>7, <1>9, <3>2, KeptStep
    <3> QED
      BY <2>1, <3>3
  <2>11. PICK a : a = run.ask
    OBVIOUS
  <2>12. Linked(u, t, a)'
    <3>1. w.op = "draw" => a.kind # "revision"
      BY <1>4, <1>5, <1>6, <1>8, <2>11, DrawLinked
    <3>2. Linked(u, Tail(s), a)'
      BY <1>4, <1>5, <1>6, <1>7, <1>8, <1>9, <2>1, <2>2, <2>11, <3>1, LinkedStep
    <3> QED
      BY <2>1, <3>2
  <2>13. ASSUME ~run'.begun PROVE MendWith({}, owed)'
    <3>1. ~run.begun /\ w.op = "draw"
      BY <2>4, <2>13
    <3>2. UNCHANGED <<user, dir, file, stored>>
      BY <1>6, <3>1 DEF Write, CreateId, AddDirectory, AddFile, PhysicalFile, ModifyUser, ModifyFile,
                        ModifyDirectory, EraseRecord
    <3>3. PICK P : P = owed
      OBVIOUS
    <3>4. MendWith({}, P)'
      BY <1>4, <1>8, <1>11, <3>1, <3>2, <3>3, MendSame
    <3> QED
      BY <2>3, <3>3, <3>4
  <2>14. (run # Idle)' => /\ \A i \in DOMAIN t : Local(u, t[i])'
                          /\ u \notin hurt' => \E S \in Sorts : Kept(u, S, t)'
                          /\ Linked(u, t, a)'
                          /\ ~run'.begun => MendWith({}, owed)'
    BY <1>11, <2>9, <2>10, <2>12, <2>13
  <2> QED
    BY <1>10, <2>4, <2>8, <2>11, <2>14 DEF MendInv, Sorts
<1>15. CASE ~(Len(s) > 1)
  <2>1. run' = Idle /\ owed' = IF run.ok THEN [owed EXCEPT ![u] = NoAsk] ELSE owed
    BY <1>1, <1>2, <1>3, <1>15 DEF Advance
  <2>2. PICK P : P = owed'
    OBVIOUS
  <2>3. \A v \in Users : Owing[v] = P[v] \/ Owing[v] = NoAsk
    <3>1. \A v \in Users : Owing[v] = IF v = u THEN NoAsk ELSE owed[v]
      BY <1>2, <1>3 DEF Owing
    <3>2. CASE run.ok
      BY <1>4, <2>1, <2>2, <3>1, <3>2
    <3>3. CASE ~run.ok
      BY <1>4, <2>1, <2>2, <3>1, <3>3
    <3> QED
      BY <3>2, <3>3
  <2>4. MendWith(WritesOf(s), P)
    <3>1. PICK O : O = Owing
      OBVIOUS
    <3> QED
      BY <1>4, <1>8, <2>3, <3>1, OwedMore
  <2>5. MendWith(WritesOf(Tail(s)), P)'
    BY <1>13, <2>4
  <2>6. Tail(s) = <<>>
    BY <1>4, <1>6, <1>15, Rest
  <2>7. WritesOf(<<>>) = {}
    BY DEF WritesOf
  <2>8. MendWith({}, P)'
    BY <2>5, <2>6, <2>7
  <2>9. Owing' = P
    <3>1. owed' = [v \in Users |-> owed'[v]]
      BY <1>4, <2>1
    <3> QED
      BY <2>1, <2>2, <3>1 DEF Owing, Users
  <2>10. MendWith(WritesOf(run.todo), Owing)'
    BY <2>1, <2>7, <2>8, <2>9 DEF Idle, WritesOf
  <2> QED
    BY <1>10, <2>1, <2>10 DEF MendInv
<1> QED
  BY <1>14, <1>15

----------------------------------------------------------------------------
(* A crash drops the writes L of user u, who is hurt or owes a request      *)
(* that they belong to.                                                     *)

Repeats(u, L, a) ==
  /\ \A w \in L : w.op \notin {"erase_dir", "unlist_dir", "unlist", "trash", "save", "erase_file"}
  /\ \A f : Emptied(L, u, f) => OwesRecovery(a, f) /\ f \in DOMAIN file
  /\ \A v, f : GrantShare(v, f) \in L => OwesGrant(a, v, f)
  /\ \A v, f : RevokeShare(v, f) \in L =>
       /\ Untrashed(f)
       /\ (OwesRevoke(a, v, f) /\ OwnFile(u, f)) \/ (v = u /\ OwesLeave(a, f))
  /\ \A f : Revise(f) \in L => OwesRevision(a, f)

\* What is left of a repeatable request, once it has written, it repeats.
LEMMA LinkedRepeats ==
  ASSUME NEW u \in Users, NEW s \in Seq(Writes), s # <<>>, NEW a, Linked(u, s, a), a.kind \in Repeatable,
         \A i \in DOMAIN s : Local(u, s[i]), run.begun, u \notin hurt
  PROVE  Repeats(u, WritesOf(s), a)
<1>1. PICK L : L = WritesOf(s)
  OBVIOUS
<1>2. \A w \in L : \E i \in DOMAIN s : w = s[i]
  BY <1>1 DEF WritesOf
<1>3. \A v, f : /\ GrantShare(v, f).op = "grant_share" /\ GrantShare(v, f).user = v
                /\ GrantShare(v, f).file = f
                /\ RevokeShare(v, f).op = "revoke_share" /\ RevokeShare(v, f).user = v
                /\ RevokeShare(v, f).file = f
                /\ Revise(f).op = "revise" /\ Revise(f).file = f
  BY DEF GrantShare, RevokeShare, Revise
<1>4. CASE a.kind \in {"share", "unshare", "overwrite"}
  <2>1. \A w \in L : /\ w.op \in Sharing /\ w.file = a.file /\ OwnFile(u, a.file) /\ Untrashed(a.file)
                     /\ w.op = "grant_share" => OwesGrant(a, w.user, w.file)
                     /\ w.op = "revoke_share" => OwesRevoke(a, w.user, w.file)
    <3> SUFFICES ASSUME NEW i \in DOMAIN s
                 PROVE  /\ s[i].op \in Sharing /\ s[i].file = a.file
                        /\ OwnFile(u, a.file) /\ Untrashed(a.file)
                        /\ s[i].op = "grant_share" => OwesGrant(a, s[i].user, s[i].file)
                        /\ s[i].op = "revoke_share" => OwesRevoke(a, s[i].user, s[i].file)
      BY <1>2
    <3>1. OwnShare(u, s, a)
      BY <1>4 DEF Linked
    <3>2. s[i].op \in Sharing
      BY <1>4 DEF Linked, Sharing
    <3>3. s[i].op = "grant_share" => OwesGrant(a, s[i].user, s[i].file)
      BY <1>4, <3>1 DEF Linked, OwnShare, OwesGrant
    <3>4. s[i].op = "revoke_share" => OwesRevoke(a, s[i].user, s[i].file)
      BY <1>4, <3>1 DEF Linked, OwnShare, OwesRevoke
    <3> QED
      BY <3>1, <3>2, <3>3, <3>4 DEF OwnShare
  <2>2. \A w \in L : w.op \notin {"empty_trash", "revise", "erase_dir", "unlist_dir", "unlist", "trash",
                                  "save", "erase_file"}
    BY <2>1 DEF Sharing
  <2>3. \A f : ~Emptied(L, u, f)
    BY <2>2 DEF Emptied
  <2>4. \A v, f : GrantShare(v, f) \in L => OwesGrant(a, v, f)
    BY <1>3, <2>1
  <2>5. \A v, f : RevokeShare(v, f) \in L => Untrashed(f) /\ OwesRevoke(a, v, f) /\ OwnFile(u, f)
    BY <1>3, <2>1
  <2>6. \A f : Revise(f) \notin L
    BY <1>3, <2>2
  <2> QED
    <3>1. \A w \in L : w.op \notin {"erase_dir", "unlist_dir", "unlist", "trash", "save", "erase_file"}
      BY <2>2
    <3>2. \A v, f : RevokeShare(v, f) \in L =>
                      Untrashed(f) /\ ((OwesRevoke(a, v, f) /\ OwnFile(u, f)) \/ (v = u /\ OwesLeave(a, f)))
      BY <2>5
    <3>3. \A f : Emptied(L, u, f) => OwesRecovery(a, f) /\ f \in DOMAIN file
      BY <2>3
    <3>4. \A f : Revise(f) \in L => OwesRevision(a, f)
      BY <2>6
    <3> QED
      BY <1>1, <2>4, <3>1, <3>2, <3>3, <3>4 DEF Repeats
<1>5. CASE a.kind = "leave"
  <2>1. \A w \in L : /\ w.op \in {"unlist_share", "revoke_share"} /\ w.user = u
                     /\ w.file = a.file /\ Untrashed(a.file)
    BY <1>2, <1>5 DEF Linked
  <2>2. \A f : ~Emptied(L, u, f)
    BY <2>1 DEF Emptied
  <2>3. \A v, f : GrantShare(v, f) \notin L
    BY <1>3, <2>1
  <2>4. \A v, f : RevokeShare(v, f) \in L => Untrashed(f) /\ v = u /\ OwesLeave(a, f)
    BY <1>3, <1>5, <2>1 DEF OwesLeave
  <2>5. \A f : Revise(f) \notin L
    BY <1>3, <2>1
  <2> QED
    BY <1>1, <2>1, <2>2, <2>3, <2>4, <2>5 DEF Repeats
<1>6. CASE a.kind = "recover"
  <2>1. /\ a.files \subseteq DOMAIN file
        /\ \A w \in L : \/ w.op \in {"adopt", "relist"}
                        \/ w.op = "empty_trash" /\ w.files = a.files
    BY <1>2, <1>6 DEF Linked
  <2>2. \A f : Emptied(L, u, f) => OwesRecovery(a, f) /\ f \in DOMAIN file
    BY <1>6, <2>1 DEF Emptied, OwesRecovery
  <2>3. \A v, f : GrantShare(v, f) \notin L /\ RevokeShare(v, f) \notin L /\ Revise(f) \notin L
    BY <1>3, <2>1
  <2> QED
    BY <1>1, <2>1, <2>2, <2>3 DEF Repeats
<1>7. CASE a.kind = "revision"
  <2>1. Len(s) = 1 /\ s[1] = Revise(a.file)
    BY <1>7 DEF Linked
  <2>2. \A w \in L : w.op = "revise" /\ w.file = a.file
    <3>1. DOMAIN s = 1 .. Len(s)
      OBVIOUS
    <3> QED
      BY <1>2, <1>3, <2>1, <3>1
  <2>3. \A f : ~Emptied(L, u, f)
    BY <2>2 DEF Emptied
  <2>4. \A v, f : GrantShare(v, f) \notin L /\ RevokeShare(v, f) \notin L
    BY <1>3, <2>2
  <2>5. \A f : Revise(f) \in L => OwesRevision(a, f)
    BY <1>3, <1>7, <2>2 DEF OwesRevision
  <2> QED
    BY <1>1, <2>2, <2>3, <2>4, <2>5 DEF Repeats
<1> QED
  BY <1>4, <1>5, <1>6, <1>7 DEF Repeatable

LEMMA DroppedMends ==
  ASSUME TypeOK, Owned, UNCHANGED <<user, dir, file, stored>>, hurt \subseteq hurt', hurt' \subseteq Users,
         NEW u \in Users, NEW L, NEW O, MendWith(L, O), \A w \in L : Local(u, w), O[u] = NoAsk,
         NEW P, \A v \in Users : v # u => O[v] = P[v],
         u \notin hurt' => Repeats(u, L, P[u])
  PROVE  MendWith({}, P)'
<1>1. \A f : /\ ~OwesRecovery(O[u], f) /\ ~OwesLeave(O[u], f) /\ ~OwesRevision(O[u], f)
             /\ \A v : ~OwesGrant(O[u], v, f) /\ ~OwesRevoke(O[u], v, f)
  BY DEF NoAsk, OwesRecovery, OwesLeave, OwesRevision, OwesGrant, OwesRevoke
<1>2. \A f \in DOMAIN file : file[f].owner \in Users
  BY DEF TypeOK, FileRecord
<1>3. ASSUME NEW d \in DOMAIN dir, dir[d].owner \notin hurt'
      PROVE  /\ EraseDir(d) \notin L
             /\ \A c : UnlistDir(d, c) \notin L
  <2>1. EraseDir(d) \in L => u \notin hurt'
    BY <1>3, WriteNames DEF Local, OwnDir
  <2>2. ASSUME NEW c, UnlistDir(d, c) \in L PROVE u \notin hurt'
    BY <1>3, <2>2, WriteNames DEF Local, OwnDir
  <2> QED
    BY <2>1, <2>2, WriteNames DEF Repeats
<1>4. ASSUME NEW f \in DOMAIN file, file[f].owner \notin hurt', file[f].owner # u
      PROVE  /\ Listed(f) => Unlist(file[f].parent_directory, f) \notin L
             /\ ~Emptied(L, file[f].owner, f)
             /\ \A v : GrantShare(v, f) \notin L
             /\ \A v : RevokeShare(v, f) \in L => v = u /\ ~InTrash(f)
             /\ \A b : SaveBlob(b) \in L => b[1] # file[f].owner
             /\ EraseFile(f) \notin L /\ Revise(f) \notin L
  <2>1. Listed(f) => Unlist(file[f].parent_directory, f) \notin L
    BY <1>4, WriteNames DEF Local, OwnDir, Listed, Owned
  <2>2. ~Emptied(L, file[f].owner, f)
    BY <1>4 DEF Local, Emptied
  <2>3. \A v : GrantShare(v, f) \notin L
    BY <1>4, WriteNames DEF Local, OwnFile
  <2>4. \A v : RevokeShare(v, f) \in L => v = u /\ ~InTrash(f)
    <3> SUFFICES ASSUME NEW w \in L, NEW v, w = RevokeShare(v, f) PROVE v = u /\ ~InTrash(f)
      OBVIOUS
    <3>1. w.op = "revoke_share" /\ w.user = v /\ w.file = f
      BY WriteNames
    <3>2. OwnFile(u, f) \/ (v = u /\ Untrashed(f))
      BY <3>1 DEF Local
    <3>3. file[f].owner \notin hurt
      BY <1>4
    <3> QED
      BY <1>4, <3>2, <3>3 DEF OwnFile, Untrashed
  <2>5. \A b : SaveBlob(b) \in L => b[1] # file[f].owner
    BY <1>4, WriteNames DEF Local
  <2>6. EraseFile(f) \notin L /\ Revise(f) \notin L
    BY <1>4, WriteNames DEF Local, OwnFile
  <2> QED
    BY <2>1, <2>2, <2>3, <2>4, <2>5, <2>6
<1>5. ASSUME NEW f \in DOMAIN file, file[f].owner \notin hurt', file[f].owner = u
      PROVE  /\ Unlist(file[f].parent_directory, f) \notin L
             /\ Emptied(L, u, f) => OwesRecovery(P[u], f)
             /\ \A v : GrantShare(v, f) \in L => OwesGrant(P[u], v, f)
             /\ \A v : RevokeShare(v, f) \in L =>
                  ~InTrash(f) /\ (OwesRevoke(P[u], v, f) \/ (v = u /\ OwesLeave(P[u], f)))
             /\ \A b : SaveBlob(b) \notin L
             /\ EraseFile(f) \notin L
             /\ Revise(f) \in L => OwesRevision(P[u], f)
  <2>1. Repeats(u, L, P[u]) /\ file[f].owner \notin hurt
    BY <1>5
  <2>2. \A v : RevokeShare(v, f) \in L =>
                 ~InTrash(f) /\ (OwesRevoke(P[u], v, f) \/ (v = u /\ OwesLeave(P[u], f)))
    BY <1>5, <2>1 DEF Repeats, Untrashed
  <2>3. /\ Unlist(file[f].parent_directory, f) \notin L /\ EraseFile(f) \notin L
        /\ \A b : SaveBlob(b) \notin L
    BY <2>1, WriteNames DEF Repeats
  <2> QED
    BY <2>1, <2>2, <2>3 DEF Repeats
<1>6. ASSUME NEW f \in DOMAIN file, file[f].owner \notin hurt'
      PROVE  /\ Listed(f) /\ InTrash(f) =>
                (\/ Unlist(file[f].parent_directory, f) \in L
                 \/ Emptied(L, file[f].owner, f)
                 \/ OwesRecovery(O[file[f].owner], f)
                 => OwesRecovery(P[file[f].owner], f))
             /\ \A v \in Users \ hurt' :
                  /\ GrantShare(v, f) \in L \/ OwesGrant(O[file[f].owner], v, f) =>
                       OwesGrant(P[file[f].owner], v, f)
                  /\ \/ RevokeShare(v, f) \in L
                     \/ OwesRevoke(O[file[f].owner], v, f) \/ OwesLeave(O[v], f)
                     => OwesRevoke(P[file[f].owner], v, f) \/ OwesLeave(P[v], f)
             /\ InTrash(f) => \A v : RevokeShare(v, f) \notin L
             /\ \A b : ~(SaveBlob(b) \in L /\ b[1] = file[f].owner)
             /\ EraseFile(f) \notin L
             /\ Revise(f) \in L \/ OwesRevision(O[file[f].owner], f) => OwesRevision(P[file[f].owner], f)
  <2>1. CASE file[f].owner = u
    BY <1>1, <1>5, <1>6, <2>1
  <2>2. CASE file[f].owner # u
    <3>1. O[file[f].owner] = P[file[f].owner]
      BY <1>2, <2>2
    <3>2. ASSUME NEW v \in Users \ hurt'
          PROVE  /\ \/ RevokeShare(v, f) \in L
                    \/ OwesRevoke(O[file[f].owner], v, f) \/ OwesLeave(O[v], f)
                    => OwesRevoke(P[file[f].owner], v, f) \/ OwesLeave(P[v], f)
      <4>1. CASE v = u
        <5>1. Repeats(u, L, P[u])
          BY <4>1
        <5>2. RevokeShare(v, f) \in L => OwesLeave(P[v], f)
          BY <1>6, <2>2, <4>1, <5>1 DEF Repeats, OwnFile
        <5> QED
          BY <1>1, <3>1, <4>1, <5>2
      <4>2. CASE v # u
        BY <1>4, <1>6, <2>2, <3>1, <4>2
      <4> QED
        BY <4>1, <4>2
    <3> QED
      BY <1>4, <1>6, <2>2, <3>1, <3>2
  <2> QED
    BY <2>1, <2>2
<1>7. ASSUME NEW v \in Users \ hurt', NEW f, Emptied(L, v, f)
      PROVE  f \in DOMAIN file
  <2>1. v = u
    BY <1>7 DEF Emptied, Local
  <2> QED
    BY <1>7, <2>1 DEF Repeats
<1>8. \A f : ~Emptied({}, u, f)
  BY DEF Emptied
<1>9. /\ \A d \in DOMAIN dir : dir[d].owner \notin hurt' =>
           /\ EraseDir(d) \in L => EraseDir(d) \in {}
           /\ \A c : UnlistDir(d, c) \in L => UnlistDir(d, c) \in {}
      /\ \A f \in DOMAIN file : file[f].owner \notin hurt' =>
           /\ Listed(f) /\ InTrash(f) =>
              (\/ Unlist(file[f].parent_directory, f) \in L
               \/ Emptied(L, file[f].owner, f)
               \/ OwesRecovery(O[file[f].owner], f)
               => \/ Unlist(file[f].parent_directory, f) \in {}
                  \/ Emptied({}, file[f].owner, f)
                  \/ OwesRecovery(P[file[f].owner], f))
           /\ \A v \in Users \ hurt' :
                /\ GrantShare(v, f) \in L \/ OwesGrant(O[file[f].owner], v, f) =>
                     GrantShare(v, f) \in {} \/ OwesGrant(P[file[f].owner], v, f)
                /\ v \in file[f].users_shared =>
                     (\/ RevokeShare(v, f) \in L
                      \/ OwesRevoke(O[file[f].owner], v, f) \/ OwesLeave(O[v], f)
                      => \/ RevokeShare(v, f) \in {}
                         \/ OwesRevoke(P[file[f].owner], v, f) \/ OwesLeave(P[v], f))
           /\ InTrash(f) => \A v : RevokeShare(v, f) \in L => RevokeShare(v, f) \in {}
           /\ \A b : SaveBlob(b) \in L /\ b[1] = file[f].owner => SaveBlob(b) \in {}
           /\ EraseFile(f) \in L => EraseFile(f) \in {}
           /\ Revise(f) \in L \/ OwesRevision(O[file[f].owner], f) =>
                Revise(f) \in {} \/ OwesRevision(P[file[f].owner], f)
      /\ \A v \in Users \ hurt' : \A f : Emptied(L, v, f) => Emptied({}, v, f) \/ f \in DOMAIN file
  BY <1>3, <1>6, <1>7
<1> QED
  BY <1>9, MendCarried

LEMMA CrashMends ==
  ASSUME CatalogAssumption, StepsInv, MendInv, Crash
  PROVE  MendInv'
<1>1. PICK s : s = run.todo
  OBVIOUS
<1>2. PICK u : u = run.user
  OBVIOUS
<1>3. /\ run # Idle /\ run' = Idle /\ UNCHANGED <<user, dir, file, stored, ticket>>
      /\ s # <<>> /\ TypeOK /\ StoreInv /\ Ready(s) /\ u \in Users
      /\ owed = [v \in Users |-> owed[v]] /\ hurt \subseteq Users
  BY <1>1, <1>2 DEF Crash, StepsInv
<1>4. /\ Owned /\ MendWith(WritesOf(s), Owing)
      /\ \A i \in DOMAIN s : Local(u, s[i])
      /\ Linked(u, s, run.ask)
      /\ ~run.begun => MendWith({}, owed)
  BY <1>1, <1>2, <1>3 DEF MendInv
<1>5. s \in Seq(Writes)
  BY <1>1, <1>3, FirstWrite
<1>6. Owned'
  BY <1>3, <1>4 DEF Owned, Users, NoParent
<1>7. PICK P : P = owed'
  OBVIOUS
<1>8. PICK O : O = Owing
  OBVIOUS
<1>9. PICK L : L = WritesOf(s)
  OBVIOUS
<1>10. /\ O[u] = NoAsk /\ \A v \in Users : v # u => O[v] = owed[v]
       /\ MendWith(L, O) /\ \A w \in L : Local(u, w)
  BY <1>2, <1>3, <1>4, <1>8, <1>9 DEF Owing, WritesOf
<1>14. MendWith({}, P)'
  <2>1. CASE ~run.begun
    <3>1. owed' = owed /\ hurt' = hurt
      BY <2>1 DEF Crash
    <3> QED
      BY <1>3, <1>4, <1>7, <2>1, <3>1, MendSame
  <2>2. CASE run.begun /\ run.ask.kind \in Repeatable /\ owed' = [owed EXCEPT ![u] = run.ask] /\ hurt' = hurt
    <3>1. P[u] = run.ask /\ \A v \in Users : v # u => O[v] = P[v]
      BY <1>3, <1>7, <1>10, <2>2
    <3>2. u \notin hurt => Repeats(u, L, P[u])
      BY <1>3, <1>4, <1>5, <1>9, <2>2, <3>1, LinkedRepeats
    <3> QED
      BY <1>3, <1>4, <1>10, <2>2, <3>1, <3>2, DroppedMends
  <2>3. CASE hurt' = hurt \cup {u} /\ owed' = [owed EXCEPT ![u] = NoAsk]
    <3>1. \A v \in Users : v # u => O[v] = P[v]
      BY <1>3, <1>7, <1>10, <2>3
    <3>2. u \in hurt' /\ hurt' \subseteq Users /\ hurt \subseteq hurt'
      BY <1>3, <2>3
    <3> QED
      BY <1>3, <1>4, <1>10, <3>1, <3>2, DroppedMends
  <2> QED
    BY <1>2, <2>1, <2>2, <2>3 DEF Crash
<1>15. WritesOf(<<>>) = {} /\ Idle.todo = <<>>
  BY DEF WritesOf, Idle
<1>16. Owing' = P
  <2>1. owed' = [v \in Users |-> owed'[v]]
    BY <1>3 DEF Crash
  <2> QED
    BY <1>3, <1>7, <2>1 DEF Owing, Users
<1>17. MendWith(WritesOf(run.todo), Owing)'
  BY <1>3, <1>14, <1>15, <1>16 DEF WritesOf
<1> QED
  BY <1>3, <1>6, <1>17 DEF MendInv

=============================================================================
