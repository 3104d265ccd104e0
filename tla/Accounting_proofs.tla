--------------------------- MODULE Accounting_proofs ---------------------------
(***************************************************************************)
(* Two groups of theorems, the second on the ground of the first.          *)
(*                                                                         *)
(* About Catalog: that its tables agree with one another.  Some of this    *)
(* holds whatever goes wrong; the other theorems say which of the Slips    *)
(* would break them, and hold for every number of users and every bound.   *)
(*                                                                         *)
(* About Accounting: for any accounts, sizes, bounds and quota, the        *)
(* numbers stay well formed, the quota of an account is what it has on the *)
(* disk and what its purges lost, and it bounds the storage.               *)
(***************************************************************************)
EXTENDS Accounting, Catalog_proofs, FiniteSetTheorems

----------------------------------------------------------------------------
(* Kinds of steps.  What the tables have to do with one another depends on *)
(* who lists what, so requests are sorted by their effect on the lists.    *)

\* Nothing moves: names, shares, revisions, an id drawn in vain.
Quiet ==
  /\ UNCHANGED dir
  /\ DOMAIN file' = DOMAIN file
  /\ ticket'.file = ticket.file
  /\ ticket'.dir \in {ticket.dir, ticket.dir + 1}
  /\ \A v \in Users : /\ user'[v].dir_root = user[v].dir_root
                      /\ user'[v].files_deleted = user[v].files_deleted
  /\ \A f \in DOMAIN file : /\ file'[f].owner = file[f].owner
                            /\ file'[f].parent_directory = file[f].parent_directory

\* The files F go to the trash and out of the directories that stay; the
\* directories that go list nothing else.
Deletes(F) ==
  /\ F \subseteq DOMAIN file
  /\ TrashAndUnlist(F) /\ Unshare(F)
  /\ UNCHANGED <<stored, ticket>>
  /\ DOMAIN dir' \subseteq DOMAIN dir
  /\ \A d \in DOMAIN dir \ DOMAIN dir' : dir[d].files_contained \cap DOMAIN file \subseteq F
  /\ \A d \in DOMAIN dir' :
       /\ dir'[d].owner = dir[d].owner
       /\ dir'[d].parent_directory = dir[d].parent_directory
       /\ dir'[d].directories_contained \subseteq dir[d].directories_contained
       /\ dir'[d].files_contained \subseteq dir[d].files_contained
       /\ dir[d].files_contained \ F \subseteq dir'[d].files_contained

\* The files P of u's trash are destroyed; the list forgets them, or forgets
\* nothing.
Purges(u, P) ==
  /\ P \subseteq Trash(u)
  /\ file' = Erase(file, P) /\ stored' = stored \ RevisionsOf(P)
  /\ UNCHANGED <<dir, ticket>>
  /\ UNCHANGED user \/ user' = Without(u, P)

\* The files P of u's trash go home, those of Q remember it; the list forgets
\* P, or forgets nothing.
Recovers(u, P, Q) ==
  /\ P \subseteq Recoverable(u) /\ P \subseteq Q /\ Q \subseteq Trash(u)
  /\ MoveHome(u, P) /\ Readopt(u, Q)
  /\ UNCHANGED <<stored, ticket>>
  /\ UNCHANGED user \/ (user' = Without(u, P) /\ P = Q)

LEMMA ShareQuiet ==
  ASSUME TypeOK, NEW u \in Users, NEW f \in FileId,
         \/ LeaveSharedFile(u, f)
         \/ \E n \in Names : ModifyFileInfo(u, f, n)
         \/ \E v \in Users : SetFileShare(u, f, v) \/ UnsetFileShare(u, f, v)
         \/ \E V \in SUBSET Users : OverwriteFileSharing(u, f, V)
  PROVE  Quiet
BY ShareEffect DEF Quiet

LEMMA RevisionEffect ==
  ASSUME TypeOK, NEW u \in Users, NEW p \in DirId, NEW g \in FileId,
         NewRevision(u, p, g) \/ NewRevisionNotSaved(u, p, g)
  PROVE  /\ UNCHANGED <<user, dir, ticket>>
         /\ DOMAIN file' = DOMAIN file
         /\ \A f \in DOMAIN file :
              /\ file'[f].owner = file[f].owner
              /\ file'[f].users_shared = file[f].users_shared
              /\ file'[f].parent_directory = file[f].parent_directory
BY DEF NewRevision, NewRevisionNotSaved, TypeOK, FileRecord

LEMMA DeleteFileKind ==
  ASSUME TypeOK, NEW u \in Users, NEW f \in FileId, DeleteFile(u, f)
  PROVE  Deletes({f})
BY DEF DeleteFile, Deletes, TypeOK, DirRecord

LEMMA DeleteDirectoryKind ==
  ASSUME TypeOK, NEW u \in Users, NEW d \in DirId, DeleteDirectory(u, d)
  PROVE  Deletes(FilesIn(Subtree(d)))
<1> DEFINE F == FilesIn(Subtree(d))
<1>1. F \subseteq DOMAIN file /\ \A x \in Subtree(d) : dir[x].files_contained \subseteq F
  BY DEF DeleteDirectory, Intact, FilesIn
<1>2. /\ DOMAIN dir' = DOMAIN dir \ Subtree(d)
      /\ TrashAndUnlist(F) /\ Unshare(F) /\ UNCHANGED <<stored, ticket>>
  BY DEF DeleteDirectory
<1>3. ASSUME NEW x \in DOMAIN dir'
      PROVE  /\ dir'[x].owner = dir[x].owner
             /\ dir'[x].parent_directory = dir[x].parent_directory
             /\ dir'[x].directories_contained \subseteq dir[x].directories_contained
             /\ dir'[x].files_contained = dir[x].files_contained
  <2>1. dir[x] \in DirRecord
    BY <1>2 DEF TypeOK
  <2>2. \/ dir'[x] = dir[x]
        \/ dir'[x] = [dir[x] EXCEPT !.directories_contained = @ \ {d}]
    BY DEF DeleteDirectory
  <2> QED
    BY <2>1, <2>2 DEF DirRecord
<1> HIDE DEF F
<1> QED
  BY <1>1, <1>2, <1>3 DEF Deletes, F

LEMMA FilesInLists ==
  ASSUME NEW D, NEW x \in D
  PROVE  dir[x].files_contained \subseteq FilesIn(D)
BY DEF FilesIn

LEMMA DeleteHalfwayKind ==
  ASSUME TypeOK, NEW u \in Users, NEW d \in DirId, DeleteDirectoryStopsHalfway(u, d)
  PROVE  \E F : Deletes(F)
<1>1. PICK D \in SUBSET (Subtree(d) \ {d}), F \in SUBSET (FilesIn(Subtree(d)) \cap DOMAIN file) :
        /\ \A x \in D : Intact(x) /\ Subtree(x) \subseteq D
        /\ FilesIn(D) \subseteq F
        /\ \A f \in F : user[file[f].owner].files_deleted[f] < MaxCopies
        /\ TrashAndUnlist(F) /\ Unshare(F)
        /\ dir' = [x \in DOMAIN dir \ D |-> IF x \in Subtree(d)
                     THEN [dir[x] EXCEPT !.files_contained = @ \ F] ELSE dir[x]]
  BY ZenonT(30) DEF DeleteDirectoryStopsHalfway
<1>2. \A x \in D : dir[x].files_contained \subseteq F
  <2> SUFFICES ASSUME NEW x \in D
               PROVE  dir[x].files_contained \subseteq F
    OBVIOUS
  <2> QED
    BY <1>1, FilesInLists
<1>3. DOMAIN dir' = DOMAIN dir \ D /\ UNCHANGED <<stored, ticket>>
  BY <1>1 DEF DeleteDirectoryStopsHalfway
<1>4. ASSUME NEW x \in DOMAIN dir'
      PROVE  /\ dir'[x].owner = dir[x].owner
             /\ dir'[x].parent_directory = dir[x].parent_directory
             /\ dir'[x].directories_contained = dir[x].directories_contained
             /\ dir'[x].files_contained \subseteq dir[x].files_contained
             /\ dir[x].files_contained \ F \subseteq dir'[x].files_contained
  <2>1. dir[x] \in DirRecord
    BY <1>3 DEF TypeOK
  <2>2. \/ dir'[x] = dir[x]
        \/ dir'[x] = [dir[x] EXCEPT !.files_contained = @ \ F]
    BY <1>1
  <2> QED
    BY <2>1, <2>2 DEF DirRecord
<1> QED
  BY <1>1, <1>2, <1>3, <1>4 DEF Deletes

LEMMA PurgeKind ==
  ASSUME NEW u \in Users, NEW S \in SUBSET FileId,
         PurgeDeletedFiles(u, S) \/ PurgeStopsHalfway(u, S)
  PROVE  \E P : Purges(u, P)
<1>1. CASE PurgeDeletedFiles(u, S)
  BY <1>1 DEF PurgeDeletedFiles, Purges
<1>2. CASE PurgeStopsHalfway(u, S)
  BY <1>2 DEF PurgeStopsHalfway, Purges
<1> QED
  BY <1>1, <1>2

LEMMA RecoverKind ==
  ASSUME NEW u \in Users, NEW S \in SUBSET FileId,
         RecoverDeletedFiles(u, S) \/ RecoverStopsHalfway(u, S)
  PROVE  \E P, Q : Recovers(u, P, Q)
<1>1. CASE RecoverDeletedFiles(u, S)
  BY <1>1 DEF RecoverDeletedFiles, Recovers, Recoverable
<1>2. CASE RecoverStopsHalfway(u, S)
  <2>1. PICK P \in SUBSET (S \cap Recoverable(u)), x \in S \ Recoverable(u) :
          MoveHome(u, P) /\ Readopt(u, P \cup {x})
    BY <1>2 DEF RecoverStopsHalfway
  <2> QED
    BY <1>2, <2>1 DEF RecoverStopsHalfway, Recovers, Recoverable
<1> QED
  BY <1>1, <1>2

LEMMA StepKinds ==
  ASSUME CatalogAssumption, TypeOK, [Next]_vars
  PROVE  \/ Quiet
         \/ \E u \in Users, p \in DirId :
              \/ NewDirectory(u, p)
              \/ \E n \in Names : NewFile(u, p, n) \/ NewFileNotSaved(u, p, n)
         \/ \E F : Deletes(F)
         \/ \E u \in Users, f \in FileId : DeleteFileOfDeletedDirectory(u, f)
         \/ \E u \in Users : \E P : Purges(u, P)
         \/ \E u \in Users : \E P, Q : Recovers(u, P, Q)
<1>1. CASE UNCHANGED vars
  BY <1>1 DEF vars, Quiet
<1>2. ASSUME NEW u \in Users, NEW p \in DirId, NewDirectoryInDeleted(u, p)
      PROVE  Quiet
  BY <1>2 DEF NewDirectoryInDeleted, Quiet, TypeOK
<1>3. ASSUME NEW u \in Users, NEW p \in DirId, NEW g \in FileId,
             NewRevision(u, p, g) \/ NewRevisionNotSaved(u, p, g)
      PROVE  Quiet
  BY <1>3, RevisionEffect DEF Quiet
<1>4. ASSUME NEW u \in Users, NEW d \in DirId,
             \/ NewDirectory(u, d) \/ NewDirectoryInDeleted(u, d)
             \/ DeleteDirectory(u, d) \/ DeleteDirectoryStopsHalfway(u, d)
             \/ \E n \in Names : NewFile(u, d, n) \/ NewFileNotSaved(u, d, n)
             \/ \E f \in FileId : NewRevision(u, d, f) \/ NewRevisionNotSaved(u, d, f)
      PROVE  \/ Quiet \/ NewDirectory(u, d) \/ \E F : Deletes(F)
             \/ \E n \in Names : NewFile(u, d, n) \/ NewFileNotSaved(u, d, n)
  BY <1>2, <1>3, <1>4, DeleteDirectoryKind, DeleteHalfwayKind
<1>5. ASSUME NEW u \in Users, NEW f \in FileId,
             \/ DeleteFile(u, f) \/ DeleteFileOfDeletedDirectory(u, f) \/ LeaveSharedFile(u, f)
             \/ \E n \in Names : ModifyFileInfo(u, f, n)
             \/ \E v \in Users : SetFileShare(u, f, v) \/ UnsetFileShare(u, f, v)
             \/ \E V \in SUBSET Users : OverwriteFileSharing(u, f, V)
      PROVE  Quiet \/ (\E F : Deletes(F)) \/ DeleteFileOfDeletedDirectory(u, f)
  BY <1>5, ShareQuiet, DeleteFileKind
<1>6. ASSUME NEW u \in Users, NEW S \in SUBSET FileId,
             \/ PurgeDeletedFiles(u, S) \/ PurgeStopsHalfway(u, S)
             \/ RecoverDeletedFiles(u, S) \/ RecoverStopsHalfway(u, S)
      PROVE  (\E P : Purges(u, P)) \/ \E P, Q : Recovers(u, P, Q)
  BY <1>6, PurgeKind, RecoverKind
<1> QED
  BY <1>1, <1>4, <1>5, <1>6 DEF Next

----------------------------------------------------------------------------
(* The shape of the tables, whatever goes wrong.                           *)

\* A root that exists is its user's and has no parent.
Rooted ==
  \A u \in Users : user[u].dir_root \in DOMAIN dir =>
    dir[user[u].dir_root].owner = u /\ dir[user[u].dir_root].parent_directory = NoParent

\* A directory is listed by the one it names as its parent only.
PointBack ==
  \A d \in DOMAIN dir : \A c \in dir[d].directories_contained :
    c < ticket.dir /\ (c \in DOMAIN dir => dir[c].parent_directory = d)

\* Files lie in directories of their owners.
Owned ==
  \A f \in DOMAIN file : file[f].parent_directory \in DOMAIN dir =>
    dir[file[f].parent_directory].owner = file[f].owner

\* A file is listed by the directory it names only.
Where ==
  \A d \in DOMAIN dir : \A f \in dir[d].files_contained :
    f < ticket.file /\ (f \in DOMAIN file => file[f].parent_directory = d)

Shape == Rooted /\ PointBack /\ Owned /\ Where /\ NoFileIsLost

LEMMA InitShape == ASSUME CatalogAssumption, Init PROVE Shape
<1>1. DOMAIN dir = 1 .. 2 * NumUsers /\ DOMAIN file = {} /\ ticket.dir = 2 * NumUsers + 1
  BY DEF Init
<1>2. Rooted
  <2> SUFFICES ASSUME NEW u \in Users
               PROVE  /\ dir[2 * u - 1].owner = u
                      /\ dir[2 * u - 1].parent_directory = NoParent
    BY DEF Rooted, Init
  <2>1. 2 * u - 1 \in 1 .. 2 * NumUsers /\ (2 * u - 1) % 2 = 1 /\ (2 * u - 1 + 1) \div 2 = u
    BY DEF Users, CatalogAssumption
  <2>2. dir[2 * u - 1] = [EmptyDir(u, NoParent)
                            EXCEPT !.directories_contained = {2 * u - 1 + 1}]
    BY <2>1 DEF Init
  <2> QED
    BY <2>2 DEF EmptyDir
<1>3. PointBack
  <2> SUFFICES ASSUME NEW d \in DOMAIN dir, NEW c \in dir[d].directories_contained
               PROVE  c < ticket.dir /\ (c \in DOMAIN dir => dir[c].parent_directory = d)
    BY DEF PointBack
  <2>1. d % 2 = 1 /\ c = d + 1
    BY DEF Init, EmptyDir
  <2>2. c % 2 = 0 /\ c \in 1 .. 2 * NumUsers /\ c - 1 = d
    BY <1>1, <2>1 DEF CatalogAssumption
  <2>3. dir[c] = EmptyDir(c \div 2, c - 1)
    BY <1>1, <2>2 DEF Init
  <2> QED
    BY <1>1, <2>2, <2>3 DEF EmptyDir, CatalogAssumption
<1>4. Where
  BY DEF Where, Init, EmptyDir
<1> QED
  BY <1>1, <1>2, <1>3, <1>4 DEF Shape, Owned, NoFileIsLost

LEMMA QuietShape ==
  ASSUME TypeOK, Ids, Shape, Quiet
  PROVE  Shape'
<1>1. Rooted' /\ Owned' /\ Where'
  BY DEF Quiet, Shape, Rooted, Owned, Where
<1>2. PointBack'
  <2>1. ticket.dir \in Nat /\ \A d \in DOMAIN dir : dir[d].directories_contained \subseteq Nat
    BY DEF TypeOK, DirRecord, DirId, CatalogAssumption
  <2> QED
    BY <2>1 DEF Quiet, Shape, PointBack
<1>3. NoFileIsLost'
  <2>1. \A f \in DOMAIN file : file[f].owner \in Users
    BY DEF TypeOK, FileRecord
  <2> QED
    BY <2>1 DEF Quiet, Shape, NoFileIsLost, InTrash, Trash
<1> QED
  BY <1>1, <1>2, <1>3 DEF Shape

LEMMA NewDirectoryShape ==
  ASSUME CatalogAssumption, TypeOK, Ids, Shape,
         NEW u \in Users, NEW p \in DirId, NewDirectory(u, p)
  PROVE  Shape'
<1> DEFINE t == ticket.dir
<1>1. /\ p \in DOMAIN dir /\ t \in Nat /\ t \notin DOMAIN dir /\ p # t
      /\ \A d \in DOMAIN dir : dir[d].directories_contained \subseteq Nat
  BY DEF NewDirectory, Ids, IdsBelowTicket, TypeOK, DirRecord, DirId, CatalogAssumption
<1>2. DOMAIN dir' = DOMAIN dir \cup {t} /\ dir'[t] = EmptyDir(u, p)
  BY <1>1 DEF NewDirectory, Put
<1>3. ASSUME NEW d \in DOMAIN dir
      PROVE  /\ dir'[d].owner = dir[d].owner
             /\ dir'[d].parent_directory = dir[d].parent_directory
             /\ dir'[d].files_contained = dir[d].files_contained
             /\ dir'[d].directories_contained =
                  dir[d].directories_contained \cup (IF d = p THEN {t} ELSE {})
  <2>1. dir[d] \in DirRecord
    BY DEF TypeOK
  <2>2. dir'[d] = IF d = p THEN [dir[p] EXCEPT !.directories_contained = @ \cup {t}] ELSE dir[d]
    BY <1>1 DEF NewDirectory, Put
  <2> HIDE DEF t
  <2> QED
    BY <2>1, <2>2 DEF DirRecord
<1>4. UNCHANGED <<user, file>> /\ ticket'.dir = t + 1 /\ ticket'.file = ticket.file
  BY DEF NewDirectory, TypeOK
<1>5. \A v \in Users : user[v].dir_root # t
  BY <1>1 DEF Ids, TypeOK, UserRecord, DirId
<1>6. \A f \in DOMAIN file : file[f].parent_directory # t
  BY <1>1 DEF Ids, IdsBelowTicket, TypeOK, FileRecord, DirId
<1>7. Rooted' /\ Owned'
  BY <1>2, <1>3, <1>4, <1>5, <1>6 DEF Shape, Rooted, Owned
<1>8. Where' /\ NoFileIsLost'
  BY <1>2, <1>3, <1>4, <1>6 DEF Shape, Where, NoFileIsLost, EmptyDir, InTrash, Trash
<1>9. PointBack'
  <2> SUFFICES ASSUME NEW d \in DOMAIN dir', NEW c \in dir'[d].directories_contained
               PROVE  c < ticket'.dir /\ (c \in DOMAIN dir' => dir'[c].parent_directory = d)
    BY DEF PointBack
  <2>1. d \in DOMAIN dir
    BY <1>2 DEF EmptyDir
  <2>2. CASE c \in dir[d].directories_contained
    BY <1>1, <1>2, <1>3, <1>4, <2>1, <2>2 DEF Shape, PointBack
  <2>3. CASE c = t /\ d = p
    BY <1>1, <1>2, <1>4, <2>3 DEF EmptyDir
  <2> QED
    BY <1>3, <2>1, <2>2, <2>3
<1> QED
  BY <1>7, <1>8, <1>9 DEF Shape

\* A new file, or the id of one whose bytes were not saved.
LEMMA NewFileEffect ==
  ASSUME CatalogAssumption, TypeOK, Ids, NEW u \in Users, NEW p \in DirId, NEW n \in Names,
         NewFile(u, p, n) \/ NewFileNotSaved(u, p, n)
  PROVE  /\ p \in DOMAIN dir /\ dir[p].owner = u /\ dir[p].files_contained \subseteq DOMAIN file
         /\ ticket.file \notin DOMAIN file /\ ticket.file \in FileId
         /\ ticket'.dir = ticket.dir /\ ticket'.file = ticket.file + 1
         /\ UNCHANGED user
         /\ \/ UNCHANGED file
            \/ /\ DOMAIN file' = DOMAIN file \cup {ticket.file}
               /\ file'[ticket.file] = NewRecord(u, p, n)
               /\ \A f \in DOMAIN file : file'[f] = file[f]
         /\ DOMAIN dir' = DOMAIN dir
         /\ \A d \in DOMAIN dir :
              /\ dir'[d].owner = dir[d].owner
              /\ dir'[d].parent_directory = dir[d].parent_directory
              /\ dir'[d].directories_contained = dir[d].directories_contained
              /\ dir'[d].files_contained = dir[d].files_contained
                                             \cup (IF d = p THEN {ticket.file} ELSE {})
<1>1. ticket.file \notin DOMAIN file /\ ticket.file \in FileId
  BY DEF NewFile, NewFileNotSaved, Ids, IdsBelowTicket, TypeOK, FileId, CatalogAssumption
<1>2. /\ p \in DOMAIN dir /\ dir[p].owner = u /\ dir[p].files_contained \subseteq DOMAIN file
      /\ UNCHANGED user
      /\ ticket'.dir = ticket.dir /\ ticket'.file = ticket.file + 1
  BY DEF NewFile, NewFileNotSaved, MayName, TypeOK
<1>3. \/ UNCHANGED file
      \/ /\ DOMAIN file' = DOMAIN file \cup {ticket.file}
         /\ file'[ticket.file] = NewRecord(u, p, n)
         /\ \A f \in DOMAIN file : file'[f] = file[f]
  <2>1. CASE NewFile(u, p, n)
    <3>1. file' = Put(file, ticket.file, NewRecord(u, p, n))
      BY <2>1 DEF NewFile
    <3> QED
      BY <1>1, <3>1 DEF Put
  <2>2. CASE NewFileNotSaved(u, p, n)
    BY <2>2 DEF NewFileNotSaved
  <2> QED
    BY <2>1, <2>2
<1>4. dir' = [dir EXCEPT ![p].files_contained = @ \cup {ticket.file}]
  BY DEF NewFile, NewFileNotSaved
<1>5. DOMAIN dir' = DOMAIN dir
  BY <1>4
<1>6. ASSUME NEW d \in DOMAIN dir
      PROVE  /\ dir'[d].owner = dir[d].owner
             /\ dir'[d].parent_directory = dir[d].parent_directory
             /\ dir'[d].directories_contained = dir[d].directories_contained
             /\ dir'[d].files_contained = dir[d].files_contained
                                            \cup (IF d = p THEN {ticket.file} ELSE {})
  BY <1>4 DEF TypeOK, DirRecord
<1> QED
  BY <1>1, <1>2, <1>3, <1>5, <1>6

LEMMA NewFileShape ==
  ASSUME CatalogAssumption, TypeOK, Ids, Shape, NEW u \in Users, NEW p \in DirId, NEW n \in Names,
         NewFile(u, p, n) \/ NewFileNotSaved(u, p, n)
  PROVE  Shape'
<1>1. ticket.file \in Nat /\ \A d \in DOMAIN dir : dir[d].files_contained \subseteq Nat
  BY DEF TypeOK, DirRecord, FileId, CatalogAssumption
<1>2. Rooted' /\ PointBack'
  BY NewFileEffect DEF Shape, Rooted, PointBack
<1>3. Owned'
  <2> SUFFICES ASSUME NEW f \in DOMAIN file', file'[f].parent_directory \in DOMAIN dir'
               PROVE  dir'[file'[f].parent_directory].owner = file'[f].owner
    BY DEF Owned
  <2>1. CASE f \in DOMAIN file /\ file'[f] = file[f]
    BY <2>1, NewFileEffect DEF Shape, Owned
  <2>2. CASE f = ticket.file /\ file'[f] = NewRecord(u, p, n)
    BY <2>2, NewFileEffect DEF NewRecord
  <2> QED
    BY <2>1, <2>2, NewFileEffect
<1>4. Where'
  <2> SUFFICES ASSUME NEW d \in DOMAIN dir', NEW f \in dir'[d].files_contained
               PROVE  f < ticket'.file /\ (f \in DOMAIN file' => file'[f].parent_directory = d)
    BY DEF Where
  <2>1. CASE f \in dir[d].files_contained
    <3>1. f < ticket.file /\ (f \in DOMAIN file => file[f].parent_directory = d) /\ f \in Nat
      BY <1>1, <2>1, NewFileEffect DEF Shape, Where
    <3> QED
      BY <1>1, <3>1, NewFileEffect
  <2>2. CASE f = ticket.file /\ d = p
    <3>1. f \in DOMAIN file' => file'[f] = NewRecord(u, p, n)
      BY <2>2, NewFileEffect
    <3> QED
      BY <1>1, <2>2, <3>1, NewFileEffect DEF NewRecord
  <2> QED
    BY <2>1, <2>2, NewFileEffect
<1>5. NoFileIsLost'
  <2> SUFFICES ASSUME NEW f \in DOMAIN file', ~InTrash(f)'
               PROVE  /\ file'[f].parent_directory \in DOMAIN dir'
                      /\ f \in dir'[file'[f].parent_directory].files_contained
    BY DEF NoFileIsLost
  <2>1. CASE f \in DOMAIN file /\ file'[f] = file[f]
    <3>1. ~InTrash(f)
      BY <2>1, NewFileEffect DEF InTrash, Trash
    <3> QED
      BY <2>1, <3>1, NewFileEffect DEF Shape, NoFileIsLost
  <2>2. CASE f = ticket.file /\ file'[f] = NewRecord(u, p, n)
    BY <2>2, NewFileEffect DEF NewRecord
  <2> QED
    BY <2>1, <2>2, NewFileEffect
<1> QED
  BY <1>2, <1>3, <1>4, <1>5 DEF Shape

LEMMA DeletesShape ==
  ASSUME TypeOK, Ids, Shape, NEW F, Deletes(F)
  PROVE  Shape'
<1>1. /\ DOMAIN dir' \subseteq DOMAIN dir /\ UNCHANGED ticket
      /\ \A d \in DOMAIN dir' :
           /\ dir'[d].owner = dir[d].owner
           /\ dir'[d].parent_directory = dir[d].parent_directory
           /\ dir'[d].directories_contained \subseteq dir[d].directories_contained
           /\ dir'[d].files_contained \subseteq dir[d].files_contained
  BY DEF Deletes
<1>2. /\ DOMAIN file' = DOMAIN file
      /\ \A f \in DOMAIN file : /\ file'[f].owner = file[f].owner
                                /\ file'[f].parent_directory = file[f].parent_directory
  BY UnshareEffect DEF Deletes
<1>3. \A v \in Users : user'[v].dir_root = user[v].dir_root
  BY TrashEffect DEF Deletes
<1>4. Rooted' /\ PointBack' /\ Owned' /\ Where'
  BY <1>1, <1>2, <1>3 DEF Shape, Rooted, PointBack, Owned, Where
<1>5. NoFileIsLost'
  <2> SUFFICES ASSUME NEW f \in DOMAIN file, ~InTrash(f)'
               PROVE  /\ file[f].parent_directory \in DOMAIN dir'
                      /\ f \in dir'[file[f].parent_directory].files_contained
    BY <1>2 DEF NoFileIsLost
  <2>1. f \in FileId /\ file[f].owner \in Users
    BY DEF TypeOK, FileRecord
  <2>2. user'[file[f].owner].files_deleted[f] = 0 \/ ~(user'[file[f].owner].files_deleted[f] > 0)
    BY <1>2, <2>1 DEF InTrash, Trash
  <2>3. user[file[f].owner].files_deleted[f] \in Nat
    BY <2>1 DEF TypeOK, UserRecord
  <2>4. f \notin F /\ ~InTrash(f)
    BY <2>1, <2>2, <2>3, TrashEffect DEF Deletes, InTrash, Trash
  <2>5. file[f].parent_directory \in DOMAIN dir /\ f \in dir[file[f].parent_directory].files_contained
    BY <2>4 DEF Shape, NoFileIsLost
  <2> QED
    BY <2>4, <2>5 DEF Deletes
<1> QED
  BY <1>4, <1>5 DEF Shape

LEMMA DeleteAgainEffect ==
  ASSUME TypeOK, NEW u \in Users, NEW f \in FileId, DeleteFileOfDeletedDirectory(u, f)
  PROVE  /\ UNCHANGED <<dir, file, stored, ticket>>
         /\ f \in DOMAIN file /\ file[f].owner = u /\ file[f].parent_directory \notin DOMAIN dir
         /\ \A v \in Users :
              /\ user'[v].dir_root = user[v].dir_root
              /\ user'[v].shared_files = user[v].shared_files
              /\ \A g \in FileId : user'[v].files_deleted[g] =
                   user[v].files_deleted[g] + (IF v = u /\ g = f THEN 1 ELSE 0)
<1>1. ASSUME NEW v \in Users
      PROVE  /\ user'[v].dir_root = user[v].dir_root
             /\ user'[v].shared_files = user[v].shared_files
             /\ user'[v].files_deleted = IF v = u
                  THEN [user[v].files_deleted EXCEPT ![f] = @ + 1] ELSE user[v].files_deleted
  BY DEF DeleteFileOfDeletedDirectory, TypeOK, UserRecord
<1>2. \A v \in Users : user[v].files_deleted \in [FileId -> Nat]
  BY DEF TypeOK, UserRecord
<1> QED
  BY <1>1, <1>2 DEF DeleteFileOfDeletedDirectory

LEMMA DeleteAgainShape ==
  ASSUME TypeOK, Shape, NEW u \in Users, NEW f \in FileId, DeleteFileOfDeletedDirectory(u, f)
  PROVE  Shape'
<1>1. Rooted' /\ PointBack' /\ Owned' /\ Where'
  BY DeleteAgainEffect DEF Shape, Rooted, PointBack, Owned, Where
<1>2. ASSUME NEW g \in DOMAIN file, InTrash(g)
      PROVE  InTrash(g)'
  <2>1. g \in FileId /\ file[g].owner \in Users
    BY DEF TypeOK, FileRecord
  <2>2. user[file[g].owner].files_deleted[g] \in Nat
    BY <2>1 DEF TypeOK, UserRecord
  <2> QED
    BY <1>2, <2>1, <2>2, DeleteAgainEffect DEF InTrash, Trash
<1>3. NoFileIsLost'
  BY <1>2, DeleteAgainEffect DEF Shape, NoFileIsLost
<1> QED
  BY <1>1, <1>3 DEF Shape

LEMMA PurgesEffect ==
  ASSUME TypeOK, Ids, NEW u \in Users, NEW P, Purges(u, P)
  PROVE  /\ UNCHANGED <<dir, ticket>>
         /\ DOMAIN file' = DOMAIN file \ P
         /\ \A f \in DOMAIN file \ P : file'[f] = file[f]
         /\ \A f \in DOMAIN file \cap P : file[f].owner = u /\ InTrash(f)
         /\ \A v \in Users :
              /\ user'[v].dir_root = user[v].dir_root
              /\ user'[v].shared_files = user[v].shared_files
              /\ \A f \in FileId : \/ user'[v].files_deleted[f] = user[v].files_deleted[f]
                                   \/ f \in P /\ user'[v].files_deleted[f] = 0
<1>1. \A f \in DOMAIN file \cap P : file[f].owner = u /\ InTrash(f)
  BY DEF Purges, Ids, InTrash
<1>2. CASE user' = Without(u, P)
  BY <1>1, <1>2, WithoutEffect DEF Purges, Erase
<1>3. CASE UNCHANGED user
  BY <1>1, <1>3 DEF Purges, Erase
<1> QED
  BY <1>2, <1>3 DEF Purges

LEMMA PurgesShape ==
  ASSUME TypeOK, Ids, Shape, NEW u \in Users, NEW P, Purges(u, P)
  PROVE  Shape'
<1>1. /\ UNCHANGED <<dir, ticket>>
      /\ DOMAIN file' = DOMAIN file \ P
      /\ \A f \in DOMAIN file \ P : file'[f] = file[f]
  BY PurgesEffect
<1>2. \A v \in Users :
        /\ user'[v].dir_root = user[v].dir_root
        /\ \A f \in FileId : f \notin P => user'[v].files_deleted[f] = user[v].files_deleted[f]
  BY PurgesEffect
<1>3. Rooted' /\ PointBack' /\ Owned' /\ Where'
  BY <1>1, <1>2 DEF Shape, Rooted, PointBack, Owned, Where
<1>4. ASSUME NEW g \in DOMAIN file \ P, InTrash(g)
      PROVE  InTrash(g)'
  <2>1. g \in FileId /\ file[g].owner \in Users
    BY DEF TypeOK, FileRecord
  <2> QED
    BY <1>1, <1>2, <1>4, <2>1 DEF InTrash, Trash
<1>5. NoFileIsLost'
  BY <1>1, <1>4 DEF Shape, NoFileIsLost
<1> QED
  BY <1>3, <1>5 DEF Shape

\* Recovered files lie in the home of their owner.
LEMMA RecoversEffect ==
  ASSUME TypeOK, Ids, NEW u \in Users, NEW P, NEW Q, Recovers(u, P, Q)
  PROVE  /\ UNCHANGED <<stored, ticket>>
         /\ \A f \in P : f \in DOMAIN file /\ Home(u, f) \in DOMAIN dir
         /\ \A f \in Q : f \in Trash(u) /\ (f \in DOMAIN file => file[f].owner = u)
         /\ \A v \in Users :
              /\ user'[v].dir_root = user[v].dir_root
              /\ user'[v].shared_files = user[v].shared_files
              /\ \A f \in FileId : \/ user'[v].files_deleted[f] = user[v].files_deleted[f]
                                   \/ v = u /\ f \in P /\ user'[v].files_deleted[f] = 0
<1>1. /\ \A f \in P : f \in DOMAIN file /\ Home(u, f) \in DOMAIN dir
      /\ \A f \in Q : f \in Trash(u) /\ (f \in DOMAIN file => file[f].owner = u)
  BY DEF Recovers, Recoverable, Ids
<1>2. CASE user' = Without(u, P)
  BY <1>1, <1>2, WithoutEffect DEF Recovers
<1>3. CASE UNCHANGED user
  BY <1>1, <1>3 DEF Recovers
<1> QED
  BY <1>2, <1>3 DEF Recovers

LEMMA RecoversShape ==
  ASSUME TypeOK, Ids, Shape, NEW u \in Users, NEW P, NEW Q, Recovers(u, P, Q)
  PROVE  Shape'
<1>1. /\ UNCHANGED ticket /\ P \subseteq Q
      /\ \A v \in Users : user'[v].dir_root = user[v].dir_root
  BY RecoversEffect DEF Recovers
<1>2. /\ DOMAIN dir' = DOMAIN dir
      /\ \A d \in DOMAIN dir :
           /\ dir'[d].owner = dir[d].owner
           /\ dir'[d].parent_directory = dir[d].parent_directory
           /\ dir'[d].directories_contained = dir[d].directories_contained
           /\ dir'[d].files_contained = dir[d].files_contained
                                          \cup {f \in P : Home(u, f) = d}
  BY MoveHomeEffect DEF Recovers
<1>3. /\ DOMAIN file' = DOMAIN file
      /\ \A f \in DOMAIN file :
           /\ file'[f].owner = file[f].owner
           /\ file'[f].parent_directory = IF f \in Q THEN Home(u, f)
                                          ELSE file[f].parent_directory
  BY ReadoptEffect DEF Recovers
<1>4. Rooted' /\ PointBack'
  BY <1>1, <1>2 DEF Shape, Rooted, PointBack
<1>5. ASSUME NEW f \in DOMAIN file, file[f].parent_directory \in DOMAIN dir
      PROVE  file'[f].parent_directory = file[f].parent_directory
  BY <1>3, <1>5 DEF Home
<1>6. Owned'
  <2> SUFFICES ASSUME NEW f \in DOMAIN file, file'[f].parent_directory \in DOMAIN dir
               PROVE  dir[file'[f].parent_directory].owner = file[f].owner
    BY <1>2, <1>3 DEF Owned
  <2>1. CASE file[f].parent_directory \in DOMAIN dir
    BY <1>5, <2>1 DEF Shape, Owned
  <2>2. CASE file[f].parent_directory \notin DOMAIN dir
    <3>1. f \in Q /\ file'[f].parent_directory = user[u].dir_root
      BY <1>3, <2>2 DEF Home
    <3> QED
      BY <3>1, RecoversEffect DEF Shape, Rooted
  <2> QED
    BY <2>1, <2>2
<1>7. Where'
  <2> SUFFICES ASSUME NEW d \in DOMAIN dir, NEW f \in dir'[d].files_contained
               PROVE  f < ticket.file /\ (f \in DOMAIN file => file'[f].parent_directory = d)
    BY <1>1, <1>2, <1>3 DEF Where
  <2>1. CASE f \in dir[d].files_contained
    BY <1>5, <2>1 DEF Shape, Where
  <2>2. CASE f \in P /\ Home(u, f) = d
    BY <1>1, <1>3, <2>2, RecoversEffect DEF Ids
  <2> QED
    BY <1>2, <2>1, <2>2
<1>8. NoFileIsLost'
  <2> SUFFICES ASSUME NEW f \in DOMAIN file, ~InTrash(f)'
               PROVE  /\ file'[f].parent_directory \in DOMAIN dir
                      /\ f \in dir'[file'[f].parent_directory].files_contained
    BY <1>2, <1>3 DEF NoFileIsLost
  <2>1. CASE f \in P
    BY <1>1, <1>2, <1>3, <2>1, RecoversEffect
  <2>2. CASE f \notin P
    <3>1. f \in FileId /\ file[f].owner \in Users
      BY DEF TypeOK, FileRecord
    <3>2. ~InTrash(f)
      BY <1>3, <2>2, <3>1, RecoversEffect DEF InTrash, Trash
    <3>3. file[f].parent_directory \in DOMAIN dir /\ f \in dir[file[f].parent_directory].files_contained
      BY <3>2 DEF Shape, NoFileIsLost
    <3> QED
      BY <1>2, <1>5, <3>3
  <2> QED
    BY <2>1, <2>2
<1> QED
  BY <1>4, <1>6, <1>7, <1>8 DEF Shape

LEMMA NextShape ==
  ASSUME CatalogAssumption, TypeOK, Ids, Shape, [Next]_vars
  PROVE  Shape'
BY StepKinds, QuietShape, NewDirectoryShape, NewFileShape, DeletesShape, DeleteAgainShape,
   PurgesShape, RecoversShape

\* What every later proof may assume.
Base == TypeOK /\ Ids /\ Shape

LEMMA InitBase == ASSUME CatalogAssumption, Init PROVE Base
BY InitTypeOK, InitIds, InitShape DEF Base

LEMMA NextBase == ASSUME CatalogAssumption, Base, [Next]_vars PROVE Base'
BY NextTypeOK, NextIds, NextShape DEF Base

\* No file drops out of sight: whatever clients ask for and wherever a request
\* stops, a file that exists is in the directory it names or in its owner's trash.
THEOREM NothingIsLost == Spec => []NoFileIsLost
<1> USE CatalogAssumption
<1>1. Init => Base
  BY InitBase
<1>2. Base /\ [Next]_vars => Base'
  BY NextBase
<1>3. Base => NoFileIsLost
  BY DEF Base, Shape
<1> QED
  BY <1>1, <1>2, <1>3, PTL DEF Spec

----------------------------------------------------------------------------
(* Physical files.  An upload saves its bytes under the name of the user   *)
(* who uploads; that this is the owner of the file follows from the shape. *)

\* Nothing that names a physical file changes.
SameRevisions ==
  /\ UNCHANGED stored
  /\ DOMAIN file' = DOMAIN file
  /\ \A f \in DOMAIN file : file'[f].owner = file[f].owner /\ file'[f].revision = file[f].revision

LEMMA StoreKinds ==
  ASSUME CatalogAssumption, TypeOK, [Next]_vars
  PROVE  \/ SameRevisions
         \/ \E u \in Users, p \in DirId :
              \/ \E n \in Names : NewFile(u, p, n) \/ NewFileNotSaved(u, p, n)
              \/ \E g \in FileId : NewRevision(u, p, g) \/ NewRevisionNotSaved(u, p, g)
         \/ \E u \in Users : \E P : Purges(u, P)
<1>1. CASE UNCHANGED vars
  BY <1>1 DEF vars, SameRevisions
<1>2. ASSUME NEW F, Deletes(F)
      PROVE  SameRevisions
  BY <1>2, UnshareEffect DEF Deletes, SameRevisions
<1>3. ASSUME NEW u \in Users, NEW P, NEW Q, Recovers(u, P, Q)
      PROVE  SameRevisions
  BY <1>3, ReadoptEffect DEF Recovers, SameRevisions
<1>4. ASSUME NEW u \in Users, NEW d \in DirId,
             \/ NewDirectory(u, d) \/ NewDirectoryInDeleted(u, d)
             \/ DeleteDirectory(u, d) \/ DeleteDirectoryStopsHalfway(u, d)
      PROVE  SameRevisions
  <2>1. CASE NewDirectory(u, d) \/ NewDirectoryInDeleted(u, d)
    BY <2>1 DEF NewDirectory, NewDirectoryInDeleted, SameRevisions
  <2>2. CASE DeleteDirectory(u, d) \/ DeleteDirectoryStopsHalfway(u, d)
    BY <1>2, <2>2, DeleteDirectoryKind, DeleteHalfwayKind
  <2> QED
    BY <1>4, <2>1, <2>2
<1>5. ASSUME NEW u \in Users, NEW f \in FileId,
             \/ DeleteFile(u, f) \/ DeleteFileOfDeletedDirectory(u, f) \/ LeaveSharedFile(u, f)
             \/ \E n \in Names : ModifyFileInfo(u, f, n)
             \/ \E v \in Users : SetFileShare(u, f, v) \/ UnsetFileShare(u, f, v)
             \/ \E V \in SUBSET Users : OverwriteFileSharing(u, f, V)
      PROVE  SameRevisions
  <2>1. CASE DeleteFile(u, f)
    BY <1>2, <2>1, DeleteFileKind
  <2>2. CASE DeleteFileOfDeletedDirectory(u, f)
    BY <2>2 DEF DeleteFileOfDeletedDirectory, SameRevisions
  <2>3. CASE ~DeleteFile(u, f) /\ ~DeleteFileOfDeletedDirectory(u, f)
    BY <1>5, <2>3, ShareEffect DEF SameRevisions
  <2> QED
    BY <2>1, <2>2, <2>3
<1>6. ASSUME NEW u \in Users, NEW S \in SUBSET FileId,
             \/ PurgeDeletedFiles(u, S) \/ PurgeStopsHalfway(u, S)
             \/ RecoverDeletedFiles(u, S) \/ RecoverStopsHalfway(u, S)
      PROVE  SameRevisions \/ \E P : Purges(u, P)
  BY <1>3, <1>6, PurgeKind, RecoverKind
<1> QED
  BY <1>1, <1>4, <1>5, <1>6 DEF Next

LEMMA UploaderOwns ==
  ASSUME Base, NEW u \in Users, NEW p \in DOMAIN dir, MayName(u, p),
         NEW g \in dir[p].files_contained \cap DOMAIN file
  PROVE  file[g].owner = u
BY DEF Base, Shape, Where, Owned, MayName

\* The physical files an upload adds, and what it says of the file.
LEMMA UploadEffect ==
  ASSUME Base, NEW u \in Users, NEW p \in DirId, NEW g \in FileId,
         NewRevision(u, p, g) \/ NewRevisionNotSaved(u, p, g)
  PROVE  /\ g \in DOMAIN file /\ file[g].owner = u /\ DOMAIN file' = DOMAIN file
         /\ stored' = stored \cup {<<u, g, file[g].revision + 1>>}
         /\ \A f \in DOMAIN file :
              /\ file'[f].owner = file[f].owner
              /\ f # g => file'[f].revision = file[f].revision
         /\ file'[g].revision \in {file[g].revision, file[g].revision + 1}
<1>1. g \in DOMAIN file /\ file[g].owner = u
  BY UploaderOwns DEF NewRevision, NewRevisionNotSaved
<1>2. CASE NewRevision(u, p, g)
  BY <1>1, <1>2 DEF NewRevision, Base, TypeOK, FileRecord
<1>3. CASE NewRevisionNotSaved(u, p, g)
  BY <1>1, <1>3 DEF NewRevisionNotSaved
<1> QED
  BY <1>2, <1>3

LEMMA NextReadable ==
  ASSUME CatalogAssumption, Base, FilesReadable, [Next]_vars
  PROVE  FilesReadable'
<1>1. \A f \in DOMAIN file : file[f].revision \in 1 .. MaxRevision /\ MaxRevision \in Nat
  BY DEF Base, TypeOK, FileRecord, CatalogAssumption
<1>2. CASE SameRevisions
  BY <1>2 DEF SameRevisions, FilesReadable
<1>3. ASSUME NEW u \in Users, NEW p \in DirId, NEW n \in Names,
             NewFile(u, p, n) \/ NewFileNotSaved(u, p, n)
      PROVE  FilesReadable'
  <2>1. CASE NewFile(u, p, n)
    <3>1. stored' = stored \cup {<<u, ticket.file, 1>>}
      BY <2>1 DEF NewFile
    <3>2. /\ DOMAIN file' = DOMAIN file \cup {ticket.file}
          /\ file'[ticket.file] = NewRecord(u, p, n)
          /\ \A f \in DOMAIN file : file'[f] = file[f]
      <4>1. file' = Put(file, ticket.file, NewRecord(u, p, n)) /\ ticket.file \notin DOMAIN file
        BY <2>1, NewFileEffect DEF NewFile, Base
      <4> QED
        BY <4>1 DEF Put
    <3> QED
      BY <3>1, <3>2 DEF FilesReadable, NewRecord
  <2>2. CASE NewFileNotSaved(u, p, n)
    BY <2>2 DEF NewFileNotSaved, FilesReadable
  <2> QED
    BY <1>3, <2>1, <2>2
<1>4. ASSUME NEW u \in Users, NEW p \in DirId, NEW g \in FileId,
             NewRevision(u, p, g) \/ NewRevisionNotSaved(u, p, g)
      PROVE  FilesReadable'
  <2> SUFFICES ASSUME NEW f \in DOMAIN file', NEW r \in 1 .. file'[f].revision
               PROVE  <<file'[f].owner, f, r>> \in stored'
    BY DEF FilesReadable
  <2>1. f \in DOMAIN file /\ file'[f].owner = file[f].owner
    BY <1>4, UploadEffect
  <2>2. CASE r \in 1 .. file[f].revision
    BY <1>4, <2>1, <2>2, UploadEffect DEF FilesReadable
  <2>3. CASE f = g /\ r = file[g].revision + 1
    BY <1>4, <2>1, <2>3, UploadEffect
  <2>4. file[f].revision \in Nat
    BY <1>1, <2>1
  <2>5. \/ file'[f].revision = file[f].revision
        \/ f = g /\ file'[f].revision = file[f].revision + 1
    BY <1>4, <2>1, <2>4, UploadEffect
  <2> QED
    BY <2>2, <2>3, <2>4, <2>5
<1>5. ASSUME NEW u \in Users, NEW P, Purges(u, P)
      PROVE  FilesReadable'
  BY <1>5 DEF Purges, Erase, RevisionsOf, FilesReadable
<1> QED
  BY <1>2, <1>3, <1>4, <1>5, StoreKinds DEF Base

\* Whatever goes wrong, every revision of every file has its physical file.
THEOREM FilesStayReadable == Spec => []FilesReadable
<1> USE CatalogAssumption
<1>1. Init => Base /\ FilesReadable
  BY InitBase DEF Init, FilesReadable
<1>2. Base /\ FilesReadable /\ [Next]_vars => Base' /\ FilesReadable'
  BY NextBase, NextReadable
<1> QED
  BY <1>1, <1>2, PTL DEF Spec

\* A physical file is a revision of a file that exists.
NothingLeftBehind ==
  \A b \in stored : b[2] \in DOMAIN file /\ b[1] = file[b[2]].owner /\ b[3] <= file[b[2]].revision

LEMMA NextNothingLeft ==
  ASSUME CatalogAssumption, "disk_full" \notin Slips, Base, NothingLeftBehind, [Next]_vars
  PROVE  NothingLeftBehind'
<1>1. \A f \in DOMAIN file : file[f].revision \in Nat
  BY DEF Base, TypeOK, FileRecord, CatalogAssumption
<1>2. \A b \in stored : b[3] \in Nat
  BY DEF Base, TypeOK, CatalogAssumption
<1>3. CASE SameRevisions
  BY <1>3 DEF SameRevisions, NothingLeftBehind
<1>4. ASSUME NEW u \in Users, NEW p \in DirId, NEW n \in Names,
             NewFile(u, p, n) \/ NewFileNotSaved(u, p, n)
      PROVE  NothingLeftBehind'
  <2>1. file' = Put(file, ticket.file, NewRecord(u, p, n)) /\ ticket.file \notin DOMAIN file
    BY <1>4, NewFileEffect DEF NewFile, NewFileNotSaved, Base
  <2>2. /\ DOMAIN file' = DOMAIN file \cup {ticket.file}
        /\ file'[ticket.file] = NewRecord(u, p, n)
        /\ \A f \in DOMAIN file : file'[f] = file[f]
    BY <2>1 DEF Put
  <2>3. stored' = stored \cup {<<u, ticket.file, 1>>}
    BY <1>4 DEF NewFile, NewFileNotSaved
  <2> QED
    BY <2>2, <2>3 DEF NothingLeftBehind, NewRecord
<1>5. ASSUME NEW u \in Users, NEW p \in DirId, NEW g \in FileId,
             NewRevision(u, p, g) \/ NewRevisionNotSaved(u, p, g)
      PROVE  NothingLeftBehind'
  <2>1. NewRevision(u, p, g)
    BY <1>5 DEF NewRevisionNotSaved
  <2>2. file'[g].revision = file[g].revision + 1
    BY <2>1 DEF NewRevision, Base, TypeOK, FileRecord
  <2> SUFFICES ASSUME NEW b \in stored'
               PROVE  b[2] \in DOMAIN file' /\ b[1] = file'[b[2]].owner /\ b[3] <= file'[b[2]].revision
    BY DEF NothingLeftBehind
  <2>3. CASE b \in stored
    BY <1>1, <1>2, <2>1, <2>2, <2>3, UploadEffect DEF NothingLeftBehind
  <2>4. CASE b = <<u, g, file[g].revision + 1>>
    BY <1>1, <2>1, <2>2, <2>4, UploadEffect
  <2> QED
    BY <2>1, <2>3, <2>4, UploadEffect
<1>6. ASSUME NEW u \in Users, NEW P, Purges(u, P)
      PROVE  NothingLeftBehind'
  BY <1>6 DEF Purges, Erase, RevisionsOf, NothingLeftBehind
<1> QED
  BY <1>3, <1>4, <1>5, <1>6, StoreKinds DEF Base

LEMMA ReadableAndNothingLeft ==
  ASSUME CatalogAssumption, TypeOK, FilesReadable, NothingLeftBehind
  PROVE  StoreMatchesCatalog
<1> DEFINE revisions(f) == {<<file[f].owner, f, r>> : r \in 1 .. file[f].revision}
<1>1. ASSUME NEW b \in stored
      PROVE  b[2] \in DOMAIN file /\ b \in revisions(b[2])
  <2>1. b = <<b[1], b[2], b[3]>> /\ b[3] \in 1 .. MaxRevision
    BY DEF TypeOK
  <2>2. b[2] \in DOMAIN file /\ b[1] = file[b[2]].owner /\ b[3] <= file[b[2]].revision
    BY DEF NothingLeftBehind
  <2>3. file[b[2]].revision \in Nat
    BY <2>2 DEF TypeOK, FileRecord, CatalogAssumption
  <2>4. b[3] \in 1 .. file[b[2]].revision
    BY <2>1, <2>2, <2>3 DEF CatalogAssumption
  <2> QED
    BY <2>1, <2>2, <2>4
<1>2. ASSUME NEW f \in DOMAIN file, NEW b \in revisions(f)
      PROVE  b \in stored
  BY DEF FilesReadable
<1> QED
  BY <1>1, <1>2 DEF StoreMatchesCatalog

\* As long as the file system takes the bytes, the physical files are exactly the
\* revisions of the files that exist.
THEOREM StoreMatches ==
  ASSUME "disk_full" \notin Slips
  PROVE  Spec => []StoreMatchesCatalog
<1> USE CatalogAssumption
<1>1. Init => Base /\ FilesReadable /\ NothingLeftBehind
  BY InitBase DEF Init, FilesReadable, NothingLeftBehind
<1>2. Base /\ FilesReadable /\ NothingLeftBehind /\ [Next]_vars
        => Base' /\ FilesReadable' /\ NothingLeftBehind'
  BY NextBase, NextReadable, NextNothingLeft
<1>3. Base /\ FilesReadable /\ NothingLeftBehind => StoreMatchesCatalog
  BY ReadableAndNothingLeft DEF Base
<1> QED
  BY <1>1, <1>2, <1>3, PTL DEF Spec

----------------------------------------------------------------------------
(* Roots.  A root has no parent, so it is below no other directory.        *)

\* Below its top, a subtree holds directories whose parent it holds: without
\* one of another parent it would be as closed, and smaller.
LEMMA SubtreeBelow ==
  ASSUME PointBack, NEW d \in DOMAIN dir, NEW x \in Subtree(d), x # d
  PROVE  dir[x].parent_directory \in Subtree(d)
<1> SUFFICES ASSUME dir[x].parent_directory \notin Subtree(d)
             PROVE  FALSE
  OBVIOUS
<1> DEFINE S == Subtree(d) \ {x}
<1>1. S \in SUBSET DOMAIN dir /\ d \in S
  BY SubtreeTop DEF Subtree
<1>2. ASSUME NEW y \in S, NEW c \in dir[y].directories_contained \cap DOMAIN dir
      PROVE  c \in S
  <2>1. c \in Subtree(d)
    BY <1>2, SubtreeClosed
  <2>2. c # x
    BY <1>1, <1>2 DEF PointBack
  <2> QED
    BY <2>1, <2>2
<1>3. x \in S
  <2> HIDE DEF S
  <2> QED
    BY <1>1, <1>2 DEF Subtree
<1> QED
  BY <1>3

LEMMA NextRoots ==
  ASSUME CatalogAssumption, "root_id" \notin Slips, Base, RootsSurvive, [Next]_vars
  PROVE  RootsSurvive'
<1>1. \A u \in Users : user'[u].dir_root = user[u].dir_root
  <2>1. CASE Quiet
    BY <2>1 DEF Quiet
  <2>2. ASSUME NEW u \in Users, NEW p \in DirId,
               \/ NewDirectory(u, p)
               \/ \E n \in Names : NewFile(u, p, n) \/ NewFileNotSaved(u, p, n)
        PROVE  UNCHANGED user
    BY <2>2 DEF NewDirectory, NewFile, NewFileNotSaved
  <2>3. ASSUME NEW F, Deletes(F)
        PROVE  \A u \in Users : user'[u].dir_root = user[u].dir_root
    BY <2>3, TrashEffect DEF Deletes, Base
  <2> QED
    BY <2>1, <2>2, <2>3, StepKinds, DeleteAgainEffect, PurgesEffect, RecoversEffect DEF Base
<1>2. ASSUME NEW u \in Users, NEW d \in DirId, NEW v \in Users,
             DeleteDirectory(u, d) \/ DeleteDirectoryStopsHalfway(u, d)
      PROVE  user[v].dir_root \in DOMAIN dir'
  <2> DEFINE r == user[v].dir_root
  <2>1. /\ r \in DOMAIN dir /\ dir[r].owner = v /\ dir[r].parent_directory = NoParent
    BY DEF RootsSurvive, Base, Shape, Rooted
  <2>2. d \in DOMAIN dir /\ d # r
    BY <1>2, <2>1 DEF DeleteDirectory, DeleteDirectoryStopsHalfway
  <2>3. NoParent \notin Subtree(d)
    BY DEF Subtree, NoParent, Base, TypeOK, DirId
  <2>4. r \notin Subtree(d)
    BY <2>1, <2>2, <2>3, SubtreeBelow DEF Base, Shape
  <2>5. DOMAIN dir \ Subtree(d) \subseteq DOMAIN dir'
    BY <1>2 DEF DeleteDirectory, DeleteDirectoryStopsHalfway
  <2> QED
    BY <2>1, <2>4, <2>5
<1>3. CASE DOMAIN dir \subseteq DOMAIN dir'
  BY <1>1, <1>3 DEF RootsSurvive
<1>4. CASE \E u \in Users, d \in DirId : DeleteDirectory(u, d) \/ DeleteDirectoryStopsHalfway(u, d)
  BY <1>1, <1>2, <1>4 DEF RootsSurvive
<1>5. \/ DOMAIN dir \subseteq DOMAIN dir'
      \/ \E u \in Users, d \in DirId : DeleteDirectory(u, d) \/ DeleteDirectoryStopsHalfway(u, d)
  <2>1. CASE UNCHANGED vars
    BY <2>1 DEF vars
  <2>2. ASSUME NEW u \in Users, NEW p \in DirId,
               \/ NewDirectory(u, p) \/ NewDirectoryInDeleted(u, p)
               \/ \E n \in Names : NewFile(u, p, n) \/ NewFileNotSaved(u, p, n)
               \/ \E g \in FileId : NewRevision(u, p, g) \/ NewRevisionNotSaved(u, p, g)
        PROVE  DOMAIN dir \subseteq DOMAIN dir'
    BY <2>2 DEF NewDirectory, NewDirectoryInDeleted, NewFile, NewFileNotSaved, NewRevision,
                NewRevisionNotSaved, Put
  <2>3. ASSUME NEW u \in Users, NEW f \in FileId,
               \/ DeleteFile(u, f) \/ DeleteFileOfDeletedDirectory(u, f) \/ LeaveSharedFile(u, f)
               \/ \E n \in Names : ModifyFileInfo(u, f, n)
               \/ \E v \in Users : SetFileShare(u, f, v) \/ UnsetFileShare(u, f, v)
               \/ \E V \in SUBSET Users : OverwriteFileSharing(u, f, V)
        PROVE  DOMAIN dir' = DOMAIN dir
    BY <2>3 DEF DeleteFile, DeleteFileOfDeletedDirectory, LeaveSharedFile, ModifyFileInfo,
                SetFileShare, UnsetFileShare, OverwriteFileSharing
  <2>4. ASSUME NEW u \in Users, NEW S \in SUBSET FileId,
               \/ PurgeDeletedFiles(u, S) \/ PurgeStopsHalfway(u, S)
               \/ RecoverDeletedFiles(u, S) \/ RecoverStopsHalfway(u, S)
        PROVE  DOMAIN dir' = DOMAIN dir
    BY <2>4 DEF PurgeDeletedFiles, PurgeStopsHalfway, RecoverDeletedFiles, RecoverStopsHalfway,
                MoveHome
  <2> QED
    BY <2>1, <2>2, <2>3, <2>4 DEF Next
<1> QED
  BY <1>3, <1>4, <1>5

\* Unless somebody deletes a root by its real id, no request deletes one: it is
\* refused as the top of a deletion, and no deletion reaches it from above.
THEOREM RootsRemain ==
  ASSUME "root_id" \notin Slips
  PROVE  Spec => []RootsSurvive
<1> USE CatalogAssumption
<1>1. Init => Base /\ RootsSurvive
  <2>1. ASSUME Init
        PROVE  RootsSurvive
    BY <2>1 DEF Init, RootsSurvive, Users, CatalogAssumption
  <2> QED
    BY <2>1, InitBase
<1>2. Base /\ RootsSurvive /\ [Next]_vars => Base' /\ RootsSurvive'
  BY NextBase, NextRoots
<1> QED
  BY <1>1, <1>2, PTL DEF Spec

----------------------------------------------------------------------------
(* Shares.  The list of shared files has nothing the files do not say.     *)

Listed ==
  \A v \in Users : \A f \in user[v].shared_files :
    f \in DOMAIN file /\ v \in file[f].users_shared /\ ~InTrash(f)

\* A step that ends no share of a file and trashes nothing keeps the list.
LEMMA QuietListed ==
  ASSUME TypeOK, Listed,
         \A v \in Users : user'[v].shared_files = user[v].shared_files,
         \A f \in DOMAIN file : ~InTrash(f) /\ file[f].users_shared # {} =>
           /\ f \in DOMAIN file'
           /\ file'[f].users_shared = file[f].users_shared
           /\ ~InTrash(f)'
  PROVE  Listed'
BY DEF Listed

\* Sharing starts from a file that is not in the trash.
LEMMA ShareListed ==
  ASSUME "stale_share" \notin Slips, TypeOK, Listed, NEW u \in Users, NEW f \in FileId,
         \/ LeaveSharedFile(u, f)
         \/ \E n \in Names : ModifyFileInfo(u, f, n)
         \/ \E v \in Users : SetFileShare(u, f, v) \/ UnsetFileShare(u, f, v)
         \/ \E V \in SUBSET Users : OverwriteFileSharing(u, f, V)
  PROVE  Listed'
<1>1. \A g \in DOMAIN file : InTrash(g)' => InTrash(g)
  <2>1. \A g \in DOMAIN file : file[g].owner \in Users
    BY DEF TypeOK, FileRecord
  <2> QED
    BY <2>1, ShareEffect DEF InTrash, Trash
<1>2. DOMAIN file' = DOMAIN file
  BY ShareEffect
<1>3. CASE LeaveSharedFile(u, f)
  <2>1. /\ \A v \in Users : user'[v].shared_files =
             user[v].shared_files \ (IF v = u THEN {f} ELSE {})
        /\ \A g \in DOMAIN file : file'[g].users_shared =
             file[g].users_shared \ (IF g = f THEN {u} ELSE {})
    BY <1>3 DEF LeaveSharedFile, TypeOK, UserRecord, FileRecord
  <2> QED
    BY <1>1, <1>2, <2>1 DEF Listed
<1>4. ASSUME NEW n \in Names, ModifyFileInfo(u, f, n)
      PROVE  Listed'
  <2>1. UNCHANGED user /\ \A g \in DOMAIN file : file'[g].users_shared = file[g].users_shared
    BY <1>4 DEF ModifyFileInfo, TypeOK, FileRecord
  <2> QED
    BY <1>1, <1>2, <2>1 DEF Listed
<1>5. ASSUME NEW v \in Users, SetFileShare(u, f, v)
      PROVE  Listed'
  <2>1. /\ \A w \in Users : user'[w].shared_files =
             user[w].shared_files \cup (IF w = v THEN {f} ELSE {})
        /\ \A g \in DOMAIN file : file'[g].users_shared =
             file[g].users_shared \cup (IF g = f THEN {v} ELSE {})
    BY <1>5 DEF SetFileShare, TypeOK, UserRecord, FileRecord
  <2>2. f \in DOMAIN file /\ ~InTrash(f)
    BY <1>5 DEF SetFileShare, MayShare
  <2> QED
    BY <1>1, <1>2, <2>1, <2>2 DEF Listed
<1>6. ASSUME NEW v \in Users, UnsetFileShare(u, f, v)
      PROVE  Listed'
  <2>1. /\ \A w \in Users : user'[w].shared_files =
             user[w].shared_files \ (IF w = v THEN {f} ELSE {})
        /\ \A g \in DOMAIN file : file'[g].users_shared =
             file[g].users_shared \ (IF g = f THEN {v} ELSE {})
    BY <1>6 DEF UnsetFileShare, TypeOK, UserRecord, FileRecord
  <2> QED
    BY <1>1, <1>2, <2>1 DEF Listed
<1>7. ASSUME NEW V \in SUBSET Users, OverwriteFileSharing(u, f, V)
      PROVE  Listed'
  <2>1. f \in DOMAIN file /\ ~InTrash(f)
    BY <1>7 DEF OverwriteFileSharing, MayShare
  <2>2. \A g \in DOMAIN file : file'[g].users_shared =
          IF g = f THEN V ELSE file[g].users_shared
    BY <1>7 DEF OverwriteFileSharing, TypeOK, FileRecord
  <2>3. ASSUME NEW w \in Users
        PROVE  user'[w].shared_files = IF w \in V THEN user[w].shared_files \cup {f}
                                       ELSE IF w \in file[f].users_shared
                                       THEN user[w].shared_files \ {f}
                                       ELSE user[w].shared_files
    <3>1. user[w] \in UserRecord
      BY DEF TypeOK
    <3> QED
      BY <1>7, <3>1 DEF OverwriteFileSharing, UserRecord
  <2> SUFFICES ASSUME NEW w \in Users, NEW g \in user'[w].shared_files
               PROVE  g \in DOMAIN file /\ w \in file'[g].users_shared /\ ~InTrash(g)'
    BY <1>2 DEF Listed
  <2>4. CASE g = f
    BY <1>1, <2>1, <2>2, <2>3, <2>4 DEF Listed
  <2>5. CASE g # f
    <3>1. g \in user[w].shared_files
      BY <2>3, <2>5
    <3> QED
      BY <1>1, <2>2, <2>5, <3>1 DEF Listed
  <2> QED
    BY <2>4, <2>5
<1> QED
  BY <1>3, <1>4, <1>5, <1>6, <1>7

LEMMA DeletesListed ==
  ASSUME TypeOK, Listed, NEW F, Deletes(F)
  PROVE  Listed'
<1> SUFFICES ASSUME NEW v \in Users, NEW f \in user'[v].shared_files
             PROVE  f \in DOMAIN file' /\ v \in file'[f].users_shared /\ ~InTrash(f)'
  BY DEF Listed
<1>1. f \in user[v].shared_files /\ ~(f \in F /\ v \in file[f].users_shared)
  BY TrashEffect DEF Deletes
<1>2. f \in DOMAIN file /\ v \in file[f].users_shared /\ ~InTrash(f) /\ f \notin F
  BY <1>1 DEF Listed
<1>3. file'[f].owner = file[f].owner /\ f \in DOMAIN file'
      /\ file'[f].users_shared = file[f].users_shared
  BY <1>2, UnshareEffect DEF Deletes
<1>4. f \in FileId /\ file[f].owner \in Users
  BY <1>2 DEF TypeOK, FileRecord
<1>5. ~InTrash(f)'
  BY <1>2, <1>3, <1>4, TrashEffect DEF Deletes, InTrash, Trash
<1> QED
  BY <1>2, <1>3, <1>5

\* What is shared is not in the trash, so no trash step touches it.
LEMMA TrashListed ==
  ASSUME Base, Listed, NEW u \in Users,
         \/ \E f \in FileId : DeleteFileOfDeletedDirectory(u, f)
         \/ \E P : Purges(u, P)
         \/ \E P, Q : Recovers(u, P, Q)
  PROVE  Listed'
<1>1. TypeOK /\ Ids /\ \A f \in DOMAIN file : f \in FileId /\ file[f].owner \in Users
  BY DEF Base, TypeOK, FileRecord
<1>2. ASSUME NEW f \in FileId, DeleteFileOfDeletedDirectory(u, f)
      PROVE  Listed'
  <2>1. InTrash(f)
    BY <1>1, <1>2, DeleteAgainEffect DEF Base, Shape, NoFileIsLost
  <2>2. ASSUME NEW g \in DOMAIN file, ~InTrash(g)
        PROVE  ~InTrash(g)'
    <3>1. g # f /\ user'[file[g].owner].files_deleted[g] = user[file[g].owner].files_deleted[g] + 0
      BY <1>1, <1>2, <2>1, <2>2, DeleteAgainEffect
    <3>2. user[file[g].owner].files_deleted[g] \in Nat
      BY <1>1 DEF TypeOK, UserRecord
    <3> QED
      BY <1>1, <1>2, <2>2, <3>1, <3>2, DeleteAgainEffect DEF InTrash, Trash
  <2> QED
    BY <1>1, <1>2, <2>2, QuietListed, DeleteAgainEffect
<1>3. ASSUME NEW P, Purges(u, P)
      PROVE  Listed'
  <2>1. /\ DOMAIN file' = DOMAIN file \ P
        /\ \A f \in DOMAIN file \ P : file'[f] = file[f]
        /\ \A f \in DOMAIN file \cap P : InTrash(f)
        /\ \A v \in Users : /\ user'[v].shared_files = user[v].shared_files
                            /\ \A f \in FileId : f \notin P =>
                                 user'[v].files_deleted[f] = user[v].files_deleted[f]
    BY <1>1, <1>3, PurgesEffect
  <2>2. \A f \in DOMAIN file : ~InTrash(f) => f \in DOMAIN file' /\ ~InTrash(f)'
    BY <1>1, <2>1 DEF InTrash, Trash
  <2> QED
    BY <1>1, <2>1, <2>2, QuietListed
<1>4. ASSUME NEW P, NEW Q, Recovers(u, P, Q)
      PROVE  Listed'
  <2>1. /\ DOMAIN file' = DOMAIN file
        /\ \A f \in DOMAIN file : /\ file'[f].owner = file[f].owner
                                  /\ file'[f].users_shared = file[f].users_shared
    BY <1>1, <1>4, ReadoptEffect DEF Recovers
  <2>2. \A v \in Users : /\ user'[v].shared_files = user[v].shared_files
                         /\ \A f \in FileId : user'[v].files_deleted[f] > 0 =>
                              user[v].files_deleted[f] > 0
    BY <1>1, <1>4, RecoversEffect
  <2>3. \A f \in DOMAIN file : ~InTrash(f) => ~InTrash(f)'
    BY <1>1, <2>1, <2>2 DEF InTrash, Trash
  <2> QED
    BY <1>1, <2>1, <2>2, <2>3, QuietListed
<1> QED
  BY <1>2, <1>3, <1>4

LEMMA CreateListed ==
  ASSUME CatalogAssumption, Base, Listed, NEW u \in Users, NEW p \in DirId,
         \/ NewDirectory(u, p) \/ NewDirectoryInDeleted(u, p)
         \/ \E n \in Names : NewFile(u, p, n) \/ NewFileNotSaved(u, p, n)
         \/ \E g \in FileId : NewRevision(u, p, g) \/ NewRevisionNotSaved(u, p, g)
  PROVE  Listed'
<1>1. UNCHANGED user
  BY DEF NewDirectory, NewDirectoryInDeleted, NewFile, NewFileNotSaved, NewRevision,
         NewRevisionNotSaved
<1>2. \A f \in DOMAIN file : /\ f \in DOMAIN file'
                             /\ file'[f].owner = file[f].owner
                             /\ file'[f].users_shared = file[f].users_shared
  <2>1. CASE NewDirectory(u, p) \/ NewDirectoryInDeleted(u, p)
    BY <2>1 DEF NewDirectory, NewDirectoryInDeleted
  <2>2. ASSUME NEW n \in Names, NewFile(u, p, n) \/ NewFileNotSaved(u, p, n)
        PROVE  \A f \in DOMAIN file : f \in DOMAIN file' /\ file'[f] = file[f]
    BY <2>2, NewFileEffect DEF Base
  <2>3. ASSUME NEW g \in FileId, NewRevision(u, p, g) \/ NewRevisionNotSaved(u, p, g)
        PROVE  \A f \in DOMAIN file : /\ f \in DOMAIN file'
                                      /\ file'[f].owner = file[f].owner
                                      /\ file'[f].users_shared = file[f].users_shared
    BY <2>3, RevisionEffect DEF Base
  <2> QED
    BY <2>1, <2>2, <2>3
<1>3. \A f \in DOMAIN file : ~InTrash(f) => ~InTrash(f)'
  BY <1>1, <1>2 DEF InTrash, Trash
<1> QED
  BY <1>1, <1>2, <1>3, QuietListed DEF Base

LEMMA NextListed ==
  ASSUME CatalogAssumption, "stale_share" \notin Slips, Base, Listed, [Next]_vars
  PROVE  Listed'
<1>1. CASE UNCHANGED vars
  BY <1>1 DEF vars, Listed, InTrash, Trash
<1>2. ASSUME NEW u \in Users, NEW d \in DirId,
             \/ NewDirectory(u, d) \/ NewDirectoryInDeleted(u, d)
             \/ DeleteDirectory(u, d) \/ DeleteDirectoryStopsHalfway(u, d)
             \/ \E n \in Names : NewFile(u, d, n) \/ NewFileNotSaved(u, d, n)
             \/ \E f \in FileId : NewRevision(u, d, f) \/ NewRevisionNotSaved(u, d, f)
      PROVE  Listed'
  BY <1>2, CreateListed, DeletesListed, DeleteDirectoryKind, DeleteHalfwayKind DEF Base
<1>3. ASSUME NEW u \in Users, NEW f \in FileId,
             \/ DeleteFile(u, f) \/ DeleteFileOfDeletedDirectory(u, f) \/ LeaveSharedFile(u, f)
             \/ \E n \in Names : ModifyFileInfo(u, f, n)
             \/ \E v \in Users : SetFileShare(u, f, v) \/ UnsetFileShare(u, f, v)
             \/ \E V \in SUBSET Users : OverwriteFileSharing(u, f, V)
      PROVE  Listed'
  BY <1>3, ShareListed, TrashListed, DeletesListed, DeleteFileKind DEF Base
<1>4. ASSUME NEW u \in Users, NEW S \in SUBSET FileId,
             \/ PurgeDeletedFiles(u, S) \/ PurgeStopsHalfway(u, S)
             \/ RecoverDeletedFiles(u, S) \/ RecoverStopsHalfway(u, S)
      PROVE  Listed'
  BY <1>4, TrashListed, PurgeKind, RecoverKind
<1> QED
  BY <1>1, <1>2, <1>3, <1>4 DEF Next

\* Unless somebody shares a file that is in the trash, the two records of every
\* share agree, and what is in the trash is shared with nobody.
THEOREM SharesAgree ==
  ASSUME "stale_share" \notin Slips
  PROVE  Spec => []ShareSymmetry
<1> USE CatalogAssumption
<1>1. Init => Base /\ GrantsListed /\ Listed
  <2>1. ASSUME Init
        PROVE  GrantsListed /\ Listed
    BY <2>1 DEF Init, GrantsListed, Listed
  <2> QED
    BY <2>1, InitBase
<1>2. Base /\ GrantsListed /\ Listed /\ [Next]_vars => Base' /\ GrantsListed' /\ Listed'
  BY NextBase, NextGrants, NextListed DEF Base
<1>3. GrantsListed /\ Listed => ShareSymmetry
  BY DEF ShareSymmetry, Listed
<1> QED
  BY <1>1, <1>2, <1>3, PTL DEF Spec

----------------------------------------------------------------------------
(* Trees and places.  Without a halfway stop every list resolves; without  *)
(* an unresolved id no request stops halfway.                              *)

\* Lists of directories and files name what exists.
DirsResolve == \A d \in DOMAIN dir : dir[d].directories_contained \subseteq DOMAIN dir

\* What a directory lists is not in the trash.
Apart == \A d \in DOMAIN dir : \A f \in dir[d].files_contained : f \in DOMAIN file /\ ~InTrash(f)

\* A list of deleted files has its files once.
OnceDeleted ==
  \A u \in Users : \A f \in Trash(u) : f \in DOMAIN file /\ user[u].files_deleted[f] = 1

Tidy == RootsSurvive /\ DirsResolve /\ Apart /\ OnceDeleted

LEMMA InitTidy == ASSUME CatalogAssumption, Init PROVE Tidy
<1>1. RootsSurvive
  BY DEF Init, RootsSurvive, Users, CatalogAssumption
<1>2. DirsResolve
  <2> SUFFICES ASSUME NEW d \in 1 .. 2 * NumUsers
               PROVE  dir[d].directories_contained \subseteq 1 .. 2 * NumUsers
    BY DEF DirsResolve, Init
  <2>1. CASE d % 2 = 1
    BY <2>1, SignUpIds DEF Init, EmptyDir
  <2>2. CASE d % 2 # 1
    BY <2>2 DEF Init, EmptyDir
  <2> QED
    BY <2>1, <2>2
<1>3. Apart /\ OnceDeleted
  BY DEF Apart, OnceDeleted, Init, EmptyDir, Trash
<1> QED
  BY <1>1, <1>2, <1>3 DEF Tidy

\* No request stops halfway.
LEMMA NoDeletionStops ==
  ASSUME Tidy, NEW u \in Users, NEW d \in DirId
  PROVE  ~DeleteDirectoryStopsHalfway(u, d)
<1>1. Intact(d)
  BY DEF Tidy, DirsResolve, Apart, Intact, Subtree
<1> QED
  BY <1>1 DEF DeleteDirectoryStopsHalfway

LEMMA NoPurgeStops ==
  ASSUME Tidy, NEW u \in Users, NEW S \in SUBSET FileId
  PROVE  ~PurgeStopsHalfway(u, S)
BY DEF Tidy, OnceDeleted, PurgeStopsHalfway

LEMMA NoRecoveryStops ==
  ASSUME Tidy, NEW u \in Users, NEW S \in SUBSET FileId
  PROVE  ~RecoverStopsHalfway(u, S)
<1>1. Trash(u) \subseteq Recoverable(u)
  BY DEF Tidy, OnceDeleted, RootsSurvive, Recoverable, Home
<1> QED
  BY <1>1 DEF RecoverStopsHalfway

\* Nothing moves: lists and trash stay as they are.
LEMMA QuietTidy ==
  ASSUME TypeOK, Tidy, RootsSurvive', Quiet
  PROVE  Tidy'
<1>1. \A f \in DOMAIN file : file[f].owner \in Users
  BY DEF TypeOK, FileRecord
<1>2. DirsResolve' /\ OnceDeleted'
  BY DEF Quiet, Tidy, DirsResolve, OnceDeleted, Trash
<1>3. Apart'
  BY <1>1 DEF Quiet, Tidy, Apart, InTrash, Trash
<1> QED
  BY <1>2, <1>3 DEF Tidy

LEMMA NewDirectoryTidy ==
  ASSUME CatalogAssumption, TypeOK, Ids, Tidy, RootsSurvive',
         NEW u \in Users, NEW p \in DirId, NewDirectory(u, p)
  PROVE  Tidy'
<1> DEFINE t == ticket.dir
<1>1. p \in DOMAIN dir /\ t \notin DOMAIN dir
  BY DEF NewDirectory, Ids, IdsBelowTicket, TypeOK, CatalogAssumption
<1>2. DOMAIN dir' = DOMAIN dir \cup {t} /\ dir'[t] = EmptyDir(u, p)
  BY <1>1 DEF NewDirectory, Put
<1>3. ASSUME NEW d \in DOMAIN dir
      PROVE  /\ dir'[d].files_contained = dir[d].files_contained
             /\ dir'[d].directories_contained \subseteq dir[d].directories_contained \cup {t}
  <2>1. dir[d] \in DirRecord
    BY DEF TypeOK
  <2>2. dir'[d] = IF d = p THEN [dir[p] EXCEPT !.directories_contained = @ \cup {t}] ELSE dir[d]
    BY <1>1 DEF NewDirectory, Put
  <2> HIDE DEF t
  <2> QED
    BY <2>1, <2>2 DEF DirRecord
<1>4. UNCHANGED <<user, file>>
  BY DEF NewDirectory
<1> HIDE DEF t
<1> QED
  BY <1>2, <1>3, <1>4 DEF Tidy, DirsResolve, Apart, OnceDeleted, EmptyDir, InTrash, Trash

LEMMA NewFileTidy ==
  ASSUME CatalogAssumption, TypeOK, Ids, Tidy, RootsSurvive',
         NEW u \in Users, NEW p \in DirId, NEW n \in Names, NewFile(u, p, n)
  PROVE  Tidy'
<1> DEFINE t == ticket.file
<1>1. /\ UNCHANGED user /\ t \notin DOMAIN file /\ DOMAIN dir' = DOMAIN dir
      /\ \A d \in DOMAIN dir :
           /\ dir'[d].directories_contained = dir[d].directories_contained
           /\ dir'[d].files_contained \subseteq dir[d].files_contained \cup {t}
  BY NewFileEffect
<1>2. /\ DOMAIN file' = DOMAIN file \cup {t}
      /\ file'[t] = NewRecord(u, p, n)
      /\ \A f \in DOMAIN file : file'[f] = file[f]
  <2>1. file' = Put(file, t, NewRecord(u, p, n))
    BY DEF NewFile
  <2> HIDE DEF t
  <2> QED
    BY <1>1, <2>1 DEF Put
<1>3. t \notin Trash(u)
  BY <1>1 DEF Tidy, OnceDeleted
<1> HIDE DEF t
<1>4. DirsResolve' /\ OnceDeleted'
  BY <1>1, <1>2 DEF Tidy, DirsResolve, OnceDeleted, Trash
<1>5. Apart'
  BY <1>1, <1>2, <1>3 DEF Tidy, Apart, NewRecord, InTrash, Trash
<1> QED
  BY <1>4, <1>5 DEF Tidy

\* A deletion that lists nothing it trashes or removes any more.
LEMMA DeletesTidy ==
  ASSUME TypeOK, Tidy, RootsSurvive', NEW F, Deletes(F),
         \A f \in F : ~InTrash(f),
         \A d \in DOMAIN dir' : /\ dir'[d].files_contained \cap F = {}
                                /\ dir'[d].directories_contained \subseteq DOMAIN dir'
  PROVE  Tidy'
<1>1. /\ DOMAIN file' = DOMAIN file
      /\ \A f \in DOMAIN file : file'[f].owner = file[f].owner
  BY UnshareEffect DEF Deletes
<1>2. \A f \in DOMAIN file : f \in FileId /\ file[f].owner \in Users
  BY DEF TypeOK, FileRecord
<1>3. DirsResolve'
  BY DEF DirsResolve
<1>4. Apart'
  <2> SUFFICES ASSUME NEW d \in DOMAIN dir', NEW f \in dir'[d].files_contained
               PROVE  f \in DOMAIN file' /\ ~InTrash(f)'
    BY DEF Apart
  <2>1. f \notin F /\ f \in DOMAIN file /\ ~InTrash(f)
    BY DEF Deletes, Tidy, Apart
  <2> QED
    BY <1>1, <1>2, <2>1, TrashEffect DEF Deletes, InTrash, Trash
<1>5. OnceDeleted'
  <2> SUFFICES ASSUME NEW v \in Users, NEW f \in FileId, user'[v].files_deleted[f] > 0
               PROVE  f \in DOMAIN file' /\ user'[v].files_deleted[f] = 1
    BY DEF OnceDeleted, Trash
  <2>1. user[v].files_deleted[f] \in Nat
    BY DEF TypeOK, UserRecord
  <2>2. CASE f \in F /\ file[f].owner = v
    <3>1. f \in DOMAIN file /\ user[v].files_deleted[f] = 0
      BY <2>1, <2>2 DEF Deletes, InTrash, Trash
    <3> QED
      BY <1>1, <2>2, <3>1, TrashEffect DEF Deletes
  <2>3. CASE ~(f \in F /\ file[f].owner = v)
    <3>1. user'[v].files_deleted[f] = user[v].files_deleted[f]
      BY <2>3, TrashEffect DEF Deletes
    <3> QED
      BY <1>1, <3>1 DEF Tidy, OnceDeleted, Trash
  <2> QED
    BY <2>2, <2>3
<1> QED
  BY <1>3, <1>4, <1>5 DEF Tidy

LEMMA DeleteFileTidy ==
  ASSUME "stale_delete" \notin Slips, Base, Tidy, RootsSurvive',
         NEW u \in Users, NEW f \in FileId, DeleteFile(u, f)
  PROVE  Tidy'
<1>1. f \in DOMAIN file /\ ~InTrash(f)
  BY DEF DeleteFile
<1>2. /\ DOMAIN dir' = DOMAIN dir
      /\ \A d \in DOMAIN dir :
           /\ dir'[d].directories_contained = dir[d].directories_contained
           /\ dir'[d].files_contained =
                dir[d].files_contained \ (IF d = file[f].parent_directory THEN {f} ELSE {})
  BY DEF DeleteFile, Base, TypeOK, DirRecord
<1>3. \A d \in DOMAIN dir' : /\ dir'[d].files_contained \cap {f} = {}
                             /\ dir'[d].directories_contained \subseteq DOMAIN dir'
  BY <1>1, <1>2 DEF Base, Shape, Where, Tidy, DirsResolve
<1>4. Deletes({f})
  BY DeleteFileKind DEF Base
<1> QED
  BY <1>1, <1>3, <1>4, DeletesTidy DEF Base

LEMMA DeleteDirectoryTidy ==
  ASSUME Base, Tidy, RootsSurvive', NEW u \in Users, NEW d \in DirId, DeleteDirectory(u, d)
  PROVE  Tidy'
<1> DEFINE F == FilesIn(Subtree(d))
<1>1. Deletes(F)
  BY DeleteDirectoryKind DEF Base
<1>2. /\ d \in DOMAIN dir /\ DOMAIN dir' = DOMAIN dir \ Subtree(d)
      /\ \A x \in Subtree(d) : x \in DOMAIN dir
  BY DEF DeleteDirectory, Subtree
<1>3. \A f \in F : f \in DOMAIN file /\ ~InTrash(f) /\ file[f].parent_directory \in Subtree(d)
  BY <1>2 DEF FilesIn, Tidy, Apart, Base, Shape, Where
<1>4. ASSUME NEW x \in DOMAIN dir'
      PROVE  /\ dir'[x].files_contained \cap F = {}
             /\ dir'[x].directories_contained \subseteq DOMAIN dir'
  <2>1. x \in DOMAIN dir /\ x \notin Subtree(d)
    BY <1>2
  <2>2. dir'[x].files_contained \subseteq dir[x].files_contained
    BY <1>1 DEF Deletes
  <2>3. dir'[x].files_contained \cap F = {}
    BY <1>3, <2>1, <2>2 DEF Base, Shape, Where
  <2>4. dir[x] \in DirRecord
    BY <2>1 DEF Base, TypeOK
  <2>5. ASSUME NEW c \in dir'[x].directories_contained
        PROVE  c \in DOMAIN dir \ Subtree(d)
    <3>1. c \in dir[x].directories_contained
      BY <1>1 DEF Deletes
    <3>2. c \in DOMAIN dir /\ dir[c].parent_directory = x
      BY <2>1, <3>1 DEF Tidy, DirsResolve, Base, Shape, PointBack
    <3>3. c # d
      <4>1. CASE x = dir[d].parent_directory
        <5>1. dir'[x] = [dir[x] EXCEPT !.directories_contained = @ \ {d}]
          BY <1>2, <2>1, <4>1 DEF DeleteDirectory
        <5> QED
          BY <2>4, <5>1 DEF DirRecord
      <4>2. CASE x # dir[d].parent_directory
        BY <3>2, <4>2
      <4> QED
        BY <4>1, <4>2
    <3>4. c \notin Subtree(d)
      BY <1>2, <2>1, <3>2, <3>3, SubtreeBelow DEF Base, Shape
    <3> QED
      BY <3>2, <3>4
  <2> QED
    BY <1>2, <2>3, <2>5
<1> HIDE DEF F
<1> QED
  BY <1>1, <1>3, <1>4, DeletesTidy DEF Base

LEMMA PurgeTidy ==
  ASSUME Base, Tidy, RootsSurvive', NEW u \in Users, NEW S \in SUBSET FileId,
         PurgeDeletedFiles(u, S)
  PROVE  Tidy'
<1>1. Purges(u, S) /\ user' = Without(u, S)
  BY DEF PurgeDeletedFiles, Purges
<1>2. /\ UNCHANGED dir /\ DOMAIN file' = DOMAIN file \ S
      /\ \A f \in DOMAIN file \ S : file'[f] = file[f]
      /\ \A f \in DOMAIN file \cap S : file[f].owner = u /\ InTrash(f)
  BY <1>1, PurgesEffect DEF Base
<1>3. \A v \in Users : \A f \in FileId :
        user'[v].files_deleted[f] = IF v = u /\ f \in S THEN 0 ELSE user[v].files_deleted[f]
  BY <1>1, WithoutEffect DEF Base
<1>4. DirsResolve'
  BY <1>2 DEF Tidy, DirsResolve
<1>5. Apart'
  <2> SUFFICES ASSUME NEW d \in DOMAIN dir, NEW f \in dir[d].files_contained
               PROVE  f \in DOMAIN file' /\ ~InTrash(f)'
    BY <1>2 DEF Apart
  <2>1. f \in DOMAIN file \ S /\ ~InTrash(f) /\ f \in FileId /\ file[f].owner \in Users
    BY <1>2 DEF Tidy, Apart, Base, TypeOK, FileRecord
  <2> QED
    BY <1>2, <1>3, <2>1 DEF InTrash, Trash
<1>6. OnceDeleted'
  <2> SUFFICES ASSUME NEW v \in Users, NEW f \in FileId, user'[v].files_deleted[f] > 0
               PROVE  f \in DOMAIN file' /\ user'[v].files_deleted[f] = 1
    BY DEF OnceDeleted, Trash
  <2>1. f \in Trash(v) /\ ~(v = u /\ f \in S) /\ user'[v].files_deleted[f] = user[v].files_deleted[f]
    BY <1>3 DEF Trash
  <2>2. f \in DOMAIN file /\ user[v].files_deleted[f] = 1 /\ file[f].owner = v
    BY <2>1 DEF Tidy, OnceDeleted, Base, Ids
  <2> QED
    BY <1>2, <2>1, <2>2
<1> QED
  BY <1>4, <1>5, <1>6 DEF Tidy

LEMMA RecoverTidy ==
  ASSUME Base, Tidy, RootsSurvive', NEW u \in Users, NEW S \in SUBSET FileId,
         RecoverDeletedFiles(u, S)
  PROVE  Tidy'
<1>1. /\ MoveHome(u, S) /\ Readopt(u, S) /\ user' = Without(u, S)
      /\ S \subseteq Trash(u) \cap DOMAIN file
  BY DEF RecoverDeletedFiles, Recoverable
<1>2. /\ DOMAIN dir' = DOMAIN dir
      /\ \A d \in DOMAIN dir :
           /\ dir'[d].directories_contained = dir[d].directories_contained
           /\ dir'[d].files_contained = dir[d].files_contained \cup {f \in S : Home(u, f) = d}
  BY <1>1, MoveHomeEffect DEF Base
<1>3. DOMAIN file' = DOMAIN file /\ \A f \in DOMAIN file : file'[f].owner = file[f].owner
  BY <1>1, ReadoptEffect DEF Base
<1>4. \A v \in Users : \A f \in FileId :
        user'[v].files_deleted[f] = IF v = u /\ f \in S THEN 0 ELSE user[v].files_deleted[f]
  BY <1>1, WithoutEffect DEF Base
<1>5. DirsResolve'
  BY <1>2 DEF Tidy, DirsResolve
<1>6. Apart'
  <2> SUFFICES ASSUME NEW d \in DOMAIN dir, NEW f \in dir'[d].files_contained
               PROVE  f \in DOMAIN file' /\ ~InTrash(f)'
    BY <1>2 DEF Apart
  <2>1. f \in DOMAIN file
    BY <1>1, <1>2 DEF Tidy, Apart
  <2>2. f \in FileId /\ file[f].owner \in Users
    BY <2>1 DEF Base, TypeOK, FileRecord
  <2>3. CASE f \in S
    <3>1. file[f].owner = u
      BY <1>1, <2>1, <2>3 DEF Base, Ids
    <3> QED
      BY <1>3, <1>4, <2>1, <2>2, <2>3, <3>1 DEF InTrash, Trash
  <2>4. CASE f \notin S
    <3>1. ~InTrash(f)
      BY <1>2, <2>4 DEF Tidy, Apart
    <3> QED
      BY <1>3, <1>4, <2>1, <2>2, <2>4, <3>1 DEF InTrash, Trash
  <2> QED
    BY <2>3, <2>4
<1>7. OnceDeleted'
  <2> SUFFICES ASSUME NEW v \in Users, NEW f \in FileId, user'[v].files_deleted[f] > 0
               PROVE  f \in DOMAIN file' /\ user'[v].files_deleted[f] = 1
    BY DEF OnceDeleted, Trash
  <2>1. f \in Trash(v) /\ user'[v].files_deleted[f] = user[v].files_deleted[f]
    BY <1>4 DEF Trash
  <2> QED
    BY <1>3, <2>1 DEF Tidy, OnceDeleted
<1> QED
  BY <1>5, <1>6, <1>7 DEF Tidy

LEMMA NextTidy ==
  ASSUME CatalogAssumption, Slips \subseteq {"stale_share"}, Base, Tidy, [Next]_vars
  PROVE  Tidy'
<1> USE DEF Base
<1>1. RootsSurvive'
  BY NextRoots DEF Tidy
<1>2. CASE UNCHANGED vars
  <2>1. Quiet
    BY <1>2 DEF vars, Quiet
  <2> QED
    BY <1>1, <2>1, QuietTidy
<1>3. ASSUME NEW u \in Users, NEW d \in DirId,
             \/ NewDirectory(u, d) \/ NewDirectoryInDeleted(u, d)
             \/ DeleteDirectory(u, d) \/ DeleteDirectoryStopsHalfway(u, d)
             \/ \E n \in Names : NewFile(u, d, n) \/ NewFileNotSaved(u, d, n)
             \/ \E f \in FileId : NewRevision(u, d, f) \/ NewRevisionNotSaved(u, d, f)
      PROVE  Tidy'
  <2>1. CASE NewDirectory(u, d)
    BY <1>1, <2>1, NewDirectoryTidy
  <2>2. CASE NewDirectoryInDeleted(u, d)
    <3>1. Quiet
      BY <2>2 DEF NewDirectoryInDeleted, Quiet, TypeOK
    <3> QED
      BY <1>1, <3>1, QuietTidy
  <2>3. CASE DeleteDirectory(u, d) \/ DeleteDirectoryStopsHalfway(u, d)
    BY <1>1, <2>3, DeleteDirectoryTidy, NoDeletionStops
  <2>4. CASE \E n \in Names : NewFile(u, d, n) \/ NewFileNotSaved(u, d, n)
    <3>1. PICK n \in Names : NewFile(u, d, n)
      BY <2>4 DEF NewFileNotSaved
    <3> QED
      BY <1>1, <3>1, NewFileTidy
  <2>5. CASE \E f \in FileId : NewRevision(u, d, f) \/ NewRevisionNotSaved(u, d, f)
    <3>1. Quiet
      BY <2>5, RevisionEffect DEF Quiet
    <3> QED
      BY <1>1, <3>1, QuietTidy
  <2> QED
    BY <1>3, <2>1, <2>2, <2>3, <2>4, <2>5
<1>4. ASSUME NEW u \in Users, NEW f \in FileId,
             \/ DeleteFile(u, f) \/ DeleteFileOfDeletedDirectory(u, f) \/ LeaveSharedFile(u, f)
             \/ \E n \in Names : ModifyFileInfo(u, f, n)
             \/ \E v \in Users : SetFileShare(u, f, v) \/ UnsetFileShare(u, f, v)
             \/ \E V \in SUBSET Users : OverwriteFileSharing(u, f, V)
      PROVE  Tidy'
  <2>1. CASE DeleteFile(u, f)
    BY <1>1, <2>1, DeleteFileTidy
  <2>2. CASE ~DeleteFile(u, f)
    <3>1. ~DeleteFileOfDeletedDirectory(u, f)
      BY DEF DeleteFileOfDeletedDirectory
    <3>2. Quiet
      BY <1>4, <2>2, <3>1, ShareQuiet
    <3> QED
      BY <1>1, <3>2, QuietTidy
  <2> QED
    BY <2>1, <2>2
<1>5. ASSUME NEW u \in Users, NEW S \in SUBSET FileId,
             \/ PurgeDeletedFiles(u, S) \/ PurgeStopsHalfway(u, S)
             \/ RecoverDeletedFiles(u, S) \/ RecoverStopsHalfway(u, S)
      PROVE  Tidy'
  BY <1>1, <1>5, PurgeTidy, RecoverTidy, NoPurgeStops, NoRecoveryStops
<1> QED
  BY <1>2, <1>3, <1>4, <1>5 DEF Next

\* As long as clients delete what they are shown and bytes are saved, directories
\* form a forest whose two ends agree, and no deletion stops halfway.
THEOREM TreesAreWhole ==
  ASSUME Slips \subseteq {"stale_share"}
  PROVE  Spec => []DirectoryTree
<1> USE CatalogAssumption
<1>1. Init => Base /\ Climb /\ Tidy
  BY InitBase, InitClimb, InitTidy
<1>2. Base /\ Climb /\ Tidy /\ [Next]_vars => Base' /\ Climb' /\ Tidy'
  BY NextBase, NextClimb, NextTidy DEF Base
<1>3. Base /\ Climb /\ Tidy => DirectoryTree
  BY DEF Base, Shape, PointBack, Climb, ChildrenListed, Tidy, DirsResolve, DirectoryTree
<1> QED
  BY <1>1, <1>2, <1>3, PTL DEF Spec

\* Under the same conditions every file is in exactly one place: in the directory
\* it names or, once, in its owner's list of deleted files.
THEOREM FilesHaveOnePlace ==
  ASSUME Slips \subseteq {"stale_share"}
  PROVE  Spec => []Placement
<1> USE CatalogAssumption
<1>1. Init => Base /\ Tidy
  BY InitBase, InitTidy
<1>2. Base /\ Tidy /\ [Next]_vars => Base' /\ Tidy'
  BY NextBase, NextTidy
<1>3. Base /\ Tidy => Placement
  <2> SUFFICES ASSUME Base, Tidy
               PROVE  Placement
    OBVIOUS
  <2>1. \A f \in DOMAIN file :
          InTrash(f) <=> ~(/\ file[f].parent_directory \in DOMAIN dir
                           /\ f \in dir[file[f].parent_directory].files_contained)
    BY DEF Base, Shape, NoFileIsLost, Tidy, Apart
  <2>2. \A d \in DOMAIN dir : \A f \in dir[d].files_contained :
          f \in DOMAIN file /\ file[f].parent_directory = d
    BY DEF Base, Shape, Where, Tidy, Apart
  <2>3. \A u \in Users : \A f \in Trash(u) :
          f \in DOMAIN file /\ file[f].owner = u /\ user[u].files_deleted[f] = 1
    BY DEF Base, Ids, Tidy, OnceDeleted
  <2> QED
    BY <2>1, <2>2, <2>3 DEF Placement
<1> QED
  BY <1>1, <1>2, <1>3, PTL DEF Spec

----------------------------------------------------------------------------
(* Totals.  The total of a set is a cardinality, so what a proof needs of  *)
(* sums comes from the theorems about finite sets.                         *)

LEMMA Limits == Width \in Nat \ {0} /\ MaxQuota \in Nat /\ Sizes \subseteq 1 .. Width - 1
BY AccountingAssumption

\* What fits a size_t does not wrap; whatever is written back fits one.
LEMMA WrapFits == \A n \in 0 .. Width - 1 : Wrap(n) = n
BY Limits DEF Wrap

LEMMA WrapType == \A n \in Int : Wrap(n) \in 0 .. Width - 1
BY Limits DEF Wrap

LEMMA WrapIs ==
  ASSUME NEW n \in Int
  PROVE  \E q \in Int : n = Width * q + Wrap(n) /\ Wrap(n) \in 0 .. Width - 1
<1>1. n = Width * (n \div Width) + Wrap(n) /\ n \div Width \in Int
  BY Limits DEF Wrap
<1>2. Wrap(n) \in 0 .. Width - 1
  BY Limits DEF Wrap
<1> QED BY <1>1, <1>2

LEMMA WrapUnique ==
  ASSUME NEW a \in 0 .. Width - 1, NEW b \in 0 .. Width - 1, NEW k \in Int, a = b + Width * k
  PROVE  a = b
<1>0. PICK w \in Nat \ {0} : w = Width
  BY Limits
<1>1. a \in 0 .. w - 1 /\ b \in 0 .. w - 1 /\ a = b + w * k
  BY <1>0
<1>2. CASE k >= 1
  <2>1. w * k >= w
    BY <1>2
  <2> QED BY <1>1, <2>1
<1>3. CASE k <= 0 - 1
  <2>1. w * k <= 0 - w
    BY <1>3
  <2> QED BY <1>1, <2>1
<1>4. CASE k = 0
  BY <1>1, <1>4
<1> QED BY <1>2, <1>3, <1>4

\* A number that wrapped on the way ends where it would have without.
LEMMA WrapStep ==
  ASSUME NEW n \in Int, NEW m \in Int
  PROVE  Wrap(Wrap(n) + m) = Wrap(n + m)
<1>1. PICK p \in Int : n = Width * p + Wrap(n) /\ Wrap(n) \in 0 .. Width - 1
  BY WrapIs
<1>2. PICK a \in Int : a = Wrap(n)
  BY <1>1, Limits
<1>3. PICK q \in Int : a + m = Width * q + Wrap(a + m) /\ Wrap(a + m) \in 0 .. Width - 1
  BY WrapIs
<1>4. PICK r \in Int : n + m = Width * r + Wrap(n + m) /\ Wrap(n + m) \in 0 .. Width - 1
  BY WrapIs
<1>5. PICK x \in 0 .. Width - 1 : x = Wrap(a + m)
  BY <1>3
<1>6. PICK y \in 0 .. Width - 1 : y = Wrap(n + m)
  BY <1>4
<1>7. PICK w \in Int : w = Width
  BY Limits
<1>8. x = y + w * ((r - p) - q)
  <2>1. n = w * p + a /\ a + m = w * q + x /\ n + m = w * r + y /\ x \in Int /\ y \in Int
    BY <1>1, <1>2, <1>3, <1>4, <1>5, <1>6, <1>7
  <2>2. w * ((r - p) - q) = (w * r - w * p) - w * q
    OBVIOUS
  <2>3. w * r \in Int /\ w * p \in Int /\ w * q \in Int
    OBVIOUS
  <2> QED BY <2>1, <2>2, <2>3
<1>9. x = y
  BY <1>7, <1>8, WrapUnique
<1> QED BY <1>2, <1>5, <1>6, <1>9

\* A finite set of things each of which has a size.
Sized(size, X) == IsFiniteSet(X) /\ \A x \in X : size[x] \in 0 .. Width - 1

LEMMA InBytes ==
  ASSUME NEW size, NEW X, NEW b
  PROVE  b \in BytesIn(size, X) <=> \E x \in X : \E i \in 1 .. size[x] : b = <<x, i>>
BY DEF BytesIn

LEMMA TotalType ==
  ASSUME NEW size, NEW X, Sized(size, X)
  PROVE  IsFiniteSet(BytesIn(size, X)) /\ Total(size, X) \in Nat
<1>1. IsFiniteSet(1 .. Width - 1)
  BY FS_Interval, Limits
<1>2. IsFiniteSet(X \X (1 .. Width - 1))
  BY <1>1, FS_Product DEF Sized
<1>3. BytesIn(size, X) \subseteq X \X (1 .. Width - 1)
  BY InBytes, Limits DEF Sized
<1>4. IsFiniteSet(BytesIn(size, X))
  BY <1>2, <1>3, FS_Subset
<1> QED BY <1>4, FS_CardinalityType DEF Total

LEMMA TotalEmpty ==
  ASSUME NEW size
  PROVE  Total(size, {}) = 0
BY FS_EmptySet DEF Total, BytesIn

LEMMA TotalOne ==
  ASSUME NEW size, NEW x, size[x] \in 0 .. Width - 1
  PROVE  Total(size, {x}) = size[x]
<1>1. IsFiniteSet(1 .. size[x]) /\ Cardinality(1 .. size[x]) = size[x]
  BY SMTT(30), FS_Interval, Limits
<1>2. IsFiniteSet({x}) /\ Cardinality({x}) = 1
  BY FS_Singleton
<1>3. Cardinality({x} \X (1 .. size[x])) = 1 * size[x]
  BY ZenonT(40), <1>1, <1>2, FS_Product
<1>4. BytesIn(size, {x}) = {x} \X (1 .. size[x])
  BY DEF BytesIn
<1> QED BY <1>3, <1>4, Limits DEF Total

LEMMA TotalUnion ==
  ASSUME NEW size, NEW X, NEW Y, Sized(size, X), Sized(size, Y), X \cap Y = {}
  PROVE  /\ Sized(size, X \cup Y)
         /\ Total(size, X \cup Y) = Total(size, X) + Total(size, Y)
<1> DEFINE A == BytesIn(size, X)
           B == BytesIn(size, Y)
<1>1. IsFiniteSet(A) /\ IsFiniteSet(B) /\ Cardinality(A) \in Nat /\ Cardinality(B) \in Nat
  BY TotalType DEF Total
<1>2. A \cap B = {}
  BY InBytes
<1>3. BytesIn(size, X \cup Y) = A \cup B
  BY DEF BytesIn
<1> HIDE DEF A, B
<1>4. Cardinality(A \cup B) = Cardinality(A) + Cardinality(B) - Cardinality(A \cap B)
  BY <1>1, FS_Union
<1>5. Cardinality(A \cap B) = 0
  BY <1>2, FS_EmptySet
<1>6. Sized(size, X \cup Y)
  BY FS_Union DEF Sized
<1>7. \A a, b, c, n \in Nat : c = 0 /\ n = a + b - c => n = a + b
  OBVIOUS
<1>8. IsFiniteSet(A \cup B) /\ Cardinality(A \cup B) \in Nat
  BY <1>1, FS_Union, FS_CardinalityType
<1>9. Cardinality(A \cup B) = Cardinality(A) + Cardinality(B)
  BY <1>1, <1>4, <1>5, <1>7, <1>8
<1>10. Cardinality(BytesIn(size, X \cup Y)) = Cardinality(A) + Cardinality(B)
  BY <1>3, <1>9
<1> QED BY <1>6, <1>10 DEF Total, A, B

LEMMA TotalSplit ==
  ASSUME NEW size, NEW X, NEW Y, Sized(size, X), Y \subseteq X
  PROVE  /\ Sized(size, Y) /\ Sized(size, X \ Y)
         /\ Total(size, X) = Total(size, Y) + Total(size, X \ Y)
<1>1. Sized(size, Y) /\ Sized(size, X \ Y)
  BY FS_Subset DEF Sized
<1>2. X = Y \cup (X \ Y) /\ Y \cap (X \ Y) = {}
  OBVIOUS
<1>3. Total(size, Y \cup (X \ Y)) = Total(size, Y) + Total(size, X \ Y)
  BY <1>1, <1>2, TotalUnion
<1> QED BY <1>1, <1>2, <1>3

LEMMA TotalAdd ==
  ASSUME NEW size, NEW X, NEW x, Sized(size, X), x \notin X, size[x] \in 0 .. Width - 1
  PROVE  /\ Sized(size, X \cup {x})
         /\ Total(size, X \cup {x}) = Total(size, X) + size[x]
<1>1. Sized(size, {x})
  BY FS_Singleton DEF Sized
<1>2. Total(size, {x}) = size[x]
  BY TotalOne
<1>3. /\ Sized(size, X \cup {x})
      /\ Total(size, X \cup {x}) = Total(size, X) + Total(size, {x})
  BY <1>1, TotalUnion
<1> QED BY <1>2, <1>3

LEMMA TotalSame ==
  ASSUME NEW s, NEW t, NEW X, \A x \in X : s[x] = t[x]
  PROVE  Total(s, X) = Total(t, X)
<1>1. \A b : b \in BytesIn(s, X) <=> b \in BytesIn(t, X)
  BY InBytes
<1> QED BY <1>1 DEF Total

\* A part is at most the whole, and is nothing only if every size in it is 0.
LEMMA TotalPart ==
  ASSUME NEW size, NEW X, NEW Y, Sized(size, X), Y \subseteq X
  PROVE  Total(size, Y) <= Total(size, X)
<1>1. /\ Sized(size, Y) /\ Sized(size, X \ Y)
      /\ Total(size, X) = Total(size, Y) + Total(size, X \ Y)
  BY TotalSplit
<1>2. Total(size, Y) \in Nat /\ Total(size, X \ Y) \in Nat
  BY <1>1, TotalType
<1> HIDE DEF Total
<1> QED BY <1>1, <1>2

LEMMA TotalZero ==
  ASSUME NEW size, NEW X, Sized(size, X), Total(size, X) = 0, NEW x \in X
  PROVE  size[x] = 0
<1>1. BytesIn(size, X) = {}
  BY TotalType, FS_EmptySet DEF Total
<1>2. \A i \in 1 .. size[x] : <<x, i>> \in BytesIn(size, X)
  BY InBytes
<1> QED BY <1>1, <1>2, Limits DEF Sized

\* Things of the same sizes under other names have the same total.
LEMMA TotalRenamed ==
  ASSUME NEW s, NEW t, NEW X, NEW Y, NEW g \in Bijection(X, Y), Sized(s, X),
         \A x \in X : t[g[x]] = s[x]
  PROVE  Sized(t, Y) /\ Total(t, Y) = Total(s, X)
<1> DEFINE A == BytesIn(s, X)
           B == BytesIn(t, Y)
           h == [b \in A |-> <<g[b[1]], b[2]>>]
<1>1. /\ \A x \in X : g[x] \in Y
      /\ \A x, z \in X : g[x] = g[z] => x = z
      /\ \A y \in Y : \E x \in X : g[x] = y
  BY DEF Bijection, Injection, Surjection, IsInjective
<1>2. \A b \in A : b[1] \in X /\ b[2] \in 1 .. s[b[1]] /\ b = <<b[1], b[2]>>
  BY InBytes
<1>3. \A b \in A : h[b] \in B
  BY <1>1, <1>2, InBytes
<1>4. \A b, c \in A : h[b] = h[c] => b = c
  BY <1>1, <1>2
<1>5. \A c \in B : \E b \in A : h[b] = c
  <2> SUFFICES ASSUME NEW c \in B PROVE \E b \in A : h[b] = c
    OBVIOUS
  <2>1. PICK y \in Y : \E i \in 1 .. t[y] : c = <<y, i>>
    BY InBytes
  <2>0. PICK i \in 1 .. t[y] : c = <<y, i>>
    BY <2>1
  <2>2. PICK x \in X : g[x] = y
    BY <1>1
  <2>3. <<x, i>> \in A
    BY <2>0, <2>2, InBytes
  <2> QED BY <2>0, <2>2, <2>3
<1>6. h \in Bijection(A, B)
  BY <1>3, <1>4, <1>5 DEF Bijection, Injection, Surjection, IsInjective
<1>7. Cardinality(B) = Cardinality(A)
  BY <1>6, TotalType, FS_Bijection DEF ExistsBijection
<1>8. IsFiniteSet(Y)
  BY FS_Bijection DEF ExistsBijection, Sized
<1>9. \A y \in Y : t[y] \in 0 .. Width - 1
  BY <1>1 DEF Sized
<1> QED BY <1>7, <1>8, <1>9 DEF Total, Sized

----------------------------------------------------------------------------
(* What Catalog keeps, Accounting keeps: its steps are steps of Catalog by *)
(* careful clients.                                                        *)

CatInv == Base /\ Climb /\ Tidy /\ FilesReadable /\ NothingLeftBehind

LEMMA CatalogSteps ==
  ASSUME AccountingNext
  PROVE  Next
<1>1. PICK u \in Users :
        \/ Annotate(u)
        \/ \E d \in DirId :
             \/ MakeDirectory(u, d) \/ TrashDirectory(u, d)
             \/ \E s \in Sizes : \/ \E n \in Names : Upload(u, d, n, s)
                                 \/ \E g \in FileId : UploadRevision(u, d, g, s)
        \/ \E f \in FileId : TrashFile(u, f)
        \/ \E S \in SUBSET FileId : Purge(u, S) \/ Recover(u, S)
  BY DEF AccountingNext
<1>2. CASE Annotate(u)
  BY <1>2 DEF Annotate, Next
<1>3. CASE \E d \in DirId : MakeDirectory(u, d) \/ TrashDirectory(u, d)
  BY <1>3 DEF MakeDirectory, TrashDirectory, Next
<1>4. CASE \E d \in DirId, s \in Sizes, n \in Names : Upload(u, d, n, s)
  BY <1>4 DEF Upload, Next
<1>5. CASE \E d \in DirId, s \in Sizes, g \in FileId : UploadRevision(u, d, g, s)
  BY <1>5 DEF UploadRevision, Next
<1>6. CASE \E f \in FileId : TrashFile(u, f)
  BY <1>6 DEF TrashFile, Next
<1>7. CASE \E S \in SUBSET FileId : Purge(u, S) \/ Recover(u, S)
  BY <1>7 DEF Purge, Recover, Next
<1> QED BY <1>1, <1>2, <1>3, <1>4, <1>5, <1>6, <1>7

LEMMA InitCatInv == ASSUME Init PROVE CatInv
<1>1. FilesReadable /\ NothingLeftBehind
  BY DEF Init, FilesReadable, NothingLeftBehind
<1> QED BY <1>1, CatalogAssumption, InitBase, InitClimb, InitTidy DEF CatInv

LEMMA NextCatInv ==
  ASSUME CatInv, [Next]_vars
  PROVE  CatInv'
<1>1. Slips \subseteq {"stale_share"} /\ "disk_full" \notin Slips
  BY AccountingAssumption
<1>2. Base' /\ Tidy'
  BY <1>1, CatalogAssumption, NextBase, NextTidy DEF CatInv
<1>3. Climb'
  BY CatalogAssumption, NextClimb DEF CatInv, Base
<1>4. FilesReadable' /\ NothingLeftBehind'
  BY <1>1, CatalogAssumption, NextReadable, NextNothingLeft DEF CatInv
<1> QED BY <1>2, <1>3, <1>4 DEF CatInv

\* A run of Accounting is a run of Catalog.
THEOREM AccountingIsCatalog == AccountingSpec => Spec
<1>1. AccountingInit => Init
  BY DEF AccountingInit
<1>2. [AccountingNext]_<<vars, numbers>> => [Next]_vars
  BY CatalogSteps
<1> QED BY <1>1, <1>2, PTL DEF AccountingSpec, Spec

----------------------------------------------------------------------------
(* The quota.  The record of a file keeps the size of its first revision,  *)
(* which is what a purge gives back: the rest of what the file took is     *)
(* what the purge loses.                                                   *)

FirstSizes == \A f \in DOMAIN file : bytes[<<file[f].owner, f, 1>>] = file_size[f]

Numbers ==
  /\ AccountingTypeOK
  /\ FirstSizes
  /\ QuotaIsAccounted
  /\ \A u \in Users : quota_used[u] <= MaxQuota

\* The physical files an account keeps.
Kept(u) == {b \in DOMAIN bytes : b[1] = u}

LEMMA TablesFinite ==
  ASSUME TypeOK
  PROVE  IsFiniteSet(DOMAIN file) /\ IsFiniteSet(stored)
<1>1. IsFiniteSet(Users) /\ IsFiniteSet(FileId) /\ IsFiniteSet(1 .. MaxRevision)
  BY FS_Interval, CatalogAssumption DEF Users, FileId
<1>2. IsFiniteSet(DOMAIN file)
  BY <1>1, FS_Subset DEF TypeOK
<1> DEFINE T == Users \X FileId \X (1 .. MaxRevision)
           Q == (Users \X FileId) \X (1 .. MaxRevision)
           h == [t \in T |-> <<<<t[1], t[2]>>, t[3]>>]
<1>3. IsFiniteSet(Q)
  BY <1>1, FS_Product
<1>4. h \in Injection(T, Q)
  BY DEF Injection, IsInjective
<1>5. IsFiniteSet(T)
  BY <1>3, <1>4, FS_Injection DEF ExistsInjection
<1> QED BY <1>2, <1>5, FS_Subset DEF TypeOK

LEMMA SizesFit ==
  ASSUME TypeOK, AccountingTypeOK
  PROVE  /\ \A P \in SUBSET DOMAIN file : Sized(file_size, P)
         /\ \A B \in SUBSET stored : Sized(bytes, B)
<1>1. \A s \in Sizes : s \in 0 .. Width - 1
  BY Limits
<1>2. \A P \in SUBSET DOMAIN file : IsFiniteSet(P)
  BY TablesFinite, FS_Subset
<1>3. \A B \in SUBSET stored : IsFiniteSet(B)
  BY TablesFinite, FS_Subset
<1> QED BY <1>1, <1>2, <1>3 DEF Sized, AccountingTypeOK

\* What an account keeps and what it lost are numbers, and its quota covers both.
LEMMA KeptType ==
  ASSUME TypeOK, Numbers, NEW u \in Users
  PROVE  /\ Sized(bytes, Kept(u)) /\ BytesOf(u) = Total(bytes, Kept(u))
         /\ BytesOf(u) \in Nat /\ lost[u] \in Nat /\ quota_used[u] \in 0 .. MaxQuota
         /\ quota_used[u] = BytesOf(u) + lost[u]
<1>1. Kept(u) \subseteq stored
  BY DEF Kept, Numbers, AccountingTypeOK
<1>2. Sized(bytes, Kept(u)) /\ BytesOf(u) = Total(bytes, Kept(u))
  BY <1>1, SizesFit DEF Numbers, BytesOf, Kept
<1>3. BytesOf(u) \in Nat
  BY <1>2, TotalType
<1>4. lost[u] \in Nat /\ quota_used[u] \in 0 .. Width - 1 /\ quota_used[u] <= MaxQuota
  BY DEF Numbers, AccountingTypeOK
<1>5. quota_used[u] \in 0 .. MaxQuota
  BY <1>4, Limits
<1> QED BY <1>2, <1>3, <1>4, <1>5 DEF Numbers, QuotaIsAccounted

LEMMA InitNumbers == ASSUME AccountingInit PROVE Numbers
<1>1. AccountingTypeOK
  BY Limits DEF AccountingInit, Init, AccountingTypeOK
<1>2. FirstSizes
  BY DEF AccountingInit, Init, FirstSizes
<1>3. ASSUME NEW u \in Users
      PROVE  quota_used[u] = 0 /\ lost[u] = 0 /\ BytesOf(u) = 0
  <2>1. quota_used[u] = 0 /\ lost[u] = 0 /\ {b \in DOMAIN bytes : b[1] = u} = {}
    BY DEF AccountingInit
  <2> QED BY <2>1, TotalEmpty DEF BytesOf
<1>4. QuotaIsAccounted /\ \A u \in Users : quota_used[u] <= MaxQuota
  BY <1>3, Limits DEF QuotaIsAccounted
<1> QED BY <1>1, <1>2, <1>4 DEF Numbers

\* Requests that move no byte.
LEMMA StillNumbers ==
  ASSUME Numbers, UNCHANGED <<stored, file_size, quota_used, bytes, lost>>,
         DOMAIN file' = DOMAIN file, \A f \in DOMAIN file : file'[f].owner = file[f].owner,
         DOMAIN dir_size' = DOMAIN dir', \A d \in DOMAIN dir' : dir_size'[d] \in 0 .. Width - 1,
         drift' \in [DOMAIN dir' -> Int]
  PROVE  Numbers'
<1>1. AccountingTypeOK'
  BY DEF Numbers, AccountingTypeOK
<1>2. FirstSizes'
  BY DEF Numbers, FirstSizes
<1>3. QuotaIsAccounted'
  BY DEF Numbers, QuotaIsAccounted, BytesOf, Total, BytesIn
<1>4. (\A u \in Users : quota_used[u] <= MaxQuota)'
  BY DEF Numbers
<1> QED BY <1>1, <1>2, <1>3, <1>4 DEF Numbers

\* A quota that does not reach its limit grows by what is uploaded.
LEMMA QuotaGrows ==
  ASSUME TypeOK, Numbers, NEW u \in Users, NEW s \in Sizes,
         quota_used' = [quota_used EXCEPT ![u] = Wrap(@ + s)]
  PROVE  /\ quota_used'[u] = quota_used[u] + s /\ quota_used[u] + s \in 0 .. Width - 1
         /\ \A v \in Users \ {u} : quota_used'[v] = quota_used[v]
<1>1. s \in 1 .. Width - 1 /\ MaxQuota + s < Width
  BY AccountingAssumption
<1>2. quota_used[u] \in 0 .. MaxQuota /\ quota_used \in [Users -> 0 .. Width - 1]
  BY KeptType DEF Numbers, AccountingTypeOK
<1>3. quota_used[u] + s \in 0 .. Width - 1
  BY <1>1, <1>2, Limits
<1>4. Wrap(quota_used[u] + s) = quota_used[u] + s
  BY <1>3, WrapFits
<1> QED BY <1>2, <1>3, <1>4

\* One more physical file of s bytes, within the quota.
LEMMA OneMoreFile ==
  ASSUME TypeOK, Numbers, NEW u \in Users, NEW s \in Sizes, NEW b, b \notin stored, b[1] = u,
         Wrap(quota_used[u] + s) <= MaxQuota,
         bytes' = Put(bytes, b, s), quota_used' = [quota_used EXCEPT ![u] = Wrap(@ + s)],
         UNCHANGED lost
  PROVE  /\ DOMAIN bytes' = stored \cup {b}
         /\ \A c \in DOMAIN bytes' : bytes'[c] = IF c = b THEN s ELSE bytes[c]
         /\ quota_used' \in [Users -> 0 .. Width - 1] /\ lost' \in [Users -> Nat]
         /\ QuotaIsAccounted'
         /\ \A v \in Users : quota_used'[v] <= MaxQuota
<1>1. /\ DOMAIN bytes' = stored \cup {b}
      /\ \A c \in DOMAIN bytes' : bytes'[c] = IF c = b THEN s ELSE bytes[c]
  BY DEF Put, Numbers, AccountingTypeOK
<1>2. s \in 1 .. Width - 1 /\ MaxQuota + s < Width
  BY AccountingAssumption
<1>3. /\ quota_used \in [Users -> 0 .. Width - 1] /\ lost \in [Users -> Nat]
      /\ DOMAIN bytes = stored
  BY DEF Numbers, AccountingTypeOK
<1>4. /\ quota_used'[u] = quota_used[u] + s /\ quota_used[u] + s \in 0 .. Width - 1
      /\ \A v \in Users \ {u} : quota_used'[v] = quota_used[v]
  BY QuotaGrows
<1>5. /\ quota_used' \in [Users -> 0 .. Width - 1]
      /\ quota_used'[u] = quota_used[u] + s
      /\ \A v \in Users \ {u} : quota_used'[v] = quota_used[v]
  BY <1>3, <1>4
<1>6. \A v \in Users : quota_used'[v] <= MaxQuota
  BY <1>3, <1>5 DEF Numbers
<1>7. ASSUME NEW v \in Users
      PROVE  quota_used'[v] = BytesOf(v)' + lost'[v]
  <2>1. /\ Sized(bytes, Kept(v)) /\ BytesOf(v) = Total(bytes, Kept(v))
        /\ BytesOf(v) \in Nat /\ lost[v] \in Nat
        /\ quota_used[v] = BytesOf(v) + lost[v]
    BY KeptType
  <2>2. BytesOf(v)' = Total(bytes', {c \in DOMAIN bytes' : c[1] = v})
    BY DEF BytesOf, Total, BytesIn
  <2>3. b \notin Kept(v) /\ \A c \in Kept(v) : bytes'[c] = bytes[c]
    BY <1>1, <1>3 DEF Kept
  <2>4. Total(bytes', Kept(v)) = Total(bytes, Kept(v)) /\ Sized(bytes', Kept(v))
    BY <2>1, <2>3, TotalSame DEF Sized
  <2>5. CASE v # u
    <3>1. {c \in DOMAIN bytes' : c[1] = v} = Kept(v)
      BY <1>1, <1>3, <2>5 DEF Kept
    <3> QED BY <1>5, <2>1, <2>2, <2>4, <2>5, <3>1
  <2>6. CASE v = u
    <3>1. {c \in DOMAIN bytes' : c[1] = v} = Kept(v) \cup {b}
      BY <1>1, <1>3, <2>6 DEF Kept
    <3>2. bytes'[b] = s /\ bytes'[b] \in 0 .. Width - 1
      BY <1>1, <1>2
    <3>5. Total(bytes', Kept(v) \cup {b}) = Total(bytes', Kept(v)) + bytes'[b]
      BY <2>3, <2>4, <3>2, TotalAdd
    <3>3. Total(bytes', Kept(v) \cup {b}) = Total(bytes', Kept(v)) + s
      BY <3>2, <3>5
    <3>4. BytesOf(v)' = BytesOf(v) + s /\ quota_used'[v] = quota_used[v] + s /\ lost'[v] = lost[v]
      BY <1>5, <2>1, <2>2, <2>4, <2>6, <3>1, <3>3
    <3>6. \A m, n, q \in Nat : q = m + n => q + s = (m + s) + n
      BY <1>2
    <3> QED BY <2>1, <3>4, <3>6
  <2> QED BY <2>5, <2>6
<1> QED BY <1>1, <1>3, <1>5, <1>6, <1>7 DEF QuotaIsAccounted

LEMMA SizesAreInts ==
  ASSUME Numbers
  PROVE  /\ \A s \in Sizes : s \in Int
         /\ \A f \in DOMAIN file : file_size[f] \in Int
         /\ \A d \in DOMAIN dir : dir_size[d] \in Int
<1>1. \A s \in Sizes : s \in Int
  BY Limits
<1>2. \A n \in 0 .. Width - 1 : n \in Int
  BY Limits
<1>3. \A f \in DOMAIN file : file_size[f] \in Sizes
  BY DEF Numbers, AccountingTypeOK
<1>4. \A d \in DOMAIN dir : dir_size[d] \in 0 .. Width - 1
  BY DEF Numbers, AccountingTypeOK
<1> QED BY <1>1, <1>2, <1>3, <1>4

\* A request that makes a directory starts its drift, one that deletes some ends
\* theirs, and only a revision moves any.
LEMMA DriftMoves ==
  ASSUME CatInv, Numbers, AccountingNext
  PROVE  drift' \in [DOMAIN dir' -> Int]
<1>0. drift \in [DOMAIN dir -> Int]
  BY DEF Numbers, AccountingTypeOK
<1>1. PICK u \in Users :
        \/ Annotate(u)
        \/ \E d \in DirId :
             \/ MakeDirectory(u, d) \/ TrashDirectory(u, d)
             \/ \E s \in Sizes : \/ \E n \in Names : Upload(u, d, n, s)
                                 \/ \E g \in FileId : UploadRevision(u, d, g, s)
        \/ \E f \in FileId : TrashFile(u, f)
        \/ \E S \in SUBSET FileId : Purge(u, S) \/ Recover(u, S)
  BY DEF AccountingNext
<1>2. CASE Annotate(u) \/ \E S \in SUBSET FileId : Purge(u, S)
  <2>1. UNCHANGED <<dir, drift>>
    BY <1>2, ShareEffect DEF Annotate, NewDirectoryInDeleted, Purge, PurgeDeletedFiles, numbers,
                             CatInv, Base
  <2> QED BY <1>0, <2>1
<1>3. CASE \E d \in DirId : MakeDirectory(u, d)
  <2>1. DOMAIN dir' = DOMAIN dir \cup {ticket.dir} /\ drift' = Put(drift, ticket.dir, 0)
    BY <1>3 DEF MakeDirectory, NewDirectory, Put
  <2> QED BY <1>0, <2>1 DEF Put
<1>4. CASE \E d \in DirId : TrashDirectory(u, d)
  <2>1. PICK d \in DirId : DOMAIN dir' = DOMAIN dir \ Subtree(d) /\ drift' = Erase(drift, Subtree(d))
    BY <1>4 DEF TrashDirectory, DeleteDirectory
  <2> QED BY <1>0, <2>1 DEF Erase
<1>5. CASE \E d \in DirId, s \in Sizes, n \in Names : Upload(u, d, n, s)
  <2>1. DOMAIN dir' = DOMAIN dir /\ drift' = drift
    BY <1>5, NewFileEffect, CatalogAssumption DEF Upload, CatInv, Base
  <2> QED BY <1>0, <2>1
<1>6. CASE \E d \in DirId, s \in Sizes, g \in FileId : UploadRevision(u, d, g, s)
  <2>1. PICK d \in DirId, s \in Sizes, g \in FileId : UploadRevision(u, d, g, s)
    BY <1>6
  <2>2. dir' = dir /\ g \in DOMAIN file
    BY <2>1, UploadEffect DEF UploadRevision, NewRevision, CatInv
  <2>3. s \in Int /\ file_size[g] \in Int
    BY <2>2, SizesAreInts
  <2> QED BY <1>0, <2>1, <2>2, <2>3 DEF UploadRevision, Drift
<1>7. CASE \E f \in FileId : TrashFile(u, f)
  <2>1. DOMAIN dir' = DOMAIN dir /\ drift' = drift
    BY <1>7 DEF TrashFile, DeleteFile
  <2> QED BY <1>0, <2>1
<1>8. CASE \E S \in SUBSET FileId : Recover(u, S)
  <2>1. DOMAIN dir' = DOMAIN dir /\ drift' = drift
    BY <1>8, MoveHomeEffect DEF Recover, RecoverDeletedFiles, CatInv, Base
  <2> QED BY <1>0, <2>1
<1> QED BY <1>1, <1>2, <1>3, <1>4, <1>5, <1>6, <1>7, <1>8

LEMMA AnnotateNumbers ==
  ASSUME CatInv, Numbers, NEW u \in Users, Annotate(u),
         drift' \in [DOMAIN dir' -> Int]
  PROVE  Numbers'
<1>1. CASE \E d \in DirId : NewDirectoryInDeleted(u, d)
  <2>1. UNCHANGED <<stored, file, dir, numbers>>
    BY <1>1 DEF NewDirectoryInDeleted, Annotate
  <2>2. DOMAIN dir_size' = DOMAIN dir' /\ \A d \in DOMAIN dir' : dir_size'[d] \in 0 .. Width - 1
    BY <2>1 DEF numbers, Numbers, AccountingTypeOK
  <2> QED BY <2>1, <2>2, StillNumbers DEF numbers
<1>2. CASE \E f \in FileId :
             \/ LeaveSharedFile(u, f)
             \/ \E n \in Names : ModifyFileInfo(u, f, n)
             \/ \E v \in Users : SetFileShare(u, f, v) \/ UnsetFileShare(u, f, v)
             \/ \E V \in SUBSET Users : OverwriteFileSharing(u, f, V)
  <2>1. /\ UNCHANGED <<stored, dir, numbers>> /\ DOMAIN file' = DOMAIN file
        /\ \A g \in DOMAIN file : file'[g].owner = file[g].owner
    BY <1>2, ShareEffect DEF Annotate, CatInv, Base
  <2>2. DOMAIN dir_size' = DOMAIN dir' /\ \A d \in DOMAIN dir' : dir_size'[d] \in 0 .. Width - 1
    BY <2>1 DEF numbers, Numbers, AccountingTypeOK
  <2> QED BY <2>1, <2>2, StillNumbers DEF numbers
<1> QED BY <1>1, <1>2 DEF Annotate

LEMMA MakeDirectoryNumbers ==
  ASSUME CatInv, Numbers, NEW u \in Users, NEW p \in DirId, MakeDirectory(u, p),
         drift' \in [DOMAIN dir' -> Int]
  PROVE  Numbers'
<1>1. UNCHANGED <<stored, file, file_size, quota_used, bytes, lost>>
  BY DEF MakeDirectory, NewDirectory
<1>2. DOMAIN dir_size = DOMAIN dir /\ \A d \in DOMAIN dir : dir_size[d] \in 0 .. Width - 1
  BY DEF Numbers, AccountingTypeOK
<1>3. DOMAIN dir' = DOMAIN dir \cup {ticket.dir}
  BY DEF MakeDirectory, NewDirectory, Put
<1>4. /\ DOMAIN dir_size' = DOMAIN dir \cup {ticket.dir}
      /\ \A d \in DOMAIN dir_size' : dir_size'[d] = IF d = ticket.dir THEN 0 ELSE dir_size[d]
  BY <1>2 DEF MakeDirectory, Put
<1>5. \A d \in DOMAIN dir' : dir_size'[d] \in 0 .. Width - 1
  BY <1>2, <1>3, <1>4, Limits
<1> QED BY <1>1, <1>3, <1>4, <1>5, StillNumbers

LEMMA TrashFileNumbers ==
  ASSUME CatInv, Numbers, NEW u \in Users, NEW f \in FileId, TrashFile(u, f),
         drift' \in [DOMAIN dir' -> Int]
  PROVE  Numbers'
<1>1. /\ UNCHANGED <<stored, file_size, quota_used, bytes, lost>> /\ DOMAIN dir' = DOMAIN dir
      /\ f \in DOMAIN file /\ Unshare({f})
  BY DEF TrashFile, DeleteFile
<1>2. DOMAIN file' = DOMAIN file /\ \A g \in DOMAIN file : file'[g].owner = file[g].owner
  BY <1>1, UnshareEffect DEF CatInv, Base
<1>3. file_size[f] \in Int /\ \A d \in DOMAIN dir : dir_size[d] \in Int
  BY <1>1, SizesAreInts
<1>4. \A d \in DOMAIN dir :
        dir_size'[d] = Wrap(dir_size[d] - IF d \in Above(file[f].parent_directory)
                                          THEN file_size[f] ELSE 0)
  BY DEF TrashFile
<1>5. \A d \in DOMAIN dir : dir_size'[d] \in 0 .. Width - 1
  BY <1>3, <1>4, WrapType
<1> QED BY <1>1, <1>2, <1>5, StillNumbers DEF TrashFile

LEMMA TrashDirectoryNumbers ==
  ASSUME CatInv, Numbers, NEW u \in Users, NEW d \in DirId, TrashDirectory(u, d),
         drift' \in [DOMAIN dir' -> Int]
  PROVE  Numbers'
<1> DEFINE gone == Total(file_size, FilesIn(Subtree(d)))
<1>1. /\ UNCHANGED <<stored, file_size, quota_used, bytes, lost>>
      /\ DOMAIN dir' = DOMAIN dir \ Subtree(d)
      /\ Intact(d) /\ Unshare(FilesIn(Subtree(d)))
  BY DEF TrashDirectory, DeleteDirectory
<1>2. DOMAIN file' = DOMAIN file /\ \A g \in DOMAIN file : file'[g].owner = file[g].owner
  BY <1>1, UnshareEffect DEF CatInv, Base
<1>3. FilesIn(Subtree(d)) \subseteq DOMAIN file
  BY <1>1 DEF Intact, FilesIn
<1>4. gone \in Nat
  BY <1>3, SizesFit, TotalType DEF CatInv, Base, Numbers
<1>5. \A x \in DOMAIN dir : dir_size[x] \in Int
  BY SizesAreInts
<1>6. /\ DOMAIN dir_size' = DOMAIN dir \ Subtree(d)
      /\ \A x \in DOMAIN dir \ Subtree(d) :
           dir_size'[x] = Wrap(dir_size[x] - IF x \in Above(d) THEN gone ELSE 0)
  BY DEF TrashDirectory
<1> HIDE DEF gone
<1>7. \A x \in DOMAIN dir \ Subtree(d) : dir_size'[x] \in 0 .. Width - 1
  BY <1>4, <1>5, <1>6, WrapType
<1> QED BY <1>1, <1>2, <1>6, <1>7, StillNumbers

LEMMA RecoverNumbers ==
  ASSUME CatInv, Numbers, NEW u \in Users, NEW S \in SUBSET FileId, Recover(u, S),
         drift' \in [DOMAIN dir' -> Int]
  PROVE  Numbers'
<1> DEFINE back(x) == Total(file_size, {f \in S : x \in Above(Home(u, f))})
<1>1. /\ UNCHANGED <<stored, file_size, quota_used, bytes, lost>>
      /\ S \subseteq Recoverable(u) /\ MoveHome(u, S) /\ Readopt(u, S)
  BY DEF Recover, RecoverDeletedFiles
<1>2. DOMAIN file' = DOMAIN file /\ \A g \in DOMAIN file : file'[g].owner = file[g].owner
  BY <1>1, ReadoptEffect DEF CatInv, Base
<1>3. DOMAIN dir' = DOMAIN dir
  BY <1>1, MoveHomeEffect DEF CatInv, Base
<1>4. S \subseteq DOMAIN file
  BY <1>1 DEF Recoverable
<1>5. \A x : back(x) \in Nat
  BY <1>4, SizesFit, TotalType DEF CatInv, Base, Numbers
<1>6. \A x \in DOMAIN dir : dir_size[x] \in Int
  BY SizesAreInts
<1>7. /\ DOMAIN dir_size' = DOMAIN dir
      /\ \A x \in DOMAIN dir : dir_size'[x] = Wrap(dir_size[x] + back(x))
  BY DEF Recover
<1> HIDE DEF back
<1>8. \A x \in DOMAIN dir : dir_size'[x] \in 0 .. Width - 1
  BY <1>5, <1>6, <1>7, WrapType
<1> QED BY <1>1, <1>2, <1>3, <1>7, <1>8, StillNumbers

LEMMA UploadNumbers ==
  ASSUME CatInv, Numbers, NEW u \in Users, NEW p \in DirId, NEW n \in Names, NEW s \in Sizes,
         Upload(u, p, n, s),
         drift' \in [DOMAIN dir' -> Int]
  PROVE  Numbers'
<1> DEFINE f == ticket.file
           b == <<u, ticket.file, 1>>
<1>1. /\ f \notin DOMAIN file /\ DOMAIN dir' = DOMAIN dir
      /\ DOMAIN file' = DOMAIN file \cup {f} /\ file'[f] = NewRecord(u, p, n)
      /\ \A g \in DOMAIN file : file'[g] = file[g]
  <2>1. NewFile(u, p, n)
    BY DEF Upload
  <2>2. f \notin DOMAIN file /\ DOMAIN dir' = DOMAIN dir
    BY <2>1, NewFileEffect, CatalogAssumption DEF CatInv, Base
  <2> QED BY <2>1, <2>2 DEF NewFile, Put
<1>2. stored' = stored \cup {b}
  BY DEF Upload, NewFile
<1>3. b \notin stored
  BY <1>1 DEF CatInv, NothingLeftBehind
<1>4. /\ DOMAIN bytes' = stored \cup {b}
      /\ \A c \in DOMAIN bytes' : bytes'[c] = IF c = b THEN s ELSE bytes[c]
      /\ quota_used' \in [Users -> 0 .. Width - 1] /\ lost' \in [Users -> Nat]
      /\ QuotaIsAccounted'
      /\ \A v \in Users : quota_used'[v] <= MaxQuota
  <2>1. /\ bytes' = Put(bytes, b, s) /\ b[1] = u /\ UNCHANGED lost
        /\ quota_used' = [quota_used EXCEPT ![u] = Wrap(@ + s)]
        /\ Wrap(quota_used[u] + s) <= MaxQuota
    BY DEF Upload
  <2>2. TypeOK
    BY DEF CatInv, Base
  <2> HIDE DEF b
  <2> QED BY <1>3, <2>1, <2>2, OneMoreFile
<1>5. /\ DOMAIN file_size = DOMAIN file /\ DOMAIN dir_size = DOMAIN dir /\ DOMAIN bytes = stored
      /\ \A g \in DOMAIN file : file_size[g] \in Sizes
      /\ \A d \in DOMAIN dir : dir_size[d] \in 0 .. Width - 1
      /\ \A c \in stored : bytes[c] \in Sizes
  BY DEF Numbers, AccountingTypeOK
<1>6. /\ DOMAIN file_size' = DOMAIN file'
      /\ \A g \in DOMAIN file' : file_size'[g] = IF g = f THEN s ELSE file_size[g]
  BY <1>1, <1>5 DEF Upload, Put
<1>7. DOMAIN dir_size' = DOMAIN dir' /\ \A d \in DOMAIN dir' : dir_size'[d] \in 0 .. Width - 1
  <2>1. \A d \in DOMAIN dir : dir_size[d] \in Int /\ s \in Int
    BY SizesAreInts
  <2>2. /\ DOMAIN dir_size' = DOMAIN dir
        /\ \A d \in DOMAIN dir : dir_size'[d] = Wrap(dir_size[d] + IF d \in Above(p) THEN s ELSE 0)
    BY <1>5 DEF Upload
  <2> QED BY <1>1, <2>1, <2>2, WrapType
<1>8. AccountingTypeOK'
  BY <1>1, <1>2, <1>4, <1>5, <1>6, <1>7 DEF AccountingTypeOK
<1>9. ASSUME NEW g \in DOMAIN file'
      PROVE  bytes'[<<file'[g].owner, g, 1>>] = file_size'[g]
  <2>1. CASE g = f
    BY <1>1, <1>4, <1>6, <2>1 DEF NewRecord
  <2>2. CASE g # f
    <3>1. g \in DOMAIN file /\ file'[g] = file[g] /\ 1 \in 1 .. file[g].revision
      BY <1>1, <2>2 DEF CatInv, Base, TypeOK, FileRecord
    <3>2. <<file[g].owner, g, 1>> \in stored
      BY <3>1 DEF CatInv, FilesReadable
    <3> QED BY <1>4, <1>6, <2>2, <3>1, <3>2 DEF Numbers, FirstSizes
  <2> QED BY <2>1, <2>2
<1> QED BY <1>4, <1>8, <1>9 DEF Numbers, FirstSizes

LEMMA UploadRevisionNumbers ==
  ASSUME CatInv, Numbers, NEW u \in Users, NEW p \in DirId, NEW g \in FileId, NEW s \in Sizes,
         UploadRevision(u, p, g, s),
         drift' \in [DOMAIN dir' -> Int]
  PROVE  Numbers'
<1> DEFINE b == <<u, g, file[g].revision + 1>>
<1>1. /\ g \in DOMAIN file /\ file[g].owner = u /\ DOMAIN file' = DOMAIN file
      /\ stored' = stored \cup {b} /\ dir' = dir
      /\ \A f \in DOMAIN file : file'[f].owner = file[f].owner
  <2>1. NewRevision(u, p, g)
    BY DEF UploadRevision
  <2> QED BY <2>1, UploadEffect DEF CatInv, NewRevision
<1>2. file[g].revision \in Nat \ {0}
  BY <1>1 DEF CatInv, Base, TypeOK, FileRecord
<1>3. b \notin stored
  BY <1>2 DEF CatInv, NothingLeftBehind
<1>4. /\ DOMAIN bytes' = stored \cup {b}
      /\ \A c \in DOMAIN bytes' : bytes'[c] = IF c = b THEN s ELSE bytes[c]
      /\ quota_used' \in [Users -> 0 .. Width - 1] /\ lost' \in [Users -> Nat]
      /\ QuotaIsAccounted'
      /\ \A v \in Users : quota_used'[v] <= MaxQuota
  <2>1. /\ bytes' = Put(bytes, b, s) /\ b[1] = u /\ UNCHANGED lost
        /\ quota_used' = [quota_used EXCEPT ![u] = Wrap(@ + s)]
        /\ Wrap(quota_used[u] + s) <= MaxQuota
    BY DEF UploadRevision
  <2>2. TypeOK
    BY DEF CatInv, Base
  <2> HIDE DEF b
  <2> QED BY <1>3, <2>1, <2>2, OneMoreFile
<1>5. /\ DOMAIN file_size = DOMAIN file /\ DOMAIN dir_size = DOMAIN dir /\ DOMAIN bytes = stored
      /\ \A f \in DOMAIN file : file_size[f] \in Sizes
      /\ \A d \in DOMAIN dir : dir_size[d] \in 0 .. Width - 1
      /\ \A c \in stored : bytes[c] \in Sizes
  BY DEF Numbers, AccountingTypeOK
<1>6. DOMAIN dir_size' = DOMAIN dir' /\ \A d \in DOMAIN dir' : dir_size'[d] \in 0 .. Width - 1
  <2>1. s \in Int /\ file_size[g] \in Int /\ \A d \in DOMAIN dir : dir_size[d] \in Int
    BY <1>1, SizesAreInts
  <2>2. /\ DOMAIN dir_size' = DOMAIN dir
        /\ \A d \in DOMAIN dir : dir_size'[d] = IF d \in Above(p)
                                   THEN Wrap(Wrap(dir_size[d] - file_size[g]) + s) ELSE dir_size[d]
    BY <1>5 DEF UploadRevision
  <2>3. \A d \in DOMAIN dir : Wrap(dir_size[d] - file_size[g]) + s \in Int
    BY <2>1, WrapType, Limits
  <2> QED BY <1>1, <1>5, <2>2, <2>3, WrapType
<1>7. file_size' = file_size
  BY DEF UploadRevision
<1>8. AccountingTypeOK'
  BY <1>1, <1>4, <1>5, <1>6, <1>7 DEF AccountingTypeOK
<1>9. ASSUME NEW f \in DOMAIN file'
      PROVE  bytes'[<<file'[f].owner, f, 1>>] = file_size'[f]
  <2>1. f \in DOMAIN file /\ file'[f].owner = file[f].owner /\ 1 \in 1 .. file[f].revision
    BY <1>1 DEF CatInv, Base, TypeOK, FileRecord
  <2>2. <<file[f].owner, f, 1>> \in stored
    BY <2>1 DEF CatInv, FilesReadable
  <2>3. <<file[f].owner, f, 1>> # b
    BY <1>2
  <2> QED BY <1>4, <1>7, <2>1, <2>2, <2>3 DEF Numbers, FirstSizes
<1> QED BY <1>4, <1>8, <1>9 DEF Numbers, FirstSizes

\* A purge: the first revisions go at the size in the records, and are given back;
\* the later ones go at their own, and are lost.
LEMMA PurgeNumbers ==
  ASSUME CatInv, Numbers, NEW u \in Users, NEW S \in SUBSET FileId, Purge(u, S),
         drift' \in [DOMAIN dir' -> Int]
  PROVE  Numbers'
<1> DEFINE gone == RevisionsOf(S)
           later == {b \in gone : b[3] > 1}
           first == gone \ later
<1>1. /\ stored' = stored \ gone /\ file' = Erase(file, S) /\ dir' = dir
      /\ file_size' = Erase(file_size, S) /\ bytes' = Erase(bytes, gone)
      /\ lost' = [lost EXCEPT ![u] = @ + Total(bytes, later)]
      /\ quota_used' = [quota_used EXCEPT ![u] = Wrap(@ - Total(file_size, S))]
      /\ dir_size' = dir_size
      /\ S \subseteq Trash(u) \cap DOMAIN file
  BY DEF Purge, PurgeDeletedFiles, Lose
<1>2. \A f \in S : f \in DOMAIN file /\ file[f].owner = u
  BY <1>1 DEF CatInv, Base, Ids
<1>3. gone = {b \in stored : b[2] \in S}
  BY <1>2 DEF RevisionsOf, CatInv, NothingLeftBehind
<1>4. gone \subseteq Kept(u) /\ DOMAIN bytes = stored
  BY <1>2, <1>3 DEF Kept, CatInv, NothingLeftBehind, Numbers, AccountingTypeOK
<1>5. \A b \in stored : b = <<b[1], b[2], b[3]>> /\ b[3] \in Nat \ {0}
  BY DEF CatInv, Base, TypeOK
<1>6. /\ Sized(bytes, Kept(u)) /\ BytesOf(u) = Total(bytes, Kept(u))
      /\ BytesOf(u) \in Nat /\ lost[u] \in Nat /\ quota_used[u] \in 0 .. MaxQuota
      /\ quota_used[u] = BytesOf(u) + lost[u]
  BY KeptType DEF CatInv, Base
<1>7. /\ Sized(bytes, gone) /\ Sized(bytes, Kept(u) \ gone)
      /\ Total(bytes, Kept(u)) = Total(bytes, gone) + Total(bytes, Kept(u) \ gone)
  BY <1>4, <1>6, TotalSplit
<1>8. /\ Sized(bytes, later) /\ Sized(bytes, first)
      /\ Total(bytes, gone) = Total(bytes, later) + Total(bytes, first)
  BY <1>7, TotalSplit
<1>9. Total(bytes, first) = Total(file_size, S)
  <2> DEFINE h == [f \in S |-> <<u, f, 1>>]
  <2>1. \A f \in S : <<u, f, 1>> \in stored
    BY <1>2 DEF CatInv, FilesReadable, Base, TypeOK, FileRecord
  <2>2. \A f \in S : h[f] \in first
    BY <1>3, <2>1
  <2>3. \A b \in first : b[2] \in S /\ b = <<u, b[2], 1>>
    BY <1>3, <1>4, <1>5 DEF Kept
  <2>4. h \in Bijection(S, first)
    BY <2>2, <2>3 DEF Bijection, Injection, Surjection, IsInjective
  <2>5. Sized(file_size, S)
    BY <1>1, SizesFit DEF CatInv, Base, Numbers
  <2>6. \A f \in S : bytes[h[f]] = file_size[f]
    BY <1>2 DEF Numbers, FirstSizes
  <2> QED BY <2>4, <2>5, <2>6, TotalRenamed
<1>10. /\ Total(bytes, later) \in Nat /\ Total(bytes, first) \in Nat
       /\ Total(bytes, gone) \in Nat /\ Total(bytes, Kept(u) \ gone) \in Nat
  BY <1>7, <1>8, TotalType
<1>11. /\ quota_used[u] - Total(file_size, S) \in 0 .. quota_used[u]
       /\ quota_used[u] - Total(file_size, S)
            = Total(bytes, Kept(u) \ gone) + (lost[u] + Total(bytes, later))
  <2>1. \A q, k, l, g, r, a, c \in Nat :
          q = k + l /\ k = g + r /\ g = a + c => q - c \in 0 .. q /\ q - c = r + (l + a)
    OBVIOUS
  <2>2. quota_used[u] \in Nat
    BY <1>6, Limits
  <2> QED BY <1>6, <1>7, <1>8, <1>9, <1>10, <2>1, <2>2
<1>12. /\ quota_used \in [Users -> 0 .. Width - 1] /\ lost \in [Users -> Nat]
       /\ \A v \in Users : quota_used[v] <= MaxQuota
  BY DEF Numbers, AccountingTypeOK
<1>13. /\ quota_used[u] - Total(file_size, S) \in 0 .. Width - 1
       /\ quota_used[u] - Total(file_size, S) <= MaxQuota
  <2>1. quota_used[u] \in 0 .. Width - 1 /\ quota_used[u] <= MaxQuota
    BY <1>12
  <2>2. \A q \in 0 .. Width - 1 : \A n \in 0 .. q : q <= MaxQuota => n \in 0 .. Width - 1 /\ n <= MaxQuota
    BY Limits
  <2> HIDE DEF gone, later, first
  <2> QED BY <1>11, <2>1, <2>2
<1>14. /\ quota_used' \in [Users -> 0 .. Width - 1] /\ lost' \in [Users -> Nat]
       /\ quota_used'[u] = Total(bytes, Kept(u) \ gone) + lost'[u]
       /\ \A v \in Users : quota_used'[v] <= MaxQuota
       /\ \A v \in Users \ {u} : quota_used'[v] = quota_used[v] /\ lost'[v] = lost[v]
  <2>1. quota_used' = [quota_used EXCEPT ![u] = quota_used[u] - Total(file_size, S)]
    BY <1>1, <1>13, WrapFits
  <2>2. lost[u] + Total(bytes, later) \in Nat
    BY <1>6, <1>10
  <2>3. /\ quota_used'[u] = quota_used[u] - Total(file_size, S)
        /\ lost'[u] = lost[u] + Total(bytes, later)
    BY <1>1, <1>12, <2>1
  <2> HIDE DEF gone, later, first
  <2>4. quota_used' \in [Users -> 0 .. Width - 1] /\ lost' \in [Users -> Nat]
    BY <1>1, <1>12, <1>13, <2>1, <2>2
  <2>5. quota_used'[u] = Total(bytes, Kept(u) \ gone) + lost'[u]
    BY <1>11, <2>3
  <2>6. \A v \in Users \ {u} : quota_used'[v] = quota_used[v] /\ lost'[v] = lost[v]
    BY <1>1, <1>12, <2>1
  <2>7. \A v \in Users : quota_used'[v] <= MaxQuota
    BY <1>12, <1>13, <2>3, <2>6
  <2> QED BY <2>4, <2>5, <2>6, <2>7
<1>15. /\ DOMAIN bytes' = stored \ gone /\ \A b \in stored \ gone : bytes'[b] = bytes[b]
  BY <1>1, <1>4 DEF Erase
<1>16. ASSUME NEW v \in Users
       PROVE  BytesOf(v)' = Total(bytes, Kept(v) \ gone)
  <2>1. BytesOf(v)' = Total(bytes', {c \in DOMAIN bytes' : c[1] = v})
    BY DEF BytesOf, Total, BytesIn
  <2>2. {c \in DOMAIN bytes' : c[1] = v} = Kept(v) \ gone
    BY <1>4, <1>15 DEF Kept
  <2>3. \A c \in Kept(v) \ gone : bytes'[c] = bytes[c]
    BY <1>4, <1>15 DEF Kept
  <2> HIDE DEF gone
  <2>4. Total(bytes', Kept(v) \ gone) = Total(bytes, Kept(v) \ gone)
    BY <2>3, TotalSame
  <2> QED BY <2>1, <2>2, <2>4
<1>17. ASSUME NEW v \in Users
       PROVE  quota_used'[v] = BytesOf(v)' + lost'[v]
  <2>1. CASE v = u
    BY <1>14, <1>16, <2>1
  <2>2. CASE v # u
    <3>1. Kept(v) \ gone = Kept(v)
      BY <1>4, <2>2 DEF Kept
    <3>2. BytesOf(v)' = BytesOf(v)
      BY <1>16, <3>1 DEF BytesOf, Kept
    <3> QED BY <1>14, <2>2, <3>2 DEF Numbers, QuotaIsAccounted
  <2> QED BY <2>1, <2>2
<1>18. DOMAIN file' = DOMAIN file \ S /\ \A f \in DOMAIN file \ S : file'[f] = file[f]
  BY <1>1 DEF Erase
<1>19. /\ DOMAIN file_size' = DOMAIN file \ S
       /\ \A f \in DOMAIN file \ S : file_size'[f] = file_size[f] /\ file_size[f] \in Sizes
       /\ \A b \in stored \ gone : bytes[b] \in Sizes
       /\ DOMAIN dir_size' = DOMAIN dir' /\ \A d \in DOMAIN dir' : dir_size'[d] \in 0 .. Width - 1
  BY <1>1 DEF Erase, Numbers, AccountingTypeOK
<1>20. AccountingTypeOK'
  BY <1>1, <1>14, <1>15, <1>18, <1>19 DEF AccountingTypeOK
<1>21. FirstSizes'
  <2> SUFFICES ASSUME NEW f \in DOMAIN file'
               PROVE  bytes'[<<file'[f].owner, f, 1>>] = file_size'[f]
    BY Zenon DEF FirstSizes
  <2>1. f \in DOMAIN file \ S /\ file'[f] = file[f] /\ 1 \in 1 .. file[f].revision
    BY <1>18 DEF CatInv, Base, TypeOK, FileRecord
  <2>2. <<file[f].owner, f, 1>> \in stored \ gone
    BY <1>3, <2>1 DEF CatInv, FilesReadable
  <2> QED BY <1>15, <1>19, <2>1, <2>2 DEF Numbers, FirstSizes
<1> QED BY <1>14, <1>17, <1>20, <1>21 DEF Numbers, QuotaIsAccounted

LEMMA NextNumbers ==
  ASSUME CatInv, Numbers, [AccountingNext]_<<vars, numbers>>
  PROVE  Numbers'
<1>1. CASE UNCHANGED <<vars, numbers>>
  <2>1. UNCHANGED <<stored, file, dir, file_size, dir_size, quota_used, bytes, lost, drift>>
    BY <1>1 DEF vars, numbers
  <2>2. /\ DOMAIN dir_size' = DOMAIN dir' /\ \A d \in DOMAIN dir' : dir_size'[d] \in 0 .. Width - 1
        /\ drift' \in [DOMAIN dir' -> Int]
    BY <2>1 DEF Numbers, AccountingTypeOK
  <2> QED BY <2>1, <2>2, StillNumbers
<1>2. CASE AccountingNext
  <2>1. PICK u \in Users :
          \/ Annotate(u)
          \/ \E d \in DirId :
               \/ MakeDirectory(u, d) \/ TrashDirectory(u, d)
               \/ \E s \in Sizes : \/ \E n \in Names : Upload(u, d, n, s)
                                   \/ \E g \in FileId : UploadRevision(u, d, g, s)
          \/ \E f \in FileId : TrashFile(u, f)
          \/ \E S \in SUBSET FileId : Purge(u, S) \/ Recover(u, S)
    BY <1>2 DEF AccountingNext
  <2>2. drift' \in [DOMAIN dir' -> Int]
    BY <1>2, DriftMoves
  <2> QED BY <2>1, <2>2, AnnotateNumbers, MakeDirectoryNumbers, TrashDirectoryNumbers, UploadNumbers,
             UploadRevisionNumbers, TrashFileNumbers, PurgeNumbers, RecoverNumbers
<1> QED BY <1>1, <1>2

LEMMA NumbersAlways == AccountingSpec => [](CatInv /\ Numbers)
<1>1. AccountingInit => CatInv /\ Numbers
  BY InitCatInv, InitNumbers DEF AccountingInit
<1>2. CatInv /\ Numbers /\ [AccountingNext]_<<vars, numbers>> => (CatInv /\ Numbers)'
  <2>1. [AccountingNext]_<<vars, numbers>> => [Next]_vars
    BY CatalogSteps
  <2> QED BY <2>1, NextCatInv, NextNumbers
<1> QED BY <1>1, <1>2, PTL DEF AccountingSpec

\* The records of sizes are the records of what exists, and every one of them
\* fits a size_t.
THEOREM NumbersCorrect == AccountingSpec => []AccountingTypeOK
<1>1. CatInv /\ Numbers => AccountingTypeOK
  BY DEF Numbers
<1> QED BY <1>1, NumbersAlways, PTL

\* Through any sequence of requests the quota of an account is what it keeps on
\* the disk and what its purges lost.
THEOREM QuotaAccounts == AccountingSpec => []QuotaIsAccounted
<1>1. CatInv /\ Numbers => QuotaIsAccounted
  BY DEF Numbers
<1> QED BY <1>1, NumbersAlways, PTL

\* No account keeps more on the disk than its quota says, nor its quota more
\* than max_user_quota_.
THEOREM QuotaBounds == AccountingSpec => []QuotaBoundsStorage
<1>1. ASSUME CatInv, Numbers, NEW u \in Users
      PROVE  BytesOf(u) <= quota_used[u] /\ quota_used[u] <= MaxQuota
  <2>1. BytesOf(u) \in Nat /\ lost[u] \in Nat /\ quota_used[u] = BytesOf(u) + lost[u]
    BY <1>1, KeptType DEF CatInv, Base
  <2>2. \A k, l, q \in Nat : q = k + l => k <= q
    OBVIOUS
  <2>3. quota_used[u] \in Nat
    BY <1>1, KeptType, Limits DEF CatInv, Base
  <2> QED BY <1>1, <2>1, <2>2, <2>3 DEF Numbers
<1>2. CatInv /\ Numbers => QuotaBoundsStorage
  BY <1>1 DEF QuotaBoundsStorage
<1> QED BY <1>2, NumbersAlways, PTL

----------------------------------------------------------------------------
(* The size of a directory is the sum over the files below it and what     *)
(* revisions made of it.  The handlers keep it by climbing: each changes   *)
(* the size of the directory a file comes into or goes out of and of the   *)
(* directories above.  So the proof relates the two recursions: what is    *)
(* above p is what p is below.                                             *)

----------------------------------------------------------------------------
(* Above and below.                                                        *)

\* A set of directories closed under directories_contained.
ClosedDown(S) ==
  S \subseteq DOMAIN dir /\ \A y \in S : dir[y].directories_contained \cap DOMAIN dir \subseteq S

LEMMA SubtreeLeast ==
  ASSUME NEW d, NEW S, ClosedDown(S), d \in S
  PROVE  Subtree(d) \subseteq S
BY DEF Subtree, ClosedDown

LEMMA SubtreeIsClosed ==
  ASSUME NEW d
  PROVE  ClosedDown(Subtree(d))
<1>1. Subtree(d) \subseteq DOMAIN dir
  BY DEF Subtree
<1> QED BY <1>1, SubtreeClosed DEF ClosedDown

LEMMA SubtreeWithin ==
  ASSUME NEW d, NEW x \in Subtree(d)
  PROVE  Subtree(x) \subseteq Subtree(d)
BY SubtreeIsClosed, SubtreeLeast

\* p is below x exactly when the climb from p comes by x.
LEMMA AboveIsBelow ==
  ASSUME CatInv, NEW p \in DOMAIN dir, NEW x \in DOMAIN dir
  PROVE  x \in Above(p) <=> p \in Subtree(x)
<1>1. ASSUME x \in Above(p)
      PROVE  p \in Subtree(x)
  <2> DEFINE S == {y \in DOMAIN dir : p \in Subtree(y)}
  <2>1. p \in S /\ S \subseteq DOMAIN dir
    BY SubtreeTop
  <2>2. ASSUME NEW y \in S, NEW q \in {dir[y].parent_directory} \cap DOMAIN dir
        PROVE  q \in S
    <3>1. q # NoParent
      BY DEF CatInv, Base, TypeOK, DirId, NoParent
    <3>2. y \in dir[q].directories_contained
      BY <2>2, <3>1 DEF CatInv, Climb, ChildrenListed
    <3>3. y \in Subtree(q)
      BY <2>2, <3>2, SubtreeTop, SubtreeClosed
    <3> QED BY <2>2, <3>3, SubtreeWithin
  <2>3. \A y \in S : {dir[y].parent_directory} \cap DOMAIN dir \subseteq S
    BY <2>2
  <2> HIDE DEF S
  <2>4. x \in S
    BY <1>1, <2>1, <2>3 DEF Above
  <2> QED BY <2>4 DEF S
<1>2. ASSUME p \in Subtree(x)
      PROVE  x \in Above(p)
  <2> DEFINE S == {y \in DOMAIN dir : x \in Above(y)}
  <2>1. x \in S
    BY DEF Above
  <2>2. ASSUME NEW y \in S, NEW c \in dir[y].directories_contained \cap DOMAIN dir
        PROVE  c \in S
    <3>1. dir[c].parent_directory = y
      BY <2>2 DEF CatInv, Base, Shape, PointBack
    <3>2. x \in Above(y) /\ y \in DOMAIN dir
      BY <2>2
    <3>3. x \in Above(c)
      BY <3>1, <3>2 DEF Above
    <3> QED BY <3>3
  <2>3. ClosedDown(S)
    BY <2>2 DEF ClosedDown
  <2>4. p \in S
    BY <1>2, <2>1, <2>3, SubtreeLeast
  <2> QED BY <2>4
<1> QED BY <1>1, <1>2

\* Two subtrees are apart unless one top is below the other.
LEMMA SubtreesApart ==
  ASSUME CatInv, NEW d \in DOMAIN dir, NEW x \in DOMAIN dir, x \notin Subtree(d), d \notin Subtree(x)
  PROVE  Subtree(x) \cap Subtree(d) = {}
<1> DEFINE S == Subtree(x) \ Subtree(d)
<1>1. x \in S
  BY SubtreeTop
<1>2. ASSUME NEW y \in S, NEW c \in dir[y].directories_contained \cap DOMAIN dir
      PROVE  c \in S
  <2>1. c \in Subtree(x) /\ dir[c].parent_directory = y
    BY <1>2, SubtreeClosed DEF CatInv, Base, Shape, PointBack, Subtree
  <2>2. c # d
    BY <2>1
  <2>3. c \notin Subtree(d)
    BY <1>2, <2>1, <2>2, SubtreeBelow DEF CatInv, Base, Shape
  <2> QED BY <2>1, <2>3
<1>3. ClosedDown(S)
  BY <1>2 DEF ClosedDown, Subtree
<1> QED BY <1>1, <1>3, SubtreeLeast

\* How the requests change what is below a directory.
LEMMA SubtreeSame ==
  ASSUME DOMAIN dir' = DOMAIN dir,
         \A d \in DOMAIN dir : dir'[d].directories_contained = dir[d].directories_contained,
         NEW x
  PROVE  Subtree(x)' = Subtree(x)
BY DEF Subtree

LEMMA SubtreeWithNew ==
  ASSUME CatInv, NEW u \in Users, NEW p \in DirId, NewDirectory(u, p), NEW x \in DOMAIN dir
  PROVE  Subtree(x)' \ {ticket.dir} = Subtree(x)
<1> DEFINE t == ticket.dir
<1>1. /\ t \notin DOMAIN dir /\ DOMAIN dir' = DOMAIN dir \cup {t}
      /\ dir'[t].directories_contained = {}
      /\ \A y \in DOMAIN dir : \/ dir'[y].directories_contained = dir[y].directories_contained
                               \/ dir'[y].directories_contained = dir[y].directories_contained \cup {t}
  <2>1. \A d \in DOMAIN dir : d < t
    BY DEF CatInv, Base, Ids, IdsBelowTicket
  <2>2. t \notin DOMAIN dir
    BY <2>1 DEF CatInv, Base, TypeOK, DirId
  <2> QED BY <2>2 DEF NewDirectory, Put, EmptyDir, CatInv, Base, TypeOK, DirRecord
<1>2. ASSUME NEW z \in Subtree(x)
      PROVE  z \in Subtree(x)' /\ z # t
  <2>1. z \in DOMAIN dir /\ z \in DOMAIN dir' /\ z # t
    BY <1>1 DEF Subtree
  <2>2. ASSUME NEW T \in SUBSET DOMAIN dir', x \in T,
               \A y \in T : dir'[y].directories_contained \cap DOMAIN dir' \subseteq T
        PROVE  z \in T
    <3>1. ClosedDown(T \ {t})
      BY <1>1, <2>2 DEF ClosedDown
    <3>2. x \in T \ {t}
      BY <1>1, <2>2
    <3> QED BY <3>1, <3>2, SubtreeLeast
  <2> QED BY <2>1, <2>2 DEF Subtree
<1>3. ASSUME NEW z \in Subtree(x)'
      PROVE  z \in Subtree(x) \cup {t}
  <2> DEFINE S == Subtree(x) \cup {t}
  <2>1. S \subseteq DOMAIN dir' /\ x \in S
    BY <1>1, SubtreeTop DEF Subtree
  <2>2. \A y \in S : dir'[y].directories_contained \cap DOMAIN dir' \subseteq S
    <3>1. \A y \in Subtree(x) : dir[y].directories_contained \cap DOMAIN dir \subseteq Subtree(x)
      BY SubtreeIsClosed DEF ClosedDown
    <3>2. Subtree(x) \subseteq DOMAIN dir
      BY DEF Subtree
    <3> HIDE DEF t
    <3> QED BY <1>1, <3>1, <3>2
  <2> HIDE DEF S
  <2>3. z \in S
    BY <1>3, <2>1, <2>2 DEF Subtree
  <2> QED BY <2>3 DEF S
<1> QED BY <1>2, <1>3

LEMMA SubtreeWithout ==
  ASSUME CatInv, NEW u \in Users, NEW d \in DirId, DeleteDirectory(u, d),
         NEW x \in DOMAIN dir \ Subtree(d)
  PROVE  Subtree(x)' = Subtree(x) \ Subtree(d)
<1> DEFINE D == Subtree(d)
<1>1. /\ d \in DOMAIN dir /\ d \in D /\ DOMAIN dir' = DOMAIN dir \ D
      /\ \A y \in DOMAIN dir \ D :
           dir'[y].directories_contained \ D = dir[y].directories_contained \ D
  <2>1. d \in DOMAIN dir /\ d \in D
    BY SubtreeTop DEF DeleteDirectory
  <2> QED BY <2>1 DEF DeleteDirectory, CatInv, Base, TypeOK, DirRecord
<1>2. ClosedDown(Subtree(x)) /\ ClosedDown(D)
  BY SubtreeIsClosed
<1>3. ASSUME NEW z \in Subtree(x)'
      PROVE  z \in Subtree(x) \ D
  <2> DEFINE S == Subtree(x) \ D
  <2>1. S \subseteq DOMAIN dir' /\ x \in S
    BY <1>1, SubtreeTop DEF Subtree
  <2>2. \A y \in S : dir'[y].directories_contained \cap DOMAIN dir' \subseteq S
    <3> HIDE DEF D
    <3> QED BY <1>1, <1>2 DEF ClosedDown
  <2> HIDE DEF S
  <2>3. z \in S
    BY <1>3, <2>1, <2>2 DEF Subtree
  <2> QED BY <2>3 DEF S
<1>4. ASSUME NEW z \in Subtree(x) \ D
      PROVE  z \in Subtree(x)'
  <2>1. z \in DOMAIN dir'
    BY <1>1 DEF Subtree
  <2>2. ASSUME NEW T \in SUBSET DOMAIN dir', x \in T,
               \A y \in T : dir'[y].directories_contained \cap DOMAIN dir' \subseteq T
        PROVE  z \in T
    <3> HIDE DEF D
    <3>1. ClosedDown(T \cup D)
      BY <1>1, <1>2, <2>2 DEF ClosedDown
    <3>2. z \in T \cup D
      BY <2>2, <3>1, SubtreeLeast
    <3> QED BY <1>4, <3>2
  <2> QED BY <2>1, <2>2 DEF Subtree
<1> QED BY <1>3, <1>4

----------------------------------------------------------------------------
(* The files below a directory, and what they take.                        *)

Under(x) == FilesIn(Subtree(x))

\* A directory is its parent's owner's.
TreeOwned ==
  \A d \in DOMAIN dir : dir[d].parent_directory # NoParent =>
    dir[dir[d].parent_directory].owner = dir[d].owner

\* What a directory's size counts, before it wraps.
Counts(x) == Total(file_size, Under(x)) + drift[x]

SizesAgree == \A x \in DOMAIN dir : dir_size[x] = Wrap(Counts(x))

\* Only revisions make a drift.
NoDrift == NeverRevised => \A x \in DOMAIN dir : drift[x] = 0

\* What revisions added is in the quota, next to the first sizes of all files.
FilesOf(u) == {f \in DOMAIN file : file[f].owner = u}
Covered(x) == Total(file_size, FilesOf(dir[x].owner)) + drift[x] <= quota_used[dir[x].owner]
QuotaCovers == \A x \in DOMAIN dir : Covered(x)

SizeInv ==
  /\ CatInv /\ Numbers /\ TreeOwned
  /\ SizesAgree /\ NoDrift /\ QuotaCovers

LEMMA InUnder ==
  ASSUME NEW x, NEW f
  PROVE  f \in Under(x) <=> \E y \in Subtree(x) : f \in dir[y].files_contained
BY DEF Under, FilesIn

\* What a directory lists is below x exactly when the directory is.
LEMMA ListedUnder ==
  ASSUME CatInv, NEW y \in DOMAIN dir, NEW f \in dir[y].files_contained, NEW x \in DOMAIN dir
  PROVE  /\ f \in DOMAIN file /\ file[f].parent_directory = y
         /\ f \in Under(x) <=> y \in Subtree(x)
<1>1. f \in DOMAIN file
  BY DEF CatInv, Tidy, Apart
<1>2. \A z \in DOMAIN dir : f \in dir[z].files_contained => file[f].parent_directory = z
  BY <1>1 DEF CatInv, Base, Shape, Where
<1>3. Subtree(x) \subseteq DOMAIN dir
  BY DEF Subtree
<1> QED BY <1>1, <1>2, <1>3, InUnder

LEMMA UnderType ==
  ASSUME CatInv, NEW x \in DOMAIN dir
  PROVE  /\ Under(x) \subseteq DOMAIN file
         /\ \A f \in Under(x) : ~InTrash(f) /\ file[f].parent_directory \in Subtree(x)
<1>1. Subtree(x) \subseteq DOMAIN dir
  BY DEF Subtree
<1> QED BY <1>1, InUnder, ListedUnder DEF CatInv, Tidy, Apart

\* All below a directory is its owner's.
LEMMA SubtreeOwned ==
  ASSUME CatInv, TreeOwned, NEW x \in DOMAIN dir
  PROVE  /\ dir[x].owner \in Users
         /\ \A y \in Subtree(x) : y \in DOMAIN dir /\ dir[y].owner = dir[x].owner
         /\ Under(x) \subseteq FilesOf(dir[x].owner)
<1> DEFINE u == dir[x].owner
           S == {y \in DOMAIN dir : dir[y].owner = u}
<1>1. Subtree(x) \subseteq S
  <2>1. \A y \in S : dir[y].directories_contained \cap DOMAIN dir \subseteq S
    <3> SUFFICES ASSUME NEW y \in S, NEW c \in dir[y].directories_contained \cap DOMAIN dir
                 PROVE  dir[c].owner = u
      OBVIOUS
    <3>1. dir[c].parent_directory = y /\ y # NoParent
      BY DEF CatInv, Base, Shape, PointBack, TypeOK, DirId, NoParent
    <3> QED BY <3>1 DEF TreeOwned
  <2>2. ClosedDown(S) /\ x \in S
    BY <2>1 DEF ClosedDown
  <2> QED BY <2>2, SubtreeLeast
<1>2. Under(x) \subseteq DOMAIN file /\ \A f \in Under(x) : file[f].owner = u
  <2>1. Under(x) \subseteq DOMAIN file /\ \A f \in Under(x) : file[f].parent_directory \in S
    BY <1>1, UnderType
  <2> QED BY <2>1 DEF CatInv, Base, Shape, Owned
<1>3. u \in Users
  BY DEF CatInv, Base, TypeOK, DirRecord
<1> QED BY <1>1, <1>2, <1>3 DEF FilesOf

\* The first revisions of some of a user's files are part of what the user keeps on
\* the disk: their sizes are covered by the quota, and fit a size_t.
LEMMA FilesFit ==
  ASSUME CatInv, Numbers, NEW u \in Users, NEW F \in SUBSET FilesOf(u)
  PROVE  /\ Sized(file_size, F) /\ Total(file_size, F) \in 0 .. Width - 1
         /\ Total(file_size, F) \in Nat /\ Total(file_size, F) <= quota_used[u]
<1> DEFINE B == {<<u, f, 1>> : f \in F}
<1>2. F \subseteq DOMAIN file /\ \A f \in F : file[f].owner = u
  BY DEF FilesOf
<1>4. B \subseteq Kept(u) /\ \A f \in F : bytes[<<u, f, 1>>] = file_size[f]
  <2> SUFFICES ASSUME NEW f \in F
               PROVE  <<u, f, 1>> \in Kept(u) /\ bytes[<<u, f, 1>>] = file_size[f]
    OBVIOUS
  <2>1. 1 \in 1 .. file[f].revision
    BY <1>2 DEF CatInv, Base, TypeOK, FileRecord
  <2>2. <<u, f, 1>> \in stored
    BY <1>2, <2>1 DEF CatInv, FilesReadable
  <2> QED BY <1>2, <2>2 DEF Kept, Numbers, AccountingTypeOK, FirstSizes
<1>5. Sized(file_size, F)
  BY <1>2, SizesFit DEF CatInv, Base, Numbers
<1>6. Total(bytes, B) = Total(file_size, F)
  <2> DEFINE h == [f \in F |-> <<u, f, 1>>]
  <2>1. h \in Bijection(F, B)
    BY DEF Bijection, Injection, Surjection, IsInjective
  <2>2. \A f \in F : bytes[h[f]] = file_size[f]
    BY <1>4
  <2> HIDE DEF h, B
  <2> QED BY <1>5, <2>1, <2>2, TotalRenamed
<1>7. /\ Sized(bytes, Kept(u)) /\ BytesOf(u) = Total(bytes, Kept(u))
      /\ BytesOf(u) \in Nat /\ lost[u] \in Nat /\ quota_used[u] = BytesOf(u) + lost[u]
  BY KeptType DEF CatInv, Base
<1>8. Total(bytes, B) <= BytesOf(u)
  BY <1>4, <1>7, TotalPart
<1>9. quota_used[u] \in 0 .. Width - 1
  BY DEF Numbers, AccountingTypeOK
<1>10. Total(file_size, F) \in Nat
  BY <1>5, TotalType
<1>11. \A t, k, l, q \in Nat :
         t <= k /\ q = k + l /\ q \in 0 .. Width - 1 => t \in 0 .. Width - 1 /\ t <= q
  BY Limits
<1>12. quota_used[u] \in Nat
  BY <1>9, Limits
<1>13. Total(file_size, F) <= BytesOf(u)
  BY <1>6, <1>8
<1>14. Total(file_size, F) \in 0 .. Width - 1 /\ Total(file_size, F) <= quota_used[u]
  BY <1>7, <1>9, <1>10, <1>11, <1>12, <1>13
<1> QED BY <1>5, <1>10, <1>14

LEMMA UnderFits ==
  ASSUME CatInv, Numbers, TreeOwned, NEW x \in DOMAIN dir
  PROVE  /\ Sized(file_size, Under(x)) /\ Total(file_size, Under(x)) \in 0 .. Width - 1
         /\ Total(file_size, Under(x)) \in Nat
BY SubtreeOwned, FilesFit

----------------------------------------------------------------------------
(* Ownership of the tree.                                                  *)

LEMMA InitTreeOwned == ASSUME Init PROVE TreeOwned
<1> SUFFICES ASSUME NEW d \in DOMAIN dir, dir[d].parent_directory # NoParent
             PROVE  dir[dir[d].parent_directory].owner = dir[d].owner
  BY DEF TreeOwned
<1>1. d \in 1 .. 2 * NumUsers /\ NumUsers \in Nat \ {0}
  BY CatalogAssumption DEF Init
<1>2. d % 2 # 1
  BY <1>1 DEF Init, EmptyDir
<1>3. d - 1 \in 1 .. 2 * NumUsers /\ (d - 1) % 2 = 1 /\ ((d - 1) + 1) \div 2 = d \div 2
  BY <1>1, <1>2
<1>4. dir[d].parent_directory = d - 1 /\ dir[d].owner = d \div 2
  BY <1>1, <1>2 DEF Init, EmptyDir
<1>5. dir[d - 1].owner = ((d - 1) + 1) \div 2
  BY <1>3 DEF Init, EmptyDir
<1> QED BY <1>3, <1>4, <1>5

LEMMA QuietTreeOwned ==
  ASSUME CatInv, CatInv', TreeOwned, DOMAIN dir' \subseteq DOMAIN dir,
         \A d \in DOMAIN dir' : /\ dir'[d].owner = dir[d].owner
                                /\ dir'[d].parent_directory = dir[d].parent_directory
  PROVE  TreeOwned'
<1> SUFFICES ASSUME NEW d \in DOMAIN dir', dir'[d].parent_directory # NoParent
             PROVE  dir'[dir'[d].parent_directory].owner = dir'[d].owner
  BY DEF TreeOwned
<1>1. dir'[d].parent_directory \in DOMAIN dir'
  BY DEF CatInv, Climb, ClimbsEnd
<1> QED BY <1>1 DEF TreeOwned

LEMMA NewDirectoryTreeOwned ==
  ASSUME CatInv, TreeOwned, NEW u \in Users, NEW p \in DirId, NewDirectory(u, p)
  PROVE  TreeOwned'
<1>1. /\ p \in DOMAIN dir /\ dir[p].owner = u
      /\ dir' = Put([dir EXCEPT ![p].directories_contained = @ \cup {ticket.dir}],
                    ticket.dir, EmptyDir(u, p))
  BY DEF NewDirectory, MayName
<1>2. \A d \in DOMAIN dir : d < ticket.dir
  BY DEF CatInv, Base, Ids, IdsBelowTicket
<1>3. ticket.dir \notin DOMAIN dir
  BY <1>2 DEF CatInv, Base, TypeOK, DirId
<1>4. /\ DOMAIN dir' = DOMAIN dir \cup {ticket.dir}
      /\ dir'[ticket.dir].owner = u /\ dir'[ticket.dir].parent_directory = p
      /\ \A d \in DOMAIN dir : /\ dir'[d].owner = dir[d].owner
                               /\ dir'[d].parent_directory = dir[d].parent_directory
  BY <1>1, <1>3 DEF Put, EmptyDir, CatInv, Base, TypeOK, DirRecord
<1> SUFFICES ASSUME NEW d \in DOMAIN dir', dir'[d].parent_directory # NoParent
             PROVE  dir'[dir'[d].parent_directory].owner = dir'[d].owner
  BY DEF TreeOwned
<1>5. CASE d = ticket.dir
  BY <1>1, <1>4, <1>5
<1>6. CASE d # ticket.dir
  <2>1. d \in DOMAIN dir /\ dir[d].parent_directory \in DOMAIN dir
    BY <1>4, <1>6 DEF CatInv, Climb, ClimbsEnd
  <2> QED BY <1>4, <1>6, <2>1 DEF TreeOwned
<1> QED BY <1>5, <1>6

----------------------------------------------------------------------------
(* The sizes, request by request.                                          *)

\* A step that gives every directory what it counts then.
CountsNext(x) == Total(file_size', Under(x)') + drift'[x]

LEMMA SizesAgreeNext ==
  ASSUME \A x \in DOMAIN dir' : dir_size'[x] = Wrap(CountsNext(x))
  PROVE  SizesAgree'
BY DEF SizesAgree, Counts, CountsNext, Total, BytesIn, Wrap

\* A step that makes no drift and forgets no revision.
LEMMA NoDriftNext ==
  ASSUME NoDrift, NeverRevised' => NeverRevised,
         \A x \in DOMAIN dir' : drift'[x] = 0 \/ (x \in DOMAIN dir /\ drift'[x] = drift[x])
  PROVE  NoDrift'
BY DEF NoDrift

LEMMA NeverRevisedBefore ==
  ASSUME NeverRevised', DOMAIN file \subseteq DOMAIN file', lost' = lost,
         \A f \in DOMAIN file : file'[f].revision = file[f].revision
  PROVE  NeverRevised
BY DEF NeverRevised

LEMMA AgreeNow ==
  ASSUME SizeInv, NEW x \in DOMAIN dir
  PROVE  /\ dir_size[x] = Wrap(Counts(x)) /\ Sized(file_size, Under(x))
         /\ Counts(x) = Total(file_size, Under(x)) + drift[x]
         /\ Total(file_size, Under(x)) \in Nat /\ drift[x] \in Int /\ Counts(x) \in Int
<1>1. dir_size[x] = Wrap(Counts(x))
  BY DEF SizeInv, SizesAgree
<1>2. Sized(file_size, Under(x)) /\ Total(file_size, Under(x)) \in Nat
  BY UnderFits DEF SizeInv
<1>3. drift[x] \in Int
  BY DEF SizeInv, Numbers, AccountingTypeOK
<1> QED BY <1>1, <1>2, <1>3 DEF Counts

\* Something put on the size of x, or taken off.
LEMMA Moved ==
  ASSUME SizeInv, NEW x \in DOMAIN dir, NEW n \in Int
  PROVE  Wrap(dir_size[x] + n) = Wrap(Counts(x) + n)
BY AgreeNow, WrapStep

\* A part taken off the size of what is below x.
LEMMA TakenOff ==
  ASSUME SizeInv, NEW x \in DOMAIN dir, NEW G \in SUBSET Under(x)
  PROVE  Wrap(dir_size[x] - Total(file_size, G))
           = Wrap(Total(file_size, Under(x) \ G) + drift[x])
<1>1. PICK a : a = Total(file_size, G)
  OBVIOUS
<1>2. PICK b : b = Total(file_size, Under(x) \ G)
  OBVIOUS
<1>3. /\ Sized(file_size, G) /\ Sized(file_size, Under(x) \ G)
      /\ Total(file_size, Under(x)) = a + b
  <2>1. Sized(file_size, Under(x))
    BY AgreeNow
  <2>2. /\ Sized(file_size, G) /\ Sized(file_size, Under(x) \ G)
        /\ Total(file_size, Under(x)) = Total(file_size, G) + Total(file_size, Under(x) \ G)
    BY <2>1, TotalSplit
  <2> QED BY <1>1, <1>2, <2>2
<1>4. a \in Nat /\ b \in Nat
  <2>1. Total(file_size, G) \in Nat
    BY <1>3, TotalType
  <2>2. PICK R : R = Under(x) \ G
    OBVIOUS
  <2>3. Sized(file_size, R)
    BY <1>3, <2>2
  <2>4. Total(file_size, R) \in Nat
    BY <2>3, TotalType
  <2> QED BY <1>1, <1>2, <2>1, <2>2, <2>4
<1>5. PICK n \in Int : n = 0 - a
  BY <1>4
<1>6. Wrap(dir_size[x] + n) = Wrap(Counts(x) + n)
  BY Moved
<1>7. Counts(x) + n = b + drift[x]
  BY <1>3, <1>4, <1>5, AgreeNow
<1>8. dir_size[x] + n = dir_size[x] - a
  <2>1. dir_size[x] \in Int
    BY SizesAreInts DEF SizeInv
  <2> QED BY <1>4, <1>5, <2>1
<1> QED BY <1>1, <1>2, <1>6, <1>7, <1>8

LEMMA AnnotateSizes ==
  ASSUME SizeInv, NEW u \in Users, Annotate(u) \/ UNCHANGED <<vars, numbers>>
  PROVE  SizesAgree' /\ NoDrift'
<1>1. /\ UNCHANGED <<dir, numbers>> /\ DOMAIN file' = DOMAIN file
      /\ \A f \in DOMAIN file : file'[f].revision = file[f].revision
  <2>1. CASE \E d \in DirId : Annotate(u) /\ NewDirectoryInDeleted(u, d)
    BY <2>1 DEF NewDirectoryInDeleted, Annotate
  <2>2. CASE \E f \in FileId : Annotate(u) /\
             \/ LeaveSharedFile(u, f)
             \/ \E n \in Names : ModifyFileInfo(u, f, n)
             \/ \E v \in Users : SetFileShare(u, f, v) \/ UnsetFileShare(u, f, v)
             \/ \E V \in SUBSET Users : OverwriteFileSharing(u, f, V)
    BY <2>2, ShareEffect DEF Annotate, SizeInv, CatInv, Base
  <2>3. CASE UNCHANGED <<vars, numbers>>
    BY <2>3 DEF vars
  <2> QED BY <2>1, <2>2, <2>3 DEF Annotate
<1>2. \A x : Under(x)' = Under(x)
  BY <1>1 DEF Under, FilesIn, Subtree
<1>3. UNCHANGED <<file_size, dir_size, lost, drift>>
  BY <1>1 DEF numbers
<1>4. \A x \in DOMAIN dir' : dir_size'[x] = Wrap(CountsNext(x))
  BY <1>1, <1>2, <1>3, AgreeNow DEF CountsNext
<1>5. NeverRevised' => NeverRevised
  BY <1>1, <1>3, NeverRevisedBefore
<1> QED BY <1>1, <1>3, <1>4, <1>5, SizesAgreeNext, NoDriftNext DEF SizeInv

LEMMA MakeDirectorySizes ==
  ASSUME SizeInv, NEW u \in Users, NEW p \in DirId, MakeDirectory(u, p)
  PROVE  SizesAgree' /\ NoDrift'
<1>0. PICK t : t = ticket.dir
  OBVIOUS
<1>1. NewDirectory(u, p) /\ UNCHANGED <<file, file_size, lost>>
  BY DEF MakeDirectory, NewDirectory
<1>2. /\ t \notin DOMAIN dir /\ DOMAIN dir' = DOMAIN dir \cup {t}
      /\ dir'[t].files_contained = {} /\ dir'[t].directories_contained = {}
      /\ \A y \in DOMAIN dir : dir'[y].files_contained = dir[y].files_contained
  <2>1. \A d \in DOMAIN dir : d < t
    BY <1>0 DEF SizeInv, CatInv, Base, Ids, IdsBelowTicket
  <2>2. t \notin DOMAIN dir
    BY <2>1 DEF SizeInv, CatInv, Base, TypeOK, DirId
  <2> QED BY <1>0, <1>1, <2>2 DEF NewDirectory, Put, EmptyDir, SizeInv, CatInv, Base, TypeOK, DirRecord
<1>3. /\ \A x \in DOMAIN dir : dir_size'[x] = dir_size[x] /\ drift'[x] = drift[x]
      /\ dir_size'[t] = 0 /\ drift'[t] = 0
  BY <1>0, <1>2 DEF MakeDirectory, Put, SizeInv, Numbers, AccountingTypeOK
<1>4. ASSUME NEW x \in DOMAIN dir
      PROVE  Under(x)' = Under(x)
  <2>1. Subtree(x)' \ {t} = Subtree(x)
    BY <1>0, <1>1, SubtreeWithNew DEF SizeInv
  <2>2. Subtree(x) \subseteq DOMAIN dir
    BY DEF Subtree
  <2>3. \A f : f \in Under(x)' <=> \E y \in Subtree(x)' : f \in dir'[y].files_contained
    BY DEF Under, FilesIn
  <2> QED BY ZenonT(40), <1>2, <2>1, <2>2, <2>3, InUnder
<1>5. Under(t)' = {}
  <2>1. Subtree(t)' \subseteq {t}
    <3>1. {t} \subseteq DOMAIN dir' /\ \A y \in {t} : dir'[y].directories_contained \cap DOMAIN dir' \subseteq {t}
      BY <1>2
    <3>2. ASSUME NEW z \in Subtree(t)' PROVE z \in {t}
      BY <3>1, <3>2 DEF Subtree
    <3> QED BY <3>2
  <2> QED BY <1>2, <2>1 DEF Under, FilesIn
<1>6. ASSUME NEW x \in DOMAIN dir'
      PROVE  dir_size'[x] = Wrap(CountsNext(x))
  <2>1. CASE x \in DOMAIN dir
    BY <1>1, <1>3, <1>4, <2>1, AgreeNow DEF CountsNext
  <2>2. CASE x = t
    <3>1. CountsNext(t) = 0
      BY <1>3, <1>5, TotalEmpty DEF CountsNext
    <3>2. Wrap(0) = 0
      BY Limits, WrapFits
    <3> QED BY <1>3, <2>2, <3>1, <3>2
  <2> QED BY <1>2, <2>1, <2>2
<1>7. NeverRevised' => NeverRevised
  BY <1>1, NeverRevisedBefore
<1> QED BY <1>2, <1>3, <1>6, <1>7, SizesAgreeNext, NoDriftNext DEF SizeInv

LEMMA UploadSizes ==
  ASSUME SizeInv, NEW u \in Users, NEW p \in DirId, NEW n \in Names, NEW s \in Sizes,
         Upload(u, p, n, s)
  PROVE  SizesAgree' /\ NoDrift'
<1> DEFINE f == ticket.file
<1>1. NewFile(u, p, n) /\ lost' = lost /\ drift' = drift
  BY DEF Upload
<1>2. /\ p \in DOMAIN dir /\ f \notin DOMAIN file /\ DOMAIN dir' = DOMAIN dir
      /\ \A d \in DOMAIN dir :
           /\ dir'[d].directories_contained = dir[d].directories_contained
           /\ dir'[d].files_contained = dir[d].files_contained \cup (IF d = p THEN {f} ELSE {})
  BY <1>1, NewFileEffect, CatalogAssumption DEF SizeInv, CatInv, Base
<1>3. DOMAIN file' = DOMAIN file \cup {f} /\ \A g \in DOMAIN file : file'[g] = file[g]
  BY <1>1, <1>2 DEF NewFile, Put
<1>4. DOMAIN file_size = DOMAIN file /\ DOMAIN dir_size = DOMAIN dir
  BY DEF SizeInv, Numbers, AccountingTypeOK
<1>5. file_size'[f] = s /\ \A g \in DOMAIN file : file_size'[g] = file_size[g]
  BY <1>2, <1>4 DEF Upload, Put
<1>6. \A x \in DOMAIN dir : dir_size'[x] = Wrap(dir_size[x] + IF x \in Above(p) THEN s ELSE 0)
  BY <1>4 DEF Upload
<1>7. s \in 0 .. Width - 1 /\ s \in Nat
  BY Limits
<1> HIDE DEF f
<1>8. ASSUME NEW x \in DOMAIN dir
      PROVE  /\ p \in Subtree(x) => Under(x)' = Under(x) \cup {f}
             /\ p \notin Subtree(x) => Under(x)' = Under(x)
  <2>1. Subtree(x)' = Subtree(x)
    BY <1>2, SubtreeSame
  <2>2. \A g : g \in Under(x)' <=> \E y \in Subtree(x) : g \in dir'[y].files_contained
    BY <2>1 DEF Under, FilesIn
  <2>3. Subtree(x) \subseteq DOMAIN dir
    BY DEF Subtree
  <2>4. \A g : g \in Under(x)' <=> g \in Under(x) \/ (p \in Subtree(x) /\ g = f)
    BY <1>2, <2>2, <2>3, InUnder
  <2> QED BY <2>4
<1>9. ASSUME NEW x \in DOMAIN dir'
      PROVE  dir_size'[x] = Wrap(CountsNext(x))
  <2>2. /\ Counts(x) = Total(file_size, Under(x)) + drift[x] /\ Sized(file_size, Under(x))
        /\ Total(file_size, Under(x)) \in Nat /\ drift[x] \in Int
    BY <1>2, AgreeNow
  <2>3. Under(x) \subseteq DOMAIN file /\ f \notin Under(x)
    BY <1>2, UnderType DEF SizeInv
  <2>4. Sized(file_size', Under(x)) /\ Total(file_size', Under(x)) = Total(file_size, Under(x))
    <3>1. \A g \in Under(x) : file_size'[g] = file_size[g]
      BY <1>5, <2>3
    <3>2. Total(file_size', Under(x)) = Total(file_size, Under(x))
      BY <3>1, TotalSame
    <3> QED BY <2>2, <3>1, <3>2 DEF Sized
  <2>6. x \in Above(p) <=> p \in Subtree(x)
    BY <1>2, AboveIsBelow DEF SizeInv
  <2>7. CASE p \in Subtree(x)
    <3>1. Total(file_size', Under(x) \cup {f}) = Total(file_size', Under(x)) + file_size'[f]
      BY <1>5, <1>7, <2>3, <2>4, TotalAdd
    <3>2. Total(file_size', Under(x)') = Total(file_size, Under(x)) + s
      BY <1>5, <1>8, <1>2, <2>4, <2>7, <3>1
    <3>3. CountsNext(x) = Counts(x) + s
      BY <1>1, <1>7, <2>2, <3>2 DEF CountsNext
    <3>4. Wrap(dir_size[x] + s) = Wrap(Counts(x) + s)
      BY <1>2, <1>7, Moved
    <3> QED BY <1>2, <1>6, <2>6, <2>7, <3>3, <3>4
  <2>8. CASE p \notin Subtree(x)
    <3>1. CountsNext(x) = Counts(x) + 0
      BY <1>1, <1>2, <1>8, <2>2, <2>4, <2>8 DEF CountsNext
    <3>2. Wrap(dir_size[x] + 0) = Wrap(Counts(x) + 0)
      BY <1>2, Moved
    <3> QED BY <1>2, <1>6, <2>6, <2>8, <3>1, <3>2
  <2> QED BY <2>7, <2>8
<1>10. NeverRevised' => NeverRevised
  BY <1>1, <1>3, NeverRevisedBefore
<1> QED BY <1>1, <1>2, <1>9, <1>10, SizesAgreeNext, NoDriftNext DEF SizeInv

\* A revision moves the sizes above it by what it moves the drift.
LEMMA UploadRevisionSizes ==
  ASSUME SizeInv, NEW u \in Users, NEW p \in DirId, NEW g \in FileId, NEW s \in Sizes,
         UploadRevision(u, p, g, s)
  PROVE  SizesAgree' /\ NoDrift'
<1>1. /\ g \in DOMAIN file /\ g \in DOMAIN file' /\ file'[g].revision = file[g].revision + 1
      /\ dir' = dir /\ file_size' = file_size
  <2>1. g \in DOMAIN file /\ g \in DOMAIN file' /\ file'[g].revision = file[g].revision + 1
    BY DEF UploadRevision, NewRevision, SizeInv, CatInv, Base, TypeOK, FileRecord
  <2>2. dir' = dir /\ file_size' = file_size
    BY UploadEffect DEF UploadRevision, NewRevision, SizeInv, CatInv
  <2> QED BY <2>1, <2>2
<1>2. file[g].revision \in Nat \ {0}
  BY <1>1 DEF SizeInv, CatInv, Base, TypeOK, FileRecord
<1>3. ~NeverRevised'
  BY <1>1, <1>2 DEF NeverRevised
<1>4. PICK m \in Int : m = 0 - file_size[g]
  BY <1>1, SizesAreInts DEF SizeInv
<1>5. s \in Int /\ file_size[g] \in Int
  BY <1>1, SizesAreInts DEF SizeInv
<1>6. ASSUME NEW x \in DOMAIN dir'
      PROVE  dir_size'[x] = Wrap(CountsNext(x))
  <2>1. /\ Counts(x) = Total(file_size, Under(x)) + drift[x] /\ Counts(x) \in Int
        /\ Total(file_size, Under(x)) \in Nat /\ drift[x] \in Int
        /\ dir_size[x] \in Int /\ dir_size[x] = Wrap(Counts(x))
    BY <1>1, AgreeNow, SizesAreInts DEF SizeInv
  <2>2. Under(x)' = Under(x)
    BY <1>1 DEF Under, FilesIn, Subtree
  <2>3. CASE x \in Above(p)
    <3>1. dir_size'[x] = Wrap(Wrap(dir_size[x] + m) + s)
      <4>1. dir_size'[x] = Wrap(Wrap(dir_size[x] - file_size[g]) + s)
        BY <1>1, <2>3 DEF UploadRevision, SizeInv, Numbers, AccountingTypeOK
      <4>2. dir_size[x] - file_size[g] = dir_size[x] + m
        BY <1>4, <1>5, <2>1
      <4> QED BY <4>1, <4>2
    <3>2. Wrap(dir_size[x] + m) = Wrap(Counts(x) + m)
      BY <1>1, Moved
    <3>3. Wrap(Wrap(Counts(x) + m) + s) = Wrap((Counts(x) + m) + s)
      <4>1. PICK n \in Int : n = Counts(x) + m
        BY <2>1
      <4> QED BY <1>5, <4>1, WrapStep
    <3>4. drift'[x] = drift[x] + (s - file_size[g])
      BY <1>1, <2>3 DEF UploadRevision, Drift
    <3>5. CountsNext(x) = (Counts(x) + m) + s
      BY <1>1, <1>4, <1>5, <2>1, <2>2, <3>4 DEF CountsNext
    <3> QED BY <3>1, <3>2, <3>3, <3>5
  <2>4. CASE x \notin Above(p)
    <3>1. dir_size'[x] = dir_size[x]
      BY <1>1, <2>4 DEF UploadRevision, SizeInv, Numbers, AccountingTypeOK
    <3>2. drift'[x] = drift[x] + 0
      BY <1>1, <2>4 DEF UploadRevision, Drift
    <3>3. CountsNext(x) = Counts(x)
      BY <1>1, <2>1, <2>2, <3>2 DEF CountsNext
    <3> QED BY <2>1, <3>1, <3>3
  <2> QED BY <2>3, <2>4
<1> QED BY <1>3, <1>6, SizesAgreeNext DEF NoDrift

LEMMA TrashFileSizes ==
  ASSUME SizeInv, NEW u \in Users, NEW f \in FileId, TrashFile(u, f)
  PROVE  SizesAgree' /\ NoDrift'
<1> DEFINE p == file[f].parent_directory
<1>1. /\ f \in DOMAIN file /\ p \in DOMAIN dir /\ ~InTrash(f) /\ Unshare({f})
      /\ dir' = [dir EXCEPT ![p].files_contained = @ \ {f}]
      /\ file_size' = file_size /\ lost' = lost /\ drift' = drift
  BY AccountingAssumption DEF TrashFile, DeleteFile
<1>2. f \in dir[p].files_contained
  BY <1>1 DEF SizeInv, CatInv, Base, Shape, NoFileIsLost
<1>3. DOMAIN file' = DOMAIN file /\ \A g \in DOMAIN file : file'[g].revision = file[g].revision
  BY <1>1, UnshareEffect DEF SizeInv, CatInv, Base
<1>4. /\ DOMAIN dir' = DOMAIN dir
      /\ \A d \in DOMAIN dir :
           /\ dir'[d].directories_contained = dir[d].directories_contained
           /\ dir'[d].files_contained = IF d = p THEN dir[d].files_contained \ {f}
                                        ELSE dir[d].files_contained
  BY <1>1 DEF SizeInv, CatInv, Base, TypeOK, DirRecord
<1>5. \A x \in DOMAIN dir :
        dir_size'[x] = Wrap(dir_size[x] - IF x \in Above(p) THEN file_size[f] ELSE 0)
  BY DEF TrashFile
<1>6. Total(file_size, {f}) = file_size[f]
  BY <1>1, SizesFit, TotalOne DEF SizeInv, CatInv, Base, Numbers, Sized
<1> HIDE DEF p
<1>7. ASSUME NEW x \in DOMAIN dir
      PROVE  Under(x)' = Under(x) \ {f}
  <2>1. Subtree(x)' = Subtree(x)
    BY <1>4, SubtreeSame
  <2>2. \A g : g \in Under(x)' <=> \E y \in Subtree(x) : g \in dir'[y].files_contained
    BY <2>1 DEF Under, FilesIn
  <2>3. Subtree(x) \subseteq DOMAIN dir
    BY DEF Subtree
  <2>4. \A y \in DOMAIN dir : f \in dir[y].files_contained => y = p
    BY <1>1 DEF SizeInv, CatInv, Base, Shape, Where, p
  <2>5. \A y \in DOMAIN dir : \A g :
          g \in dir'[y].files_contained <=> g \in dir[y].files_contained /\ g # f
    BY <1>4, <2>4
  <2>6. \A g : g \in Under(x)' <=> g \in Under(x) /\ g # f
    BY <2>2, <2>3, <2>5, InUnder
  <2> QED BY <2>6
<1>8. ASSUME NEW x \in DOMAIN dir'
      PROVE  dir_size'[x] = Wrap(CountsNext(x))
  <2>2. x \in DOMAIN dir /\ (f \in Under(x) <=> x \in Above(p))
    BY <1>1, <1>2, <1>4, AboveIsBelow, ListedUnder DEF SizeInv
  <2>3. CASE x \in Above(p)
    <3>1. Wrap(dir_size[x] - Total(file_size, {f})) = Wrap(Total(file_size, Under(x) \ {f}) + drift[x])
      BY <2>2, <2>3, TakenOff
    <3> QED BY <1>1, <1>5, <1>6, <1>7, <2>2, <2>3, <3>1 DEF CountsNext
  <2>4. CASE x \notin Above(p)
    <3>1. Wrap(dir_size[x] - Total(file_size, {})) = Wrap(Total(file_size, Under(x) \ {}) + drift[x])
      BY <2>2, TakenOff
    <3>2. Under(x)' = Under(x) \ {}
      BY <1>7, <2>2, <2>4
    <3>3. Total(file_size, {}) = 0
      BY TotalEmpty
    <3> QED BY <1>1, <1>5, <2>2, <2>4, <3>1, <3>2, <3>3 DEF CountsNext
  <2> QED BY <2>3, <2>4
<1>9. NeverRevised' => NeverRevised
  BY <1>1, <1>3, NeverRevisedBefore
<1> QED BY <1>1, <1>4, <1>8, <1>9, SizesAgreeNext, NoDriftNext DEF SizeInv

LEMMA TrashDirectorySizes ==
  ASSUME SizeInv, NEW u \in Users, NEW d \in DirId, TrashDirectory(u, d)
  PROVE  SizesAgree' /\ NoDrift'
<1>1. /\ DeleteDirectory(u, d) /\ Unshare(Under(d)) /\ d \in DOMAIN dir
      /\ file_size' = file_size /\ lost' = lost /\ drift' = Erase(drift, Subtree(d))
  BY DEF TrashDirectory, DeleteDirectory, Under
<1>2. DOMAIN file' = DOMAIN file /\ \A g \in DOMAIN file : file'[g].revision = file[g].revision
  BY <1>1, UnshareEffect DEF SizeInv, CatInv, Base
<1>3. /\ DOMAIN dir' = DOMAIN dir \ Subtree(d)
      /\ \A x \in DOMAIN dir' : dir'[x].files_contained = dir[x].files_contained
  BY <1>1 DEF DeleteDirectory, SizeInv, CatInv, Base, TypeOK, DirRecord
<1>4. \A x \in DOMAIN dir' :
        dir_size'[x] = Wrap(dir_size[x] - IF x \in Above(d) THEN Total(file_size, Under(d)) ELSE 0)
  BY <1>3 DEF TrashDirectory, Under
<1>5. ASSUME NEW x \in DOMAIN dir'
      PROVE  Under(x)' = Under(x) \ Under(d)
  <2>1. x \in DOMAIN dir \ Subtree(d)
    BY <1>3
  <2>2. Subtree(x)' = Subtree(x) \ Subtree(d)
    BY <1>1, <2>1, SubtreeWithout DEF SizeInv
  <2>3. Subtree(x) \subseteq DOMAIN dir /\ Subtree(d) \subseteq DOMAIN dir
    BY DEF Subtree
  <2>4. \A g : g \in Under(x)' <=> \E y \in Subtree(x) \ Subtree(d) : g \in dir[y].files_contained
    BY <1>3, <2>2, <2>3 DEF Under, FilesIn
  <2>5. \A y \in DOMAIN dir : \A g \in dir[y].files_contained : g \in Under(d) <=> y \in Subtree(d)
    BY <1>1, ListedUnder DEF SizeInv
  <2>6. \A g : g \in Under(x)' <=> g \in Under(x) /\ g \notin Under(d)
    BY <2>3, <2>4, <2>5, InUnder
  <2> QED BY <2>6
<1>7. \A x \in DOMAIN dir' : drift'[x] = drift[x]
  BY <1>1, <1>3 DEF Erase, SizeInv, Numbers, AccountingTypeOK
<1>6. ASSUME NEW x \in DOMAIN dir'
      PROVE  dir_size'[x] = Wrap(CountsNext(x))
  <2>2. x \in DOMAIN dir \ Subtree(d)
    BY <1>3
  <2>3. x \in Above(d) <=> d \in Subtree(x)
    BY <1>1, <2>2, AboveIsBelow DEF SizeInv
  <2>4. CASE x \in Above(d)
    <3>1. Subtree(d) \subseteq Subtree(x)
      BY <2>3, <2>4, SubtreeWithin
    <3>2. Under(d) \subseteq Under(x)
      BY <3>1, InUnder
    <3>3. Wrap(dir_size[x] - Total(file_size, Under(d)))
            = Wrap(Total(file_size, Under(x) \ Under(d)) + drift[x])
      BY <2>2, <3>2, TakenOff
    <3> QED BY <1>1, <1>4, <1>5, <1>7, <2>4, <3>3 DEF CountsNext
  <2>5. CASE x \notin Above(d)
    <3>1. Subtree(x) \cap Subtree(d) = {}
      BY <1>1, <2>2, <2>3, <2>5, SubtreesApart DEF SizeInv
    <3>2. \A g \in Under(x) : g \notin Under(d)
      <4>1. Subtree(x) \subseteq DOMAIN dir
        BY DEF Subtree
      <4>2. \A y \in DOMAIN dir : \A g \in dir[y].files_contained : g \in Under(d) <=> y \in Subtree(d)
        BY <1>1, ListedUnder DEF SizeInv
      <4> QED BY <3>1, <4>1, <4>2, InUnder
    <3>3. Under(x)' = Under(x) \ {}
      BY <1>5, <3>2
    <3>4. Wrap(dir_size[x] - Total(file_size, {})) = Wrap(Total(file_size, Under(x) \ {}) + drift[x])
      BY <2>2, TakenOff
    <3>5. Total(file_size, {}) = 0
      BY TotalEmpty
    <3> QED BY <1>1, <1>4, <1>7, <2>5, <3>3, <3>4, <3>5 DEF CountsNext
  <2> QED BY <2>4, <2>5
<1>8. NeverRevised' => NeverRevised
  BY <1>1, <1>2, NeverRevisedBefore
<1> QED BY <1>3, <1>6, <1>7, <1>8, SizesAgreeNext, NoDriftNext DEF SizeInv

\* A purge of files that were never revised loses nothing, and moves no size.
LEMMA PurgeSizes ==
  ASSUME SizeInv, NEW u \in Users, NEW S \in SUBSET FileId, Purge(u, S)
  PROVE  SizesAgree' /\ NoDrift'
<1> DEFINE later == {b \in RevisionsOf(S) : b[3] > 1}
<1>1. /\ S \subseteq Trash(u) \cap DOMAIN file /\ file' = Erase(file, S)
      /\ lost' = [lost EXCEPT ![u] = @ + Total(bytes, later)]
      /\ UNCHANGED <<dir, dir_size, drift>> /\ file_size' = Erase(file_size, S)
  BY DEF Purge, PurgeDeletedFiles, Lose
<1>2. /\ DOMAIN file' = DOMAIN file \ S /\ \A f \in DOMAIN file \ S : file'[f] = file[f]
      /\ \A f \in DOMAIN file \ S : file_size'[f] = file_size[f]
  BY <1>1 DEF Erase, SizeInv, Numbers, AccountingTypeOK
<1>3. \A f \in S : f \in DOMAIN file /\ file[f].owner = u /\ InTrash(f)
  BY <1>1 DEF SizeInv, CatInv, Base, Ids, InTrash
<1>4. Sized(bytes, later) /\ later \subseteq DOMAIN bytes
  <2>1. later \subseteq stored
    BY DEF RevisionsOf
  <2> QED BY <2>1, SizesFit DEF SizeInv, CatInv, Base, Numbers, AccountingTypeOK
<1>5. ASSUME NeverRevised'
      PROVE  NeverRevised
  <2>1. lost \in [Users -> Nat] /\ Total(bytes, later) \in Nat
    BY <1>4, TotalType DEF SizeInv, Numbers, AccountingTypeOK
  <2>2. lost'[u] = 0 /\ lost'[u] = lost[u] + Total(bytes, later)
    BY <1>1, <1>5, <2>1 DEF NeverRevised
  <2>3. lost[u] = 0 /\ Total(bytes, later) = 0
    BY <2>1, <2>2
  <2>4. \A v \in Users : lost[v] = 0
    BY <1>1, <1>5, <2>1, <2>3 DEF NeverRevised
  <2>5. \A b \in later : bytes[b] \in Sizes /\ bytes[b] = 0
    BY <1>4, <2>3, TotalZero DEF SizeInv, Numbers, AccountingTypeOK
  <2>6. later = {}
    BY <2>5, Limits
  <2>7. ASSUME NEW f \in DOMAIN file PROVE file[f].revision = 1
    <3>1. CASE f \in S
      <4>1. file[f].revision \in Nat \ {0}
        BY DEF SizeInv, CatInv, Base, TypeOK, FileRecord
      <4>2. ASSUME file[f].revision # 1 PROVE FALSE
        <5>1. 2 \in 1 .. file[f].revision
          BY <4>1, <4>2
        <5>2. <<file[f].owner, f, 2>> \in stored
          BY <5>1 DEF SizeInv, CatInv, FilesReadable
        <5>3. <<file[f].owner, f, 2>> \in later
          BY <3>1, <5>1, <5>2 DEF RevisionsOf
        <5> QED BY <2>6, <5>3
      <4> QED BY <4>2
    <3>2. CASE f \notin S
      BY <1>2, <1>5, <3>2 DEF NeverRevised
    <3> QED BY <3>1, <3>2
  <2> QED BY <2>4, <2>7 DEF NeverRevised
<1>6. ASSUME NEW x \in DOMAIN dir
      PROVE  Under(x)' = Under(x) /\ Total(file_size', Under(x)) = Total(file_size, Under(x))
  <2>1. Under(x)' = Under(x)
    BY <1>1 DEF Under, FilesIn, Subtree
  <2>2. Under(x) \subseteq DOMAIN file /\ \A f \in Under(x) : ~InTrash(f)
    BY UnderType DEF SizeInv
  <2>3. \A f \in Under(x) : file_size'[f] = file_size[f]
    BY <1>2, <1>3, <2>2
  <2>4. Total(file_size', Under(x)) = Total(file_size, Under(x))
    BY <2>3, TotalSame
  <2> QED BY <2>1, <2>4
<1>7. \A x \in DOMAIN dir' : dir_size'[x] = Wrap(CountsNext(x))
  BY <1>1, <1>6, AgreeNow DEF CountsNext
<1> QED BY <1>1, <1>5, <1>7, SizesAgreeNext, NoDriftNext DEF SizeInv

LEMMA RecoverSizes ==
  ASSUME SizeInv, NEW u \in Users, NEW S \in SUBSET FileId, Recover(u, S)
  PROVE  SizesAgree' /\ NoDrift'
<1> DEFINE Back(x) == {f \in S : x \in Above(Home(u, f))}
<1>1. /\ S \subseteq Recoverable(u) /\ MoveHome(u, S) /\ Readopt(u, S)
      /\ file_size' = file_size /\ lost' = lost /\ drift' = drift
  BY DEF Recover, RecoverDeletedFiles
<1>2. DOMAIN file' = DOMAIN file /\ \A f \in DOMAIN file : file'[f].revision = file[f].revision
  BY <1>1, ReadoptEffect DEF SizeInv, CatInv, Base
<1>3. /\ DOMAIN dir' = DOMAIN dir
      /\ \A d \in DOMAIN dir :
           /\ dir'[d].directories_contained = dir[d].directories_contained
           /\ dir'[d].files_contained = dir[d].files_contained \cup {f \in S : Home(u, f) = d}
  BY <1>1, MoveHomeEffect DEF SizeInv, CatInv, Base
<1>4. \A f \in S : f \in DOMAIN file /\ Home(u, f) \in DOMAIN dir /\ file[f].owner = u /\ InTrash(f)
  BY <1>1 DEF Recoverable, SizeInv, CatInv, Base, Ids, InTrash
<1>5. \A x \in DOMAIN dir : dir_size'[x] = Wrap(dir_size[x] + Total(file_size, Back(x)))
  BY DEF Recover
<1>6. ASSUME NEW x \in DOMAIN dir
      PROVE  Under(x)' = Under(x) \cup Back(x) /\ Under(x) \cap Back(x) = {}
  <2>1. Subtree(x)' = Subtree(x)
    BY <1>3, SubtreeSame
  <2>2. \A g : g \in Under(x)' <=> \E y \in Subtree(x) : g \in dir'[y].files_contained
    BY <2>1 DEF Under, FilesIn
  <2>3. Subtree(x) \subseteq DOMAIN dir
    BY DEF Subtree
  <2>4. \A f \in S : x \in Above(Home(u, f)) <=> Home(u, f) \in Subtree(x)
    BY <1>4, AboveIsBelow DEF SizeInv
  <2>5. \A g : g \in Under(x)' <=> g \in Under(x) \/ g \in Back(x)
    BY <1>3, <2>2, <2>3, <2>4, InUnder
  <2>6. \A f \in Under(x) : ~InTrash(f)
    BY UnderType DEF SizeInv
  <2> QED BY <1>4, <2>5, <2>6
<1>7. \A x : Sized(file_size, Back(x))
  BY <1>4, SizesFit DEF SizeInv, CatInv, Base, Numbers
<1> HIDE DEF Back
<1>8. ASSUME NEW x \in DOMAIN dir'
      PROVE  dir_size'[x] = Wrap(CountsNext(x))
  <2>0. Total(file_size, Back(x)) \in Nat
    <3>1. PICK B : B = Back(x)
      OBVIOUS
    <3>2. Sized(file_size, B)
      BY <1>7, <3>1
    <3>3. Total(file_size, B) \in Nat
      BY <3>2, TotalType
    <3> QED BY <3>1, <3>3
  <2>1. PICK n \in Int : n = Total(file_size, Back(x))
    BY <2>0
  <2>2. /\ Counts(x) = Total(file_size, Under(x)) + drift[x] /\ Sized(file_size, Under(x))
        /\ Total(file_size, Under(x)) \in Nat /\ drift[x] \in Int
    BY <1>3, AgreeNow
  <2>3. Total(file_size, Under(x) \cup Back(x)) = Total(file_size, Under(x)) + n
    BY <1>3, <1>6, <1>7, <2>1, <2>2, TotalUnion
  <2>4. CountsNext(x) = Counts(x) + n
    <3>1. Under(x)' = Under(x) \cup Back(x) /\ file_size' = file_size /\ drift' = drift
      BY <1>1, <1>3, <1>6
    <3>2. PICK a \in Nat : a = Total(file_size, Under(x))
      BY <2>2
    <3>3. CountsNext(x) = (a + n) + drift[x]
      BY <2>3, <3>1, <3>2 DEF CountsNext
    <3> QED BY <2>2, <3>2, <3>3
  <2>5. Wrap(dir_size[x] + n) = Wrap(Counts(x) + n)
    BY <1>3, Moved
  <2>6. dir_size'[x] = Wrap(dir_size[x] + n)
    BY <1>3, <1>5, <2>1
  <2> QED BY <2>4, <2>5, <2>6
<1>9. NeverRevised' => NeverRevised
  BY <1>1, <1>2, NeverRevisedBefore
<1> QED BY <1>1, <1>3, <1>8, <1>9, SizesAgreeNext, NoDriftNext DEF SizeInv

----------------------------------------------------------------------------
(* Together.                                                               *)

LEMMA StepTreeOwned ==
  ASSUME SizeInv, CatInv', [AccountingNext]_<<vars, numbers>>
  PROVE  TreeOwned'
<1>1. CASE UNCHANGED <<vars, numbers>>
  BY <1>1 DEF vars, SizeInv, TreeOwned
<1>2. CASE AccountingNext
  <2>1. PICK u \in Users :
          \/ Annotate(u)
          \/ \E d \in DirId :
               \/ MakeDirectory(u, d) \/ TrashDirectory(u, d)
               \/ \E s \in Sizes : \/ \E n \in Names : Upload(u, d, n, s)
                                   \/ \E g \in FileId : UploadRevision(u, d, g, s)
          \/ \E f \in FileId : TrashFile(u, f)
          \/ \E S \in SUBSET FileId : Purge(u, S) \/ Recover(u, S)
    BY <1>2 DEF AccountingNext
  <2>2. CASE \E d \in DirId : MakeDirectory(u, d)
    BY <2>2, NewDirectoryTreeOwned DEF MakeDirectory, SizeInv
  <2>3. CASE \/ Annotate(u)
             \/ \E d \in DirId, s \in Sizes, g \in FileId : UploadRevision(u, d, g, s)
             \/ \E S \in SUBSET FileId : Purge(u, S)
    <3>1. UNCHANGED dir
      BY <2>3, ShareEffect DEF Annotate, NewDirectoryInDeleted, UploadRevision, NewRevision, Purge,
                               PurgeDeletedFiles, SizeInv, CatInv, Base
    <3> QED BY <3>1 DEF SizeInv, TreeOwned
  <2>4. CASE \/ \E d \in DirId : TrashDirectory(u, d)
             \/ \E f \in FileId : TrashFile(u, f)
    <3>1. \E F : Deletes(F)
      BY <2>4, DeleteFileKind, DeleteDirectoryKind DEF TrashDirectory, TrashFile, SizeInv, CatInv, Base
    <3>2. /\ DOMAIN dir' \subseteq DOMAIN dir
          /\ \A d \in DOMAIN dir' : /\ dir'[d].owner = dir[d].owner
                                    /\ dir'[d].parent_directory = dir[d].parent_directory
      BY <3>1 DEF Deletes
    <3> QED BY <3>2, QuietTreeOwned DEF SizeInv
  <2>5. CASE \E d \in DirId, s \in Sizes, n \in Names : Upload(u, d, n, s)
    <3>1. /\ DOMAIN dir' = DOMAIN dir
          /\ \A d \in DOMAIN dir : /\ dir'[d].owner = dir[d].owner
                                   /\ dir'[d].parent_directory = dir[d].parent_directory
      BY <2>5, NewFileEffect, CatalogAssumption DEF Upload, SizeInv, CatInv, Base
    <3> QED BY <3>1, QuietTreeOwned DEF SizeInv
  <2>6. CASE \E S \in SUBSET FileId : Recover(u, S)
    <3>1. /\ DOMAIN dir' = DOMAIN dir
          /\ \A d \in DOMAIN dir : /\ dir'[d].owner = dir[d].owner
                                   /\ dir'[d].parent_directory = dir[d].parent_directory
      BY <2>6, MoveHomeEffect DEF Recover, RecoverDeletedFiles, SizeInv, CatInv, Base
    <3> QED BY <3>1, QuietTreeOwned DEF SizeInv
  <2> QED BY <2>1, <2>2, <2>3, <2>4, <2>5, <2>6
<1> QED BY <1>1, <1>2

LEMMA StepSizes ==
  ASSUME SizeInv, [AccountingNext]_<<vars, numbers>>
  PROVE  SizesAgree' /\ NoDrift'
<1>1. CASE UNCHANGED <<vars, numbers>>
  BY <1>1, AnnotateSizes, CatalogAssumption DEF CatalogAssumption, Users
<1>2. CASE AccountingNext
  <2>1. PICK u \in Users :
          \/ Annotate(u)
          \/ \E d \in DirId :
               \/ MakeDirectory(u, d) \/ TrashDirectory(u, d)
               \/ \E s \in Sizes : \/ \E n \in Names : Upload(u, d, n, s)
                                   \/ \E g \in FileId : UploadRevision(u, d, g, s)
          \/ \E f \in FileId : TrashFile(u, f)
          \/ \E S \in SUBSET FileId : Purge(u, S) \/ Recover(u, S)
    BY <1>2 DEF AccountingNext
  <2> QED BY <2>1, AnnotateSizes, MakeDirectorySizes, TrashDirectorySizes, UploadSizes,
             UploadRevisionSizes, TrashFileSizes, PurgeSizes, RecoverSizes
<1> QED BY <1>1, <1>2

----------------------------------------------------------------------------
(* The quota covers the first sizes of all files and any directory's drift. *)

FilesNext(v) == {f \in DOMAIN file' : file'[f].owner = v}
CoveredNext(x) ==
  Total(file_size', FilesNext(dir'[x].owner)) + drift'[x] <= quota_used'[dir'[x].owner]

LEMMA QuotaCoversNext ==
  ASSUME \A x \in DOMAIN dir' : CoveredNext(x)
  PROVE  QuotaCovers'
BY DEF QuotaCovers, Covered, FilesOf, CoveredNext, FilesNext, Total, BytesIn

\* What is known of a directory's owner.
LEMMA CoverNow ==
  ASSUME SizeInv, NEW x \in DOMAIN dir
  PROVE  /\ dir[x].owner \in Users /\ drift[x] \in Int
         /\ Total(file_size, FilesOf(dir[x].owner)) + drift[x] <= quota_used[dir[x].owner]
<1>1. dir[x].owner \in Users
  BY DEF SizeInv, CatInv, Base, TypeOK, DirRecord
<1>2. drift[x] \in Int
  BY DEF SizeInv, Numbers, AccountingTypeOK
<1> QED BY <1>1, <1>2 DEF SizeInv, QuotaCovers, Covered

LEMMA OwnersFit ==
  ASSUME SizeInv, NEW v \in Users
  PROVE  /\ Sized(file_size, FilesOf(v)) /\ Total(file_size, FilesOf(v)) \in Nat
         /\ Total(file_size, FilesOf(v)) <= quota_used[v]
         /\ quota_used[v] \in 0 .. Width - 1
<1>1. quota_used[v] \in 0 .. Width - 1
  BY DEF SizeInv, Numbers, AccountingTypeOK
<1> QED BY <1>1, FilesFit DEF SizeInv

\* Requests that move neither a file's first size nor a quota.
LEMMA QuietCovers ==
  ASSUME SizeInv, CatInv', UNCHANGED <<file_size, quota_used>>, DOMAIN file' = DOMAIN file,
         \A f \in DOMAIN file : file'[f].owner = file[f].owner,
         \A x \in DOMAIN dir' :
           \/ drift'[x] = 0
           \/ x \in DOMAIN dir /\ dir'[x].owner = dir[x].owner /\ drift'[x] = drift[x]
  PROVE  QuotaCovers'
<1>1. ASSUME NEW x \in DOMAIN dir'
      PROVE  CoveredNext(x)
  <2>1. PICK v \in Users : v = dir'[x].owner
    BY DEF CatInv, Base, TypeOK, DirRecord
  <2>2. FilesNext(v) = FilesOf(v)
    BY DEF FilesNext, FilesOf
  <2>3. Total(file_size, FilesOf(v)) \in Nat /\ Total(file_size, FilesOf(v)) <= quota_used[v]
    BY OwnersFit
  <2>4. CASE drift'[x] = 0
    BY <2>1, <2>2, <2>3, <2>4 DEF CoveredNext
  <2>5. CASE x \in DOMAIN dir /\ dir'[x].owner = dir[x].owner /\ drift'[x] = drift[x]
    BY <2>1, <2>2, <2>5, CoverNow DEF CoveredNext
  <2> QED BY <2>4, <2>5
<1> QED BY <1>1, QuotaCoversNext

\* The quota of the owner grows by what the first sizes grow.
LEMMA UploadCovers ==
  ASSUME SizeInv, NEW u \in Users, NEW p \in DirId, NEW n \in Names, NEW s \in Sizes,
         Upload(u, p, n, s)
  PROVE  QuotaCovers'
<1>0. PICK f : f = ticket.file
  OBVIOUS
<1>1. NewFile(u, p, n) /\ drift' = drift /\ quota_used' = [quota_used EXCEPT ![u] = Wrap(@ + s)]
  BY DEF Upload
<1>2. /\ f \notin DOMAIN file /\ DOMAIN dir' = DOMAIN dir
      /\ \A d \in DOMAIN dir : dir'[d].owner = dir[d].owner
  BY <1>0, <1>1, NewFileEffect, CatalogAssumption DEF SizeInv, CatInv, Base
<1>3. /\ DOMAIN file' = DOMAIN file \cup {f} /\ \A g \in DOMAIN file : file'[g] = file[g]
      /\ file'[f].owner = u
  BY <1>0, <1>1, <1>2 DEF NewFile, Put, NewRecord
<1>4. file_size'[f] = s /\ \A g \in DOMAIN file : file_size'[g] = file_size[g]
  BY <1>0, <1>2 DEF Upload, Put, SizeInv, Numbers, AccountingTypeOK
<1>5. s \in 0 .. Width - 1 /\ s \in Nat
  BY Limits
<1>6. /\ quota_used'[u] = quota_used[u] + s
      /\ \A v \in Users \ {u} : quota_used'[v] = quota_used[v]
  BY <1>1, QuotaGrows DEF SizeInv, CatInv, Base
<1>7. ASSUME NEW v \in Users
      PROVE  Total(file_size', FilesOf(v)) = Total(file_size, FilesOf(v))
             /\ Sized(file_size', FilesOf(v))
  <2>1. \A g \in FilesOf(v) : file_size'[g] = file_size[g]
    BY <1>4 DEF FilesOf
  <2>2. Total(file_size', FilesOf(v)) = Total(file_size, FilesOf(v))
    BY <2>1, TotalSame
  <2>3. Sized(file_size, FilesOf(v))
    BY OwnersFit
  <2> QED BY <2>1, <2>2, <2>3 DEF Sized
<1>8. ASSUME NEW x \in DOMAIN dir'
      PROVE  CoveredNext(x)
  <2>1. x \in DOMAIN dir /\ dir'[x].owner = dir[x].owner /\ drift'[x] = drift[x]
    BY <1>1, <1>2
  <2>2. PICK v \in Users : v = dir[x].owner
    BY <2>1, CoverNow
  <2>3. PICK a \in Nat : a = Total(file_size, FilesOf(v))
    BY OwnersFit
  <2>4. a + drift[x] <= quota_used[v] /\ drift[x] \in Int /\ quota_used[v] \in Int
    BY <2>1, <2>2, <2>3, CoverNow, OwnersFit, Limits
  <2>5. CASE v = u
    <3>1. FilesNext(v) = FilesOf(v) \cup {f} /\ f \notin FilesOf(v)
      BY <1>2, <1>3, <2>5 DEF FilesNext, FilesOf
    <3>2. Total(file_size', FilesOf(v) \cup {f}) = Total(file_size', FilesOf(v)) + file_size'[f]
      BY <1>4, <1>5, <1>7, <3>1, TotalAdd
    <3>3. Total(file_size', FilesNext(v)) = a + s
      BY <1>4, <1>7, <2>3, <3>1, <3>2
    <3>4. quota_used'[v] = quota_used[v] + s
      BY <1>6, <2>5
    <3>5. (a + s) + drift[x] <= quota_used[v] + s
      BY <1>5, <2>4
    <3> QED BY <2>1, <2>2, <3>3, <3>4, <3>5 DEF CoveredNext
  <2>6. CASE v # u
    <3>1. FilesNext(v) = FilesOf(v)
      BY <1>2, <1>3, <2>6 DEF FilesNext, FilesOf
    <3>2. Total(file_size', FilesNext(v)) = a /\ quota_used'[v] = quota_used[v]
      BY <1>6, <1>7, <2>3, <2>6, <3>1
    <3> QED BY <2>1, <2>2, <2>4, <3>2 DEF CoveredNext
  <2> QED BY <2>5, <2>6
<1> QED BY <1>8, QuotaCoversNext

\* The quota grows by the size of a revision, the drift above it by less.
LEMMA UploadRevisionCovers ==
  ASSUME SizeInv, NEW u \in Users, NEW p \in DirId, NEW g \in FileId, NEW s \in Sizes,
         UploadRevision(u, p, g, s)
  PROVE  QuotaCovers'
<1>1. /\ NewRevision(u, p, g) /\ file_size' = file_size /\ Drift(p, s - file_size[g])
      /\ quota_used' = [quota_used EXCEPT ![u] = Wrap(@ + s)]
  BY DEF UploadRevision
<1>2. /\ g \in DOMAIN file /\ file[g].owner = u /\ DOMAIN file' = DOMAIN file /\ dir' = dir
      /\ \A f \in DOMAIN file : file'[f].owner = file[f].owner
  BY <1>1, UploadEffect DEF NewRevision, SizeInv, CatInv
<1>3. p \in DOMAIN dir /\ dir[p].owner = u
  BY <1>1 DEF NewRevision, MayName
<1>4. s \in Nat /\ file_size[g] \in Nat \ {0}
  BY <1>2, Limits DEF SizeInv, Numbers, AccountingTypeOK
<1>5. /\ quota_used'[u] = quota_used[u] + s
      /\ \A v \in Users \ {u} : quota_used'[v] = quota_used[v]
  BY <1>1, QuotaGrows DEF SizeInv, CatInv, Base
<1>6. ASSUME NEW x \in DOMAIN dir'
      PROVE  CoveredNext(x)
  <2>1. PICK v \in Users : v = dir[x].owner
    BY <1>2, CoverNow
  <2>2. FilesNext(v) = FilesOf(v)
    BY <1>2 DEF FilesNext, FilesOf
  <2>3. PICK a \in Nat : a = Total(file_size, FilesOf(v))
    BY OwnersFit
  <2>4. a + drift[x] <= quota_used[v] /\ drift[x] \in Int /\ quota_used[v] \in Int
    BY <1>2, <2>1, <2>3, CoverNow, OwnersFit, Limits
  <2>5. drift'[x] = drift[x] + IF x \in Above(p) THEN s - file_size[g] ELSE 0
    BY <1>1, <1>2 DEF Drift
  <2>6. CASE x \in Above(p)
    <3>1. v = u
      BY <1>2, <1>3, <2>1, <2>6, AboveIsBelow, SubtreeOwned DEF SizeInv
    <3>2. a + drift'[x] <= quota_used'[v]
      BY <1>4, <1>5, <2>4, <2>5, <2>6, <3>1
    <3> QED BY <1>1, <1>2, <2>1, <2>2, <2>3, <3>2 DEF CoveredNext
  <2>7. CASE x \notin Above(p)
    <3>1. a + drift'[x] <= quota_used'[v]
      BY <1>4, <1>5, <2>4, <2>5, <2>7
    <3> QED BY <1>1, <1>2, <2>1, <2>2, <2>3, <3>1 DEF CoveredNext
  <2> QED BY <2>6, <2>7
<1> QED BY <1>6, QuotaCoversNext

\* A purge gives back the first sizes of what it erases.
LEMMA PurgeCovers ==
  ASSUME SizeInv, NEW u \in Users, NEW S \in SUBSET FileId, Purge(u, S)
  PROVE  QuotaCovers'
<1>1. /\ S \subseteq Trash(u) \cap DOMAIN file /\ file' = Erase(file, S)
      /\ quota_used' = [quota_used EXCEPT ![u] = Wrap(@ - Total(file_size, S))]
      /\ UNCHANGED <<dir, drift>> /\ file_size' = Erase(file_size, S)
  BY DEF Purge, PurgeDeletedFiles
<1>2. /\ DOMAIN file' = DOMAIN file \ S /\ \A f \in DOMAIN file \ S : file'[f] = file[f]
      /\ \A f \in DOMAIN file \ S : file_size'[f] = file_size[f]
  BY <1>1 DEF Erase, SizeInv, Numbers, AccountingTypeOK
<1>3. \A f \in S : f \in DOMAIN file /\ file[f].owner = u
  BY <1>1 DEF SizeInv, CatInv, Base, Ids
<1>4. S \subseteq FilesOf(u)
  BY <1>3 DEF FilesOf
<1>5. PICK c \in Nat : c = Total(file_size, S) /\ c <= quota_used[u]
  BY <1>4, FilesFit DEF SizeInv
<1>6. /\ quota_used'[u] = quota_used[u] - c
      /\ \A v \in Users \ {u} : quota_used'[v] = quota_used[v]
  <2>1. quota_used[u] \in 0 .. Width - 1 /\ quota_used \in [Users -> 0 .. Width - 1]
    BY OwnersFit DEF SizeInv, Numbers, AccountingTypeOK
  <2>2. quota_used[u] - c \in 0 .. Width - 1
    BY <1>5, <2>1, Limits
  <2>3. Wrap(quota_used[u] - c) = quota_used[u] - c
    BY <2>2, WrapFits
  <2> QED BY <1>1, <1>5, <2>1, <2>3
<1>7. ASSUME NEW x \in DOMAIN dir'
      PROVE  CoveredNext(x)
  <2>1. PICK v \in Users : v = dir[x].owner
    BY <1>1, CoverNow
  <2>2. PICK a \in Nat : a = Total(file_size, FilesOf(v))
    BY OwnersFit
  <2>3. a + drift[x] <= quota_used[v] /\ drift[x] \in Int /\ quota_used[v] \in Int
    BY <1>1, <2>1, <2>2, CoverNow, OwnersFit, Limits
  <2>4. FilesNext(v) = FilesOf(v) \ S /\ (v # u => FilesNext(v) = FilesOf(v))
    BY <1>2, <1>3 DEF FilesNext, FilesOf
  <2>5. Total(file_size', FilesNext(v)) = Total(file_size, FilesNext(v))
    <3>1. \A f \in FilesNext(v) : file_size'[f] = file_size[f]
      BY <1>2 DEF FilesNext
    <3> QED BY <3>1, TotalSame
  <2>6. CASE v = u
    <3>1. Sized(file_size, FilesOf(u))
      BY OwnersFit
    <3>2. Total(file_size, FilesOf(u)) = Total(file_size, S) + Total(file_size, FilesOf(u) \ S)
          /\ Sized(file_size, FilesOf(u) \ S)
      BY <1>4, <3>1, TotalSplit
    <3>3. PICK R : R = FilesOf(u) \ S
      OBVIOUS
    <3>4. Total(file_size, R) \in Nat
      BY <3>2, <3>3, TotalType
    <3>5. PICK b \in Nat : b = Total(file_size, FilesNext(v))
      BY <2>4, <2>6, <3>3, <3>4
    <3>6. a = c + b
      BY <1>5, <2>2, <2>4, <2>6, <3>2, <3>5
    <3>7. b + drift[x] <= quota_used'[v]
      BY <1>6, <2>3, <2>6, <3>6
    <3> QED BY <1>1, <2>1, <2>5, <3>5, <3>7 DEF CoveredNext
  <2>7. CASE v # u
    BY <1>1, <1>6, <2>1, <2>2, <2>3, <2>4, <2>5, <2>7 DEF CoveredNext
  <2> QED BY <2>6, <2>7
<1> QED BY <1>7, QuotaCoversNext

LEMMA StepCovers ==
  ASSUME SizeInv, CatInv', [AccountingNext]_<<vars, numbers>>
  PROVE  QuotaCovers'
<1>1. CASE UNCHANGED <<vars, numbers>>
  BY <1>1, QuietCovers DEF vars, numbers
<1>2. CASE AccountingNext
  <2>1. PICK u \in Users :
          \/ Annotate(u)
          \/ \E d \in DirId :
               \/ MakeDirectory(u, d) \/ TrashDirectory(u, d)
               \/ \E s \in Sizes : \/ \E n \in Names : Upload(u, d, n, s)
                                   \/ \E g \in FileId : UploadRevision(u, d, g, s)
          \/ \E f \in FileId : TrashFile(u, f)
          \/ \E S \in SUBSET FileId : Purge(u, S) \/ Recover(u, S)
    BY <1>2 DEF AccountingNext
  <2>2. CASE Annotate(u)
    <3>1. UNCHANGED numbers
      BY <2>2 DEF Annotate
    <3>2. CASE \E d \in DirId : NewDirectoryInDeleted(u, d)
      BY <3>1, <3>2, QuietCovers DEF NewDirectoryInDeleted, numbers
    <3>3. CASE \E f \in FileId :
                 \/ LeaveSharedFile(u, f)
                 \/ \E n \in Names : ModifyFileInfo(u, f, n)
                 \/ \E v \in Users : SetFileShare(u, f, v) \/ UnsetFileShare(u, f, v)
                 \/ \E V \in SUBSET Users : OverwriteFileSharing(u, f, V)
      <4>1. /\ dir' = dir /\ DOMAIN file' = DOMAIN file
            /\ \A f \in DOMAIN file : file'[f].owner = file[f].owner
        BY <3>3, ShareEffect DEF SizeInv, CatInv, Base
      <4> QED BY <3>1, <4>1, QuietCovers DEF numbers
    <3> QED BY <2>2, <3>2, <3>3 DEF Annotate
  <2>3. CASE \E d \in DirId : MakeDirectory(u, d)
    <3>1. PICK d \in DirId : MakeDirectory(u, d)
      BY <2>3
    <3>2. NewDirectory(u, d) /\ UNCHANGED <<file, file_size, quota_used>>
          /\ drift' = Put(drift, ticket.dir, 0)
      BY <3>1 DEF MakeDirectory, NewDirectory
    <3>3. ASSUME NEW x \in DOMAIN dir'
          PROVE  \/ drift'[x] = 0
                 \/ x \in DOMAIN dir /\ dir'[x].owner = dir[x].owner /\ drift'[x] = drift[x]
      BY <3>2 DEF NewDirectory, Put, SizeInv, Numbers, AccountingTypeOK, CatInv, Base, TypeOK, DirRecord
    <3> QED BY <3>2, <3>3, QuietCovers
  <2>4. CASE \E d \in DirId : TrashDirectory(u, d)
    <3>1. PICK d \in DirId : TrashDirectory(u, d)
      BY <2>4
    <3>2. /\ UNCHANGED <<file_size, quota_used>> /\ DeleteDirectory(u, d)
          /\ drift' = Erase(drift, Subtree(d))
      BY <3>1 DEF TrashDirectory
    <3>3. \E F : Deletes(F)
      BY <3>2, DeleteDirectoryKind DEF SizeInv, CatInv, Base
    <3>4. /\ DOMAIN dir' = DOMAIN dir \ Subtree(d)
          /\ \A x \in DOMAIN dir' : dir'[x].owner = dir[x].owner
      BY <3>2, <3>3 DEF DeleteDirectory, Deletes
    <3>5. \A x \in DOMAIN dir' : drift'[x] = drift[x]
      BY <3>2, <3>4 DEF Erase, SizeInv, Numbers, AccountingTypeOK
    <3>6. DOMAIN file' = DOMAIN file /\ \A f \in DOMAIN file : file'[f].owner = file[f].owner
      BY <3>2, UnshareEffect DEF DeleteDirectory, SizeInv, CatInv, Base
    <3> QED BY <3>2, <3>4, <3>5, <3>6, QuietCovers
  <2>5. CASE \E f \in FileId : TrashFile(u, f)
    <3>1. PICK f \in FileId : TrashFile(u, f)
      BY <2>5
    <3>2. UNCHANGED <<file_size, quota_used, drift>> /\ DeleteFile(u, f)
      BY <3>1 DEF TrashFile
    <3>3. \E F : Deletes(F)
      BY <3>2, DeleteFileKind DEF SizeInv, CatInv, Base
    <3>4. DOMAIN dir' \subseteq DOMAIN dir /\ \A x \in DOMAIN dir' : dir'[x].owner = dir[x].owner
      BY <3>3 DEF Deletes
    <3>5. DOMAIN file' = DOMAIN file /\ \A g \in DOMAIN file : file'[g].owner = file[g].owner
      BY <3>2, UnshareEffect DEF DeleteFile, SizeInv, CatInv, Base
    <3> QED BY <3>2, <3>4, <3>5, QuietCovers
  <2>6. CASE \E S \in SUBSET FileId : Recover(u, S)
    <3>1. PICK S \in SUBSET FileId : Recover(u, S)
      BY <2>6
    <3>2. UNCHANGED <<file_size, quota_used, drift>> /\ MoveHome(u, S) /\ Readopt(u, S)
      BY <3>1 DEF Recover, RecoverDeletedFiles
    <3>3. DOMAIN file' = DOMAIN file /\ \A f \in DOMAIN file : file'[f].owner = file[f].owner
      BY <3>2, ReadoptEffect DEF SizeInv, CatInv, Base
    <3>4. DOMAIN dir' = DOMAIN dir /\ \A x \in DOMAIN dir : dir'[x].owner = dir[x].owner
      BY <3>2, MoveHomeEffect DEF SizeInv, CatInv, Base
    <3> QED BY <3>2, <3>3, <3>4, QuietCovers
  <2> QED BY <2>1, <2>2, <2>3, <2>4, <2>5, <2>6, UploadCovers, UploadRevisionCovers, PurgeCovers
<1> QED BY <1>1, <1>2

LEMMA InitSizes ==
  ASSUME AccountingInit
  PROVE  SizeInv
<1>1. CatInv /\ Numbers /\ TreeOwned
  BY InitCatInv, InitNumbers, InitTreeOwned DEF AccountingInit
<1>2. \A x \in DOMAIN dir : dir_size[x] = 0 /\ drift[x] = 0
  BY DEF AccountingInit
<1>3. NoDrift
  BY <1>2 DEF NoDrift
<1>4. ASSUME NEW x \in DOMAIN dir
      PROVE  dir_size[x] = Wrap(Counts(x))
  <2>1. \A y \in DOMAIN dir : dir[y].files_contained = {}
    BY DEF AccountingInit, Init, EmptyDir
  <2>2. Under(x) = {}
    BY <2>1 DEF Under, FilesIn, Subtree
  <2>3. Counts(x) = 0
    BY <1>2, <2>2, TotalEmpty DEF Counts
  <2>4. Wrap(0) = 0
    BY Limits, WrapFits
  <2> QED BY <1>2, <2>3, <2>4
<1>5. ASSUME NEW x \in DOMAIN dir
      PROVE  Covered(x)
  <2>1. PICK v \in Users : v = dir[x].owner
    BY <1>1 DEF CatInv, Base, TypeOK, DirRecord
  <2>2. Total(file_size, FilesOf(v)) \in Nat /\ Total(file_size, FilesOf(v)) <= quota_used[v]
    BY <1>1, FilesFit
  <2> QED BY <1>2, <2>1, <2>2 DEF Covered
<1> QED BY <1>1, <1>3, <1>4, <1>5 DEF SizeInv, SizesAgree, QuotaCovers

LEMMA SizesAlways == AccountingSpec => []SizeInv
<1>1. AccountingInit => SizeInv
  BY InitSizes
<1>2. SizeInv /\ [AccountingNext]_<<vars, numbers>> => SizeInv'
  <2> SUFFICES ASSUME SizeInv, [AccountingNext]_<<vars, numbers>>
               PROVE  SizeInv'
    OBVIOUS
  <2>1. CatInv'
    <3>1. [Next]_vars
      BY CatalogSteps
    <3> QED BY <3>1, NextCatInv DEF SizeInv
  <2>2. Numbers'
    BY NextNumbers DEF SizeInv
  <2>3. TreeOwned'
    BY <2>1, StepTreeOwned
  <2>4. QuotaCovers'
    BY <2>1, StepCovers
  <2> QED BY <2>1, <2>2, <2>3, <2>4, StepSizes DEF SizeInv
<1> QED BY <1>1, <1>2, PTL DEF AccountingSpec

\* While no file was ever revised, the size of every directory is the sum over
\* the files below it, whatever was uploaded, deleted, recovered and purged: the
\* handlers that climb miss no directory and count nothing twice.
THEOREM DirectorySizes == AccountingSpec => []DirSizeIsSum
<1>1. ASSUME SizeInv, NeverRevised, NEW d \in DOMAIN dir
      PROVE  dir_size[d] =
               Total(bytes, {<<file[f].owner, f, file[f].revision>> : f \in FilesIn(Subtree(d))})
  <2> DEFINE F == Under(d)
             B == {<<file[f].owner, f, file[f].revision>> : f \in F}
             h == [f \in F |-> <<file[f].owner, f, file[f].revision>>]
  <2>1. dir_size[d] = Total(file_size, F) /\ Sized(file_size, F)
    <3>1. Sized(file_size, F) /\ Total(file_size, F) \in 0 .. Width - 1
      BY <1>1, UnderFits DEF SizeInv
    <3>2. drift[d] = 0 /\ dir_size[d] = Wrap(Counts(d))
      BY <1>1, AgreeNow DEF SizeInv, NoDrift
    <3>3. PICK a \in 0 .. Width - 1 : a = Total(file_size, F)
      BY <3>1
    <3>4. Counts(d) = a
      BY <3>2, <3>3, Limits DEF Counts
    <3> QED BY <3>1, <3>2, <3>3, <3>4, WrapFits
  <2>2. F \subseteq DOMAIN file
    BY <1>1, UnderType DEF SizeInv
  <2>3. \A f \in F : bytes[h[f]] = file_size[f]
    BY <1>1, <2>2 DEF NeverRevised, SizeInv, Numbers, FirstSizes
  <2>4. h \in Bijection(F, B)
    BY DEF Bijection, Injection, Surjection, IsInjective
  <2> HIDE DEF h, F, B
  <2>5. Total(bytes, B) = Total(file_size, F)
    BY <2>1, <2>3, <2>4, TotalRenamed
  <2> QED BY <2>1, <2>5 DEF B, F, Under
<1>2. SizeInv => DirSizeIsSum
  BY <1>1 DEF DirSizeIsSum
<1> QED BY <1>2, SizesAlways, PTL

\* Whatever is revised with whatever size, the size of a directory is, as a size_t,
\* the first sizes of the files below it and what revisions made of it ever since,
\* and the quota its owner used is no less than that: no climb adds or takes off
\* anything else.  It may be less than nothing, which the size_t then cannot hold.
THEOREM DirectorySizesAccounted == AccountingSpec => []DirSizeIsAccounted
<1>1. ASSUME SizeInv, NEW d \in DOMAIN dir
      PROVE  /\ Total(file_size, Under(d)) + drift[d] <= quota_used[dir[d].owner]
             /\ dir_size[d] = Wrap(Total(file_size, Under(d)) + drift[d])
  <2>1. PICK v \in Users : v = dir[d].owner
    BY <1>1, CoverNow
  <2>2. Under(d) \subseteq FilesOf(v)
    BY <1>1, <2>1, SubtreeOwned DEF SizeInv
  <2>3. Sized(file_size, FilesOf(v))
    BY <1>1, OwnersFit
  <2>4. Total(file_size, Under(d)) <= Total(file_size, FilesOf(v))
    BY <2>2, <2>3, TotalPart
  <2>5. PICK a \in Nat : a = Total(file_size, Under(d))
    BY <1>1, AgreeNow
  <2>6. PICK b \in Nat : b = Total(file_size, FilesOf(v))
    BY <1>1, OwnersFit
  <2>7. b + drift[d] <= quota_used[v] /\ drift[d] \in Int /\ quota_used[v] \in Int
    BY <1>1, <2>1, <2>6, CoverNow, OwnersFit, Limits
  <2>8. a + drift[d] <= quota_used[v]
    BY <2>4, <2>5, <2>6, <2>7
  <2>9. dir_size[d] = Wrap(Counts(d))
    BY <1>1, AgreeNow
  <2> QED BY <2>1, <2>5, <2>8, <2>9 DEF Counts
<1>2. SizeInv => DirSizeIsAccounted
  BY <1>1 DEF DirSizeIsAccounted, Under
<1> QED BY <1>2, SizesAlways, PTL

=============================================================================
