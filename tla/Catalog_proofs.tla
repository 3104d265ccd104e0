---------------------------- MODULE Catalog_proofs ----------------------------
(***************************************************************************)
(* Theorems about Catalog, for every number of users, every bound and every *)
(* choice of Slips unless a theorem says otherwise.                         *)
(***************************************************************************)
EXTENDS Catalog, TLAPS

----------------------------------------------------------------------------
(* A batch of puts keeps a table a table.                                   *)

LEMMA PutTable ==
  ASSUME NEW T, NEW f, f \in [DOMAIN f -> T], NEW k, NEW v \in T
  PROVE  /\ DOMAIN Put(f, k, v) = DOMAIN f \cup {k}
         /\ Put(f, k, v) \in [DOMAIN Put(f, k, v) -> T]
BY DEF Put

\* The roots of the accounts and their directories of shared files have ids of
\* their kind.
LEMMA SignUpIds ==
  ASSUME CatalogAssumption
  PROVE  /\ \A u \in Users : 2 * u - 1 \in DirId /\ 2 * u \in DirId
         /\ \A d \in 1 .. 2 * NumUsers :
              /\ d \in DirId
              /\ d % 2 = 1 => (d + 1) \div 2 \in Users /\ d + 1 \in 1 .. 2 * NumUsers
              /\ d % 2 # 1 => d \div 2 \in Users /\ d - 1 \in 1 .. 2 * NumUsers
BY DEF CatalogAssumption, Users, DirId

----------------------------------------------------------------------------
(* Type correctness.                                                        *)

LEMMA InitTypeOK ==
  ASSUME CatalogAssumption, Init
  PROVE  TypeOK
<1>1. user \in [Users -> UserRecord]
  BY SignUpIds DEF Init, UserRecord
<1>2. DOMAIN dir \subseteq DirId /\ dir \in [DOMAIN dir -> DirRecord]
  <2>1. DOMAIN dir = 1 .. 2 * NumUsers
    BY DEF Init
  <2>2. ASSUME NEW d \in DOMAIN dir, d % 2 = 1
        PROVE  dir[d] \in DirRecord
    <3>1. dir[d] = [EmptyDir((d + 1) \div 2, NoParent)
                      EXCEPT !.directories_contained = {d + 1}]
      BY <2>1, <2>2 DEF Init
    <3>2. (d + 1) \div 2 \in Users /\ d + 1 \in DirId
      BY SignUpIds, <2>1, <2>2
    <3> QED
      BY <3>1, <3>2 DEF EmptyDir, DirRecord
  <2>3. ASSUME NEW d \in DOMAIN dir, d % 2 # 1
        PROVE  dir[d] \in DirRecord
    <3>1. dir[d] = EmptyDir(d \div 2, d - 1)
      BY <2>1, <2>3 DEF Init
    <3>2. d \div 2 \in Users /\ d - 1 \in DirId
      BY SignUpIds, <2>1, <2>3
    <3> QED
      BY <3>1, <3>2 DEF EmptyDir, DirRecord
  <2>4. dir = [d \in DOMAIN dir |-> dir[d]]
    BY DEF Init
  <2> QED
    BY <2>1, <2>2, <2>3, <2>4, SignUpIds
<1>3. DOMAIN file \subseteq FileId /\ file \in [DOMAIN file -> FileRecord]
  BY DEF Init
<1>4. stored \subseteq Users \X FileId \X (1 .. MaxRevision)
  BY DEF Init
<1>5. ticket \in [dir : 1 .. MaxDir + 1, file : 1 .. MaxFile + 1]
  BY DEF Init, CatalogAssumption
<1> QED
  BY <1>1, <1>2, <1>3, <1>4, <1>5 DEF TypeOK

\* Where the table of an action is one record away from the old one.
LEMMA NewDirectoryTypeOK ==
  ASSUME CatalogAssumption, TypeOK, NEW u \in Users, NEW p \in DirId, NewDirectory(u, p)
  PROVE  TypeOK'
<1> DEFINE d    == ticket.dir
           base == [dir EXCEPT ![p].directories_contained = @ \cup {d}]
<1>1. d \in DirId /\ d + 1 \in 1 .. MaxDir + 1
  BY DEF TypeOK, NewDirectory, DirId, CatalogAssumption
<1>2. base \in [DOMAIN base -> DirRecord] /\ DOMAIN base = DOMAIN dir
  BY <1>1 DEF TypeOK, DirRecord
<1>3. EmptyDir(u, p) \in DirRecord
  BY DEF EmptyDir, DirRecord
<1>4. dir' = Put(base, d, EmptyDir(u, p))
  BY DEF NewDirectory
<1> HIDE DEF d, base
<1>5. DOMAIN dir' \subseteq DirId /\ dir' \in [DOMAIN dir' -> DirRecord]
  <2>1. /\ DOMAIN Put(base, d, EmptyDir(u, p)) = DOMAIN base \cup {d}
        /\ Put(base, d, EmptyDir(u, p)) \in [DOMAIN Put(base, d, EmptyDir(u, p)) -> DirRecord]
    BY <1>2, <1>3, PutTable
  <2>2. DOMAIN dir \subseteq DirId
    BY DEF TypeOK
  <2> QED
    BY <1>1, <1>2, <1>4, <2>1, <2>2
<1>6. ticket' \in [dir : 1 .. MaxDir + 1, file : 1 .. MaxFile + 1]
  BY <1>1 DEF NewDirectory, TypeOK, d
<1> QED
  BY <1>5, <1>6 DEF TypeOK, NewDirectory

LEMMA NewFileTypeOK ==
  ASSUME CatalogAssumption, TypeOK,
         NEW u \in Users, NEW p \in DirId, NEW n \in Names, NewFile(u, p, n)
  PROVE  TypeOK'
<1> DEFINE f == ticket.file
<1>1. f \in FileId /\ f + 1 \in 1 .. MaxFile + 1
  BY DEF TypeOK, NewFile, FileId, CatalogAssumption
<1>2. NewRecord(u, p, n) \in FileRecord
  BY DEF NewRecord, FileRecord, CatalogAssumption
<1>3. file' = Put(file, f, NewRecord(u, p, n))
  BY DEF NewFile
<1>4. dir' \in [DOMAIN dir' -> DirRecord] /\ DOMAIN dir' = DOMAIN dir
  BY <1>1 DEF TypeOK, NewFile, DirRecord
<1>5. ticket' \in [dir : 1 .. MaxDir + 1, file : 1 .. MaxFile + 1]
  BY <1>1 DEF NewFile, TypeOK
<1>6. stored' \subseteq Users \X FileId \X (1 .. MaxRevision)
  BY <1>1 DEF NewFile, TypeOK, CatalogAssumption
<1> HIDE DEF f
<1>7. DOMAIN file' \subseteq FileId /\ file' \in [DOMAIN file' -> FileRecord]
  <2>1. DOMAIN file \subseteq FileId /\ file \in [DOMAIN file -> FileRecord]
    BY DEF TypeOK
  <2>2. /\ DOMAIN Put(file, f, NewRecord(u, p, n)) = DOMAIN file \cup {f}
        /\ Put(file, f, NewRecord(u, p, n)) \in
             [DOMAIN Put(file, f, NewRecord(u, p, n)) -> FileRecord]
    BY <1>2, <2>1, PutTable
  <2> QED
    BY <1>1, <1>3, <2>1, <2>2
<1> QED
  BY <1>4, <1>5, <1>6, <1>7 DEF TypeOK, NewFile

LEMMA NewFileNotSavedTypeOK ==
  ASSUME CatalogAssumption, TypeOK,
         NEW u \in Users, NEW p \in DirId, NEW n \in Names, NewFileNotSaved(u, p, n)
  PROVE  TypeOK'
<1>1. ticket.file \in FileId /\ ticket.file + 1 \in 1 .. MaxFile + 1
  BY DEF TypeOK, NewFileNotSaved, FileId, CatalogAssumption
<1>2. dir' \in [DOMAIN dir' -> DirRecord] /\ DOMAIN dir' = DOMAIN dir
  BY <1>1 DEF TypeOK, NewFileNotSaved, DirRecord
<1>3. ticket' \in [dir : 1 .. MaxDir + 1, file : 1 .. MaxFile + 1]
  BY <1>1 DEF NewFileNotSaved, TypeOK
<1>4. stored' \subseteq Users \X FileId \X (1 .. MaxRevision)
  BY <1>1 DEF NewFileNotSaved, TypeOK, CatalogAssumption
<1> QED
  BY <1>2, <1>3, <1>4 DEF TypeOK, NewFileNotSaved

LEMMA NewRevisionTypeOK ==
  ASSUME CatalogAssumption, TypeOK, NEW u \in Users, NEW p \in DirId, NEW g \in FileId,
         NewRevision(u, p, g) \/ NewRevisionNotSaved(u, p, g)
  PROVE  TypeOK'
<1>1. file[g].revision + 1 \in 1 .. MaxRevision
  BY DEF TypeOK, NewRevision, NewRevisionNotSaved, FileRecord, CatalogAssumption
<1>2. stored' \subseteq Users \X FileId \X (1 .. MaxRevision)
  BY <1>1 DEF NewRevision, NewRevisionNotSaved, TypeOK
<1>3. file' \in [DOMAIN file' -> FileRecord] /\ DOMAIN file' = DOMAIN file
  BY <1>1 DEF NewRevision, NewRevisionNotSaved, TypeOK, FileRecord
<1> QED
  BY <1>2, <1>3 DEF TypeOK, NewRevision, NewRevisionNotSaved

LEMMA ShareTypeOK ==
  ASSUME TypeOK, NEW u \in Users, NEW f \in FileId, NEW v \in Users, NEW V \in SUBSET Users,
         \/ SetFileShare(u, f, v) \/ UnsetFileShare(u, f, v)
         \/ OverwriteFileSharing(u, f, V) \/ LeaveSharedFile(u, f)
  PROVE  TypeOK'
<1>1. CASE SetFileShare(u, f, v)
  <2>1. user' \in [Users -> UserRecord]
    BY <1>1 DEF SetFileShare, TypeOK, UserRecord
  <2>2. file' \in [DOMAIN file' -> FileRecord] /\ DOMAIN file' = DOMAIN file
    BY ZenonT(40), <1>1 DEF SetFileShare, TypeOK, FileRecord
  <2> QED
    BY <1>1, <2>1, <2>2 DEF SetFileShare, TypeOK
<1>2. CASE UnsetFileShare(u, f, v)
  <2>1. user' \in [Users -> UserRecord]
    BY <1>2 DEF UnsetFileShare, TypeOK, UserRecord
  <2>2. file' \in [DOMAIN file' -> FileRecord] /\ DOMAIN file' = DOMAIN file
    BY <1>2 DEF UnsetFileShare, TypeOK, FileRecord
  <2> QED
    BY <1>2, <2>1, <2>2 DEF UnsetFileShare, TypeOK
<1>3. CASE OverwriteFileSharing(u, f, V)
  <2>1. user' \in [Users -> UserRecord]
    <3>1. ASSUME NEW w \in Users
          PROVE  /\ [user[w] EXCEPT !.shared_files = @ \cup {f}] \in UserRecord
                 /\ [user[w] EXCEPT !.shared_files = @ \ {f}] \in UserRecord
                 /\ [user[w] EXCEPT !.shared_files = @] \in UserRecord
      BY DEF TypeOK, UserRecord
    <3> QED
      BY <1>3, <3>1 DEF OverwriteFileSharing
  <2>2. file' \in [DOMAIN file' -> FileRecord] /\ DOMAIN file' = DOMAIN file
    BY <1>3 DEF OverwriteFileSharing, TypeOK, FileRecord
  <2> QED
    BY <1>3, <2>1, <2>2 DEF OverwriteFileSharing, TypeOK
<1>4. CASE LeaveSharedFile(u, f)
  <2>1. user' \in [Users -> UserRecord]
    BY <1>4 DEF LeaveSharedFile, TypeOK, UserRecord
  <2>2. file' \in [DOMAIN file' -> FileRecord] /\ DOMAIN file' = DOMAIN file
    BY <1>4 DEF LeaveSharedFile, TypeOK, FileRecord
  <2> QED
    BY <1>4, <2>1, <2>2 DEF LeaveSharedFile, TypeOK
<1> QED
  BY <1>1, <1>2, <1>3, <1>4

\* What every deletion does to the two tables it shares.
LEMMA TrashTypeOK ==
  ASSUME TypeOK, NEW F, TrashAndUnlist(F), Unshare(F)
  PROVE  /\ user' \in [Users -> UserRecord]
         /\ file' \in [DOMAIN file' -> FileRecord]
         /\ DOMAIN file' = DOMAIN file
<1>1. user' \in [Users -> UserRecord]
  <2> SUFFICES ASSUME NEW v \in Users
               PROVE  user'[v] \in UserRecord
    BY DEF TrashAndUnlist
  <2> DEFINE copies == [f \in FileId |-> IF f \in F /\ file[f].owner = v
                                         THEN user[v].files_deleted[f] + 1
                                         ELSE user[v].files_deleted[f]]
             listed == user[v].shared_files \ {f \in F : v \in file[f].users_shared}
  <2>1. copies \in [FileId -> Nat] /\ listed \in SUBSET FileId
    BY DEF TypeOK, UserRecord
  <2>2. user'[v] = [user[v] EXCEPT !.files_deleted = copies, !.shared_files = listed]
    BY DEF TrashAndUnlist
  <2>3. user[v] \in UserRecord
    BY DEF TypeOK
  <2> HIDE DEF copies, listed
  <2> QED
    BY <2>1, <2>2, <2>3 DEF UserRecord
<1>2. /\ file' \in [DOMAIN file' -> FileRecord]
      /\ DOMAIN file' = DOMAIN file
  <2>1. ASSUME NEW f \in DOMAIN file
        PROVE  file[f] \in FileRecord /\ [file[f] EXCEPT !.users_shared = {}] \in FileRecord
    BY DEF TypeOK, FileRecord
  <2> QED
    BY <2>1 DEF Unshare
<1> QED
  BY <1>1, <1>2

LEMMA DeleteFileTypeOK ==
  ASSUME TypeOK, NEW u \in Users, NEW f \in FileId,
         DeleteFile(u, f) \/ DeleteFileOfDeletedDirectory(u, f)
  PROVE  TypeOK'
<1>1. CASE DeleteFile(u, f)
  <2>1. dir' \in [DOMAIN dir' -> DirRecord] /\ DOMAIN dir' = DOMAIN dir
    BY <1>1 DEF DeleteFile, TypeOK, DirRecord
  <2>2. TrashAndUnlist({f}) /\ Unshare({f})
    BY <1>1 DEF DeleteFile
  <2> QED
    BY <1>1, <2>1, <2>2, TrashTypeOK DEF DeleteFile, TypeOK
<1>2. CASE DeleteFileOfDeletedDirectory(u, f)
  <2>1. user' \in [Users -> UserRecord]
    <3>1. user[u] \in UserRecord /\ user[u].files_deleted[f] + 1 \in Nat
      BY DEF TypeOK, UserRecord
    <3>2. [user[u] EXCEPT !.files_deleted[f] = @ + 1] \in UserRecord
      BY <3>1 DEF UserRecord
    <3> QED
      BY <1>2, <3>1, <3>2 DEF DeleteFileOfDeletedDirectory, TypeOK
  <2> QED
    BY <1>2, <2>1 DEF DeleteFileOfDeletedDirectory, TypeOK
<1> QED
  BY <1>1, <1>2

LEMMA DeleteDirectoryTypeOK ==
  ASSUME TypeOK, NEW u \in Users, NEW d \in DirId,
         DeleteDirectory(u, d) \/ DeleteDirectoryStopsHalfway(u, d)
  PROVE  TypeOK'
<1>1. ASSUME NEW x \in DOMAIN dir, NEW S
      PROVE  /\ dir[x] \in DirRecord
             /\ [dir[x] EXCEPT !.directories_contained = @ \ S] \in DirRecord
             /\ [dir[x] EXCEPT !.files_contained = @ \ S] \in DirRecord
  BY DEF TypeOK, DirRecord
<1>2. CASE DeleteDirectory(u, d)
  <2>1. dir' \in [DOMAIN dir' -> DirRecord] /\ DOMAIN dir' \subseteq DOMAIN dir
    BY <1>1, <1>2 DEF DeleteDirectory
  <2>2. TrashAndUnlist(FilesIn(Subtree(d))) /\ Unshare(FilesIn(Subtree(d)))
    BY <1>2 DEF DeleteDirectory
  <2> QED
    BY <1>2, <2>1, <2>2, TrashTypeOK DEF DeleteDirectory, TypeOK
<1>3. CASE DeleteDirectoryStopsHalfway(u, d)
  <2>1. PICK D \in SUBSET (Subtree(d) \ {d}), F \in SUBSET (FilesIn(Subtree(d)) \cap DOMAIN file) :
          /\ \A x \in D : Intact(x) /\ Subtree(x) \subseteq D
          /\ FilesIn(D) \subseteq F
          /\ \A f \in F : user[file[f].owner].files_deleted[f] < MaxCopies
          /\ TrashAndUnlist(F) /\ Unshare(F)
          /\ dir' = [x \in DOMAIN dir \ D |-> IF x \in Subtree(d)
                       THEN [dir[x] EXCEPT !.files_contained = @ \ F] ELSE dir[x]]
    BY <1>3, ZenonT(30) DEF DeleteDirectoryStopsHalfway
  <2>2. dir' \in [DOMAIN dir' -> DirRecord] /\ DOMAIN dir' \subseteq DOMAIN dir
    BY <1>1, <2>1
  <2> QED
    BY <1>3, <2>1, <2>2, TrashTypeOK DEF DeleteDirectoryStopsHalfway, TypeOK
<1> QED
  BY <1>2, <1>3

LEMMA WithoutType ==
  ASSUME TypeOK, NEW u \in Users, NEW S
  PROVE  Without(u, S) \in [Users -> UserRecord]
<1> DEFINE copies == [f \in FileId |-> IF f \in S THEN 0 ELSE user[u].files_deleted[f]]
<1>1. user[u] \in UserRecord /\ user \in [Users -> UserRecord]
  BY DEF TypeOK
<1>2. copies \in [FileId -> Nat]
  BY <1>1 DEF UserRecord
<1>3. Without(u, S) = [user EXCEPT ![u].files_deleted = copies]
  BY DEF Without
<1> HIDE DEF copies
<1> QED
  BY <1>1, <1>2, <1>3 DEF UserRecord

LEMMA PurgeTypeOK ==
  ASSUME TypeOK, NEW u \in Users, NEW S \in SUBSET FileId,
         PurgeDeletedFiles(u, S) \/ PurgeStopsHalfway(u, S)
  PROVE  TypeOK'
<1>1. ASSUME NEW P
      PROVE  /\ DOMAIN Erase(file, P) \subseteq FileId
             /\ Erase(file, P) \in [DOMAIN Erase(file, P) -> FileRecord]
  <2>1. DOMAIN file \subseteq FileId /\ file \in [DOMAIN file -> FileRecord]
    BY DEF TypeOK
  <2> QED
    BY <2>1 DEF Erase
<1>2. CASE PurgeDeletedFiles(u, S)
  <2>1. user' \in [Users -> UserRecord]
    BY <1>2, WithoutType DEF PurgeDeletedFiles
  <2>2. DOMAIN file' \subseteq FileId /\ file' \in [DOMAIN file' -> FileRecord]
    BY <1>1, <1>2 DEF PurgeDeletedFiles
  <2>3. stored' \subseteq stored
    BY <1>2 DEF PurgeDeletedFiles
  <2> QED
    BY <1>2, <2>1, <2>2, <2>3 DEF PurgeDeletedFiles, TypeOK
<1>3. CASE PurgeStopsHalfway(u, S)
  <2>1. DOMAIN file' \subseteq FileId /\ file' \in [DOMAIN file' -> FileRecord]
    BY <1>1, <1>3 DEF PurgeStopsHalfway
  <2>2. stored' \subseteq stored
    BY <1>3 DEF PurgeStopsHalfway
  <2> QED
    BY <1>3, <2>1, <2>2 DEF PurgeStopsHalfway, TypeOK
<1> QED
  BY <1>2, <1>3

\* Recovering puts files back into directories that exist.
LEMMA HomeType ==
  ASSUME TypeOK, NEW u \in Users, NEW f \in DOMAIN file
  PROVE  Home(u, f) \in DirId
BY DEF TypeOK, Home, UserRecord, FileRecord

LEMMA RecoverTablesOK ==
  ASSUME TypeOK, NEW u \in Users, NEW P \in SUBSET FileId, NEW Q
  PROVE  /\ MoveHome(u, P) => /\ dir' \in [DOMAIN dir' -> DirRecord]
                              /\ DOMAIN dir' = DOMAIN dir
         /\ Readopt(u, Q) => /\ file' \in [DOMAIN file' -> FileRecord]
                             /\ DOMAIN file' = DOMAIN file
<1>1. ASSUME MoveHome(u, P)
      PROVE  dir' \in [DOMAIN dir' -> DirRecord] /\ DOMAIN dir' = DOMAIN dir
  <2>1. ASSUME NEW d \in DOMAIN dir
        PROVE  [dir[d] EXCEPT !.files_contained = @ \cup {f \in P : Home(u, f) = d}] \in DirRecord
    <3> DEFINE back == {f \in P : Home(u, f) = d}
    <3>1. dir[d] \in DirRecord /\ back \in SUBSET FileId
      BY DEF TypeOK
    <3> HIDE DEF back
    <3> QED
      BY <3>1 DEF DirRecord, back
  <2> QED
    BY <1>1, <2>1 DEF MoveHome
<1>2. ASSUME Readopt(u, Q)
      PROVE  file' \in [DOMAIN file' -> FileRecord] /\ DOMAIN file' = DOMAIN file
  <2>1. ASSUME NEW f \in DOMAIN file
        PROVE  /\ [file[f] EXCEPT !.parent_directory = Home(u, f)] \in FileRecord
               /\ file[f] \in FileRecord
    BY HomeType DEF TypeOK, FileRecord
  <2> QED
    BY <1>2, <2>1 DEF Readopt
<1> QED
  BY <1>1, <1>2

LEMMA RecoverTypeOK ==
  ASSUME TypeOK, NEW u \in Users, NEW S \in SUBSET FileId,
         RecoverDeletedFiles(u, S) \/ RecoverStopsHalfway(u, S)
  PROVE  TypeOK'
<1>1. CASE RecoverDeletedFiles(u, S)
  <2>1. MoveHome(u, S) /\ Readopt(u, S) /\ user' = Without(u, S)
    BY <1>1 DEF RecoverDeletedFiles
  <2> QED
    BY <1>1, <2>1, WithoutType, RecoverTablesOK DEF RecoverDeletedFiles, TypeOK
<1>2. CASE RecoverStopsHalfway(u, S)
  <2>1. PICK P, Q : P \in SUBSET FileId /\ MoveHome(u, P) /\ Readopt(u, Q)
    BY <1>2 DEF RecoverStopsHalfway
  <2> QED
    BY <1>2, <2>1, RecoverTablesOK DEF RecoverStopsHalfway, TypeOK
<1> QED
  BY <1>1, <1>2

LEMMA NextTypeOK ==
  ASSUME CatalogAssumption, TypeOK, [Next]_vars
  PROVE  TypeOK'
<1>1. CASE UNCHANGED vars
  BY <1>1 DEF vars, TypeOK
<1>2. ASSUME NEW u \in Users, NEW d \in DirId,
             NewDirectoryInDeleted(u, d)
      PROVE  TypeOK'
  <2>1. ticket' \in [dir : 1 .. MaxDir + 1, file : 1 .. MaxFile + 1]
    BY <1>2 DEF NewDirectoryInDeleted, TypeOK, CatalogAssumption
  <2> QED
    BY <1>2, <2>1 DEF NewDirectoryInDeleted, TypeOK
<1>3. ASSUME NEW u \in Users, NEW f \in FileId, NEW n \in Names, ModifyFileInfo(u, f, n)
      PROVE  TypeOK'
  <2>1. file' \in [DOMAIN file' -> FileRecord] /\ DOMAIN file' = DOMAIN file
    BY <1>3 DEF ModifyFileInfo, TypeOK, FileRecord
  <2> QED
    BY <1>3, <2>1 DEF ModifyFileInfo, TypeOK
<1>4. ASSUME NEW u \in Users, NEW d \in DirId,
             \/ NewDirectory(u, d) \/ DeleteDirectory(u, d) \/ DeleteDirectoryStopsHalfway(u, d)
             \/ \E n \in Names : NewFile(u, d, n) \/ NewFileNotSaved(u, d, n)
             \/ \E f \in FileId : NewRevision(u, d, f) \/ NewRevisionNotSaved(u, d, f)
      PROVE  TypeOK'
  BY <1>4, DeleteDirectoryTypeOK, NewDirectoryTypeOK, NewFileTypeOK, NewFileNotSavedTypeOK, NewRevisionTypeOK
<1>5. ASSUME NEW u \in Users, NEW f \in FileId,
             \/ DeleteFile(u, f) \/ DeleteFileOfDeletedDirectory(u, f) \/ LeaveSharedFile(u, f)
             \/ \E v \in Users : SetFileShare(u, f, v) \/ UnsetFileShare(u, f, v)
             \/ \E V \in SUBSET Users : OverwriteFileSharing(u, f, V)
      PROVE  TypeOK'
  <2>1. u \in Users /\ {} \in SUBSET Users
    OBVIOUS
  <2> QED
    BY <1>5, <2>1, ShareTypeOK, DeleteFileTypeOK
<1>6. ASSUME NEW u \in Users, NEW S \in SUBSET FileId,
             \/ PurgeDeletedFiles(u, S) \/ PurgeStopsHalfway(u, S)
             \/ RecoverDeletedFiles(u, S) \/ RecoverStopsHalfway(u, S)
      PROVE  TypeOK'
  BY <1>6, PurgeTypeOK, RecoverTypeOK
<1> QED
  BY <1>1, <1>2, <1>3, <1>4, <1>5, <1>6 DEF Next

\* Every record has its fields and every list holds ids of its kind, in every
\* state any sequence of requests can reach.
THEOREM TypeCorrect == Spec => []TypeOK
<1> USE CatalogAssumption
<1>1. Init => TypeOK
  BY InitTypeOK
<1>2. TypeOK /\ [Next]_vars => TypeOK'
  BY NextTypeOK
<1> QED
  BY <1>1, <1>2, PTL DEF Spec

----------------------------------------------------------------------------
(* Ids.  What a record or a list names was once drawn from a ticket, and a  *)
(* list of deleted files has its owner's files only.                        *)

Ids ==
  /\ IdsBelowTicket
  /\ \A u \in Users : user[u].dir_root < ticket.dir
  /\ \A u \in Users : \A f \in Trash(u) :
       f < ticket.file /\ (f \in DOMAIN file => file[f].owner = u)

\* The effect of a deletion, field by field.
LEMMA TrashEffect ==
  ASSUME TypeOK, NEW F, TrashAndUnlist(F), NEW v \in Users
  PROVE  /\ user'[v].dir_root = user[v].dir_root
         /\ \A f \in FileId :
              user'[v].files_deleted[f] = IF f \in F /\ file[f].owner = v
                                          THEN user[v].files_deleted[f] + 1
                                          ELSE user[v].files_deleted[f]
         /\ user'[v].shared_files = user[v].shared_files \ {f \in F : v \in file[f].users_shared}
<1> DEFINE copies == [f \in FileId |-> IF f \in F /\ file[f].owner = v
                                       THEN user[v].files_deleted[f] + 1
                                       ELSE user[v].files_deleted[f]]
           listed == user[v].shared_files \ {f \in F : v \in file[f].users_shared}
<1>1. user'[v] = [user[v] EXCEPT !.files_deleted = copies, !.shared_files = listed]
  BY DEF TrashAndUnlist
<1>2. user[v] \in UserRecord
  BY DEF TypeOK
<1>3. /\ user'[v].dir_root = user[v].dir_root
      /\ user'[v].files_deleted = copies
      /\ user'[v].shared_files = listed
  <2> HIDE DEF copies, listed
  <2> QED
    BY <1>1, <1>2 DEF UserRecord
<1> QED
  BY <1>3

LEMMA UnshareEffect ==
  ASSUME TypeOK, NEW F, Unshare(F)
  PROVE  /\ DOMAIN file' = DOMAIN file
         /\ \A f \in DOMAIN file :
              /\ file'[f].owner = file[f].owner
              /\ file'[f].revision = file[f].revision
              /\ file'[f].parent_directory = file[f].parent_directory
              /\ file'[f].users_shared = IF f \in F THEN {} ELSE file[f].users_shared
BY DEF Unshare, TypeOK, FileRecord

\* The effect of emptying a part of a list of deleted files.
LEMMA WithoutEffect ==
  ASSUME TypeOK, NEW u \in Users, NEW S, user' = Without(u, S), NEW v \in Users
  PROVE  /\ user'[v].dir_root = user[v].dir_root
         /\ user'[v].shared_files = user[v].shared_files
         /\ \A f \in FileId :
              user'[v].files_deleted[f] = IF v = u /\ f \in S THEN 0
                                          ELSE user[v].files_deleted[f]
<1> DEFINE copies == [f \in FileId |-> IF f \in S THEN 0 ELSE user[u].files_deleted[f]]
<1>1. user' = [user EXCEPT ![u].files_deleted = copies]
  BY DEF Without
<1>2. user \in [Users -> UserRecord]
  BY DEF TypeOK
<1>3. /\ user'[v].dir_root = user[v].dir_root
      /\ user'[v].shared_files = user[v].shared_files
      /\ user'[v].files_deleted = IF v = u THEN copies ELSE user[v].files_deleted
  <2> HIDE DEF copies
  <2> QED
    BY <1>1, <1>2 DEF UserRecord
<1> QED
  BY <1>3

LEMMA InitIds == ASSUME CatalogAssumption, Init PROVE Ids
<1>1. \A d \in DOMAIN dir : d < ticket.dir
  BY DEF Init, CatalogAssumption
<1>2. \A u \in Users : user[u].dir_root < ticket.dir /\ Trash(u) = {}
  BY DEF Init, CatalogAssumption, Users, Trash
<1>3. DOMAIN file = {}
  BY DEF Init
<1> QED
  BY <1>1, <1>2, <1>3 DEF Ids, IdsBelowTicket

\* A deletion keeps the ids: it trashes files that exist, for their owners.
LEMMA TrashIds ==
  ASSUME TypeOK, Ids, NEW F \in SUBSET DOMAIN file, TrashAndUnlist(F), Unshare(F),
         DOMAIN dir' \subseteq DOMAIN dir, UNCHANGED ticket
  PROVE  Ids'
<1>1. IdsBelowTicket'
  BY UnshareEffect DEF Ids, IdsBelowTicket
<1>2. \A v \in Users : user'[v].dir_root < ticket'.dir
  BY TrashEffect DEF Ids
<1>3. ASSUME NEW v \in Users, NEW f \in Trash(v)'
      PROVE  f < ticket'.file /\ (f \in DOMAIN file' => file'[f].owner = v)
  <2>1. f \in FileId /\ user'[v].files_deleted[f] > 0
    BY <1>3 DEF Trash
  <2>2. CASE f \in F /\ file[f].owner = v
    BY <2>2, UnshareEffect DEF Ids, IdsBelowTicket
  <2>3. CASE ~(f \in F /\ file[f].owner = v)
    <3>1. f \in Trash(v)
      BY <2>1, <2>3, TrashEffect DEF Trash
    <3> QED
      BY <3>1, UnshareEffect DEF Ids
  <2> QED
    BY <2>2, <2>3
<1> QED
  BY <1>1, <1>2, <1>3 DEF Ids

\* The effect of recovering files.
LEMMA ReadoptEffect ==
  ASSUME TypeOK, NEW u \in Users, NEW P, Readopt(u, P)
  PROVE  /\ DOMAIN file' = DOMAIN file
         /\ \A f \in DOMAIN file :
              /\ file'[f].owner = file[f].owner
              /\ file'[f].revision = file[f].revision
              /\ file'[f].users_shared = file[f].users_shared
              /\ file'[f].parent_directory = IF f \in P THEN Home(u, f)
                                             ELSE file[f].parent_directory
BY DEF Readopt, TypeOK, FileRecord

LEMMA MoveHomeEffect ==
  ASSUME TypeOK, NEW u \in Users, NEW P, MoveHome(u, P)
  PROVE  /\ DOMAIN dir' = DOMAIN dir
         /\ \A d \in DOMAIN dir :
              /\ dir'[d].owner = dir[d].owner
              /\ dir'[d].parent_directory = dir[d].parent_directory
              /\ dir'[d].directories_contained = dir[d].directories_contained
              /\ dir'[d].files_contained = dir[d].files_contained
                                             \cup {f \in P : Home(u, f) = d}
<1>1. DOMAIN dir' = DOMAIN dir
  BY DEF MoveHome
<1>2. ASSUME NEW d \in DOMAIN dir
      PROVE  /\ dir'[d].owner = dir[d].owner
             /\ dir'[d].parent_directory = dir[d].parent_directory
             /\ dir'[d].directories_contained = dir[d].directories_contained
             /\ dir'[d].files_contained = dir[d].files_contained
                                            \cup {f \in P : Home(u, f) = d}
  <2> DEFINE back == {f \in P : Home(u, f) = d}
  <2>1. dir'[d] = [dir[d] EXCEPT !.files_contained = @ \cup back] /\ dir[d] \in DirRecord
    BY DEF MoveHome, TypeOK
  <2> HIDE DEF back
  <2> SUFFICES /\ dir'[d].owner = dir[d].owner
               /\ dir'[d].parent_directory = dir[d].parent_directory
               /\ dir'[d].directories_contained = dir[d].directories_contained
               /\ dir'[d].files_contained = dir[d].files_contained \cup back
    BY DEF back
  <2> QED
    BY <2>1 DEF DirRecord
<1> QED
  BY <1>1, <1>2

LEMMA RecoverIds ==
  ASSUME TypeOK, Ids, NEW u \in Users, NEW S \in SUBSET FileId,
         RecoverDeletedFiles(u, S) \/ RecoverStopsHalfway(u, S)
  PROVE  Ids'
<1>1. PICK P, Q : MoveHome(u, P) /\ Readopt(u, Q)
  BY DEF RecoverDeletedFiles, RecoverStopsHalfway
<1>2. UNCHANGED ticket
  BY DEF RecoverDeletedFiles, RecoverStopsHalfway
<1>3. \A f \in DOMAIN file : Home(u, f) < ticket.dir
  BY DEF Ids, IdsBelowTicket, Home
<1>4. IdsBelowTicket'
  BY <1>1, <1>2, <1>3, ReadoptEffect, MoveHomeEffect DEF Ids, IdsBelowTicket
<1>5. user' = user \/ user' = Without(u, S)
  BY DEF RecoverDeletedFiles, RecoverStopsHalfway
<1>6. \A v \in Users : user'[v].dir_root = user[v].dir_root /\ Trash(v)' \subseteq Trash(v)
  <2>1. CASE user' = user
    BY <2>1 DEF Trash
  <2>2. CASE user' = Without(u, S)
    BY <2>2, WithoutEffect DEF Trash
  <2> QED
    BY <1>5, <2>1, <2>2
<1> QED
  BY <1>1, <1>2, <1>4, <1>6, ReadoptEffect DEF Ids

LEMMA PurgeIds ==
  ASSUME TypeOK, Ids, NEW u \in Users, NEW S \in SUBSET FileId,
         PurgeDeletedFiles(u, S) \/ PurgeStopsHalfway(u, S)
  PROVE  Ids'
<1>1. PICK P : file' = Erase(file, P)
  BY DEF PurgeDeletedFiles, PurgeStopsHalfway
<1>2. UNCHANGED <<dir, ticket>> /\ (user' = user \/ user' = Without(u, S))
  BY DEF PurgeDeletedFiles, PurgeStopsHalfway
<1>3. IdsBelowTicket'
  BY <1>1, <1>2 DEF Ids, IdsBelowTicket, Erase
<1>4. \A v \in Users : user'[v].dir_root = user[v].dir_root /\ Trash(v)' \subseteq Trash(v)
  <2>1. CASE user' = user
    BY <2>1 DEF Trash
  <2>2. CASE user' = Without(u, S)
    BY <2>2, WithoutEffect DEF Trash
  <2> QED
    BY <1>2, <2>1, <2>2
<1> QED
  BY <1>1, <1>2, <1>3, <1>4 DEF Ids, Erase

LEMMA DeleteIds ==
  ASSUME TypeOK, Ids, NEW u \in Users,
         \/ \E f \in FileId : DeleteFile(u, f) \/ DeleteFileOfDeletedDirectory(u, f)
         \/ \E d \in DirId : DeleteDirectory(u, d) \/ DeleteDirectoryStopsHalfway(u, d)
  PROVE  Ids'
<1>1. ASSUME NEW f \in FileId, DeleteFile(u, f)
      PROVE  Ids'
  <2>1. /\ {f} \in SUBSET DOMAIN file /\ TrashAndUnlist({f}) /\ Unshare({f})
        /\ DOMAIN dir' \subseteq DOMAIN dir /\ UNCHANGED ticket
    BY <1>1 DEF DeleteFile
  <2> QED
    BY <2>1, TrashIds
<1>2. ASSUME NEW f \in FileId, DeleteFileOfDeletedDirectory(u, f)
      PROVE  Ids'
  <2>1. \A v \in Users : /\ user'[v].dir_root = user[v].dir_root
                         /\ \A g \in FileId : user'[v].files_deleted[g] > 0 =>
                              user[v].files_deleted[g] > 0 \/ (v = u /\ g = f)
    BY <1>2 DEF DeleteFileOfDeletedDirectory, TypeOK, UserRecord
  <2>2. f \in DOMAIN file /\ file[f].owner = u /\ UNCHANGED <<dir, file, ticket>>
    BY <1>2 DEF DeleteFileOfDeletedDirectory
  <2> QED
    BY <2>1, <2>2 DEF Ids, IdsBelowTicket, Trash
<1>3. ASSUME NEW d \in DirId, DeleteDirectory(u, d)
      PROVE  Ids'
  <2> DEFINE F == FilesIn(Subtree(d))
  <2>1. F \in SUBSET DOMAIN file
    BY <1>3 DEF DeleteDirectory, Intact, FilesIn
  <2>2. /\ TrashAndUnlist(F) /\ Unshare(F)
        /\ DOMAIN dir' \subseteq DOMAIN dir /\ UNCHANGED ticket
    BY <1>3 DEF DeleteDirectory
  <2> QED
    BY <2>1, <2>2, TrashIds
<1>4. ASSUME NEW d \in DirId, DeleteDirectoryStopsHalfway(u, d)
      PROVE  Ids'
  <2>1. PICK F \in SUBSET DOMAIN file :
          /\ TrashAndUnlist(F) /\ Unshare(F)
          /\ DOMAIN dir' \subseteq DOMAIN dir
    BY <1>4 DEF DeleteDirectoryStopsHalfway
  <2>2. UNCHANGED ticket
    BY <1>4 DEF DeleteDirectoryStopsHalfway
  <2> QED
    BY <2>1, <2>2, TrashIds
<1> QED
  BY <1>1, <1>2, <1>3, <1>4

\* Requests about names and shares leave alone what Ids is about.
LEMMA QuietIds ==
  ASSUME Ids, UNCHANGED <<dir, ticket>>, DOMAIN file' = DOMAIN file,
         \A v \in Users : /\ user'[v].dir_root = user[v].dir_root
                          /\ user'[v].files_deleted = user[v].files_deleted,
         \A f \in DOMAIN file : /\ file'[f].owner = file[f].owner
                                /\ file'[f].parent_directory = file[f].parent_directory
  PROVE  Ids'
BY DEF Ids, IdsBelowTicket, Trash

LEMMA ShareEffect ==
  ASSUME TypeOK, NEW u \in Users, NEW f \in FileId,
         \/ LeaveSharedFile(u, f)
         \/ \E n \in Names : ModifyFileInfo(u, f, n)
         \/ \E v \in Users : SetFileShare(u, f, v) \/ UnsetFileShare(u, f, v)
         \/ \E V \in SUBSET Users : OverwriteFileSharing(u, f, V)
  PROVE  /\ UNCHANGED <<dir, stored, ticket>>
         /\ DOMAIN file' = DOMAIN file
         /\ \A v \in Users : /\ user'[v].dir_root = user[v].dir_root
                             /\ user'[v].files_deleted = user[v].files_deleted
         /\ \A g \in DOMAIN file : /\ file'[g].owner = file[g].owner
                                   /\ file'[g].revision = file[g].revision
                                   /\ file'[g].parent_directory = file[g].parent_directory
<1>1. CASE LeaveSharedFile(u, f)
  BY <1>1 DEF LeaveSharedFile, TypeOK, UserRecord, FileRecord
<1>2. ASSUME NEW n \in Names, ModifyFileInfo(u, f, n)
      PROVE  /\ UNCHANGED <<dir, stored, ticket>> /\ UNCHANGED user
             /\ DOMAIN file' = DOMAIN file
             /\ \A g \in DOMAIN file : /\ file'[g].owner = file[g].owner
                                       /\ file'[g].revision = file[g].revision
                                       /\ file'[g].parent_directory = file[g].parent_directory
  BY <1>2 DEF ModifyFileInfo, TypeOK, UserRecord, FileRecord
<1>3. ASSUME NEW v \in Users, SetFileShare(u, f, v) \/ UnsetFileShare(u, f, v)
      PROVE  /\ UNCHANGED <<dir, stored, ticket>>
             /\ DOMAIN file' = DOMAIN file
             /\ \A w \in Users : /\ user'[w].dir_root = user[w].dir_root
                                 /\ user'[w].files_deleted = user[w].files_deleted
             /\ \A g \in DOMAIN file : /\ file'[g].owner = file[g].owner
                                       /\ file'[g].revision = file[g].revision
                                       /\ file'[g].parent_directory = file[g].parent_directory
  <2>1. CASE SetFileShare(u, f, v)
    BY <2>1 DEF SetFileShare, TypeOK, UserRecord, FileRecord
  <2>2. CASE UnsetFileShare(u, f, v)
    BY <2>2 DEF UnsetFileShare, TypeOK, UserRecord, FileRecord
  <2> QED
    BY <1>3, <2>1, <2>2
<1>4. ASSUME NEW V \in SUBSET Users, OverwriteFileSharing(u, f, V)
      PROVE  /\ UNCHANGED <<dir, stored, ticket>>
             /\ DOMAIN file' = DOMAIN file
             /\ \A w \in Users : /\ user'[w].dir_root = user[w].dir_root
                                 /\ user'[w].files_deleted = user[w].files_deleted
             /\ \A g \in DOMAIN file : /\ file'[g].owner = file[g].owner
                                       /\ file'[g].revision = file[g].revision
                                       /\ file'[g].parent_directory = file[g].parent_directory
  <2>1. ASSUME NEW w \in Users
        PROVE  /\ user'[w].dir_root = user[w].dir_root
               /\ user'[w].files_deleted = user[w].files_deleted
    <3>1. PICK T : user'[w] = [user[w] EXCEPT !.shared_files = T]
      BY <1>4 DEF OverwriteFileSharing
    <3> QED
      BY <3>1 DEF TypeOK, UserRecord
  <2> QED
    BY <1>4, <2>1 DEF OverwriteFileSharing, TypeOK, FileRecord
<1> QED
  BY <1>1, <1>2, <1>3, <1>4

LEMMA CreateIds ==
  ASSUME CatalogAssumption, TypeOK, Ids, NEW u \in Users, NEW p \in DirId,
         \/ NewDirectory(u, p) \/ NewDirectoryInDeleted(u, p)
         \/ \E n \in Names : NewFile(u, p, n) \/ NewFileNotSaved(u, p, n)
         \/ \E g \in FileId : NewRevision(u, p, g) \/ NewRevisionNotSaved(u, p, g)
  PROVE  Ids'
<1>1. /\ ticket.dir \in Nat /\ ticket.file \in Nat /\ ticket \in [dir : Nat, file : Nat]
      /\ DOMAIN dir \subseteq Nat /\ DOMAIN file \subseteq Nat
      /\ \A d \in DirId \cup FileId : d \in Nat
      /\ \A v \in Users : user[v].dir_root \in Nat
      /\ \A f \in DOMAIN file : file[f].parent_directory \in Nat
  <2>1. DirId \subseteq Nat /\ FileId \subseteq Nat
    BY DEF DirId, FileId
  <2>2. ticket.dir \in Nat /\ ticket.file \in Nat /\ ticket \in [dir : Nat, file : Nat]
    BY DEF TypeOK, CatalogAssumption
  <2>3. DOMAIN dir \subseteq DirId /\ DOMAIN file \subseteq FileId
    BY DEF TypeOK
  <2>4. /\ \A v \in Users : user[v].dir_root \in DirId
        /\ \A f \in DOMAIN file : file[f].parent_directory \in DirId
    BY DEF TypeOK, UserRecord, FileRecord
  <2> QED
    BY <2>1, <2>2, <2>3, <2>4
<1>2. CASE NewDirectory(u, p)
  <2>1. /\ DOMAIN dir' = DOMAIN dir \cup {ticket.dir}
        /\ ticket'.dir = ticket.dir + 1 /\ ticket'.file = ticket.file
        /\ UNCHANGED <<user, file>>
    BY <1>1, <1>2 DEF NewDirectory, Put
  <2> QED
    BY <1>1, <2>1 DEF Ids, IdsBelowTicket, Trash
<1>3. CASE NewDirectoryInDeleted(u, p)
  <2>1. /\ ticket'.dir = ticket.dir + 1 /\ ticket'.file = ticket.file
        /\ UNCHANGED <<user, dir, file>>
    BY <1>1, <1>3 DEF NewDirectoryInDeleted
  <2> QED
    BY <1>1, <2>1 DEF Ids, IdsBelowTicket, Trash
<1>4. ASSUME NEW n \in Names, NewFile(u, p, n)
      PROVE  Ids'
  <2>1. /\ DOMAIN file' = DOMAIN file \cup {ticket.file} /\ DOMAIN dir' = DOMAIN dir
        /\ ticket'.dir = ticket.dir /\ ticket'.file = ticket.file + 1
        /\ user' = user
    BY <1>1, <1>4 DEF NewFile, Put
  <2>2. /\ \A f \in DOMAIN file : f # ticket.file /\ file'[f] = file[f]
        /\ file'[ticket.file].parent_directory = p /\ p \in DOMAIN dir
    BY <1>1, <1>4 DEF NewFile, Put, NewRecord, Ids, IdsBelowTicket
  <2>3. IdsBelowTicket'
    BY <1>1, <2>1, <2>2 DEF Ids, IdsBelowTicket
  <2>4. ASSUME NEW v \in Users, NEW f \in Trash(v)'
        PROVE  f < ticket'.file /\ (f \in DOMAIN file' => file'[f].owner = v)
    <3>1. f \in Trash(v) /\ f \in Nat
      BY <1>1, <2>1 DEF Trash
    <3>2. f < ticket.file /\ (f \in DOMAIN file => file[f].owner = v)
      BY <3>1 DEF Ids
    <3> QED
      BY <1>1, <2>1, <2>2, <3>1, <3>2
  <2> QED
    BY <1>1, <2>1, <2>3, <2>4 DEF Ids
<1>5. ASSUME NEW n \in Names, NewFileNotSaved(u, p, n)
      PROVE  Ids'
  <2>1. /\ DOMAIN dir' = DOMAIN dir
        /\ ticket'.dir = ticket.dir /\ ticket'.file = ticket.file + 1
        /\ UNCHANGED <<user, file>>
    BY <1>1, <1>5 DEF NewFileNotSaved
  <2> QED
    BY <1>1, <2>1 DEF Ids, IdsBelowTicket, Trash
<1>6. ASSUME NEW g \in FileId, NewRevision(u, p, g) \/ NewRevisionNotSaved(u, p, g)
      PROVE  Ids'
  <2>1. /\ UNCHANGED <<user, dir, ticket>> /\ DOMAIN file' = DOMAIN file
        /\ \A f \in DOMAIN file : /\ file'[f].owner = file[f].owner
                                  /\ file'[f].parent_directory = file[f].parent_directory
    BY <1>6 DEF NewRevision, NewRevisionNotSaved, TypeOK, FileRecord
  <2> QED
    BY <2>1, QuietIds
<1> QED
  BY <1>2, <1>3, <1>4, <1>5, <1>6

LEMMA NextIds ==
  ASSUME CatalogAssumption, TypeOK, Ids, [Next]_vars
  PROVE  Ids'
<1>1. CASE UNCHANGED vars
  BY <1>1 DEF vars, Ids, IdsBelowTicket, Trash
<1>2. ASSUME NEW u \in Users, NEW d \in DirId,
             \/ NewDirectory(u, d) \/ NewDirectoryInDeleted(u, d)
             \/ DeleteDirectory(u, d) \/ DeleteDirectoryStopsHalfway(u, d)
             \/ \E n \in Names : NewFile(u, d, n) \/ NewFileNotSaved(u, d, n)
             \/ \E f \in FileId : NewRevision(u, d, f) \/ NewRevisionNotSaved(u, d, f)
      PROVE  Ids'
  BY <1>2, CreateIds, DeleteIds
<1>3. ASSUME NEW u \in Users, NEW f \in FileId,
             \/ DeleteFile(u, f) \/ DeleteFileOfDeletedDirectory(u, f) \/ LeaveSharedFile(u, f)
             \/ \E n \in Names : ModifyFileInfo(u, f, n)
             \/ \E v \in Users : SetFileShare(u, f, v) \/ UnsetFileShare(u, f, v)
             \/ \E V \in SUBSET Users : OverwriteFileSharing(u, f, V)
      PROVE  Ids'
  <2>1. CASE DeleteFile(u, f) \/ DeleteFileOfDeletedDirectory(u, f)
    BY <2>1, DeleteIds
  <2>2. CASE ~(DeleteFile(u, f) \/ DeleteFileOfDeletedDirectory(u, f))
    BY <1>3, <2>2, ShareEffect, QuietIds
  <2> QED
    BY <2>1, <2>2
<1>4. ASSUME NEW u \in Users, NEW S \in SUBSET FileId,
             \/ PurgeDeletedFiles(u, S) \/ PurgeStopsHalfway(u, S)
             \/ RecoverDeletedFiles(u, S) \/ RecoverStopsHalfway(u, S)
      PROVE  Ids'
  BY <1>4, PurgeIds, RecoverIds
<1> QED
  BY <1>1, <1>2, <1>3, <1>4 DEF Next

\* Ids are never reused: whatever exists, and the directory a trashed file
\* remembers, was drawn before the next ticket.
THEOREM TicketsAreFresh == Spec => []Ids
<1> USE CatalogAssumption
<1>1. Init => TypeOK /\ Ids
  BY InitTypeOK, InitIds
<1>2. TypeOK /\ Ids /\ [Next]_vars => TypeOK' /\ Ids'
  BY NextTypeOK, NextIds
<1> QED
  BY <1>1, <1>2, PTL DEF Spec

----------------------------------------------------------------------------
(* A file is forgotten only from its owner's trash.                         *)

LEMMA NextForgetsTrash ==
  ASSUME TypeOK, Ids, [Next]_vars, NEW f \in DOMAIN file
  PROVE  f \in DOMAIN file' \/ InTrash(f)
<1>1. CASE UNCHANGED vars
  BY <1>1 DEF vars
<1>2. ASSUME NEW u \in Users, NEW d \in DirId,
             \/ NewDirectory(u, d) \/ NewDirectoryInDeleted(u, d)
             \/ DeleteDirectory(u, d) \/ DeleteDirectoryStopsHalfway(u, d)
             \/ \E n \in Names : NewFile(u, d, n) \/ NewFileNotSaved(u, d, n)
             \/ \E g \in FileId : NewRevision(u, d, g) \/ NewRevisionNotSaved(u, d, g)
      PROVE  DOMAIN file \subseteq DOMAIN file'
  BY <1>2 DEF NewDirectory, NewDirectoryInDeleted, DeleteDirectory, DeleteDirectoryStopsHalfway,
     NewFile, NewFileNotSaved, NewRevision, NewRevisionNotSaved, Unshare, Put
<1>3. ASSUME NEW u \in Users, NEW g \in FileId,
             \/ DeleteFile(u, g) \/ DeleteFileOfDeletedDirectory(u, g) \/ LeaveSharedFile(u, g)
             \/ \E n \in Names : ModifyFileInfo(u, g, n)
             \/ \E v \in Users : SetFileShare(u, g, v) \/ UnsetFileShare(u, g, v)
             \/ \E V \in SUBSET Users : OverwriteFileSharing(u, g, V)
      PROVE  DOMAIN file \subseteq DOMAIN file'
  <2>1. CASE DeleteFile(u, g) \/ DeleteFileOfDeletedDirectory(u, g)
    BY <2>1 DEF DeleteFile, DeleteFileOfDeletedDirectory, Unshare
  <2>2. CASE ~(DeleteFile(u, g) \/ DeleteFileOfDeletedDirectory(u, g))
    BY <1>3, <2>2, ShareEffect
  <2> QED
    BY <2>1, <2>2
<1>4. ASSUME NEW u \in Users, NEW S \in SUBSET FileId,
             PurgeDeletedFiles(u, S) \/ PurgeStopsHalfway(u, S)
      PROVE  f \in DOMAIN file' \/ InTrash(f)
  <2>1. PICK P \in SUBSET Trash(u) : file' = Erase(file, P)
    BY <1>4 DEF PurgeDeletedFiles, PurgeStopsHalfway
  <2>2. CASE f \notin P
    BY <2>1, <2>2 DEF Erase
  <2>3. CASE f \in P
    BY <2>1, <2>3 DEF Ids, InTrash
  <2> QED
    BY <2>2, <2>3
<1>5. ASSUME NEW u \in Users, NEW S \in SUBSET FileId,
             RecoverDeletedFiles(u, S) \/ RecoverStopsHalfway(u, S)
      PROVE  DOMAIN file \subseteq DOMAIN file'
  BY <1>5 DEF RecoverDeletedFiles, RecoverStopsHalfway, Readopt
<1> QED
  BY <1>1, <1>2, <1>3, <1>4, <1>5 DEF Next

\* No request, careful or not, destroys a file its owner has not deleted before.
THEOREM NothingIsForgotten == Spec => OnlyTrashIsForgotten
<1> USE CatalogAssumption
<1>1. Init => TypeOK /\ Ids
  BY InitTypeOK, InitIds
<1>2. TypeOK /\ Ids /\ [Next]_vars => TypeOK' /\ Ids'
  BY NextTypeOK, NextIds
<1>3. TypeOK /\ Ids /\ [Next]_vars
        => [\A f \in DOMAIN file : f \in DOMAIN file' \/ InTrash(f)]_vars
  BY NextForgetsTrash
<1> QED
  BY <1>1, <1>2, <1>3, PTL DEF Spec, OnlyTrashIsForgotten

----------------------------------------------------------------------------
(* Climbing to the root.  That the parent of a directory exists survives a  *)
(* deletion because the parent lists the child, so that whoever deletes the *)
(* parent meets the child on its way down.                                  *)

ChildrenListed ==
  \A d \in DOMAIN dir : dir[d].parent_directory # NoParent =>
    d \in dir[dir[d].parent_directory].directories_contained

Climb == ClimbsEnd /\ ChildrenListed

\* A subtree has its top, and with a directory everything this one lists.
LEMMA SubtreeTop ==
  ASSUME NEW d \in DOMAIN dir
  PROVE  d \in Subtree(d)
BY DEF Subtree

LEMMA SubtreeClosed ==
  ASSUME NEW d, NEW x \in Subtree(d), NEW c \in DOMAIN dir, c \in dir[x].directories_contained
  PROVE  c \in Subtree(d)
BY DEF Subtree

LEMMA InitClimb == ASSUME CatalogAssumption, Init PROVE Climb
<1> SUFFICES ASSUME NEW d \in DOMAIN dir, dir[d].parent_directory # NoParent
             PROVE  /\ dir[d].parent_directory \in DOMAIN dir
                    /\ dir[d].parent_directory < d
                    /\ d \in dir[dir[d].parent_directory].directories_contained
  BY DEF Climb, ClimbsEnd, ChildrenListed
<1>1. DOMAIN dir = 1 .. 2 * NumUsers
  BY DEF Init
<1>2. CASE d % 2 = 1
  BY <1>1, <1>2 DEF Init, EmptyDir
<1>3. CASE d % 2 # 1
  <2>1. dir[d].parent_directory = d - 1
    BY <1>1, <1>3 DEF Init, EmptyDir
  <2>2. d - 1 \in DOMAIN dir /\ (d - 1) % 2 = 1 /\ d - 1 < d /\ d = (d - 1) + 1
    BY <1>1, <1>3 DEF CatalogAssumption
  <2>3. dir[d - 1].directories_contained = {d}
    BY <1>1, <2>2 DEF Init, EmptyDir
  <2> QED
    BY <2>1, <2>2, <2>3
<1> QED
  BY <1>2, <1>3

\* What lists and parents leave alone keeps the climb.
LEMMA QuietClimb ==
  ASSUME Climb, DOMAIN dir' = DOMAIN dir,
         \A d \in DOMAIN dir :
           /\ dir'[d].parent_directory = dir[d].parent_directory
           /\ dir'[d].directories_contained = dir[d].directories_contained
  PROVE  Climb'
BY DEF Climb, ClimbsEnd, ChildrenListed

LEMMA NewDirectoryClimb ==
  ASSUME CatalogAssumption, TypeOK, Ids, Climb,
         NEW u \in Users, NEW p \in DirId, NewDirectory(u, p)
  PROVE  Climb'
<1> DEFINE t == ticket.dir
<1>1. /\ p \in DOMAIN dir /\ p < t
      /\ t \notin DOMAIN dir
  BY DEF NewDirectory, Ids, IdsBelowTicket, TypeOK, CatalogAssumption
<1>2. DOMAIN dir' = DOMAIN dir \cup {t}
  BY DEF NewDirectory, Put
<1>3. dir'[t].parent_directory = p
  BY DEF NewDirectory, Put, EmptyDir
<1>4. ASSUME NEW d \in DOMAIN dir
      PROVE  /\ dir'[d].parent_directory = dir[d].parent_directory
             /\ dir[d].directories_contained \subseteq dir'[d].directories_contained
             /\ d = p => t \in dir'[d].directories_contained
  <2>1. dir[d] \in DirRecord
    BY DEF TypeOK
  <2>2. dir'[d] = IF d = p THEN [dir[p] EXCEPT !.directories_contained = @ \cup {t}] ELSE dir[d]
    BY <1>1 DEF NewDirectory, Put
  <2> HIDE DEF t
  <2> QED
    BY <2>1, <2>2 DEF DirRecord
<1> HIDE DEF t
<1> QED
  BY <1>1, <1>2, <1>3, <1>4 DEF Climb, ClimbsEnd, ChildrenListed

LEMMA DeleteDirectoryClimb ==
  ASSUME TypeOK, Climb, NEW u \in Users, NEW d \in DirId,
         DeleteDirectory(u, d) \/ DeleteDirectoryStopsHalfway(u, d)
  PROVE  Climb'
<1>1. PICK D \in SUBSET DOMAIN dir :
        /\ DOMAIN dir' = DOMAIN dir \ D
        /\ \A x \in D : \A c \in dir[x].directories_contained \cap DOMAIN dir : c \in D
        /\ \A x \in DOMAIN dir' :
             /\ dir'[x].parent_directory = dir[x].parent_directory
             /\ \A c \in dir[x].directories_contained \ D : c \in dir'[x].directories_contained
  <2>1. CASE DeleteDirectory(u, d)
    <3> DEFINE D == Subtree(d)
    <3>1. D \in SUBSET DOMAIN dir /\ DOMAIN dir' = DOMAIN dir \ D /\ d \in D
      BY <2>1, SubtreeTop DEF DeleteDirectory, Subtree
    <3>2. \A x \in D : \A c \in dir[x].directories_contained \cap DOMAIN dir : c \in D
      BY SubtreeClosed
    <3>3. ASSUME NEW x \in DOMAIN dir'
          PROVE  /\ dir'[x].parent_directory = dir[x].parent_directory
                 /\ \A c \in dir[x].directories_contained \ D : c \in dir'[x].directories_contained
      <4>1. dir[x] \in DirRecord
        BY <3>1 DEF TypeOK
      <4>2. \/ dir'[x] = dir[x]
            \/ dir'[x] = [dir[x] EXCEPT !.directories_contained = @ \ {d}]
        BY <2>1 DEF DeleteDirectory
      <4> QED
        BY <3>1, <4>1, <4>2 DEF DirRecord
    <3> QED
      BY <3>1, <3>2, <3>3
  <2>2. CASE DeleteDirectoryStopsHalfway(u, d)
    <3>1. PICK D \in SUBSET (Subtree(d) \ {d}), F \in SUBSET (FilesIn(Subtree(d)) \cap DOMAIN file) :
            /\ \A x \in D : Intact(x) /\ Subtree(x) \subseteq D
            /\ FilesIn(D) \subseteq F
            /\ \A f \in F : user[file[f].owner].files_deleted[f] < MaxCopies
            /\ TrashAndUnlist(F) /\ Unshare(F)
            /\ dir' = [x \in DOMAIN dir \ D |-> IF x \in Subtree(d)
                         THEN [dir[x] EXCEPT !.files_contained = @ \ F] ELSE dir[x]]
      BY <2>2, ZenonT(30) DEF DeleteDirectoryStopsHalfway
    <3>2. D \in SUBSET DOMAIN dir /\ DOMAIN dir' = DOMAIN dir \ D
      BY <3>1 DEF Subtree
    <3>3. \A x \in D : \A c \in dir[x].directories_contained \cap DOMAIN dir : c \in D
      BY <3>1, <3>2, SubtreeTop, SubtreeClosed
    <3>4. ASSUME NEW x \in DOMAIN dir'
          PROVE  /\ dir'[x].parent_directory = dir[x].parent_directory
                 /\ dir'[x].directories_contained = dir[x].directories_contained
      <4>1. dir[x] \in DirRecord
        BY <3>2 DEF TypeOK
      <4> QED
        BY <3>1, <3>2, <4>1 DEF DirRecord
    <3> QED
      BY <3>2, <3>3, <3>4
  <2> QED
    BY <2>1, <2>2
<1>2. ASSUME NEW c \in DOMAIN dir', dir[c].parent_directory # NoParent
      PROVE  /\ dir[c].parent_directory \in DOMAIN dir'
             /\ dir[c].parent_directory < c
             /\ c \in dir[dir[c].parent_directory].directories_contained \ D
  BY <1>1, <1>2 DEF Climb, ClimbsEnd, ChildrenListed
<1> QED
  BY <1>1, <1>2 DEF Climb, ClimbsEnd, ChildrenListed

LEMMA NextClimb ==
  ASSUME CatalogAssumption, TypeOK, Ids, Climb, [Next]_vars
  PROVE  Climb'
<1>1. CASE UNCHANGED vars
  BY <1>1 DEF vars, Climb, ClimbsEnd, ChildrenListed
<1>2. ASSUME NEW u \in Users, NEW d \in DirId,
             \/ NewDirectory(u, d)
             \/ DeleteDirectory(u, d) \/ DeleteDirectoryStopsHalfway(u, d)
      PROVE  Climb'
  BY <1>2, NewDirectoryClimb, DeleteDirectoryClimb
<1>3. ASSUME NEW u \in Users, NEW p \in DirId,
             \/ NewDirectoryInDeleted(u, p)
             \/ \E n \in Names : NewFile(u, p, n) \/ NewFileNotSaved(u, p, n)
             \/ \E g \in FileId : NewRevision(u, p, g) \/ NewRevisionNotSaved(u, p, g)
      PROVE  Climb'
  <2>1. \/ UNCHANGED dir
        \/ \E f : dir' = [dir EXCEPT ![p].files_contained = @ \cup {f}]
    BY <1>3 DEF NewDirectoryInDeleted, NewFile, NewFileNotSaved, NewRevision, NewRevisionNotSaved
  <2>2. /\ DOMAIN dir' = DOMAIN dir
        /\ \A d \in DOMAIN dir :
             /\ dir'[d].parent_directory = dir[d].parent_directory
             /\ dir'[d].directories_contained = dir[d].directories_contained
    BY <2>1 DEF TypeOK, DirRecord
  <2> QED
    BY <2>2, QuietClimb
<1>4. ASSUME NEW u \in Users, NEW f \in FileId,
             \/ DeleteFile(u, f) \/ DeleteFileOfDeletedDirectory(u, f) \/ LeaveSharedFile(u, f)
             \/ \E n \in Names : ModifyFileInfo(u, f, n)
             \/ \E v \in Users : SetFileShare(u, f, v) \/ UnsetFileShare(u, f, v)
             \/ \E V \in SUBSET Users : OverwriteFileSharing(u, f, V)
      PROVE  Climb'
  <2>1. CASE DeleteFile(u, f)
    <3>1. /\ DOMAIN dir' = DOMAIN dir
          /\ \A d \in DOMAIN dir :
               /\ dir'[d].parent_directory = dir[d].parent_directory
               /\ dir'[d].directories_contained = dir[d].directories_contained
      BY <2>1 DEF DeleteFile, TypeOK, DirRecord
    <3> QED
      BY <3>1, QuietClimb
  <2>2. CASE ~DeleteFile(u, f)
    <3>1. UNCHANGED dir
      BY <1>4, <2>2, ShareEffect DEF DeleteFileOfDeletedDirectory
    <3> QED
      BY <3>1, QuietClimb
  <2> QED
    BY <2>1, <2>2
<1>5. ASSUME NEW u \in Users, NEW S \in SUBSET FileId,
             \/ PurgeDeletedFiles(u, S) \/ PurgeStopsHalfway(u, S)
             \/ RecoverDeletedFiles(u, S) \/ RecoverStopsHalfway(u, S)
      PROVE  Climb'
  <2>1. UNCHANGED dir \/ \E P : MoveHome(u, P)
    BY <1>5 DEF PurgeDeletedFiles, PurgeStopsHalfway, RecoverDeletedFiles, RecoverStopsHalfway
  <2> QED
    BY <2>1, MoveHomeEffect, QuietClimb
<1> QED
  BY <1>1, <1>2, <1>3, <1>4, <1>5 DEF Next

\* Whatever clients ask for and wherever a request stops, a directory never
\* outlives its parent, and the recursions that climb to the root end.
THEOREM ClimbingEnds == Spec => []ClimbsEnd
<1> USE CatalogAssumption
<1>1. Init => TypeOK /\ Ids /\ Climb
  BY InitTypeOK, InitIds, InitClimb
<1>2. TypeOK /\ Ids /\ Climb /\ [Next]_vars => TypeOK' /\ Ids' /\ Climb'
  BY NextTypeOK, NextIds, NextClimb
<1>3. Climb => ClimbsEnd
  BY DEF Climb
<1> QED
  BY <1>1, <1>2, <1>3, PTL DEF Spec

----------------------------------------------------------------------------
(* Grants.  Whoever a file is shared with finds it in its own list.         *)

LEMMA DeleteGrants ==
  ASSUME TypeOK, GrantsListed, NEW F, TrashAndUnlist(F), Unshare(F)
  PROVE  GrantsListed'
<1> SUFFICES ASSUME NEW f \in DOMAIN file', NEW v \in file'[f].users_shared
             PROVE  f \in user'[v].shared_files
  BY DEF GrantsListed
<1>1. f \in DOMAIN file /\ f \notin F /\ v \in file[f].users_shared
  BY UnshareEffect
<1>2. v \in Users /\ f \in user[v].shared_files
  BY <1>1 DEF GrantsListed, TypeOK, FileRecord
<1> QED
  BY <1>1, <1>2, TrashEffect

LEMMA ShareGrants ==
  ASSUME TypeOK, GrantsListed, NEW u \in Users, NEW f \in FileId, NEW v \in Users,
         SetFileShare(u, f, v) \/ UnsetFileShare(u, f, v)
  PROVE  GrantsListed'
<1> SUFFICES ASSUME NEW g \in DOMAIN file', NEW w \in file'[g].users_shared
             PROVE  g \in user'[w].shared_files
  BY DEF GrantsListed
<1>1. f \in DOMAIN file /\ DOMAIN file' = DOMAIN file /\ user[v] \in UserRecord
      /\ file[f] \in FileRecord
  BY DEF SetFileShare, UnsetFileShare, MayShare, TypeOK
<1>2. CASE SetFileShare(u, f, v)
  <2>1. /\ file'[g].users_shared = file[g].users_shared \cup (IF g = f THEN {v} ELSE {})
        /\ \A x \in Users : user'[x].shared_files =
             user[x].shared_files \cup (IF x = v THEN {f} ELSE {})
    BY <1>1, <1>2 DEF SetFileShare, TypeOK, UserRecord, FileRecord
  <2>2. w \in Users
    BY <1>1, <2>1 DEF TypeOK, FileRecord
  <2> QED
    BY <1>1, <2>1, <2>2 DEF GrantsListed
<1>3. CASE UnsetFileShare(u, f, v)
  <2>1. /\ file'[g].users_shared = file[g].users_shared \ (IF g = f THEN {v} ELSE {})
        /\ \A x \in Users : user'[x].shared_files =
             user[x].shared_files \ (IF x = v THEN {f} ELSE {})
    BY <1>1, <1>3 DEF UnsetFileShare, TypeOK, UserRecord, FileRecord
  <2>2. w \in Users
    BY <1>1, <2>1 DEF TypeOK, FileRecord
  <2> QED
    BY <1>1, <2>1, <2>2 DEF GrantsListed
<1> QED
  BY <1>2, <1>3

LEMMA LeaveGrants ==
  ASSUME TypeOK, GrantsListed, NEW u \in Users, NEW f \in FileId, LeaveSharedFile(u, f)
  PROVE  GrantsListed'
<1> SUFFICES ASSUME NEW g \in DOMAIN file', NEW w \in file'[g].users_shared
             PROVE  g \in user'[w].shared_files
  BY DEF GrantsListed
<1>1. DOMAIN file' = DOMAIN file
  BY DEF LeaveSharedFile
<1>2. /\ file'[g].users_shared = file[g].users_shared \ (IF g = f THEN {u} ELSE {})
      /\ \A x \in Users : user'[x].shared_files =
           user[x].shared_files \ (IF x = u THEN {f} ELSE {})
  BY <1>1 DEF LeaveSharedFile, TypeOK, UserRecord, FileRecord
<1>3. w \in Users
  BY <1>1, <1>2 DEF TypeOK, FileRecord
<1> QED
  BY <1>1, <1>2, <1>3 DEF GrantsListed

LEMMA OverwriteGrants ==
  ASSUME TypeOK, GrantsListed, NEW u \in Users, NEW f \in FileId, NEW V \in SUBSET Users,
         OverwriteFileSharing(u, f, V)
  PROVE  GrantsListed'
<1> SUFFICES ASSUME NEW g \in DOMAIN file', NEW w \in file'[g].users_shared
             PROVE  g \in user'[w].shared_files
  BY DEF GrantsListed
<1>1. DOMAIN file' = DOMAIN file
  BY DEF OverwriteFileSharing
<1>2. file'[g].users_shared = IF g = f THEN V ELSE file[g].users_shared
  BY <1>1 DEF OverwriteFileSharing, TypeOK, FileRecord
<1>3. w \in Users
  BY <1>1, <1>2 DEF TypeOK, FileRecord
<1>4. user'[w].shared_files = IF w \in V THEN user[w].shared_files \cup {f}
                              ELSE IF w \in file[f].users_shared
                              THEN user[w].shared_files \ {f}
                              ELSE user[w].shared_files
  <2>1. user[w] \in UserRecord
    BY <1>3 DEF TypeOK
  <2> QED
    BY <1>3, <2>1 DEF OverwriteFileSharing, UserRecord
<1>5. CASE g = f
  BY <1>2, <1>4, <1>5
<1>6. CASE g # f
  BY <1>1, <1>2, <1>4, <1>6 DEF GrantsListed
<1> QED
  BY <1>5, <1>6

\* Requests that leave every share alone.
LEMMA QuietGrants ==
  ASSUME TypeOK, GrantsListed,
         \A v \in Users : user'[v].shared_files = user[v].shared_files,
         \A f \in DOMAIN file' : \/ file'[f].users_shared = {}
                                 \/ f \in DOMAIN file /\ file'[f].users_shared = file[f].users_shared
  PROVE  GrantsListed'
BY DEF GrantsListed, TypeOK, FileRecord

LEMMA NextGrants ==
  ASSUME CatalogAssumption, TypeOK, GrantsListed, [Next]_vars
  PROVE  GrantsListed'
<1>1. CASE UNCHANGED vars
  BY <1>1 DEF vars, GrantsListed
<1>2. ASSUME NEW u \in Users, NEW p \in DirId,
             \/ NewDirectory(u, p) \/ NewDirectoryInDeleted(u, p)
             \/ \E n \in Names : NewFile(u, p, n) \/ NewFileNotSaved(u, p, n)
             \/ \E g \in FileId : NewRevision(u, p, g) \/ NewRevisionNotSaved(u, p, g)
      PROVE  GrantsListed'
  <2>1. UNCHANGED user
    BY <1>2 DEF NewDirectory, NewDirectoryInDeleted, NewFile, NewFileNotSaved,
                NewRevision, NewRevisionNotSaved
  <2>2. \/ UNCHANGED file
        \/ \E f, n : file' = Put(file, f, NewRecord(u, p, n))
        \/ \E g \in DOMAIN file : file' = [file EXCEPT ![g].revision = @ + 1]
    BY <1>2 DEF NewDirectory, NewDirectoryInDeleted, NewFile, NewFileNotSaved,
                NewRevision, NewRevisionNotSaved
  <2>3. \A f \in DOMAIN file' :
          \/ file'[f].users_shared = {}
          \/ f \in DOMAIN file /\ file'[f].users_shared = file[f].users_shared
    <3>1. CASE UNCHANGED file
      BY <3>1
    <3>2. CASE \E f, n : file' = Put(file, f, NewRecord(u, p, n))
      BY <3>2 DEF Put, NewRecord
    <3>3. CASE \E g \in DOMAIN file : file' = [file EXCEPT ![g].revision = @ + 1]
      BY <3>3 DEF TypeOK, FileRecord
    <3> QED
      BY <2>2, <3>1, <3>2, <3>3
  <2> QED
    BY <2>1, <2>3, QuietGrants
<1>3. ASSUME NEW u \in Users, NEW f \in FileId,
             \/ LeaveSharedFile(u, f)
             \/ \E v \in Users : SetFileShare(u, f, v) \/ UnsetFileShare(u, f, v)
             \/ \E V \in SUBSET Users : OverwriteFileSharing(u, f, V)
      PROVE  GrantsListed'
  BY <1>3, LeaveGrants, ShareGrants, OverwriteGrants
<1>4. ASSUME NEW u \in Users, NEW f \in FileId,
             DeleteFileOfDeletedDirectory(u, f) \/ \E n \in Names : ModifyFileInfo(u, f, n)
      PROVE  GrantsListed'
  <2>1. \A v \in Users : user'[v].shared_files = user[v].shared_files
    BY SMTT(30), <1>4 DEF DeleteFileOfDeletedDirectory, ModifyFileInfo, TypeOK, UserRecord
  <2>2. \A g \in DOMAIN file' : g \in DOMAIN file /\ file'[g].users_shared = file[g].users_shared
    BY <1>4 DEF DeleteFileOfDeletedDirectory, ModifyFileInfo, TypeOK, FileRecord
  <2> QED
    BY <2>1, <2>2, QuietGrants
<1>5. ASSUME NEW u \in Users,
             \/ \E f \in FileId : DeleteFile(u, f)
             \/ \E d \in DirId : DeleteDirectory(u, d) \/ DeleteDirectoryStopsHalfway(u, d)
      PROVE  GrantsListed'
  <2>1. PICK F : TrashAndUnlist(F) /\ Unshare(F)
    BY <1>5 DEF DeleteFile, DeleteDirectory, DeleteDirectoryStopsHalfway
  <2> QED
    BY <2>1, DeleteGrants
<1>6. ASSUME NEW u \in Users, NEW S \in SUBSET FileId,
             PurgeDeletedFiles(u, S) \/ PurgeStopsHalfway(u, S)
      PROVE  GrantsListed'
  <2>1. \A v \in Users : user'[v].shared_files = user[v].shared_files
    BY <1>6, WithoutEffect DEF PurgeDeletedFiles, PurgeStopsHalfway
  <2>2. \A g \in DOMAIN file' : g \in DOMAIN file /\ file'[g].users_shared = file[g].users_shared
    BY <1>6 DEF PurgeDeletedFiles, PurgeStopsHalfway, Erase
  <2> QED
    BY <2>1, <2>2, QuietGrants
<1>7. ASSUME NEW u \in Users, NEW S \in SUBSET FileId,
             RecoverDeletedFiles(u, S) \/ RecoverStopsHalfway(u, S)
      PROVE  GrantsListed'
  <2>1. \A v \in Users : user'[v].shared_files = user[v].shared_files
    BY <1>7, WithoutEffect DEF RecoverDeletedFiles, RecoverStopsHalfway
  <2>2. PICK P : Readopt(u, P)
    BY <1>7 DEF RecoverDeletedFiles, RecoverStopsHalfway
  <2>3. \A g \in DOMAIN file' : g \in DOMAIN file /\ file'[g].users_shared = file[g].users_shared
    BY <2>2, ReadoptEffect
  <2> QED
    BY <2>1, <2>3, QuietGrants
<1> QED
  BY <1>1, <1>2, <1>3, <1>4, <1>5, <1>6, <1>7 DEF Next

\* No request, careful or not, leaves a user with access to a file that the
\* user's own list does not show.
THEOREM GrantsAreListed == Spec => []GrantsListed
<1> USE CatalogAssumption
<1>1. Init => TypeOK /\ GrantsListed
  BY InitTypeOK DEF Init, GrantsListed
<1>2. TypeOK /\ GrantsListed /\ [Next]_vars => TypeOK' /\ GrantsListed'
  BY NextTypeOK, NextGrants
<1> QED
  BY <1>1, <1>2, PTL DEF Spec

=============================================================================
