------------------------------- MODULE Catalog -------------------------------
(***************************************************************************)
(* The logical store of the uDrive server: what the RocksDB records of     *)
(* DataHandler say about users, directories and files, and which physical  *)
(* files FileHandler keeps, as the public operations of RequestDispatcher  *)
(* change them.                                                            *)
(*                                                                         *)
(* One thread polls the web server and runs each request to its end, so a  *)
(* request is one action.  Every action is the whole handler: the loops    *)
(* over id lists and the recursion over sub-directories are written as     *)
(* sets.  Id lists are sets where the code never lets an id in twice       *)
(* (add_key_to_string_list skips known keys, a ticket id is new), and a    *)
(* bag (id -> copies) for files_deleted, where it does.                    *)
(*                                                                         *)
(* Left to other modules: sizes and quota (Accounting), sign-up, account   *)
(* removal, store failures and crashes inside a request.  Dates, tags and  *)
(* directory names decide nothing here and are left out; a file name       *)
(* stands for the pair (name, extension).                                  *)
(***************************************************************************)
EXTENDS Naturals, FiniteSets

CONSTANTS
  NumUsers,      \* accounts that have signed up
  MaxDir,        \* bound: directory ids handed out
  MaxFile,       \* bound: file ids handed out
  MaxRevision,   \* bound: revisions of one file
  MaxCopies,     \* bound: copies of one id in a list of deleted files
  Names,         \* file names
  Slips          \* what else goes wrong around the server, see below

(***************************************************************************)
(* request_dispatcher.h states a contract: "Deleted files must not be      *)
(* asked by the client."  The server does not enforce it, so a client that *)
(* works from an old listing can break it:                                 *)
(*   "stale_delete"  deletes a file that is already in the trash           *)
(*   "stale_share"   shares a file that is already in the trash            *)
(* One more request is accepted that the listings do not lead to:          *)
(*   "root_id"       deletes the root by its real id (a search shows it)   *)
(* And the file system may refuse the bytes of an upload:                  *)
(*   "disk_full"     FileHandler saves nothing                             *)
(***************************************************************************)
ASSUME CatalogAssumption ==
  /\ NumUsers \in Nat \ {0}
  /\ MaxDir \in Nat /\ MaxDir >= 2 * NumUsers
  /\ MaxFile \in Nat /\ MaxRevision \in Nat \ {0} /\ MaxCopies \in Nat
  /\ Slips \subseteq {"stale_delete", "stale_share", "root_id", "disk_full"}

VARIABLES
  user,    \* user id -> its record
  dir,     \* directory id -> its record; the domain is what exists
  file,    \* file id -> its record; the domain is what exists
  stored,  \* physical files: <<uploader, file id, revision>>
  ticket   \* the next directory id and the next file id

vars == <<user, dir, file, stored, ticket>>

----------------------------------------------------------------------------
(* Types.                                                                  *)

Users    == 1 .. NumUsers
DirId    == 1 .. MaxDir
FileId   == 1 .. MaxFile
NoParent == 0

UserRecord == [dir_root : DirId, shared_files : SUBSET FileId,
               files_deleted : [FileId -> Nat]]

DirRecord == [owner : Users, parent_directory : DirId \cup {NoParent},
              files_contained : SUBSET FileId, directories_contained : SUBSET DirId]

FileRecord == [owner : Users, name : Names, revision : 1 .. MaxRevision,
               users_shared : SUBSET Users, parent_directory : DirId]

\* The only type invariant: every record has its fields, and lists hold ids of
\* their kind (the string lists and keys DataHandler reads and writes).
TypeOK ==
  /\ user \in [Users -> UserRecord]
  /\ DOMAIN dir \subseteq DirId /\ dir \in [DOMAIN dir -> DirRecord]
  /\ DOMAIN file \subseteq FileId /\ file \in [DOMAIN file -> FileRecord]
  /\ stored \subseteq Users \X FileId \X (1 .. MaxRevision)
  /\ ticket \in [dir : 1 .. MaxDir + 1, file : 1 .. MaxFile + 1]

----------------------------------------------------------------------------
(* The key-value store: a batch of puts, a batch of erasures.              *)

Put(f, k, v) == [x \in DOMAIN f \cup {k} |-> IF x = k THEN v ELSE f[x]]
Erase(f, S)  == [x \in DOMAIN f \ S |-> f[x]]

EmptyDir(u, p) == [owner |-> u, parent_directory |-> p,
                   files_contained |-> {}, directories_contained |-> {}]

\* (NewRecordUnrevised is the variant that counts revisions from 0.)
NewRecordUnrevised(u, p, n) == [owner |-> u, name |-> n, revision |-> 0,
                                users_shared |-> {}, parent_directory |-> p]
NewRecord(u, p, n) == [owner |-> u, name |-> n, revision |-> 1,
                       users_shared |-> {}, parent_directory |-> p]

\* The ids user u finds in the list of deleted files.
Trash(u) == {f \in FileId : user[u].files_deleted[f] > 0}

\* A trashed file: its owner's list of deleted files has its id.
InTrash(f) == f \in Trash(file[f].owner)

\* d and every directory below it: the least set with d in it that is closed
\* under directories_contained.
\* (SubtreeIsFlat is the variant that forgets to recurse.)
SubtreeIsFlat(d) == {d} \cap DOMAIN dir
Subtree(d) ==
  {x \in DOMAIN dir :
     \A S \in SUBSET DOMAIN dir :
       (d \in S /\ \A y \in S : dir[y].directories_contained \cap DOMAIN dir \subseteq S)
         => x \in S}

\* Every id listed in d or below it has a record: the recursive deletion of d
\* meets no missing key.
Intact(d) ==
  \A x \in Subtree(d) : /\ dir[x].directories_contained \subseteq DOMAIN dir
                        /\ dir[x].files_contained \subseteq DOMAIN file

\* The files listed in a set of directories.
FilesIn(D) == UNION {dir[x].files_contained : x \in D}

\* The directories client u names as parents: its own, the only ones it is shown
\* (the handlers that create something do not check).
MayName(u, p) == dir[p].owner = u

----------------------------------------------------------------------------
(* The state after NumUsers users signed up: user u got the root directory *)
(* 2u - 1 and, inside it, the directory of shared files 2u.                *)

Init ==
  /\ user = [u \in Users |-> [dir_root |-> 2 * u - 1, shared_files |-> {},
                              files_deleted |-> [f \in FileId |-> 0]]]
  /\ dir = [d \in 1 .. 2 * NumUsers |->
              IF d % 2 = 1
              THEN [EmptyDir((d + 1) \div 2, NoParent)
                      EXCEPT !.directories_contained = {d + 1}]
              ELSE EmptyDir(d \div 2, d - 1)]
  /\ file = [f \in {} |-> f]
  /\ stored = {}
  /\ ticket = [dir |-> 2 * NumUsers + 1, file |-> 1]

----------------------------------------------------------------------------
(* Directories and uploads.                                                *)

\* One batch writes the new record and the parent's list.
NewDirectory(u, p) ==
  /\ ticket.dir <= MaxDir
  /\ p \in DOMAIN dir /\ MayName(u, p)
  /\ dir' = Put([dir EXCEPT ![p].directories_contained = @ \cup {ticket.dir}],
                ticket.dir, EmptyDir(u, p))
  /\ ticket' = [ticket EXCEPT !.dir = @ + 1]
  /\ UNCHANGED <<user, file, stored>>

\* The parent is gone: the id was drawn before the parent is read, and is lost.
NewDirectoryInDeleted(u, p) ==
  /\ ticket.dir <= MaxDir
  /\ p < ticket.dir /\ p \notin DOMAIN dir
  /\ ticket' = [ticket EXCEPT !.dir = @ + 1]
  /\ UNCHANGED <<user, dir, file, stored>>

\* An upload whose name no file of the directory has.  The search for one
\* fails, and the upload with it, if the directory lists a missing file.
NewFile(u, p, n) ==
  /\ ticket.file <= MaxFile
  /\ p \in DOMAIN dir /\ MayName(u, p)
  /\ \A g \in dir[p].files_contained : g \in DOMAIN file /\ file[g].name # n
  /\ file' = Put(file, ticket.file, NewRecord(u, p, n))
  /\ dir' = [dir EXCEPT ![p].files_contained = @ \cup {ticket.file}]
  /\ stored' = stored \cup {<<u, ticket.file, 1>>}
  /\ ticket' = [ticket EXCEPT !.file = @ + 1]
  /\ UNCHANGED user

\* An upload under the name of file g, which the directory lists.  Should two
\* files have the name, the first in the list is taken: here, any.
NewRevision(u, p, g) ==
  /\ p \in DOMAIN dir /\ MayName(u, p)
  /\ g \in dir[p].files_contained \cap DOMAIN file
  /\ file[g].revision < MaxRevision
  /\ stored' = stored \cup {<<u, g, file[g].revision + 1>>}
  /\ file' = [file EXCEPT ![g].revision = @ + 1]
  /\ UNCHANGED <<user, dir, ticket>>

\* The bytes of a new file are not saved.  Its record is taken back, its id stays
\* in the list of the directory.  An empty physical file is left, or none.
\* (NewFileKeepsRecord is the variant that takes nothing back.)
NewFileKeepsRecord(u, p, n) ==
  /\ "disk_full" \in Slips /\ ticket.file <= MaxFile
  /\ p \in DOMAIN dir /\ MayName(u, p)
  /\ \A g \in dir[p].files_contained : g \in DOMAIN file /\ file[g].name # n
  /\ dir' = [dir EXCEPT ![p].files_contained = @ \cup {ticket.file}]
  /\ file' = Put(file, ticket.file, NewRecord(u, p, n))
  /\ stored' \in {stored, stored \cup {<<u, ticket.file, 1>>}}
  /\ ticket' = [ticket EXCEPT !.file = @ + 1]
  /\ UNCHANGED user

NewFileNotSaved(u, p, n) ==
  /\ "disk_full" \in Slips /\ ticket.file <= MaxFile
  /\ p \in DOMAIN dir /\ MayName(u, p)
  /\ \A g \in dir[p].files_contained : g \in DOMAIN file /\ file[g].name # n
  /\ dir' = [dir EXCEPT ![p].files_contained = @ \cup {ticket.file}]
  /\ stored' \in {stored, stored \cup {<<u, ticket.file, 1>>}}
  /\ ticket' = [ticket EXCEPT !.file = @ + 1]
  /\ UNCHANGED <<user, file>>

\* The bytes of a revision are not saved: only an empty physical file is left.
NewRevisionNotSaved(u, p, g) ==
  /\ "disk_full" \in Slips
  /\ p \in DOMAIN dir /\ MayName(u, p)
  /\ g \in dir[p].files_contained \cap DOMAIN file
  /\ file[g].revision < MaxRevision
  /\ stored' = stored \cup {<<u, g, file[g].revision + 1>>}
  /\ UNCHANGED <<user, dir, file, ticket>>

\* A rename: by the owner or by a user the file is shared with.
ModifyFileInfo(u, f, n) ==
  /\ f \in DOMAIN file
  /\ u = file[f].owner \/ u \in file[f].users_shared
  /\ file' = [file EXCEPT ![f].name = n]
  /\ UNCHANGED <<user, dir, stored, ticket>>

----------------------------------------------------------------------------
(* Sharing.  users_shared of a file and shared_files of a user are two     *)
(* records of one fact.                                                    *)

MayShare(u, f) ==
  /\ f \in DOMAIN file /\ file[f].owner = u
  /\ ~InTrash(f) \/ "stale_share" \in Slips

SetFileShare(u, f, v) ==
  /\ MayShare(u, f)
  /\ user' = [user EXCEPT ![v].shared_files = @ \cup {f}]
  /\ file' = [file EXCEPT ![f].users_shared = @ \cup {v}]
  /\ UNCHANGED <<dir, stored, ticket>>

UnsetFileShare(u, f, v) ==
  /\ MayShare(u, f)
  /\ user' = [user EXCEPT ![v].shared_files = @ \ {f}]
  /\ file' = [file EXCEPT ![f].users_shared = @ \ {v}]
  /\ UNCHANGED <<dir, stored, ticket>>

\* Unshares with everyone, then shares with the users of a list.  V are those
\* before the first unknown id of the list, where the handler stops.
OverwriteFileSharing(u, f, V) ==
  /\ MayShare(u, f)
  /\ user' = [v \in Users |-> [user[v] EXCEPT !.shared_files =
                IF v \in V THEN @ \cup {f}
                ELSE IF v \in file[f].users_shared THEN @ \ {f} ELSE @]]
  /\ file' = [file EXCEPT ![f].users_shared = V]
  /\ UNCHANGED <<dir, stored, ticket>>

----------------------------------------------------------------------------
(* Deletion: the record stays, the id moves to the owner's files_deleted,  *)
(* and every share of the file ends.  (TrashOnly and UnshareNobody are the *)
(* variants that update one of the two records of a share only.)           *)

TrashOnly(F) ==
  user' = [v \in Users |-> [user[v] EXCEPT
    !.files_deleted = [f \in FileId |-> IF f \in F /\ file[f].owner = v
                                        THEN user[v].files_deleted[f] + 1
                                        ELSE user[v].files_deleted[f]]]]

TrashAndUnlist(F) ==
  user' = [v \in Users |-> [user[v] EXCEPT
    !.files_deleted = [f \in FileId |-> IF f \in F /\ file[f].owner = v
                                        THEN user[v].files_deleted[f] + 1
                                        ELSE user[v].files_deleted[f]],
    !.shared_files = @ \ {f \in F : v \in file[f].users_shared}]]

UnshareNobody(F) == file' = file
Unshare(F) ==
  file' = [f \in DOMAIN file |->
             IF f \in F THEN [file[f] EXCEPT !.users_shared = {}] ELSE file[f]]

DeleteFile(u, f) ==
  /\ f \in DOMAIN file /\ file[f].owner = u
  /\ file[f].parent_directory \in DOMAIN dir
  /\ ~InTrash(f) \/ "stale_delete" \in Slips
  /\ user[u].files_deleted[f] < MaxCopies
  /\ TrashAndUnlist({f}) /\ Unshare({f})
  /\ dir' = [dir EXCEPT ![file[f].parent_directory].files_contained = @ \ {f}]
  /\ UNCHANGED <<stored, ticket>>

\* The directory of the file is gone too: the id is listed once more before
\* the handler finds that out and stops.
DeleteFileOfDeletedDirectory(u, f) ==
  /\ f \in DOMAIN file /\ file[f].owner = u
  /\ file[f].parent_directory \notin DOMAIN dir
  /\ "stale_delete" \in Slips
  /\ user[u].files_deleted[f] < MaxCopies
  /\ user' = [user EXCEPT ![u].files_deleted[f] = @ + 1]
  /\ UNCHANGED <<dir, file, stored, ticket>>

\* Deletion by a user the file is shared with: only the share ends.
LeaveSharedFile(u, f) ==
  /\ f \in DOMAIN file /\ file[f].owner # u /\ u \in file[f].users_shared
  /\ user' = [user EXCEPT ![u].shared_files = @ \ {f}]
  /\ file' = [file EXCEPT ![f].users_shared = @ \ {u}]
  /\ UNCHANGED <<dir, stored, ticket>>

\* The subtree goes, its files are trashed, the parent's list forgets d.  The
\* root is refused under its alias "0", but not under its own id.  (The variant
\* DeleteDirectoryWithFiles forgets the files instead of trashing them.)
DeleteDirectoryWithFiles(u, d) ==
  /\ d \in DOMAIN dir /\ dir[d].owner = u /\ d # user[u].dir_root /\ Intact(d)
  /\ file' = Erase(file, FilesIn(Subtree(d)))
  /\ dir' = Erase(dir, Subtree(d))
  /\ UNCHANGED <<user, stored, ticket>>

DeleteDirectory(u, d) ==
  /\ d \in DOMAIN dir /\ dir[d].owner = u /\ Intact(d)
  /\ d # user[u].dir_root \/ "root_id" \in Slips
  /\ \A f \in FilesIn(Subtree(d)) : user[file[f].owner].files_deleted[f] < MaxCopies
  /\ TrashAndUnlist(FilesIn(Subtree(d))) /\ Unshare(FilesIn(Subtree(d)))
  /\ dir' = [x \in DOMAIN dir \ Subtree(d) |->
               IF x = dir[d].parent_directory
               THEN [dir[x] EXCEPT !.directories_contained = @ \ {d}]
               ELSE dir[x]]
  /\ UNCHANGED <<stored, ticket>>

\* A listed id without a record stops the recursion: whole sub-directories are
\* gone by then and some files trashed, which ones depends on the lists' order.
DeleteDirectoryStopsHalfway(u, d) ==
  /\ d \in DOMAIN dir /\ dir[d].owner = u /\ ~Intact(d)
  /\ d # user[u].dir_root \/ "root_id" \in Slips
  /\ \E D \in SUBSET (Subtree(d) \ {d}), F \in SUBSET (FilesIn(Subtree(d)) \cap DOMAIN file) :
       /\ \A x \in D : Intact(x) /\ Subtree(x) \subseteq D
       /\ FilesIn(D) \subseteq F
       /\ \A f \in F : user[file[f].owner].files_deleted[f] < MaxCopies
       /\ TrashAndUnlist(F) /\ Unshare(F)
       /\ dir' = [x \in DOMAIN dir \ D |-> IF x \in Subtree(d)
                    THEN [dir[x] EXCEPT !.files_contained = @ \ F] ELSE dir[x]]
  /\ UNCHANGED <<stored, ticket>>

----------------------------------------------------------------------------
(* Emptying the trash: all of it, or the ids S the client selected.        *)

\* The list of deleted files without the ids S.
Without(u, S) == [user EXCEPT ![u].files_deleted =
                    [f \in FileId |-> IF f \in S THEN 0 ELSE user[u].files_deleted[f]]]

\* The physical files of every revision of the files P.  (All but the first is
\* the variant that stops the loop one too early.)
AllButFirstRevisionOf(P) == {b \in stored : b[2] \in P /\ b[1] = file[b[2]].owner
                                            /\ b[3] <= file[b[2]].revision /\ b[3] > 1}
RevisionsOf(P) == {b \in stored : b[2] \in P /\ b[1] = file[b[2]].owner
                                  /\ b[3] <= file[b[2]].revision}

PurgeDeletedFiles(u, S) ==
  /\ S \subseteq Trash(u) \cap DOMAIN file
  /\ \A f \in S : user[u].files_deleted[f] = 1
  /\ stored' = stored \ RevisionsOf(S)
  /\ file' = Erase(file, S)
  /\ user' = Without(u, S)
  /\ UNCHANGED <<dir, ticket>>

\* An id without a record, or the second copy of an id just purged, stops the
\* handler: the files P before it are gone, the list still has them all.
PurgeStopsHalfway(u, S) ==
  /\ S \subseteq Trash(u)
  /\ \E P \in SUBSET (S \cap DOMAIN file) :
       /\ ~(S \subseteq DOMAIN file) \/ \E f \in P : user[u].files_deleted[f] > 1
       /\ stored' = stored \ RevisionsOf(P)
       /\ file' = Erase(file, P)
  /\ UNCHANGED <<user, dir, ticket>>

----------------------------------------------------------------------------
(* Recovering from the trash: to the directory the file was deleted from,  *)
(* or to the root of its owner if that directory is gone.  (HomeIsNowhere  *)
(* is the variant without that fallback, RecoverKeepsList the one that     *)
(* does not empty the list afterwards, RecoverUnchecked the one that goes  *)
(* on when the directory is not there.)                                    *)

HomeIsNowhere(u, f) ==
  IF file[f].parent_directory \in DOMAIN dir THEN file[f].parent_directory ELSE NoParent
Home(u, f) ==
  IF file[f].parent_directory \in DOMAIN dir THEN file[f].parent_directory
  ELSE user[u].dir_root

\* The ids of the trash whose recovery succeeds.
Recoverable(u) == {f \in Trash(u) \cap DOMAIN file : Home(u, f) \in DOMAIN dir}

MoveHome(u, P) ==
  dir' = [d \in DOMAIN dir |-> [dir[d] EXCEPT
            !.files_contained = @ \cup {f \in P : Home(u, f) = d}]]

Readopt(u, P) ==
  file' = [f \in DOMAIN file |-> IF f \in P
             THEN [file[f] EXCEPT !.parent_directory = Home(u, f)] ELSE file[f]]

RecoverKeepsList(u, S) ==
  /\ S \subseteq Recoverable(u)
  /\ MoveHome(u, S) /\ Readopt(u, S)
  /\ UNCHANGED <<user, stored, ticket>>

RecoverUnchecked(u, S) ==
  /\ S \subseteq Trash(u) \cap DOMAIN file
  /\ MoveHome(u, S) /\ Readopt(u, S)
  /\ user' = Without(u, S)
  /\ UNCHANGED <<stored, ticket>>

RecoverDeletedFiles(u, S) ==
  /\ S \subseteq Recoverable(u)
  /\ MoveHome(u, S) /\ Readopt(u, S)
  /\ user' = Without(u, S)
  /\ UNCHANGED <<stored, ticket>>

\* An id x that cannot be recovered stops the handler: the files P before it
\* are back in their directories and still in the list.
RecoverStopsHalfway(u, S) ==
  /\ S \subseteq Trash(u)
  /\ \E P \in SUBSET (S \cap Recoverable(u)), x \in S \ Recoverable(u) :
       MoveHome(u, P) /\ Readopt(u, P \cup {x})
  /\ UNCHANGED <<user, stored, ticket>>

----------------------------------------------------------------------------
Next ==
  \E u \in Users :
    \/ \E d \in DirId : \/ NewDirectory(u, d)
                        \/ NewDirectoryInDeleted(u, d)
                        \/ DeleteDirectory(u, d)
                        \/ DeleteDirectoryStopsHalfway(u, d)
                        \/ \E n \in Names : NewFile(u, d, n) \/ NewFileNotSaved(u, d, n)
                        \/ \E f \in FileId : NewRevision(u, d, f) \/ NewRevisionNotSaved(u, d, f)
    \/ \E f \in FileId : \/ DeleteFile(u, f)
                         \/ DeleteFileOfDeletedDirectory(u, f)
                         \/ LeaveSharedFile(u, f)
                         \/ \E n \in Names : ModifyFileInfo(u, f, n)
                         \/ \E v \in Users : SetFileShare(u, f, v) \/ UnsetFileShare(u, f, v)
                         \/ \E V \in SUBSET Users : OverwriteFileSharing(u, f, V)
    \/ \E S \in SUBSET FileId : \/ PurgeDeletedFiles(u, S)
                                \/ PurgeStopsHalfway(u, S)
                                \/ RecoverDeletedFiles(u, S)
                                \/ RecoverStopsHalfway(u, S)

Spec == Init /\ [][Next]_vars

----------------------------------------------------------------------------
(* Properties.                                                             *)

\* Ids come from tickets that only grow: what exists is below the ticket, and so
\* is the directory a trashed file remembers, so no new directory adopts it.
IdsBelowTicket ==
  /\ \A d \in DOMAIN dir : d < ticket.dir
  /\ \A f \in DOMAIN file : f < ticket.file /\ file[f].parent_directory < ticket.dir

\* Climbing ends: the parent of every directory exists and has a smaller id, so
\* the handlers that climb to the root (dates, sizes) neither fail nor loop.
ClimbsEnd ==
  \A d \in DOMAIN dir : dir[d].parent_directory # NoParent =>
    dir[d].parent_directory \in DOMAIN dir /\ dir[d].parent_directory < d

\* Directories form a forest seen from both ends: a parent lists the child, what
\* is listed exists and points back.  No handler that walks down meets a missing
\* directory.
DirectoryTree ==
  /\ ClimbsEnd
  /\ \A d \in DOMAIN dir :
       /\ dir[d].parent_directory # NoParent =>
            d \in dir[dir[d].parent_directory].directories_contained
       /\ \A c \in dir[d].directories_contained :
            c \in DOMAIN dir /\ dir[c].parent_directory = d

\* Every file is in one place: in the directory it names or, once, in its owner's
\* list of deleted files.  No list has the id of a missing file.
Placement ==
  /\ \A f \in DOMAIN file :
       InTrash(f) <=> ~(/\ file[f].parent_directory \in DOMAIN dir
                        /\ f \in dir[file[f].parent_directory].files_contained)
  /\ \A d \in DOMAIN dir : \A f \in dir[d].files_contained :
       f \in DOMAIN file /\ file[f].parent_directory = d
  /\ \A u \in Users : \A f \in Trash(u) :
       /\ f \in DOMAIN file /\ file[f].owner = u
       /\ user[u].files_deleted[f] = 1

\* No file drops out of sight, whatever stops halfway: one that exists is listed
\* by the directory it names or in its owner's list of deleted files.
NoFileIsLost ==
  \A f \in DOMAIN file :
    \/ InTrash(f)
    \/ /\ file[f].parent_directory \in DOMAIN dir
       /\ f \in dir[file[f].parent_directory].files_contained

\* Whoever a file says it is shared with has it in its list of shared files.
GrantsListed ==
  \A f \in DOMAIN file : \A v \in file[f].users_shared : f \in user[v].shared_files

\* The two records of a share agree, and a trashed file is shared with nobody.
ShareSymmetry ==
  /\ GrantsListed
  /\ \A v \in Users : \A f \in user[v].shared_files :
       f \in DOMAIN file /\ v \in file[f].users_shared /\ ~InTrash(f)

\* The physical files are exactly the revisions of the files that exist: none is
\* missing when a user asks for it, none is left behind by a purge.
StoreMatchesCatalog ==
  stored = UNION {{<<file[f].owner, f, r>> : r \in 1 .. file[f].revision} : f \in DOMAIN file}

\* Every revision of every file can be read: its physical file is there.
FilesReadable ==
  \A f \in DOMAIN file : \A r \in 1 .. file[f].revision : <<file[f].owner, f, r>> \in stored

\* What a directory lists has a record: listings, uploads and deletions in it
\* meet no missing file.
ListingsResolve == \A d \in DOMAIN dir : dir[d].files_contained \subseteq DOMAIN file

\* The root of every account exists, whatever its owner deletes.
RootsSurvive == \A u \in Users : user[u].dir_root \in DOMAIN dir

\* A file is forgotten only from the trash: no request destroys a file its owner
\* has not deleted before.
OnlyTrashIsForgotten ==
  [][\A f \in DOMAIN file : f \in DOMAIN file' \/ InTrash(f)]_vars

\* Every id in a list of deleted files still has a record, so purging or
\* recovering the whole list can succeed.
TrashResolves == \A u \in Users : Trash(u) \subseteq DOMAIN file

=============================================================================
