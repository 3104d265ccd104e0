------------------------------ MODULE Accounting ------------------------------
(***************************************************************************)
(* Sizes and quota.  Every request of Catalog that moves a file also moves *)
(* numbers: the size of the directories above the file, and the quota its  *)
(* owner has used.  They are decimal strings of a size_t, read, changed    *)
(* and written back one handler call at a time; nothing ties them to the   *)
(* files but the discipline of the handlers.                               *)
(*                                                                         *)
(* Each action here is an action of Catalog together with what the same    *)
(* handler does to the numbers.  Clients are careful (no Slips), so the    *)
(* requests that stop halfway do not occur: see Placement and              *)
(* DirectoryTree in Catalog.                                               *)
(***************************************************************************)
EXTENDS Catalog, Integers

CONSTANTS
  Sizes,     \* sizes of uploads; the REST node refuses an empty one
  MaxQuota,  \* max_user_quota_
  Width      \* a size_t holds 0 .. Width - 1

ASSUME AccountingAssumption ==
  /\ Width \in Nat \ {0} /\ Sizes \subseteq 1 .. Width - 1
  /\ MaxQuota \in Nat /\ \A s \in Sizes : MaxQuota + s < Width
  /\ Slips = {}

VARIABLES
  file_size,   \* file id -> the size in its record
  dir_size,    \* directory id -> the size in its record
  quota_used,  \* user id -> the quota in its record
  bytes,       \* physical file -> its real size
  lost,        \* history: user id -> what purges erased and did not give back
  drift        \* history: directory id -> by how much the revisions uploaded below
               \* it differ from what was taken off for them

numbers == <<file_size, dir_size, quota_used, bytes, lost, drift>>

Wrap(n) == n % Width

\* d and the directories above it, as the recursive handlers climb: the least set
\* with d in it that is closed under parent_directory.
Above(d) ==
  {x \in DOMAIN dir :
     \A S \in SUBSET DOMAIN dir :
       (d \in S /\ \A y \in S : {dir[y].parent_directory} \cap DOMAIN dir \subseteq S) => x \in S}

\* The sum of size[x] over the x of X, as the number of their bytes.
BytesIn(size, X) == UNION {{x} \X (1 .. size[x]) : x \in X}
Total(size, X)   == Cardinality(BytesIn(size, X))

AccountingInit ==
  /\ Init
  /\ file_size = [f \in {} |-> 0]
  /\ dir_size = [d \in DOMAIN dir |-> 0]
  /\ quota_used = [u \in Users |-> 0]
  /\ bytes = [b \in {} |-> 0]
  /\ lost = [u \in Users |-> 0]
  /\ drift = [d \in DOMAIN dir |-> 0]

----------------------------------------------------------------------------
\* A new directory is empty.  (MakeDirectoryUnsized is the variant whose batch
\* lacks the size.)
MakeDirectoryUnsized(u, p) == NewDirectory(u, p) /\ UNCHANGED numbers
MakeDirectory(u, p) ==
  /\ NewDirectory(u, p)
  /\ dir_size' = Put(dir_size, ticket.dir, 0) /\ drift' = Put(drift, ticket.dir, 0)
  /\ UNCHANGED <<file_size, quota_used, bytes, lost>>

\* An upload within the quota.
Upload(u, p, n, s) ==
  /\ Wrap(quota_used[u] + s) <= MaxQuota
  /\ NewFile(u, p, n)
  /\ file_size' = Put(file_size, ticket.file, s)
  /\ bytes' = Put(bytes, <<u, ticket.file, 1>>, s)
  /\ quota_used' = [quota_used EXCEPT ![u] = Wrap(@ + s)]
  /\ dir_size' = [x \in DOMAIN dir |-> Wrap(dir_size[x] + IF x \in Above(p) THEN s ELSE 0)]
  /\ UNCHANGED <<lost, drift>>

\* An upload of a revision: the directories lose the size in the record of the
\* file, which no revision updates, and gain the new one.  (In the variant
\* UploadRevisionAsReplacement the quota, too, loses the size in the record; in
\* UploadRevisionOnTop the directories do not.)
Drift(p, n) == drift' = [x \in DOMAIN dir |-> drift[x] + IF x \in Above(p) THEN n ELSE 0]

UploadRevisionAsReplacement(u, p, g, s) ==
  /\ Wrap(quota_used[u] + s) <= MaxQuota
  /\ NewRevision(u, p, g)
  /\ bytes' = Put(bytes, <<u, g, file[g].revision + 1>>, s)
  /\ quota_used' = [quota_used EXCEPT ![u] = Wrap(@ + s - file_size[g])]
  /\ dir_size' = [x \in DOMAIN dir |->
       IF x \in Above(p) THEN Wrap(Wrap(dir_size[x] - file_size[g]) + s) ELSE dir_size[x]]
  /\ Drift(p, s - file_size[g])
  /\ UNCHANGED <<file_size, lost>>

UploadRevisionOnTop(u, p, g, s) ==
  /\ Wrap(quota_used[u] + s) <= MaxQuota
  /\ NewRevision(u, p, g)
  /\ bytes' = Put(bytes, <<u, g, file[g].revision + 1>>, s)
  /\ quota_used' = [quota_used EXCEPT ![u] = Wrap(@ + s)]
  /\ dir_size' = [x \in DOMAIN dir |-> Wrap(dir_size[x] + IF x \in Above(p) THEN s ELSE 0)]
  /\ Drift(p, s - file_size[g])
  /\ UNCHANGED <<file_size, lost>>

UploadRevision(u, p, g, s) ==
  /\ Wrap(quota_used[u] + s) <= MaxQuota
  /\ NewRevision(u, p, g)
  /\ bytes' = Put(bytes, <<u, g, file[g].revision + 1>>, s)
  /\ quota_used' = [quota_used EXCEPT ![u] = Wrap(@ + s)]
  /\ dir_size' = [x \in DOMAIN dir |->
       IF x \in Above(p) THEN Wrap(Wrap(dir_size[x] - file_size[g]) + s) ELSE dir_size[x]]
  /\ Drift(p, s - file_size[g])
  /\ UNCHANGED <<file_size, lost>>

\* Requests that move no file: names, shares, a directory that is not made.
Annotate(u) ==
  /\ \/ \E d \in DirId : NewDirectoryInDeleted(u, d)
     \/ \E f \in FileId :
          \/ LeaveSharedFile(u, f)
          \/ \E n \in Names : ModifyFileInfo(u, f, n)
          \/ \E v \in Users : SetFileShare(u, f, v) \/ UnsetFileShare(u, f, v)
          \/ \E V \in SUBSET Users : OverwriteFileSharing(u, f, V)
  /\ UNCHANGED numbers

\* The trash still counts against the quota, not in the sizes of directories.
TrashFile(u, f) ==
  /\ DeleteFile(u, f)
  /\ dir_size' = [x \in DOMAIN dir |->
       Wrap(dir_size[x] - IF x \in Above(file[f].parent_directory) THEN file_size[f] ELSE 0)]
  /\ UNCHANGED <<file_size, quota_used, bytes, lost, drift>>

\* The files go one by one, each taking its size off what is above it; what
\* remains above d has lost them all.  (TrashDirectoryUncounted is the variant
\* that erases the records without a look at the sizes.)
TrashDirectoryUncounted(u, d) ==
  /\ DeleteDirectory(u, d)
  /\ dir_size' = Erase(dir_size, Subtree(d)) /\ drift' = Erase(drift, Subtree(d))
  /\ UNCHANGED <<file_size, quota_used, bytes, lost>>

TrashDirectory(u, d) ==
  /\ DeleteDirectory(u, d)
  /\ LET gone == Total(file_size, FilesIn(Subtree(d)))
     IN  dir_size' = [x \in DOMAIN dir \ Subtree(d) |->
                        Wrap(dir_size[x] - IF x \in Above(d) THEN gone ELSE 0)]
  /\ drift' = Erase(drift, Subtree(d))
  /\ UNCHANGED <<file_size, quota_used, bytes, lost>>

\* A purge gives back the size in the record of each file, once, whatever its
\* revisions took: the later ones are lost.  (PurgeForFree is the variant that
\* gives nothing back.)
Lose(u, S) ==
  lost' = [lost EXCEPT ![u] = @ + Total(bytes, {b \in RevisionsOf(S) : b[3] > 1})]

PurgeForFree(u, S) ==
  /\ PurgeDeletedFiles(u, S)
  /\ file_size' = Erase(file_size, S)
  /\ bytes' = Erase(bytes, RevisionsOf(S)) /\ Lose(u, S)
  /\ UNCHANGED <<dir_size, quota_used, drift>>

Purge(u, S) ==
  /\ PurgeDeletedFiles(u, S)
  /\ file_size' = Erase(file_size, S)
  /\ bytes' = Erase(bytes, RevisionsOf(S)) /\ Lose(u, S)
  /\ quota_used' = [quota_used EXCEPT ![u] = Wrap(@ - Total(file_size, S))]
  /\ UNCHANGED <<dir_size, drift>>

\* Every recovered file adds its size above its new place.
Recover(u, S) ==
  /\ RecoverDeletedFiles(u, S)
  /\ dir_size' = [x \in DOMAIN dir |->
                    Wrap(dir_size[x] + Total(file_size, {f \in S : x \in Above(Home(u, f))}))]
  /\ UNCHANGED <<file_size, quota_used, bytes, lost, drift>>

AccountingNext ==
  \E u \in Users :
    \/ Annotate(u)
    \/ \E d \in DirId :
         \/ MakeDirectory(u, d) \/ TrashDirectory(u, d)
         \/ \E s \in Sizes : \/ \E n \in Names : Upload(u, d, n, s)
                             \/ \E g \in FileId : UploadRevision(u, d, g, s)
    \/ \E f \in FileId : TrashFile(u, f)
    \/ \E S \in SUBSET FileId : Purge(u, S) \/ Recover(u, S)

AccountingSpec == AccountingInit /\ [][AccountingNext]_<<vars, numbers>>

----------------------------------------------------------------------------
(* Properties.                                                             *)

BytesOf(u) == Total(bytes, {b \in DOMAIN bytes : b[1] = u})

\* There is a size for all that exists and for nothing else, within what a size_t
\* holds.  (Any number that is written back is, whether it wrapped or not.)
AccountingTypeOK ==
  /\ DOMAIN file_size = DOMAIN file /\ DOMAIN dir_size = DOMAIN dir
  /\ DOMAIN bytes = stored
  /\ \A f \in DOMAIN file_size : file_size[f] \in Sizes
  /\ \A d \in DOMAIN dir_size : dir_size[d] \in 0 .. Width - 1
  /\ \A b \in DOMAIN bytes : bytes[b] \in Sizes
  /\ quota_used \in [Users -> 0 .. Width - 1] /\ lost \in [Users -> Nat]
  /\ drift \in [DOMAIN dir -> Int]

\* The quota is a limit on storage: what an account keeps on the disk, trash and
\* old revisions included, is never more than its quota_used, nor that more than
\* max_user_quota_.
QuotaBoundsStorage == \A u \in Users : BytesOf(u) <= quota_used[u] /\ quota_used[u] <= MaxQuota

\* The quota is given back: quota_used is what the account keeps on the disk, so
\* it is 0 again once everything is deleted and purged.
QuotaIsStorage == \A u \in Users : quota_used[u] = BytesOf(u)

\* What the handlers do keep: quota_used is what the account has on the disk and
\* what its purges lost, through any sequence of uploads, revisions, deletions,
\* recoveries and purges, and never wraps.
QuotaIsAccounted == \A u \in Users : quota_used[u] = BytesOf(u) + lost[u]

\* The size of a directory is the sum over the files below it of the size of
\* their latest revision, as long as no file ever had a second one: a second is
\* taken off at the size of the first when the file is deleted or revised again.
\* (DirSizeIsAccounted says what it is in general.)
NeverRevised == (\A f \in DOMAIN file : file[f].revision = 1) /\ \A u \in Users : lost[u] = 0
DirSizeIsSum ==
  NeverRevised => \A d \in DOMAIN dir :
    dir_size[d] = Total(bytes, {<<file[f].owner, f, file[f].revision>> : f \in FilesIn(Subtree(d))})

\* What the handlers do keep of a directory's size, with revisions of any size: it is
\* the first sizes of the files below it and what revisions made of it ever since,
\* those of files deleted long ago included.  That is never more than the quota its
\* owner used, so the size never wraps from above; but it may be less than nothing,
\* and then the size is close to the largest size_t.
DirSizeIsAccounted ==
  \A d \in DOMAIN dir :
    LET kept == Total(file_size, FilesIn(Subtree(d))) + drift[d]
    IN  kept <= quota_used[dir[d].owner] /\ dir_size[d] = Wrap(kept)

=============================================================================
