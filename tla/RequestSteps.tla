----------------------------- MODULE RequestSteps -----------------------------
(***************************************************************************)
(* The requests of Catalog as what they are on the disk: a sequence of     *)
(* writes, each a put or a batch of DBHandler or one physical file, and a  *)
(* process that may die between any two of them.  Nothing is rolled back   *)
(* or resumed: the restarted server finds what was written.                *)
(*                                                                         *)
(* One thread runs one request at a time, so what a handler reads in its   *)
(* middle is what was there at its start and what it wrote itself.  The    *)
(* writes of a request are therefore known when it starts: Program gives   *)
(* them, up to the read of a missing record that stops the handler.  The   *)
(* order of a stored list is any order; that of sub-directories is the     *)
(* order of their ids, in which they are appended.                         *)
(*                                                                         *)
(* Clients ask for what the listings show, no more (Slips = {}).  A client *)
(* whose request died gets no answer.  It repeats the request, if that is  *)
(* one that may be repeated, or gives it up; until it has repeated it,     *)
(* it asks for nothing else.  Sizes, names and dates are left out, and     *)
(* with them the writes that change nothing else.                          *)
(***************************************************************************)
EXTENDS Catalog, SequencesExt

CONSTANT MaxCrashes   \* bound: requests that die halfway

ASSUME StepsAssumption == Slips = {} /\ MaxCrashes \in Nat

VARIABLES
  run,     \* the request in progress: who asked for what, the writes still to
           \* do, whether the handler then succeeds, whether it wrote anything
  before,  \* the store when it started
  owed,    \* user -> the request it has to repeat
  hurt,    \* users one of whose requests died and was not repeated
  crashes  \* how many requests died halfway

store    == <<user, dir, file, stored, ticket>>
stepVars == <<user, dir, file, stored, ticket, run, before, owed, hurt, crashes>>

Idle    == [todo |-> <<>>]
Nothing == <<>>
NoAsk   == [kind |-> "none"]

StepsInit ==
  /\ Init
  /\ run = Idle /\ before = Nothing
  /\ owed = [u \in Users |-> NoAsk] /\ hurt = {} /\ crashes = 0

----------------------------------------------------------------------------
(* Programs: writes to do, and whether the handler gets to its end.        *)

Do(writes)    == [todo |-> writes, ok |-> TRUE]
Stop          == [todo |-> <<>>, ok |-> FALSE]
Then(a, b)    == IF a.ok THEN [todo |-> a.todo \o b.todo, ok |-> b.ok] ELSE a
\* The programs B[x] of those x of S that the stored list o has, in its order.
ForEach(o, S, B) ==
  LET done[n \in 0 .. Len(o)] ==
        IF n = 0 THEN Do(<<>>)
        ELSE IF o[n] \in S THEN Then(done[n - 1], B[o[n]]) ELSE done[n - 1]
  IN  done[Len(o)]

\* Lists of users and of files in any order, sub-directories by age.
Orders == SetToSeqs(Users \cup FileId)
ByAge  == [i \in DirId |-> i]

\* set_file_share and unset_file_share: the user first, then the file.  (The
\* variant UnlistOnly forgets the file.)
ShareWrites(f, v)   == Do(<<[op |-> "list_share",   user |-> v, file |-> f],
                            [op |-> "grant_share",  user |-> v, file |-> f]>>)
UnlistOnly(f, v)    == Do(<<[op |-> "unlist_share", user |-> v, file |-> f]>>)
UnshareWrites(f, v) == Do(<<[op |-> "unlist_share", user |-> v, file |-> f],
                            [op |-> "revoke_share", user |-> v, file |-> f]>>)

\* overwrite_file_sharing_by_list.
OverwriteWrites(f, V, o) ==
  Then(ForEach(o, file[f].users_shared, [v \in Users |-> UnshareWrites(f, v)]),
       ForEach(o, V, [v \in Users |-> ShareWrites(f, v)]))

\* delete_file by the owner: trash, directory, shares.  (ForgetWrites is the
\* variant that erases the record instead.)
ForgetWrites(f, o) == Do(<<[op |-> "erase_file", file |-> f],
                           [op |-> "unlist", dir |-> file[f].parent_directory, file |-> f]>>)
TrashWrites(f, o) ==
  Then(Do(<<[op |-> "trash", user |-> file[f].owner, file |-> f]>>),
       IF file[f].parent_directory \notin DOMAIN dir THEN Stop
       ELSE Then(Do(<<[op |-> "unlist", dir |-> file[f].parent_directory, file |-> f]>>),
                 ForEach(o, file[f].users_shared, [v \in Users |-> UnshareWrites(f, v)])))

\* delete_dir_recursive: sub-directories (below has their programs), files, the
\* directory itself.  (In the variant EraseTopDown the directory goes first.)
TrashListed(x, o) ==
  ForEach(o, dir[x].files_contained,
          [f \in FileId |-> IF f \in DOMAIN file THEN TrashWrites(f, o) ELSE Stop])

EraseTopDown(x, below, o) ==
  IF x \notin DOMAIN dir THEN Stop
  ELSE Then(Do(<<[op |-> "erase_dir", dir |-> x]>>),
       Then(ForEach(ByAge, dir[x].directories_contained, below), TrashListed(x, o)))

EraseBottomUp(x, below, o) ==
  IF x \notin DOMAIN dir THEN Stop
  ELSE Then(ForEach(ByAge, dir[x].directories_contained, below),
       Then(TrashListed(x, o), Do(<<[op |-> "erase_dir", dir |-> x]>>)))

TreeWrites(d, o) ==
  LET erase[x \in DirId] ==
        EraseBottomUp(x, [c \in dir[x].directories_contained |-> erase[c]], o)
  IN  erase[d]

\* delete_directory: the tree, then the parent's list.
DeleteDirectoryWrites(d, o) ==
  Then(TreeWrites(d, o),
       Do(<<[op |-> "unlist_dir", dir |-> dir[d].parent_directory, child |-> d]>>))

\* purge_deleted_files: per file the physical files, latest first, and the
\* record; then the list.  A second copy of an id finds no record.
PurgeOne(u, f) ==
  IF f \notin DOMAIN file THEN Stop
  ELSE Then(Do([i \in 1 .. file[f].revision |->
                 [op |-> "remove", blob |-> <<file[f].owner, f, file[f].revision + 1 - i>>]]
               \o <<[op |-> "erase_file", file |-> f]>>),
            IF user[u].files_deleted[f] > 1 THEN Stop ELSE Do(<<>>))

PurgeWrites(u, S, o) ==
  Then(ForEach(o, S, [f \in FileId |-> PurgeOne(u, f)]),
       Do(<<[op |-> "empty_trash", user |-> u, files |-> S]>>))

\* recover_deleted_files: per file its new home, if the old one is gone, and the
\* directory's list; then the list of deleted files.  (RecoverOneUnadopted is the
\* variant in which the file does not learn its new home.)
RecoverOneUnadopted(u, f) ==
  IF f \notin DOMAIN file \/ Home(u, f) \notin DOMAIN dir THEN Stop
  ELSE Do(<<[op |-> "relist", dir |-> Home(u, f), file |-> f]>>)

RecoverOne(u, f) ==
  IF f \notin DOMAIN file THEN Stop
  ELSE Then(IF file[f].parent_directory \in DOMAIN dir THEN Do(<<>>)
            ELSE Do(<<[op |-> "adopt", dir |-> user[u].dir_root, file |-> f]>>),
            IF Home(u, f) \notin DOMAIN dir THEN Stop
            ELSE Do(<<[op |-> "relist", dir |-> Home(u, f), file |-> f]>>))

RecoverWrites(u, S, o) ==
  Then(ForEach(o, S, [f \in FileId |-> RecoverOne(u, f)]),
       Do(<<[op |-> "empty_trash", user |-> u, files |-> S]>>))

----------------------------------------------------------------------------
(* Requests.  The guard of each is what a client knows from the listings.  *)

\* f is in the directory it names, where its owner sees it.
Listed(f) ==
  /\ f \in DOMAIN file /\ file[f].parent_directory \in DOMAIN dir
  /\ f \in dir[file[f].parent_directory].files_contained

Start(u, ask, program) ==
  /\ run = Idle /\ owed[u] \in {NoAsk, ask}
  /\ program.todo # <<>>
  /\ run' = [user |-> u, ask |-> ask, todo |-> program.todo, ok |-> program.ok, begun |-> FALSE]
  /\ before' = store
  /\ UNCHANGED <<user, dir, file, stored, ticket, owed, hurt, crashes>>

RequestDirectory(u, p) ==
  /\ ticket.dir <= MaxDir /\ p < ticket.dir
  /\ p \in DOMAIN dir => MayName(u, p)
  /\ Start(u, [kind |-> "new_directory", dir |-> p],
       Then(Do(<<[op |-> "draw", id |-> "dir"]>>),
            IF p \in DOMAIN dir
            THEN Do(<<[op |-> "add_dir", dir |-> ticket.dir, user |-> u, parent |-> p]>>)
            ELSE Stop))

RequestNewFile(u, p, n) ==
  /\ ticket.file <= MaxFile
  /\ p \in DOMAIN dir /\ MayName(u, p)
  /\ \A g \in dir[p].files_contained : g \in DOMAIN file /\ file[g].name # n
  /\ Start(u, [kind |-> "new_file", dir |-> p, name |-> n],
       Do(<<[op |-> "draw", id |-> "file"],
            [op |-> "add_file", file |-> ticket.file, user |-> u, dir |-> p, name |-> n],
            [op |-> "save", blob |-> <<u, ticket.file, 1>>]>>))

\* The bytes first, then the record.  (RequestRevisionRecordFirst is the variant
\* with the order swapped.)
RequestRevisionRecordFirst(u, p, g) ==
  /\ p \in DOMAIN dir /\ MayName(u, p)
  /\ g \in dir[p].files_contained \cap DOMAIN file
  /\ file[g].revision < MaxRevision
  /\ Start(u, [kind |-> "revision", dir |-> p, file |-> g],
       Do(<<[op |-> "revise", file |-> g],
            [op |-> "save", blob |-> <<u, g, file[g].revision + 1>>]>>))

RequestRevision(u, p, g) ==
  /\ p \in DOMAIN dir /\ MayName(u, p)
  /\ g \in dir[p].files_contained \cap DOMAIN file
  /\ file[g].revision < MaxRevision
  /\ Start(u, [kind |-> "revision", dir |-> p, file |-> g],
       Do(<<[op |-> "save", blob |-> <<u, g, file[g].revision + 1>>],
            [op |-> "revise", file |-> g]>>))

RequestShare(u, f, v) ==
  /\ Listed(f) /\ file[f].owner = u
  /\ \/ Start(u, [kind |-> "share",   file |-> f, user |-> v], ShareWrites(f, v))
     \/ Start(u, [kind |-> "unshare", file |-> f, user |-> v], UnshareWrites(f, v))

RequestOverwrite(u, f, V, o) ==
  /\ Listed(f) /\ file[f].owner = u
  /\ Start(u, [kind |-> "overwrite", file |-> f, users |-> V], OverwriteWrites(f, V, o))

\* Another user drops f from its list of shared files.
RequestLeave(u, f) ==
  /\ f \in DOMAIN file /\ file[f].owner # u /\ u \in file[f].users_shared
  /\ Start(u, [kind |-> "leave", file |-> f], UnshareWrites(f, u))

RequestDeletion(u, f, o) ==
  /\ Listed(f) /\ file[f].owner = u
  /\ user[u].files_deleted[f] < MaxCopies
  /\ Start(u, [kind |-> "delete", file |-> f], TrashWrites(f, o))

RequestDirectoryDeletion(u, d, o) ==
  /\ d \in DOMAIN dir /\ dir[d].owner = u /\ d # user[u].dir_root
  /\ \A f \in FilesIn(Subtree(d)) \cap DOMAIN file :
       user[file[f].owner].files_deleted[f] < MaxCopies
  /\ Start(u, [kind |-> "delete_dir", dir |-> d], DeleteDirectoryWrites(d, o))

RequestPurge(u, S, o) ==
  /\ S # {} /\ S \subseteq Trash(u)
  /\ Start(u, [kind |-> "purge", files |-> S], PurgeWrites(u, S, o))

RequestRecovery(u, S, o) ==
  /\ S # {} /\ S \subseteq Trash(u)
  /\ Start(u, [kind |-> "recover", files |-> S], RecoverWrites(u, S, o))

----------------------------------------------------------------------------
(* Writes.                                                                 *)

\* The next write is w; after the last one the request is answered.
Next1(op) == run # Idle /\ Head(run.todo).op = op
W         == Head(run.todo)

Advance ==
  /\ IF Len(run.todo) > 1
     THEN /\ run' = [run EXCEPT !.todo = Tail(@), !.begun = @ \/ W.op # "draw"]
          /\ UNCHANGED <<before, owed>>
     ELSE /\ run' = Idle /\ before' = Nothing
          /\ owed' = IF run.ok THEN [owed EXCEPT ![run.user] = NoAsk] ELSE owed
  /\ UNCHANGED <<hurt, crashes>>

CreateId ==
  /\ Next1("draw") /\ Advance
  /\ ticket' = IF W.id = "dir" THEN [ticket EXCEPT !.dir = @ + 1]
                               ELSE [ticket EXCEPT !.file = @ + 1]
  /\ UNCHANGED <<user, dir, file, stored>>

AddDirectory ==
  /\ Next1("add_dir") /\ Advance
  /\ dir' = Put([dir EXCEPT ![W.parent].directories_contained = @ \cup {W.dir}],
                W.dir, EmptyDir(W.user, W.parent))
  /\ UNCHANGED <<user, file, stored, ticket>>

AddFile ==
  /\ Next1("add_file") /\ Advance
  /\ file' = Put(file, W.file, NewRecord(W.user, W.dir, W.name))
  /\ dir' = [dir EXCEPT ![W.dir].files_contained = @ \cup {W.file}]
  /\ UNCHANGED <<user, stored, ticket>>

PhysicalFile ==
  /\ \/ Next1("save")   /\ stored' = stored \cup {W.blob}
     \/ Next1("remove") /\ stored' = stored \ {W.blob}
  /\ Advance /\ UNCHANGED <<user, dir, file, ticket>>

ModifyUser ==
  /\ \/ Next1("list_share")   /\ user' = [user EXCEPT ![W.user].shared_files = @ \cup {W.file}]
     \/ Next1("unlist_share") /\ user' = [user EXCEPT ![W.user].shared_files = @ \ {W.file}]
     \/ Next1("trash")        /\ user' = [user EXCEPT ![W.user].files_deleted[W.file] = @ + 1]
     \/ Next1("empty_trash")  /\ user' = Without(W.user, W.files)
  /\ Advance /\ UNCHANGED <<dir, file, stored, ticket>>

ModifyFile ==
  /\ \/ Next1("grant_share")  /\ file' = [file EXCEPT ![W.file].users_shared = @ \cup {W.user}]
     \/ Next1("revoke_share") /\ file' = [file EXCEPT ![W.file].users_shared = @ \ {W.user}]
     \/ Next1("adopt")        /\ file' = [file EXCEPT ![W.file].parent_directory = W.dir]
     \/ Next1("revise")       /\ file' = [file EXCEPT ![W.file].revision = @ + 1]
  /\ Advance /\ UNCHANGED <<user, dir, stored, ticket>>

ModifyDirectory ==
  /\ \/ Next1("unlist")     /\ dir' = [dir EXCEPT ![W.dir].files_contained = @ \ {W.file}]
     \/ Next1("relist")     /\ dir' = [dir EXCEPT ![W.dir].files_contained = @ \cup {W.file}]
     \/ Next1("unlist_dir") /\ dir' = [dir EXCEPT ![W.dir].directories_contained = @ \ {W.child}]
  /\ Advance /\ UNCHANGED <<user, file, stored, ticket>>

EraseRecord ==
  /\ \/ Next1("erase_dir")  /\ dir' = Erase(dir, {W.dir}) /\ UNCHANGED file
     \/ Next1("erase_file") /\ file' = Erase(file, {W.file}) /\ UNCHANGED dir
  /\ Advance /\ UNCHANGED <<user, stored, ticket>>

----------------------------------------------------------------------------
(* A crash and a restart.  Before its first write but that of an id a      *)
(* request leaves no trace, and between requests there is nothing to lose. *)

Repeatable == {"share", "unshare", "overwrite", "leave", "recover", "revision"}

Crash ==
  /\ run # Idle
  /\ run' = Idle /\ before' = Nothing
  /\ IF ~run.begun THEN UNCHANGED <<owed, hurt, crashes>>
     ELSE /\ crashes < MaxCrashes /\ crashes' = crashes + 1
          /\ \/ /\ run.ask.kind \in Repeatable
                /\ owed' = [owed EXCEPT ![run.user] = run.ask] /\ UNCHANGED hurt
             \/ /\ hurt' = hurt \cup {run.user}
                /\ owed' = [owed EXCEPT ![run.user] = NoAsk]
  /\ UNCHANGED <<user, dir, file, stored, ticket>>

Request ==
  \E u \in Users :
    \/ \E p \in DirId : \/ RequestDirectory(u, p)
                        \/ \E n \in Names : RequestNewFile(u, p, n)
                        \/ \E g \in FileId : RequestRevision(u, p, g)
    \/ \E f \in FileId : RequestLeave(u, f) \/ \E v \in Users : RequestShare(u, f, v)
    \/ \E o \in Orders :
         \/ \E f \in FileId : \/ RequestDeletion(u, f, o)
                              \/ \E V \in SUBSET Users : RequestOverwrite(u, f, V, o)
         \/ \E d \in DirId : RequestDirectoryDeletion(u, d, o)
         \/ \E S \in SUBSET FileId : RequestPurge(u, S, o) \/ RequestRecovery(u, S, o)

Write ==
  \/ CreateId \/ AddDirectory \/ AddFile \/ PhysicalFile
  \/ ModifyUser \/ ModifyFile \/ ModifyDirectory \/ EraseRecord

CrashAtRest == run = Idle /\ UNCHANGED stepVars

StepsNext == Request \/ Write \/ Crash \/ CrashAtRest
StepsSpec == StepsInit /\ [][StepsNext]_stepVars

----------------------------------------------------------------------------
(* Properties.                                                             *)

\* A request in progress has writes left and the store it started from; at rest
\* there is no snapshot, and only repeatable requests are owed.
StepsTypeOK ==
  /\ TypeOK
  /\ run # Idle => run.user \in Users /\ run.todo # <<>> /\ Len(before) = 5
  /\ run = Idle => before = Nothing
  /\ \A u \in Users : owed[u].kind \in Repeatable \cup {"none"}
  /\ hurt \subseteq Users /\ crashes \in 0 .. MaxCrashes

\* Users with every request of theirs answered or repeated.
Clean(u) == u \notin hurt /\ owed[u] = NoAsk /\ (run # Idle => run.user # u)

\* What user u keeps is as Catalog promises: its directories form a tree, each of
\* its files is in one place, its trash can be emptied, the disk has exactly the
\* revisions of its files, and it agrees with other clean users about shares.
Whole(u) ==
  /\ \A d \in DOMAIN dir : dir[d].owner = u =>
       /\ dir[d].parent_directory # NoParent =>
            d \in dir[dir[d].parent_directory].directories_contained
       /\ dir[d].directories_contained \subseteq DOMAIN dir
       /\ dir[d].files_contained \subseteq DOMAIN file
  /\ \A f \in DOMAIN file : file[f].owner = u =>
       /\ InTrash(f) <=> ~Listed(f)
       /\ \A v \in Users : Clean(v) => (v \in file[f].users_shared <=> f \in user[v].shared_files)
       /\ InTrash(f) => file[f].users_shared = {}
  /\ \A f \in Trash(u) : f \in DOMAIN file /\ user[u].files_deleted[f] = 1
  /\ {b \in stored : b[1] = u} =
       UNION {{<<u, f, r>> : r \in 1 .. file[f].revision} :
                f \in {g \in DOMAIN file : file[g].owner = u}}

\* A crash hurts nobody but the user whose request died, and not even that user if
\* it repeats a request that shares, recovers or uploads a revision: everybody else
\* keeps a consistent tree, trash, disk and shares, whatever is asked afterwards.
CrashIsLocal == \A u \in Users : Clean(u) => Whole(u)

\* A file is in at most one directory, the one it names, after any crashes: a purge
\* or a deletion never leaves it in a second listing.
ListedWhereItSays ==
  \A d \in DOMAIN dir : \A f \in dir[d].files_contained \cap DOMAIN file :
    file[f].parent_directory = d

\* After any crashes, records are destroyed from the trash only.
OnlyTrashIsErased == [][\A f \in DOMAIN file : f \in DOMAIN file' \/ InTrash(f)]_stepVars

\* Up to the first request that dies halfway, a request and all its writes are one
\* step of Catalog; one that dies before writing anything wastes an id at most.
Seen(v, i)  == IF run # Idle THEN before[i] ELSE v
C == INSTANCE Catalog WITH user <- Seen(user, 1), dir <- Seen(dir, 2), file <- Seen(file, 3),
                           stored <- Seen(stored, 4), ticket <- Seen(ticket, 5)
IdLost ==
  /\ UNCHANGED <<Seen(user, 1), Seen(dir, 2), Seen(file, 3), Seen(stored, 4)>>
  /\ Seen(ticket, 5)' \in {[Seen(ticket, 5) EXCEPT !.dir = @ + 1],
                           [Seen(ticket, 5) EXCEPT !.file = @ + 1]}
ImplementsCatalog == C!Init /\ [][crashes' > 0 \/ C!Next \/ IdLost]_(C!vars)

=============================================================================
