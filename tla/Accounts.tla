------------------------------- MODULE Accounts -------------------------------
(***************************************************************************)
(* Accounts: signing up, changing the e-mail address, removing an account. *)
(* Each of these requests is a sequence of writes to the database, and the *)
(* process may die between two of them: then the request is forgotten and  *)
(* what was written stays.  A request is taken one write at a time; a      *)
(* batch is one write.  Only one request runs at a time.                   *)
(*                                                                         *)
(* An account, its entry in the index of addresses, its address in the     *)
(* list of all users, its root and its directory of shared files are five  *)
(* records of one fact.  Passwords, names and places decide nothing here,  *)
(* logging in writes a token only, and what is in the directories is left  *)
(* to Catalog.                                                             *)
(***************************************************************************)
EXTENDS Naturals

CONSTANTS
  Emails,    \* addresses
  MaxUser,   \* bound: user ids handed out
  Slips      \* what goes wrong, see below

(***************************************************************************)
(*   "crash"        the process dies in a request, and is started again    *)
(*   "taken_email"  an account changes to the address of another one       *)
(***************************************************************************)
ASSUME AccountsAssumption ==
  /\ MaxUser \in Nat
  /\ Slips \subseteq {"crash", "taken_email"}

VARIABLES
  account,   \* user id -> its record
  index,     \* address -> user id
  listed,    \* addresses in the list of all users
  dir,       \* directory id -> its owner and the directories it contains
  ticket,    \* the next user id and the next directory id
  run,       \* the request in progress: its next write and its locals
  answered,  \* accounts whose sign-up was answered with success and none of whose
             \* requests was cut short since
  cut        \* some request was cut short

vars == <<account, index, listed, dir, ticket, run, answered, cut>>

MaxDir == 2 * MaxUser
UserId == 1 .. MaxUser
DirId  == 1 .. MaxDir

\* The writes in the order of the code, and the answer.
SignUpWrites == {"draw_root", "make_root", "make_account", "index_email", "list_email",
                 "draw_shared", "make_shared", "signed_up"}
ModifyWrites == {"unlist_old", "list_new", "move_email", "modified"}
DeleteWrites == {"erase_shared", "erase_root", "erase_account", "unlist_email", "deleted"}

Idle == [at |-> "idle"]

TypeOK ==
  /\ DOMAIN account \subseteq UserId
  /\ account \in [DOMAIN account -> [email : Emails, dir_root : DirId]]
  /\ DOMAIN index \subseteq Emails /\ index \in [DOMAIN index -> UserId]
  /\ listed \subseteq Emails
  /\ DOMAIN dir \subseteq DirId
  /\ dir \in [DOMAIN dir -> [owner : UserId, directories_contained : SUBSET DirId]]
  /\ ticket \in [user : 1 .. MaxUser + 1, dir : 1 .. MaxDir + 1]
  /\ run \in {Idle} \cup [at : SignUpWrites \cup ModifyWrites \cup DeleteWrites,
                          id : UserId, email : Emails, dir_id : 0 .. MaxDir]
  /\ answered \subseteq UserId
  /\ cut \in BOOLEAN

Put(f, k, v) == [x \in DOMAIN f \cup {k} |-> IF x = k THEN v ELSE f[x]]
Erase(f, S)  == [x \in DOMAIN f \ S |-> f[x]]

\* The request goes on from its write w to its write v.
Step(w, v) == run.at = w /\ run' = [run EXCEPT !.at = v]

\* Whoever logs in with the address of account u gets account u.  Requests come from
\* such accounts only (an account that lost its address to another is left alone).
Indexed(u) == account[u].email \in DOMAIN index /\ index[account[u].email] = u

Root(u) == account[u].dir_root

Init ==
  /\ account = [u \in {} |-> u] /\ index = [e \in {} |-> e] /\ dir = [d \in {} |-> d]
  /\ listed = {} /\ answered = {}
  /\ ticket = [user |-> 1, dir |-> 1]
  /\ run = Idle
  /\ cut = FALSE

----------------------------------------------------------------------------
(* Signing up.  (SignUpUndrawn and DrawTwice are the variants that do not  *)
(* draw an id for the root, and do not write the ticket back.)             *)

SignUpUndrawn(e) ==
  /\ run = Idle /\ ticket.user <= MaxUser
  /\ e \notin DOMAIN index
  /\ ticket' = [ticket EXCEPT !.user = @ + 1]
  /\ run' = [at |-> "make_root", id |-> ticket.user, email |-> e, dir_id |-> 0]
  /\ UNCHANGED <<account, index, listed, dir, answered, cut>>

SignUp(e) ==
  /\ run = Idle /\ ticket.user <= MaxUser
  /\ e \notin DOMAIN index
  /\ ticket' = [ticket EXCEPT !.user = @ + 1]
  /\ run' = [at |-> "draw_root", id |-> ticket.user, email |-> e, dir_id |-> 0]
  /\ UNCHANGED <<account, index, listed, dir, answered, cut>>

DrawTwice(w, v) ==
  /\ run.at = w /\ ticket.dir <= MaxDir
  /\ run' = [run EXCEPT !.at = v, !.dir_id = ticket.dir]
  /\ UNCHANGED <<account, index, listed, dir, ticket, answered, cut>>

DrawDirectory(w, v) ==
  /\ run.at = w /\ ticket.dir <= MaxDir
  /\ run' = [run EXCEPT !.at = v, !.dir_id = ticket.dir]
  /\ ticket' = [ticket EXCEPT !.dir = @ + 1]
  /\ UNCHANGED <<account, index, listed, dir, answered, cut>>

MakeRoot ==
  /\ Step("make_root", "make_account")
  /\ dir' = Put(dir, run.dir_id, [owner |-> run.id, directories_contained |-> {}])
  /\ UNCHANGED <<account, index, listed, ticket, answered, cut>>

MakeAccount ==
  /\ Step("make_account", "index_email")
  /\ account' = Put(account, run.id, [email |-> run.email, dir_root |-> run.dir_id])
  /\ UNCHANGED <<index, listed, dir, ticket, answered, cut>>

IndexEmail ==
  /\ Step("index_email", "list_email")
  /\ index' = Put(index, run.email, run.id)
  /\ UNCHANGED <<account, listed, dir, ticket, answered, cut>>

ListEmail ==
  /\ Step("list_email", "draw_shared")
  /\ listed' = listed \cup {run.email}
  /\ UNCHANGED <<account, index, dir, ticket, answered, cut>>

\* One batch: the directory of shared files, and its id in the root's list.
MakeShared ==
  /\ Step("make_shared", "signed_up")
  /\ dir' = Put([dir EXCEPT ![Root(run.id)].directories_contained = @ \cup {run.dir_id}],
                run.dir_id, [owner |-> run.id, directories_contained |-> {}])
  /\ UNCHANGED <<account, index, listed, ticket, answered, cut>>

----------------------------------------------------------------------------
(* Another address: the list of all users first, then one batch for the    *)
(* account and the index.  (MoveEmailAndKeep is the variant that leaves    *)
(* the old address in the index.)                                          *)

ModifyUserInfo(u, e) ==
  /\ run = Idle
  /\ u \in DOMAIN account /\ Indexed(u) /\ account[u].email # e
  /\ e \notin DOMAIN index \/ "taken_email" \in Slips
  /\ run' = [at |-> "unlist_old", id |-> u, email |-> e, dir_id |-> 0]
  /\ UNCHANGED <<account, index, listed, dir, ticket, answered, cut>>

UnlistOld ==
  /\ Step("unlist_old", "list_new")
  /\ listed' = listed \ {account[run.id].email}
  /\ UNCHANGED <<account, index, dir, ticket, answered, cut>>

ListNew ==
  /\ Step("list_new", "move_email")
  /\ listed' = listed \cup {run.email}
  /\ UNCHANGED <<account, index, dir, ticket, answered, cut>>

MoveEmailAndKeep ==
  /\ Step("move_email", "modified")
  /\ account' = [account EXCEPT ![run.id].email = run.email]
  /\ index' = Put(index, run.email, run.id)
  /\ UNCHANGED <<listed, dir, ticket, answered, cut>>

MoveEmail ==
  /\ Step("move_email", "modified")
  /\ account' = [account EXCEPT ![run.id].email = run.email]
  /\ index' = Put(Erase(index, {account[run.id].email}), run.email, run.id)
  /\ UNCHANGED <<listed, dir, ticket, answered, cut>>

----------------------------------------------------------------------------
(* Removing an account: the recursive deletion of its root, children       *)
(* first, then one batch for the account and the index, then the list.  A  *)
(* directory that is missing stops it before anything is written.          *)

DeleteUser(u) ==
  /\ run = Idle
  /\ u \in DOMAIN account /\ Indexed(u)
  /\ Root(u) \in DOMAIN dir /\ dir[Root(u)].directories_contained \subseteq DOMAIN dir
  /\ run' = [at |-> IF dir[Root(u)].directories_contained = {} THEN "erase_root"
                    ELSE "erase_shared",
             id |-> u, email |-> account[u].email, dir_id |-> 0]
  /\ UNCHANGED <<account, index, listed, dir, ticket, answered, cut>>

EraseShared ==
  /\ Step("erase_shared", "erase_root")
  /\ dir' = Erase(dir, dir[Root(run.id)].directories_contained)
  /\ UNCHANGED <<account, index, listed, ticket, answered, cut>>

EraseRoot ==
  /\ Step("erase_root", "erase_account")
  /\ dir' = Erase(dir, {Root(run.id)})
  /\ UNCHANGED <<account, index, listed, ticket, answered, cut>>

EraseAccount ==
  /\ Step("erase_account", "unlist_email")
  /\ account' = Erase(account, {run.id})
  /\ index' = Erase(index, {run.email})
  /\ UNCHANGED <<listed, dir, ticket, answered, cut>>

UnlistEmail ==
  /\ Step("unlist_email", "deleted")
  /\ listed' = listed \ {run.email}
  /\ UNCHANGED <<account, index, dir, ticket, answered, cut>>

----------------------------------------------------------------------------
(* The answer, and a restart.  Starting makes the tickets and the list     *)
(* only if they are missing: what is stored stays as it is.  (AnswerEarly  *)
(* is the variant that answers a sign-up once the account can log in.)     *)

AnswerEarly ==
  /\ run.at \in {"draw_shared", "modified", "deleted"}
  /\ answered' = CASE run.at = "draw_shared" -> answered \cup {run.id}
                   [] run.at = "modified"    -> answered
                   [] run.at = "deleted"     -> answered \ {run.id}
  /\ run' = Idle
  /\ UNCHANGED <<account, index, listed, dir, ticket, cut>>

Answer ==
  /\ run.at \in {"signed_up", "modified", "deleted"}
  /\ answered' = CASE run.at = "signed_up" -> answered \cup {run.id}
                   [] run.at = "modified"  -> answered
                   [] run.at = "deleted"   -> answered \ {run.id}
  /\ run' = Idle
  /\ UNCHANGED <<account, index, listed, dir, ticket, cut>>

\* The process ends and is started again with nothing in progress.
RestartAtRest == run = Idle /\ UNCHANGED vars

RestartInRequest ==
  /\ run # Idle /\ "crash" \in Slips
  /\ run' = Idle /\ cut' = TRUE
  /\ answered' = answered \ {run.id}
  /\ UNCHANGED <<account, index, listed, dir, ticket>>

Next ==
  \/ \E e \in Emails : SignUp(e) \/ \E u \in UserId : ModifyUserInfo(u, e)
  \/ \E u \in UserId : DeleteUser(u)
  \/ DrawDirectory("draw_root", "make_root") \/ DrawDirectory("draw_shared", "make_shared")
  \/ MakeRoot \/ MakeAccount \/ IndexEmail \/ ListEmail \/ MakeShared
  \/ UnlistOld \/ ListNew \/ MoveEmail
  \/ EraseShared \/ EraseRoot \/ EraseAccount \/ UnlistEmail
  \/ Answer \/ RestartAtRest \/ RestartInRequest

Spec == Init /\ [][Next]_vars

----------------------------------------------------------------------------
(* Properties.                                                             *)

\* The account has a root and, in it, its directory of shared files.
HasHome(u) ==
  /\ Root(u) \in DOMAIN dir /\ dir[Root(u)].owner = u
  /\ dir[Root(u)].directories_contained # {}
  /\ \A d \in dir[Root(u)].directories_contained : d \in DOMAIN dir /\ dir[d].owner = u

\* Success is final: an account whose sign-up was answered with success can log in,
\* is in the list of all users and has its directories, but while a request of its
\* own is under way or if one was cut short: never because a request of somebody
\* else was (sign_up, modify_user_info and delete_user, one write at a time).
AnsweredIsComplete ==
  \A u \in answered : (run = Idle \/ run.id # u) =>
    u \in DOMAIN account /\ Indexed(u) /\ account[u].email \in listed /\ HasHome(u)

\* Between requests, if none was ever cut short, the five records agree: every
\* account is indexed, listed and has its directories; nothing else is listed or
\* indexed, and no directory is left of an account that is gone.
WholeAtRest ==
  run = Idle /\ ~cut =>
    /\ \A u \in DOMAIN account : Indexed(u) /\ HasHome(u)
    /\ listed = DOMAIN index /\ listed = {account[u].email : u \in DOMAIN account}
    /\ \A d \in DOMAIN dir : dir[d].owner \in DOMAIN account

\* The index is a book of addresses, a crash at any point included: an id given to
\* a sign-up is used up, and the one write that opens, moves or closes an address
\* is that of the index.
LastId == IF run.at \in {"draw_root", "make_root", "make_account", "index_email"}
          THEN run.id - 1 ELSE ticket.user - 1
Book == INSTANCE AccountBook WITH Ids <- UserId, book <- index, last <- LastId
ImplementsBook == Book!Spec

=============================================================================
