--------------------------- MODULE Accounts_proofs ---------------------------
(***************************************************************************)
(* Proofs about Accounts: with any number of addresses and accounts, and   *)
(* requests cut short at any write, the index of addresses is the book of  *)
(* AccountBook, as long as nobody changes to a taken address.              *)
(***************************************************************************)
EXTENDS Accounts, TLAPS

PreIndex == {"draw_root", "make_root", "make_account", "index_email"}
Drawn    == {"make_root", "make_account", "index_email", "list_email", "draw_shared",
             "make_shared", "signed_up"}
Moving   == {"unlist_old", "list_new", "move_email"}
Closing  == {"erase_shared", "erase_root", "erase_account"}

Request == [at : SignUpWrites \cup ModifyWrites \cup DeleteWrites,
            id : UserId, email : Emails, dir_id : 0 .. MaxDir]

\* A request that makes directories has drawn their ids.
Typed == TypeOK /\ (run.at \in Drawn => run.dir_id \in DirId)

\* What a request knows of the index while it runs: a sign-up holds the last id and
\* a free address; a change of address holds a free one and its account is indexed
\* under the old one; a removal holds an address of the index.
Held ==
  /\ run.at \in PreIndex => run.id = ticket.user - 1 /\ run.email \notin DOMAIN index
  /\ run.at \in Moving =>
       /\ run.id \in DOMAIN account /\ Indexed(run.id)
       /\ run.email \notin DOMAIN index
  /\ run.at \in Closing => run.email \in DOMAIN index

BookInv == Typed /\ Held /\ \A e \in DOMAIN index : index[e] <= LastId

----------------------------------------------------------------------------
(* Types.                                                                  *)

LEMMA Bounds == UserId \subseteq Nat /\ DirId \subseteq Nat /\ MaxDir \in Nat
BY AccountsAssumption DEF UserId, DirId, MaxDir

\* A request goes on: it stays a request, with the same locals.
LEMMA StepType ==
  ASSUME NEW w \in SignUpWrites \cup ModifyWrites \cup DeleteWrites,
         NEW v \in SignUpWrites \cup ModifyWrites \cup DeleteWrites,
         run \in {Idle} \cup Request, Step(w, v)
  PROVE  /\ run \in Request /\ run' \in Request
         /\ run'.at = v /\ run'.id = run.id /\ run'.email = run.email
         /\ run'.dir_id = run.dir_id
<1>1. Idle.at \notin SignUpWrites \cup ModifyWrites \cup DeleteWrites
  BY DEF Idle, SignUpWrites, ModifyWrites, DeleteWrites
<1>2. run \in Request
  BY <1>1 DEF Step
<1> QED BY <1>2 DEF Step, Request

AccountRecord == [email : Emails, dir_root : DirId]
DirRecord     == [owner : UserId, directories_contained : SUBSET DirId]

LEMMA InitTyped == Init => Typed
<1> SUFFICES ASSUME Init PROVE Typed
  OBVIOUS
<1> USE AccountsAssumption DEF Init
<1>1. ticket \in [user : 1 .. MaxUser + 1, dir : 1 .. MaxDir + 1]
  BY DEF MaxDir
<1>2. run = Idle /\ run.at \notin Drawn
  BY DEF Idle, Drawn
<1> QED BY <1>1, <1>2 DEF Typed, TypeOK

LEMMA SignUpTyped ==
  ASSUME Typed,
         \/ \E e \in Emails : SignUp(e)
         \/ DrawDirectory("draw_root", "make_root")
         \/ DrawDirectory("draw_shared", "make_shared")
         \/ MakeRoot \/ MakeAccount \/ IndexEmail \/ ListEmail \/ MakeShared
  PROVE  Typed'
<1> USE DEF Request, AccountRecord, DirRecord
<1>1. ASSUME NEW e \in Emails, SignUp(e) PROVE Typed'
  <2>1. /\ ticket'.user \in 1 .. MaxUser + 1 /\ ticket.user \in UserId
        /\ ticket' \in [user : 1 .. MaxUser + 1, dir : 1 .. MaxDir + 1]
    BY <1>1, Bounds, AccountsAssumption DEF SignUp, Typed, TypeOK, UserId
  <2>2. run' \in Request /\ run'.at = "draw_root"
    BY <1>1, <2>1, Bounds DEF SignUp, SignUpWrites
  <2> QED BY <1>1, <2>1, <2>2 DEF SignUp, Typed, TypeOK, Drawn
<1>2. ASSUME NEW w \in {"draw_root", "draw_shared"}, NEW v \in {"make_root", "make_shared"},
             DrawDirectory(w, v)
      PROVE  Typed'
  <2>1. run \in Request
    BY <1>2 DEF DrawDirectory, Typed, TypeOK, Idle
  <2>2. ticket.dir \in DirId /\ ticket' \in [user : 1 .. MaxUser + 1, dir : 1 .. MaxDir + 1]
    BY <1>2, Bounds DEF DrawDirectory, Typed, TypeOK, DirId
  <2>3. v \in SignUpWrites /\ ticket.dir \in 0 .. MaxDir
    BY <2>2, Bounds DEF SignUpWrites, DirId
  <2>4. run' \in Request /\ run'.dir_id \in DirId
    BY <1>2, <2>1, <2>2, <2>3 DEF DrawDirectory
  <2> QED BY <1>2, <2>2, <2>4 DEF DrawDirectory, Typed, TypeOK
<1>3. CASE MakeRoot
  <2>1. /\ run' \in Request /\ run'.dir_id = run.dir_id
        /\ run.id \in UserId /\ run.dir_id \in DirId
    BY <1>3, StepType DEF MakeRoot, Step, Typed, TypeOK, SignUpWrites, Drawn
  <2>2. DOMAIN dir' \subseteq DirId /\ dir' \in [DOMAIN dir' -> DirRecord]
    BY <1>3, <2>1, Bounds DEF Put, MakeRoot, Typed, TypeOK
  <2> QED BY <1>3, <2>1, <2>2 DEF MakeRoot, Typed, TypeOK
<1>4. CASE MakeAccount
  <2>1. /\ run' \in Request /\ run'.dir_id = run.dir_id
        /\ run.id \in UserId /\ run.dir_id \in DirId /\ run.email \in Emails
    BY <1>4, StepType DEF MakeAccount, Step, Typed, TypeOK, SignUpWrites, Drawn
  <2>2. DOMAIN account' \subseteq UserId /\ account' \in [DOMAIN account' -> AccountRecord]
    BY <1>4, <2>1, Bounds DEF Put, MakeAccount, Typed, TypeOK
  <2> QED BY <1>4, <2>1, <2>2 DEF MakeAccount, Typed, TypeOK
<1>5. CASE IndexEmail
  <2>1. /\ run' \in Request /\ run'.dir_id = run.dir_id
        /\ run.id \in UserId /\ run.dir_id \in DirId /\ run.email \in Emails
    BY <1>5, StepType DEF IndexEmail, Step, Typed, TypeOK, SignUpWrites, Drawn
  <2>2. DOMAIN index' \subseteq Emails /\ index' \in [DOMAIN index' -> UserId]
    BY <1>5, <2>1, Bounds DEF Put, IndexEmail, Typed, TypeOK
  <2> QED BY <1>5, <2>1, <2>2 DEF IndexEmail, Typed, TypeOK
<1>6. CASE ListEmail
  <2>1. /\ run' \in Request /\ run'.dir_id = run.dir_id
        /\ run.dir_id \in DirId /\ run.email \in Emails
    BY <1>6, StepType DEF ListEmail, Step, Typed, TypeOK, SignUpWrites, Drawn
  <2> QED BY <1>6, <2>1 DEF ListEmail, Typed, TypeOK
<1>7. CASE MakeShared
  <2>1. /\ run' \in Request /\ run'.dir_id = run.dir_id
        /\ run.id \in UserId /\ run.dir_id \in DirId
    BY <1>7, StepType DEF MakeShared, Step, Typed, TypeOK, SignUpWrites, Drawn
  <2> DEFINE d == [dir EXCEPT ![Root(run.id)].directories_contained = @ \cup {run.dir_id}]
  <2>2. DOMAIN d \subseteq DirId /\ d \in [DOMAIN d -> DirRecord]
    BY <2>1 DEF Typed, TypeOK
  <2>3. DOMAIN dir' \subseteq DirId /\ dir' \in [DOMAIN dir' -> DirRecord]
    <3> HIDE DEF d
    <3>1. dir' = Put(d, run.dir_id, [owner |-> run.id, directories_contained |-> {}])
      BY <1>7 DEF MakeShared, d
    <3> QED BY <2>1, <2>2, <3>1 DEF Put
  <2> QED BY <1>7, <2>1, <2>3 DEF MakeShared, Typed, TypeOK
<1> QED BY <1>1, <1>2, <1>3, <1>4, <1>5, <1>6, <1>7

LEMMA ModifyTyped ==
  ASSUME Typed,
         \/ \E e \in Emails, u \in UserId : ModifyUserInfo(u, e)
         \/ UnlistOld \/ ListNew \/ MoveEmail
  PROVE  Typed'
<1> USE DEF Request, AccountRecord, DirRecord
<1>1. ASSUME NEW e \in Emails, NEW u \in UserId, ModifyUserInfo(u, e) PROVE Typed'
  <2>1. run' \in Request /\ run'.at = "unlist_old"
    BY <1>1, Bounds DEF ModifyUserInfo, ModifyWrites
  <2> QED BY <1>1, <2>1 DEF ModifyUserInfo, Typed, TypeOK, Drawn
<1>2. CASE UnlistOld
  <2>1. run' \in Request /\ run'.at = "list_new"
    BY <1>2, StepType DEF UnlistOld, Typed, TypeOK, ModifyWrites
  <2> QED BY <1>2, <2>1 DEF UnlistOld, Typed, TypeOK, Drawn
<1>3. CASE ListNew
  <2>1. run \in Request /\ run' \in Request /\ run'.at = "move_email"
    BY <1>3, StepType DEF ListNew, Typed, TypeOK, ModifyWrites
  <2> QED BY <1>3, <2>1 DEF ListNew, Typed, TypeOK, Drawn
<1>4. CASE MoveEmail
  <2>1. run \in Request /\ run' \in Request /\ run'.at = "modified"
    BY <1>4, StepType DEF MoveEmail, Typed, TypeOK, ModifyWrites
  <2>2. DOMAIN account' \subseteq UserId /\ account' \in [DOMAIN account' -> AccountRecord]
    BY ZenonT(40), <1>4, <2>1 DEF MoveEmail, Typed, TypeOK
  <2> DEFINE i == Erase(index, {account[run.id].email})
  <2>3. DOMAIN i \subseteq Emails /\ i \in [DOMAIN i -> UserId]
    BY DEF Erase, Typed, TypeOK
  <2>4. DOMAIN index' \subseteq Emails /\ index' \in [DOMAIN index' -> UserId]
    <3> HIDE DEF i
    <3>1. index' = Put(i, run.email, run.id)
      BY <1>4 DEF MoveEmail, i
    <3> QED BY <2>1, <2>3, <3>1 DEF Put
  <2> QED BY <1>4, <2>1, <2>2, <2>4 DEF MoveEmail, Typed, TypeOK, Drawn
<1> QED BY <1>1, <1>2, <1>3, <1>4

LEMMA DeleteTyped ==
  ASSUME Typed,
         \/ \E u \in UserId : DeleteUser(u)
         \/ EraseShared \/ EraseRoot \/ EraseAccount \/ UnlistEmail
  PROVE  Typed'
<1> USE DEF Request, AccountRecord, DirRecord
<1>1. ASSUME NEW u \in UserId, DeleteUser(u) PROVE Typed'
  <2>1. run' \in Request /\ run'.at \in {"erase_root", "erase_shared"}
    BY <1>1, Bounds DEF DeleteUser, DeleteWrites, Typed, TypeOK
  <2> QED BY <1>1, <2>1 DEF DeleteUser, Typed, TypeOK, Drawn
<1>2. CASE EraseShared
  <2>1. run' \in Request /\ run'.at = "erase_root"
    BY <1>2, StepType DEF EraseShared, Typed, TypeOK, DeleteWrites
  <2>2. DOMAIN dir' \subseteq DirId /\ dir' \in [DOMAIN dir' -> DirRecord]
    BY <1>2 DEF EraseShared, Erase, Typed, TypeOK
  <2> QED BY <1>2, <2>1, <2>2 DEF EraseShared, Typed, TypeOK, Drawn
<1>3. CASE EraseRoot
  <2>1. run' \in Request /\ run'.at = "erase_account"
    BY <1>3, StepType DEF EraseRoot, Typed, TypeOK, DeleteWrites
  <2>2. DOMAIN dir' \subseteq DirId /\ dir' \in [DOMAIN dir' -> DirRecord]
    BY <1>3 DEF EraseRoot, Erase, Typed, TypeOK
  <2> QED BY <1>3, <2>1, <2>2 DEF EraseRoot, Typed, TypeOK, Drawn
<1>4. CASE EraseAccount
  <2>1. run' \in Request /\ run'.at = "unlist_email"
    BY <1>4, StepType DEF EraseAccount, Typed, TypeOK, DeleteWrites
  <2>2. DOMAIN account' \subseteq UserId /\ account' \in [DOMAIN account' -> AccountRecord]
    BY <1>4 DEF EraseAccount, Erase, Typed, TypeOK
  <2>3. DOMAIN index' \subseteq Emails /\ index' \in [DOMAIN index' -> UserId]
    BY <1>4 DEF EraseAccount, Erase, Typed, TypeOK
  <2> QED BY <1>4, <2>1, <2>2, <2>3 DEF EraseAccount, Typed, TypeOK, Drawn
<1>5. CASE UnlistEmail
  <2>1. run' \in Request /\ run'.at = "deleted"
    BY <1>5, StepType DEF UnlistEmail, Typed, TypeOK, DeleteWrites
  <2> QED BY <1>5, <2>1 DEF UnlistEmail, Typed, TypeOK, Drawn
<1> QED BY <1>1, <1>2, <1>3, <1>4, <1>5

LEMMA AnswerTyped ==
  ASSUME Typed, Answer \/ RestartAtRest \/ RestartInRequest
  PROVE  Typed'
<1>1. CASE Answer
  <2>1. run.id \in UserId
    BY <1>1 DEF Answer, Typed, TypeOK, Idle
  <2> QED BY <1>1, <2>1 DEF Answer, Typed, TypeOK, Idle, Drawn
<1>2. CASE RestartAtRest
  BY <1>2 DEF RestartAtRest, vars, Typed, TypeOK
<1>3. CASE RestartInRequest
  BY <1>3 DEF RestartInRequest, Typed, TypeOK, Idle, Drawn
<1> QED BY <1>1, <1>2, <1>3

LEMMA StepTyped == Typed /\ [Next]_vars => Typed'
<1> SUFFICES ASSUME Typed, [Next]_vars PROVE Typed'
  OBVIOUS
<1>1. CASE Next
  BY <1>1, SignUpTyped, ModifyTyped, DeleteTyped, AnswerTyped DEF Next
<1>2. CASE UNCHANGED vars
  BY <1>2 DEF vars, Typed, TypeOK
<1> QED BY <1>1, <1>2

\* Whatever is cut short, every record is well formed, and a request that makes a
\* directory has an id for it.
THEOREM AccountsTypeCorrect == Spec => []TypeOK
<1>1. Typed => TypeOK
  BY DEF Typed
<1> QED BY <1>1, InitTyped, StepTyped, PTL DEF Spec

----------------------------------------------------------------------------
(* The index is a book of addresses.                                       *)

LEMMA InitBook == Init => BookInv /\ Book!Init
<1> SUFFICES ASSUME Init PROVE BookInv /\ Book!Init
  OBVIOUS
<1>1. run.at = "idle" /\ ticket.user = 1 /\ DOMAIN index = {}
  BY DEF Init, Idle
<1>2. LastId = 0
  BY <1>1 DEF LastId
<1>3. Held
  BY <1>1 DEF Held, PreIndex, Moving, Closing
<1>4. Book!Init
  BY <1>2 DEF Init, Book!Init
<1> QED BY <1>1, <1>3, <1>4, InitTyped DEF BookInv

\* The ids a request may meet.
LEMMA IdBounds ==
  ASSUME Typed
  PROVE  /\ ticket.user \in Nat /\ ticket.dir \in Nat
         /\ \A e \in DOMAIN index : index[e] \in Nat
         /\ run # Idle => run \in Request /\ run.id \in Nat
         /\ run.at # "idle" => run # Idle
BY Bounds DEF Typed, TypeOK, Request, Idle

\* The part of Held and of the bound on ids that a write has to keep, when it
\* changes neither the index nor the accounts' addresses.
Kept == Held' /\ \A e \in DOMAIN index' : index'[e] <= LastId'

LEMMA SignUpBook ==
  ASSUME BookInv,
         \/ \E e \in Emails : SignUp(e)
         \/ DrawDirectory("draw_root", "make_root")
         \/ DrawDirectory("draw_shared", "make_shared")
         \/ MakeRoot \/ MakeAccount \/ ListEmail \/ MakeShared
  PROVE  Kept /\ UNCHANGED <<index, LastId>>
<1> USE IdBounds DEF BookInv, Kept, Held, LastId, PreIndex, Moving, Closing, Step
<1>1. ASSUME NEW e \in Emails, SignUp(e) PROVE Kept /\ UNCHANGED <<index, LastId>>
  <2>1. ticket'.user = ticket.user + 1 /\ run.at = "idle"
    BY <1>1 DEF SignUp, Typed, TypeOK, Idle
  <2> QED BY <1>1, <2>1 DEF SignUp
<1>2. ASSUME NEW w \in {"draw_root", "draw_shared"}, NEW v \in {"make_root", "make_shared"},
             w = "draw_root" <=> v = "make_root", DrawDirectory(w, v)
      PROVE  Kept /\ UNCHANGED <<index, LastId>>
  <2>1. /\ ticket'.user = ticket.user /\ run.at = w /\ run'.at = v
        /\ run'.id = run.id /\ run'.email = run.email
    BY <1>2 DEF DrawDirectory, Typed, TypeOK, Idle
  <2> QED BY <1>2, <2>1 DEF DrawDirectory
<1>3. CASE MakeRoot
  BY <1>3, StepType DEF MakeRoot, SignUpWrites, Typed, TypeOK
<1>4. CASE MakeAccount
  BY <1>4, StepType DEF MakeAccount, SignUpWrites, Typed, TypeOK
<1>5. CASE ListEmail
  BY <1>5, StepType DEF ListEmail, SignUpWrites, Typed, TypeOK
<1>6. CASE MakeShared
  BY <1>6, StepType DEF MakeShared, SignUpWrites, Typed, TypeOK
<1> QED BY <1>1, <1>2, <1>3, <1>4, <1>5, <1>6

\* A sign-up opens its address, for the id it drew.
LEMMA IndexEmailBook ==
  ASSUME BookInv, IndexEmail
  PROVE  Kept /\ Book!Next
<1>1. /\ run.at = "index_email" /\ run'.at = "list_email"
      /\ run.id = ticket.user - 1 /\ run.email \notin DOMAIN index
      /\ run.id \in UserId /\ run.email \in Emails
  BY StepType DEF BookInv, Held, PreIndex, IndexEmail, Step, Typed, TypeOK, SignUpWrites, Request
<1>2. LastId = run.id - 1 /\ LastId' = run.id
  BY <1>1 DEF LastId, IndexEmail
<1>3. index' = [x \in DOMAIN index \cup {run.email} |-> IF x = run.email THEN run.id ELSE index[x]]
  BY DEF IndexEmail, Put
<1>4. Kept
  BY <1>1, <1>2, <1>3, IdBounds DEF Kept, BookInv, Held, PreIndex, Moving, Closing
<1>5. Book!Open(run.email, run.id)
  BY <1>1, <1>2, <1>3, IdBounds, Bounds DEF Book!Open, BookInv
<1> QED BY <1>1, <1>4, <1>5 DEF Book!Next

LEMMA ModifyBook ==
  ASSUME BookInv, "taken_email" \notin Slips,
         (\E e \in Emails, u \in UserId : ModifyUserInfo(u, e)) \/ UnlistOld \/ ListNew
  PROVE  Kept /\ UNCHANGED <<index, LastId>>
<1> USE IdBounds DEF BookInv, Kept, Held, LastId, PreIndex, Moving, Closing, Step, Indexed
<1>1. ASSUME NEW e \in Emails, NEW u \in UserId, ModifyUserInfo(u, e)
      PROVE  Kept /\ UNCHANGED <<index, LastId>>
  BY <1>1 DEF ModifyUserInfo, Idle
<1>2. CASE UnlistOld
  BY <1>2, StepType DEF UnlistOld, ModifyWrites, Typed, TypeOK
<1>3. CASE ListNew
  BY <1>3, StepType DEF ListNew, ModifyWrites, Typed, TypeOK
<1> QED BY <1>1, <1>2, <1>3

\* A change of address is one move in the book.
LEMMA MoveEmailBook ==
  ASSUME BookInv, MoveEmail
  PROVE  Kept /\ Book!Next
<1> DEFINE old == account[run.id].email
<1>1. /\ run.at = "move_email" /\ run'.at = "modified"
      /\ run.email \notin DOMAIN index /\ run.email \in Emails
      /\ old \in DOMAIN index /\ index[old] = run.id /\ old \in Emails
  BY StepType DEF BookInv, Held, Moving, Indexed, MoveEmail, Step, Typed, TypeOK, ModifyWrites, Request
<1>2. LastId = ticket.user - 1 /\ LastId' = LastId
  BY <1>1 DEF LastId, MoveEmail
<1>3. index' = [x \in (DOMAIN index \ {old}) \cup {run.email} |->
                  IF x = run.email THEN index[old] ELSE index[x]]
  BY <1>1 DEF MoveEmail, Put, Erase
<1> HIDE DEF old
<1>4. Kept
  BY <1>1, <1>2, <1>3, IdBounds DEF Kept, BookInv, Held, PreIndex, Moving, Closing
<1>5. Book!Move(old, run.email)
  BY <1>1, <1>2, <1>3 DEF Book!Move
<1> QED BY <1>1, <1>4, <1>5 DEF Book!Next

LEMMA DeleteBook ==
  ASSUME BookInv,
         (\E u \in UserId : DeleteUser(u)) \/ EraseShared \/ EraseRoot \/ UnlistEmail
  PROVE  Kept /\ UNCHANGED <<index, LastId>>
<1> USE IdBounds DEF BookInv, Kept, Held, LastId, PreIndex, Moving, Closing, Step, Indexed
<1>1. ASSUME NEW u \in UserId, DeleteUser(u) PROVE Kept /\ UNCHANGED <<index, LastId>>
  <2>1. run.at = "idle" /\ run'.at \in {"erase_root", "erase_shared"} /\ run'.email \in DOMAIN index
    BY <1>1 DEF DeleteUser, Idle
  <2> QED BY <1>1, <2>1 DEF DeleteUser
<1>2. CASE EraseShared
  BY <1>2, StepType DEF EraseShared, DeleteWrites, Typed, TypeOK
<1>3. CASE EraseRoot
  BY <1>3, StepType DEF EraseRoot, DeleteWrites, Typed, TypeOK
<1>4. CASE UnlistEmail
  BY <1>4, StepType DEF UnlistEmail, DeleteWrites, Typed, TypeOK
<1> QED BY <1>1, <1>2, <1>3, <1>4

\* A removal closes its address.
LEMMA EraseAccountBook ==
  ASSUME BookInv, EraseAccount
  PROVE  Kept /\ Book!Next
<1>1. /\ run.at = "erase_account" /\ run'.at = "unlist_email"
      /\ run.email \in DOMAIN index /\ run.email \in Emails
  BY StepType DEF BookInv, Held, Closing, EraseAccount, Step, Typed, TypeOK, DeleteWrites, Request
<1>2. LastId = ticket.user - 1 /\ LastId' = LastId
  BY <1>1 DEF LastId, EraseAccount
<1>3. index' = [x \in DOMAIN index \ {run.email} |-> index[x]]
  BY DEF EraseAccount, Erase
<1>4. Kept
  BY <1>1, <1>2, <1>3, IdBounds DEF Kept, BookInv, Held, PreIndex, Moving, Closing
<1>5. Book!Close(run.email)
  BY <1>1, <1>2, <1>3 DEF Book!Close
<1> QED BY <1>1, <1>4, <1>5 DEF Book!Next

\* A sign-up cut short before its address is indexed has wasted its id.
LEMMA AnswerBook ==
  ASSUME BookInv, Answer \/ RestartAtRest \/ RestartInRequest
  PROVE  Kept /\ (Book!Next \/ UNCHANGED <<index, LastId>>)
<1> USE IdBounds DEF BookInv, Kept, Held, LastId, PreIndex, Moving, Closing, Indexed
<1>1. CASE Answer
  BY <1>1 DEF Answer, Idle
<1>2. CASE RestartAtRest
  BY <1>2 DEF RestartAtRest, vars
<1>3. CASE RestartInRequest /\ run.at \notin PreIndex
  BY <1>3 DEF RestartInRequest, Idle
<1>4. CASE RestartInRequest /\ run.at \in PreIndex
  <2>1. /\ run'.at = "idle" /\ ticket' = ticket /\ index' = index
        /\ run.id = ticket.user - 1 /\ run.id \in UserId
    BY <1>4 DEF RestartInRequest, Idle, Typed, TypeOK
  <2>2. LastId = run.id - 1 /\ LastId' = run.id
    BY <1>4, <2>1
  <2>3. Kept
    BY <2>1, <2>2
  <2>4. Book!Waste(run.id)
    BY <2>1, <2>2, Bounds DEF Book!Waste
  <2> QED BY <2>1, <2>3, <2>4 DEF Book!Next
<1> QED BY <1>1, <1>2, <1>3, <1>4

LEMMA StepBook ==
  ASSUME "taken_email" \notin Slips
  PROVE  BookInv /\ [Next]_vars => BookInv' /\ [Book!Next]_<<index, LastId>>
<1> SUFFICES ASSUME BookInv, [Next]_vars
             PROVE  Kept /\ (Book!Next \/ UNCHANGED <<index, LastId>>)
  BY StepTyped DEF BookInv, Kept
<1>1. CASE Next
  BY <1>1, SignUpBook, IndexEmailBook, ModifyBook, MoveEmailBook, DeleteBook,
     EraseAccountBook, AnswerBook DEF Next
<1>2. CASE UNCHANGED vars
  BY <1>2 DEF vars, BookInv, Kept, Held, Indexed, LastId
<1> QED BY <1>1, <1>2

\* Unless an account may change to the address of another, the index of addresses is
\* a book: a sign-up opens a free address for an id never given before, a change of
\* address moves one entry, a removal closes one, and a crash at any write leaves the
\* book as it was but for a wasted id.
THEOREM IndexIsABook ==
  ASSUME "taken_email" \notin Slips
  PROVE  Spec => ImplementsBook
<1>1. Spec => Book!Init /\ [][Book!Next]_<<index, LastId>>
  BY InitBook, StepBook, PTL DEF Spec
<1> QED BY <1>1, PTL DEF ImplementsBook, Book!Spec

----------------------------------------------------------------------------
(* Success is final.                                                       *)

\* The directories of an account have its id, and ids of directories are not reused.
Homes ==
  /\ \A u \in DOMAIN account :
       /\ u < ticket.user /\ Root(u) < ticket.dir
       /\ Root(u) \in DOMAIN dir => dir[Root(u)].owner = u
  /\ \A d \in DOMAIN dir :
       /\ d < ticket.dir
       /\ \A c \in dir[d].directories_contained :
            c < ticket.dir /\ (c \in DOMAIN dir => dir[c].owner = dir[d].owner)

\* No account and no directory names d.
Unused(d) ==
  /\ d < ticket.dir /\ d \notin DOMAIN dir
  /\ \A x \in DOMAIN dir : d \notin dir[x].directories_contained
  /\ \A u \in DOMAIN account : Root(u) # d

\* What the account of the running request has so far.
EmptyRoot(d) == d \in DOMAIN dir /\ dir[d] = [owner |-> run.id, directories_contained |-> {}]

Progress ==
  /\ run.at \in {"draw_root", "make_root", "make_account"} => run.id \notin DOMAIN account
  /\ run.at \in {"make_root", "make_shared"} => Unused(run.dir_id)
  /\ run.at = "make_account" => /\ EmptyRoot(run.dir_id) /\ run.dir_id < ticket.dir
  /\ run.at \in {"index_email", "list_email", "draw_shared", "make_shared", "signed_up"} =>
       run.id \in DOMAIN account /\ account[run.id].email = run.email
  /\ run.at \in {"index_email", "list_email", "draw_shared", "make_shared"} =>
       EmptyRoot(Root(run.id))
  /\ run.at \in {"list_email", "draw_shared", "make_shared", "signed_up", "modified"} =>
       run.id \in DOMAIN account /\ Indexed(run.id)
  /\ run.at \in {"draw_shared", "make_shared", "signed_up", "move_email"} => run.email \in listed
  /\ run.at = "modified" => account[run.id].email \in listed
  /\ run.at \in ModifyWrites /\ run.id \in answered => HasHome(run.id)
  /\ run.at = "signed_up" => HasHome(run.id)
  /\ run.at \in Closing =>
       /\ run.id \in DOMAIN account /\ Indexed(run.id) /\ account[run.id].email = run.email
  /\ run.at = "erase_shared" => Root(run.id) \in DOMAIN dir
  /\ run.at = "unlist_email" => run.email \notin DOMAIN index

WholeInv == BookInv /\ Homes /\ Progress /\ AnsweredIsComplete

LEMMA Goes ==
  ASSUME Typed,
         NEW w \in SignUpWrites \cup ModifyWrites \cup DeleteWrites,
         NEW v \in SignUpWrites \cup ModifyWrites \cup DeleteWrites, Step(w, v)
  PROVE  /\ run # Idle /\ run' # Idle /\ run.at = w /\ run'.at = v
         /\ run'.id = run.id /\ run'.email = run.email /\ run'.dir_id = run.dir_id
         /\ run.id \in UserId /\ run.id \in Nat /\ run.email \in Emails /\ run.dir_id \in Nat
<1>1. Idle.at \notin SignUpWrites \cup ModifyWrites \cup DeleteWrites
  BY DEF Idle, SignUpWrites, ModifyWrites, DeleteWrites
<1>2. run \in Request /\ run' \in Request /\ run.at = w /\ run'.at = v
  BY StepType DEF Typed, TypeOK, Step, Request
<1>3. run # Idle /\ run' # Idle
  BY <1>1, <1>2
<1> QED BY <1>2, <1>3, Bounds, StepType DEF Typed, TypeOK, Request

LEMMA InitWhole == Init => WholeInv
<1> SUFFICES ASSUME Init PROVE WholeInv
  OBVIOUS
<1>1. run.at = "idle"
  BY DEF Init, Idle
<1>2. Homes /\ AnsweredIsComplete
  BY DEF Init, Homes, AnsweredIsComplete
<1>3. Progress
  BY <1>1 DEF Progress, ModifyWrites, Closing
<1> QED BY <1>2, <1>3, InitBook DEF WholeInv

LEMMA SignUpWhole ==
  ASSUME WholeInv, NEW e \in Emails, SignUp(e)
  PROVE  Homes' /\ Progress' /\ AnsweredIsComplete'
<1>1. /\ run'.at = "draw_root" /\ run'.id = ticket.user /\ run = Idle
      /\ ticket'.user = ticket.user + 1 /\ ticket'.dir = ticket.dir
      /\ UNCHANGED <<account, index, listed, dir, answered>>
      /\ ticket.user \in Nat /\ DOMAIN account \subseteq Nat
  BY Bounds, IdBounds DEF SignUp, WholeInv, BookInv, Typed, TypeOK
<1>2. Homes'
  BY <1>1 DEF WholeInv, Homes, Root
<1>3. Progress'
  BY <1>1 DEF WholeInv, Homes, Progress, ModifyWrites, Closing
<1>4. AnsweredIsComplete'
  BY <1>1 DEF WholeInv, AnsweredIsComplete, Indexed, HasHome, Root
<1> QED BY <1>2, <1>3, <1>4

LEMMA DrawWhole ==
  ASSUME WholeInv, NEW w \in {"draw_root", "draw_shared"}, NEW v \in {"make_root", "make_shared"},
         w = "draw_root" <=> v = "make_root", DrawDirectory(w, v)
  PROVE  Homes' /\ Progress' /\ AnsweredIsComplete'
<1>1. /\ run.at = w /\ run'.at = v /\ run # Idle
      /\ run'.id = run.id /\ run'.email = run.email /\ run'.dir_id = ticket.dir
      /\ ticket'.user = ticket.user /\ ticket'.dir = ticket.dir + 1
      /\ UNCHANGED <<account, index, listed, dir, answered>>
      /\ ticket.dir \in Nat
      /\ DOMAIN dir \subseteq Nat
      /\ \A u \in DOMAIN account : Root(u) \in Nat
      /\ \A d \in DOMAIN dir : dir[d].directories_contained \subseteq Nat
  BY Bounds, IdBounds DEF DrawDirectory, WholeInv, BookInv, Typed, TypeOK, Idle, Root
<1>2. Homes'
  BY <1>1 DEF WholeInv, Homes, Root
<1>3. Unused(run.dir_id)'
  BY <1>1 DEF WholeInv, Homes, Unused, Root
<1>4. Progress'
  BY <1>1, <1>3 DEF WholeInv, Progress, ModifyWrites, Closing, EmptyRoot, Indexed, Root
<1>5. AnsweredIsComplete'
  BY <1>1 DEF WholeInv, AnsweredIsComplete, Indexed, HasHome, Root, Idle
<1> QED BY <1>2, <1>4, <1>5

LEMMA MakeRootWhole ==
  ASSUME WholeInv, MakeRoot
  PROVE  Homes' /\ Progress' /\ AnsweredIsComplete'
<1>1. /\ run # Idle /\ run' # Idle /\ run.at = "make_root" /\ run'.at = "make_account"
      /\ run'.id = run.id /\ run'.email = run.email /\ run'.dir_id = run.dir_id
      /\ UNCHANGED <<account, index, listed, ticket, answered>>
  BY Goes DEF MakeRoot, WholeInv, BookInv, SignUpWrites
<1>2. /\ DOMAIN dir' = DOMAIN dir \cup {run.dir_id}
      /\ dir'[run.dir_id] = [owner |-> run.id, directories_contained |-> {}]
      /\ \A d \in DOMAIN dir : dir'[d] = dir[d]
      /\ Unused(run.dir_id)
  BY <1>1 DEF MakeRoot, Put, WholeInv, Progress, Unused
<1>3. Homes'
  BY <1>1, <1>2 DEF WholeInv, Homes, Root, Unused
<1>4. Progress'
  BY <1>1, <1>2 DEF WholeInv, Progress, ModifyWrites, Closing, EmptyRoot, Unused
<1>5. AnsweredIsComplete'
  BY <1>1, <1>2 DEF WholeInv, AnsweredIsComplete, Indexed, HasHome, Root
<1> QED BY <1>3, <1>4, <1>5

LEMMA MakeAccountWhole ==
  ASSUME WholeInv, MakeAccount
  PROVE  Homes' /\ Progress' /\ AnsweredIsComplete'
<1>1. /\ run # Idle /\ run' # Idle /\ run.at = "make_account" /\ run'.at = "index_email"
      /\ run'.id = run.id /\ run'.email = run.email
      /\ UNCHANGED <<index, listed, dir, ticket, answered>>
  BY Goes DEF MakeAccount, WholeInv, BookInv, SignUpWrites
<1>2. /\ DOMAIN account' = DOMAIN account \cup {run.id} /\ run.id \notin DOMAIN account
      /\ account'[run.id] = [email |-> run.email, dir_root |-> run.dir_id]
      /\ \A u \in DOMAIN account : account'[u] = account[u]
      /\ EmptyRoot(run.dir_id) /\ run.dir_id < ticket.dir
  BY <1>1 DEF MakeAccount, Put, WholeInv, Progress
<1>3. run.id < ticket.user
  BY <1>1, IdBounds DEF WholeInv, BookInv, Held, PreIndex
<1>4. Homes'
  BY <1>1, <1>2, <1>3 DEF WholeInv, Homes, Root, EmptyRoot
<1>5. Progress'
  BY <1>1, <1>2 DEF WholeInv, Progress, ModifyWrites, Closing, EmptyRoot, Root
<1>6. AnsweredIsComplete'
  BY <1>1, <1>2 DEF WholeInv, AnsweredIsComplete, Indexed, HasHome, Root
<1> QED BY <1>4, <1>5, <1>6

LEMMA IndexEmailWhole ==
  ASSUME WholeInv, IndexEmail
  PROVE  Homes' /\ Progress' /\ AnsweredIsComplete'
<1>1. /\ run # Idle /\ run' # Idle /\ run.at = "index_email" /\ run'.at = "list_email"
      /\ run'.id = run.id /\ run'.email = run.email
      /\ UNCHANGED <<account, listed, dir, ticket, answered>>
  BY Goes DEF IndexEmail, WholeInv, BookInv, SignUpWrites
<1>2. /\ DOMAIN index' = DOMAIN index \cup {run.email} /\ run.email \notin DOMAIN index
      /\ index'[run.email] = run.id
      /\ \A e \in DOMAIN index : index'[e] = index[e]
  BY <1>1 DEF IndexEmail, Put, WholeInv, BookInv, Held, PreIndex
<1>3. Homes'
  BY <1>1 DEF WholeInv, Homes, Root
<1>4. Progress'
  BY <1>1, <1>2 DEF WholeInv, Progress, ModifyWrites, Closing, EmptyRoot, Root, Indexed
<1>5. AnsweredIsComplete'
  BY <1>1, <1>2 DEF WholeInv, AnsweredIsComplete, Indexed, HasHome, Root
<1> QED BY <1>3, <1>4, <1>5

LEMMA ListEmailWhole ==
  ASSUME WholeInv, ListEmail
  PROVE  Homes' /\ Progress' /\ AnsweredIsComplete'
<1>1. /\ run # Idle /\ run' # Idle /\ run.at = "list_email" /\ run'.at = "draw_shared"
      /\ run'.id = run.id /\ run'.email = run.email
      /\ listed' = listed \cup {run.email}
      /\ UNCHANGED <<account, index, dir, ticket, answered>>
  BY Goes DEF ListEmail, WholeInv, BookInv, SignUpWrites
<1>2. Homes'
  BY <1>1 DEF WholeInv, Homes, Root
<1>3. Progress'
  BY <1>1 DEF WholeInv, Progress, ModifyWrites, Closing, EmptyRoot, Root, Indexed
<1>4. AnsweredIsComplete'
  BY <1>1 DEF WholeInv, AnsweredIsComplete, Indexed, HasHome, Root
<1> QED BY <1>2, <1>3, <1>4

\* The records of MakeShared: the directory of shared files is new, the root, empty
\* until now, lists it.
LEMMA MakeSharedEffect ==
  ASSUME WholeInv, MakeShared
  PROVE  LET r == Root(run.id)
         IN  /\ run.id \in DOMAIN account /\ r \in DOMAIN dir /\ r # run.dir_id
             /\ run.dir_id \notin DOMAIN dir
             /\ dir[r] = [owner |-> run.id, directories_contained |-> {}]
             /\ DOMAIN dir' = DOMAIN dir \cup {run.dir_id}
             /\ dir'[run.dir_id] = [owner |-> run.id, directories_contained |-> {}]
             /\ dir'[r] = [owner |-> run.id, directories_contained |-> {run.dir_id}]
             /\ \A d \in DOMAIN dir \ {r} : dir'[d] = dir[d]
<1> DEFINE r == Root(run.id)
<1>1. run.at = "make_shared"
  BY DEF MakeShared, Step
<1>2. /\ run.id \in DOMAIN account /\ r \in DOMAIN dir /\ Unused(run.dir_id)
      /\ dir[r] = [owner |-> run.id, directories_contained |-> {}]
  BY <1>1 DEF WholeInv, Progress, EmptyRoot
<1> DEFINE t == [dir EXCEPT ![r].directories_contained = @ \cup {run.dir_id}]
<1>3. /\ DOMAIN t = DOMAIN dir
      /\ t[r] = [owner |-> run.id, directories_contained |-> {run.dir_id}]
      /\ \A d \in DOMAIN dir \ {r} : t[d] = dir[d]
  <2> HIDE DEF r
  <2>1. dir = [x \in DOMAIN dir |-> dir[x]]
    BY DEF WholeInv, BookInv, Typed, TypeOK
  <2>2. t = [x \in DOMAIN dir |->
              IF x = r THEN [dir[r] EXCEPT !.directories_contained = @ \cup {run.dir_id}]
                       ELSE dir[x]]
    BY <2>1
  <2>3. t[r] = [[owner |-> run.id, directories_contained |-> {}] EXCEPT
                  !.directories_contained = @ \cup {run.dir_id}]
    BY <1>2, <2>2
  <2> QED BY <2>2, <2>3
<1>4. dir' = Put(t, run.dir_id, [owner |-> run.id, directories_contained |-> {}])
  BY DEF MakeShared
<1> HIDE DEF t
<1> QED BY <1>2, <1>3, <1>4 DEF Put, Unused

LEMMA MakeSharedWhole ==
  ASSUME WholeInv, MakeShared
  PROVE  Homes' /\ Progress' /\ AnsweredIsComplete'
<1> DEFINE r == Root(run.id)
<1>1. /\ run # Idle /\ run' # Idle /\ run.at = "make_shared" /\ run'.at = "signed_up"
      /\ run'.id = run.id /\ run'.email = run.email
      /\ UNCHANGED <<account, index, listed, ticket, answered>>
  BY Goes DEF MakeShared, WholeInv, BookInv, SignUpWrites
<1>2. /\ run.id \in DOMAIN account /\ r \in DOMAIN dir /\ Unused(run.dir_id)
      /\ dir[r] = [owner |-> run.id, directories_contained |-> {}]
  BY <1>1 DEF WholeInv, Progress, EmptyRoot
<1>3. /\ DOMAIN dir' = DOMAIN dir \cup {run.dir_id} /\ r # run.dir_id
      /\ dir'[run.dir_id] = [owner |-> run.id, directories_contained |-> {}]
      /\ dir'[r] = [owner |-> run.id, directories_contained |-> {run.dir_id}]
      /\ \A d \in DOMAIN dir \ {r} : dir'[d] = dir[d]
  BY MakeSharedEffect
<1>4. \A u \in DOMAIN account : Root(u) = r => u = run.id
  BY <1>2 DEF WholeInv, Homes
<1>5. Homes'
  BY <1>1, <1>2, <1>3, <1>4 DEF WholeInv, Homes, Root, Unused
<1>6. HasHome(run.id)'
  BY <1>1, <1>2, <1>3 DEF HasHome, Root
<1>7. Progress'
  BY <1>1, <1>2, <1>6 DEF WholeInv, Progress, ModifyWrites, Closing, EmptyRoot, Root, Indexed
<1>8. AnsweredIsComplete'
  BY <1>1, <1>2, <1>3, <1>4 DEF WholeInv, AnsweredIsComplete, Indexed, HasHome, Root
<1> QED BY <1>5, <1>7, <1>8

LEMMA ModifyUserInfoWhole ==
  ASSUME WholeInv, NEW e \in Emails, NEW u \in UserId, ModifyUserInfo(u, e)
  PROVE  Homes' /\ Progress' /\ AnsweredIsComplete'
<1>1. /\ run = Idle /\ run'.at = "unlist_old" /\ run'.id = u
      /\ UNCHANGED <<account, index, listed, dir, ticket, answered>>
  BY DEF ModifyUserInfo
<1>2. Homes'
  BY <1>1 DEF WholeInv, Homes, Root
<1>3. Progress'
  BY <1>1 DEF WholeInv, Progress, AnsweredIsComplete, Closing, HasHome, Root
<1>4. AnsweredIsComplete'
  BY <1>1 DEF WholeInv, AnsweredIsComplete, Indexed, HasHome, Root
<1> QED BY <1>2, <1>3, <1>4

\* The address taken off the list is not that of another account that is indexed.
LEMMA UnlistOldWhole ==
  ASSUME WholeInv, UnlistOld
  PROVE  Homes' /\ Progress' /\ AnsweredIsComplete'
<1>1. /\ run # Idle /\ run' # Idle /\ run.at = "unlist_old" /\ run'.at = "list_new"
      /\ run'.id = run.id /\ run'.email = run.email
      /\ listed' = listed \ {account[run.id].email}
      /\ UNCHANGED <<account, index, dir, ticket, answered>>
  BY Goes DEF UnlistOld, WholeInv, BookInv, ModifyWrites
<1>2. run.id \in DOMAIN account /\ Indexed(run.id)
  BY <1>1 DEF WholeInv, BookInv, Held, Moving
<1>3. Homes'
  BY <1>1 DEF WholeInv, Homes, Root
<1>4. Progress'
  BY <1>1 DEF WholeInv, Progress, ModifyWrites, Closing, HasHome, Root
<1>5. AnsweredIsComplete'
  BY <1>1, <1>2 DEF WholeInv, AnsweredIsComplete, Indexed, HasHome, Root
<1> QED BY <1>3, <1>4, <1>5

LEMMA ListNewWhole ==
  ASSUME WholeInv, ListNew
  PROVE  Homes' /\ Progress' /\ AnsweredIsComplete'
<1>1. /\ run # Idle /\ run' # Idle /\ run.at = "list_new" /\ run'.at = "move_email"
      /\ run'.id = run.id /\ run'.email = run.email
      /\ listed' = listed \cup {run.email}
      /\ UNCHANGED <<account, index, dir, ticket, answered>>
  BY Goes DEF ListNew, WholeInv, BookInv, ModifyWrites
<1>2. Homes'
  BY <1>1 DEF WholeInv, Homes, Root
<1>3. Progress'
  BY <1>1 DEF WholeInv, Progress, ModifyWrites, Closing, HasHome, Root
<1>4. AnsweredIsComplete'
  BY <1>1 DEF WholeInv, AnsweredIsComplete, Indexed, HasHome, Root
<1> QED BY <1>2, <1>3, <1>4

LEMMA MoveEmailWhole ==
  ASSUME WholeInv, MoveEmail
  PROVE  Homes' /\ Progress' /\ AnsweredIsComplete'
<1> DEFINE old == account[run.id].email
<1>1. /\ run # Idle /\ run' # Idle /\ run.at = "move_email" /\ run'.at = "modified"
      /\ run'.id = run.id /\ run'.email = run.email
      /\ UNCHANGED <<listed, dir, ticket, answered>>
  BY Goes DEF MoveEmail, WholeInv, BookInv, ModifyWrites
<1>2. /\ run.id \in DOMAIN account /\ old \in DOMAIN index /\ index[old] = run.id
      /\ run.email \notin DOMAIN index /\ run.email \in listed
  BY <1>1 DEF WholeInv, BookInv, Held, Moving, Indexed, Progress
<1>3. /\ DOMAIN account' = DOMAIN account
      /\ account'[run.id].email = run.email
      /\ \A u \in DOMAIN account : Root(u)' = Root(u)
      /\ \A u \in DOMAIN account \ {run.id} : account'[u] = account[u]
  <2>1. /\ account = [u \in DOMAIN account |-> account[u]]
        /\ account[run.id] \in AccountRecord
    BY <1>2 DEF WholeInv, BookInv, Typed, TypeOK, AccountRecord
  <2> QED BY <1>2, <2>1 DEF MoveEmail, Root, AccountRecord
<1>4. /\ DOMAIN index' = (DOMAIN index \ {old}) \cup {run.email}
      /\ index'[run.email] = run.id
      /\ \A e \in DOMAIN index \ {old} : index'[e] = index[e]
  BY <1>2 DEF MoveEmail, Put, Erase
<1> HIDE DEF old
<1>5. Homes'
  BY <1>1, <1>3 DEF WholeInv, Homes
<1>6. Indexed(run.id)' /\ account'[run.id].email \in listed
  BY <1>1, <1>2, <1>3, <1>4 DEF Indexed
<1>7. Progress'
  <2>1. run.id \in answered => HasHome(run.id)'
    BY <1>1, <1>2, <1>3 DEF WholeInv, Progress, ModifyWrites, HasHome
  <2> QED BY <1>1, <1>2, <1>3, <1>6, <2>1 DEF Progress, ModifyWrites, Closing
<1>8. AnsweredIsComplete'
  BY <1>1, <1>2, <1>3, <1>4 DEF WholeInv, AnsweredIsComplete, Indexed, HasHome
<1> QED BY <1>5, <1>7, <1>8

LEMMA DeleteUserWhole ==
  ASSUME WholeInv, NEW u \in UserId, DeleteUser(u)
  PROVE  Homes' /\ Progress' /\ AnsweredIsComplete'
<1>1. /\ run = Idle /\ run'.at \in {"erase_shared", "erase_root"} /\ run'.id = u
      /\ run'.email = account[u].email
      /\ u \in DOMAIN account /\ Indexed(u) /\ Root(u) \in DOMAIN dir
      /\ UNCHANGED <<account, index, listed, dir, ticket, answered>>
  BY DEF DeleteUser
<1>2. Homes'
  BY <1>1 DEF WholeInv, Homes, Root
<1>3. Progress'
  BY <1>1 DEF Progress, ModifyWrites, Closing, Indexed, Root
<1>4. AnsweredIsComplete'
  BY <1>1 DEF WholeInv, AnsweredIsComplete, Indexed, HasHome, Root
<1> QED BY <1>2, <1>3, <1>4

\* Erasing directories of one account leaves those of the others.
LEMMA EraseOwn ==
  ASSUME WholeInv, NEW E, NEW v, dir' = Erase(dir, E),
         \A d \in E : d \in DOMAIN dir => dir[d].owner = v,
         UNCHANGED <<account, ticket>>
  PROVE  /\ Homes'
         /\ \A u \in DOMAIN account \ {v} : HasHome(u) => HasHome(u)'
<1>1. /\ DOMAIN dir' = DOMAIN dir \ E
      /\ \A d \in DOMAIN dir \ E : dir'[d] = dir[d]
  BY DEF Erase
<1>2. Homes'
  BY <1>1 DEF WholeInv, Homes, Root
<1>3. \A u \in DOMAIN account \ {v} : HasHome(u) => HasHome(u)'
  BY <1>1 DEF HasHome, Root
<1> QED BY <1>2, <1>3

LEMMA EraseSharedWhole ==
  ASSUME WholeInv, EraseShared
  PROVE  Homes' /\ Progress' /\ AnsweredIsComplete'
<1>1. /\ run # Idle /\ run' # Idle /\ run.at = "erase_shared" /\ run'.at = "erase_root"
      /\ run'.id = run.id /\ run'.email = run.email
      /\ dir' = Erase(dir, dir[Root(run.id)].directories_contained)
      /\ UNCHANGED <<account, index, listed, ticket, answered>>
  BY Goes DEF EraseShared, WholeInv, BookInv, DeleteWrites
<1>2. run.id \in DOMAIN account /\ Root(run.id) \in DOMAIN dir
  BY <1>1 DEF WholeInv, Progress, Closing
<1>3. \A d \in dir[Root(run.id)].directories_contained :
        d \in DOMAIN dir => dir[d].owner = run.id
  BY <1>2 DEF WholeInv, Homes
<1>4. Homes' /\ \A u \in DOMAIN account \ {run.id} : HasHome(u) => HasHome(u)'
  BY <1>1, <1>3, EraseOwn
<1>5. Progress'
  BY <1>1 DEF WholeInv, Progress, ModifyWrites, Closing, Indexed
<1>6. AnsweredIsComplete'
  BY <1>1, <1>4 DEF WholeInv, AnsweredIsComplete, Indexed
<1> QED BY <1>4, <1>5, <1>6

LEMMA EraseRootWhole ==
  ASSUME WholeInv, EraseRoot
  PROVE  Homes' /\ Progress' /\ AnsweredIsComplete'
<1>1. /\ run # Idle /\ run' # Idle /\ run.at = "erase_root" /\ run'.at = "erase_account"
      /\ run'.id = run.id /\ run'.email = run.email
      /\ dir' = Erase(dir, {Root(run.id)})
      /\ UNCHANGED <<account, index, listed, ticket, answered>>
  BY Goes DEF EraseRoot, WholeInv, BookInv, DeleteWrites
<1>2. run.id \in DOMAIN account
  BY <1>1 DEF WholeInv, Progress, Closing
<1>3. \A d \in {Root(run.id)} : d \in DOMAIN dir => dir[d].owner = run.id
  BY <1>2 DEF WholeInv, Homes
<1>4. Homes' /\ \A u \in DOMAIN account \ {run.id} : HasHome(u) => HasHome(u)'
  BY <1>1, <1>3, EraseOwn
<1>5. Progress'
  BY <1>1 DEF WholeInv, Progress, ModifyWrites, Closing, Indexed
<1>6. AnsweredIsComplete'
  BY <1>1, <1>4 DEF WholeInv, AnsweredIsComplete, Indexed
<1> QED BY <1>4, <1>5, <1>6

LEMMA EraseAccountWhole ==
  ASSUME WholeInv, EraseAccount
  PROVE  Homes' /\ Progress' /\ AnsweredIsComplete'
<1>1. /\ run # Idle /\ run' # Idle /\ run.at = "erase_account" /\ run'.at = "unlist_email"
      /\ run'.id = run.id /\ run'.email = run.email
      /\ UNCHANGED <<listed, dir, ticket, answered>>
  BY Goes DEF EraseAccount, WholeInv, BookInv, DeleteWrites
<1>2. /\ DOMAIN account' = DOMAIN account \ {run.id}
      /\ \A u \in DOMAIN account \ {run.id} : account'[u] = account[u]
      /\ DOMAIN index' = DOMAIN index \ {run.email}
      /\ \A e \in DOMAIN index \ {run.email} : index'[e] = index[e]
  BY DEF EraseAccount, Erase
<1>3. run.id \in DOMAIN account /\ Indexed(run.id) /\ account[run.id].email = run.email
  BY <1>1 DEF WholeInv, Progress, Closing
<1>4. Homes'
  BY <1>1, <1>2 DEF WholeInv, Homes, Root
<1>5. Progress'
  BY <1>1, <1>2 DEF Progress, ModifyWrites, Closing
<1>6. AnsweredIsComplete'
  BY <1>1, <1>2, <1>3 DEF WholeInv, AnsweredIsComplete, Indexed, HasHome, Root
<1> QED BY <1>4, <1>5, <1>6

LEMMA UnlistEmailWhole ==
  ASSUME WholeInv, UnlistEmail
  PROVE  Homes' /\ Progress' /\ AnsweredIsComplete'
<1>1. /\ run # Idle /\ run' # Idle /\ run.at = "unlist_email" /\ run'.at = "deleted"
      /\ run'.id = run.id /\ run'.email = run.email
      /\ listed' = listed \ {run.email}
      /\ UNCHANGED <<account, index, dir, ticket, answered>>
  BY Goes DEF UnlistEmail, WholeInv, BookInv, DeleteWrites
<1>2. run.email \notin DOMAIN index
  BY <1>1 DEF WholeInv, Progress
<1>3. Homes'
  BY <1>1 DEF WholeInv, Homes, Root
<1>4. Progress'
  BY <1>1 DEF Progress, ModifyWrites, Closing
<1>5. AnsweredIsComplete'
  BY <1>1, <1>2 DEF WholeInv, AnsweredIsComplete, Indexed, HasHome, Root
<1> QED BY <1>3, <1>4, <1>5

\* A request that is cut short gives its account up; an answer finds it complete.
LEMMA AnswerWhole ==
  ASSUME WholeInv, Answer \/ RestartAtRest \/ RestartInRequest
  PROVE  Homes' /\ Progress' /\ AnsweredIsComplete'
<1> DEFINE Complete(u) ==
      u \in DOMAIN account /\ Indexed(u) /\ account[u].email \in listed /\ HasHome(u)
<1>1. UNCHANGED <<account, index, listed, dir, ticket>> /\ run' = Idle
  BY DEF Answer, RestartAtRest, RestartInRequest, vars
<1>2. Homes'
  BY <1>1 DEF WholeInv, Homes, Root
<1>3. Progress'
  BY <1>1 DEF Progress, ModifyWrites, Closing, Idle
<1>4. \A u : Complete(u) => Complete(u)'
  BY <1>1 DEF Indexed, HasHome, Root
<1>5. \A u \in answered : Complete(u) \/ (run # Idle /\ run.id = u)
  BY DEF WholeInv, AnsweredIsComplete
<1>6. \A u \in answered' : Complete(u)
  <2>1. CASE Answer /\ run.at = "signed_up"
    <3>1. Complete(run.id)
      BY <2>1 DEF WholeInv, Progress
    <3>2. answered' = answered \cup {run.id}
      BY <2>1 DEF Answer
    <3> HIDE DEF Complete
    <3> QED BY <1>5, <3>1, <3>2
  <2>2. CASE Answer /\ run.at = "modified"
    <3>1. run.id \in answered => Complete(run.id)
      BY <2>2 DEF WholeInv, Progress, ModifyWrites
    <3>2. answered' = answered
      BY <2>2 DEF Answer
    <3> HIDE DEF Complete
    <3> QED BY <1>5, <3>1, <3>2
  <2>3. CASE Answer /\ run.at = "deleted"
    <3>1. answered' = answered \ {run.id}
      BY <2>3 DEF Answer
    <3> HIDE DEF Complete
    <3> QED BY <1>5, <3>1
  <2>4. CASE RestartAtRest
    <3> HIDE DEF Complete
    <3> QED BY <1>5, <2>4 DEF RestartAtRest, vars
  <2>5. CASE RestartInRequest
    <3> HIDE DEF Complete
    <3> QED BY <1>5, <2>5 DEF RestartInRequest
  <2> QED BY <2>1, <2>2, <2>3, <2>4, <2>5 DEF Answer
<1>7. AnsweredIsComplete'
  BY <1>4, <1>6 DEF AnsweredIsComplete
<1> QED BY <1>2, <1>3, <1>7

LEMMA StepWhole ==
  ASSUME "taken_email" \notin Slips
  PROVE  WholeInv /\ [Next]_vars => WholeInv'
<1> SUFFICES ASSUME WholeInv, [Next]_vars
             PROVE  Homes' /\ Progress' /\ AnsweredIsComplete'
  BY StepBook DEF WholeInv
<1>1. CASE Next
  BY <1>1, SignUpWhole, DrawWhole, MakeRootWhole, MakeAccountWhole, IndexEmailWhole,
     ListEmailWhole, MakeSharedWhole, ModifyUserInfoWhole, UnlistOldWhole, ListNewWhole,
     MoveEmailWhole, DeleteUserWhole, EraseSharedWhole, EraseRootWhole, EraseAccountWhole,
     UnlistEmailWhole, AnswerWhole DEF Next
<1>2. CASE UNCHANGED vars
  <2>1. UNCHANGED <<account, index, listed, dir, ticket, run, answered>>
    BY <1>2 DEF vars
  <2>2. Homes' /\ AnsweredIsComplete'
    BY <2>1 DEF WholeInv, Homes, AnsweredIsComplete, Indexed, HasHome, Root
  <2>3. Progress'
    BY <2>1 DEF WholeInv, Progress, Unused, EmptyRoot, Indexed, HasHome, Root
  <2> QED BY <2>2, <2>3
<1> QED BY <1>1, <1>2

\* Unless an account may change to the address of another, an account whose sign-up was
\* answered with success stays complete (indexed, listed, with its directories) through
\* everything that other accounts' requests do, cut short at any write or not.
THEOREM SuccessIsFinal ==
  ASSUME "taken_email" \notin Slips
  PROVE  Spec => []AnsweredIsComplete
<1>1. WholeInv => AnsweredIsComplete
  BY DEF WholeInv
<1> QED BY <1>1, InitWhole, StepWhole, PTL DEF Spec

----------------------------------------------------------------------------
(* At rest the five records agree.                                         *)

\* The addresses that are in the list of all users while a request is at work on it.
ListedNow ==
  CASE run.at = "list_email"   -> DOMAIN index \ {run.email}
    [] run.at = "list_new"     -> DOMAIN index \ {account[run.id].email}
    [] run.at = "move_email"   -> (DOMAIN index \ {account[run.id].email}) \cup {run.email}
    [] run.at = "unlist_email" -> DOMAIN index \cup {run.email}
    [] OTHER                   -> DOMAIN index

\* Every directory belongs to an account (or to the one a sign-up is about to make)
\* and is its root or in it; a removal has erased them from the leaves up.
Belongs(d) ==
  LET u == dir[d].owner
  IN  /\ u \in DOMAIN account \/ (run.at = "make_account" /\ run.id = u /\ run.dir_id = d)
      /\ u \in DOMAIN account =>
           \/ d = Root(u)
           \/ Root(u) \in DOMAIN dir /\ d \in dir[Root(u)].directories_contained
      /\ run.at \in {"draw_root", "make_root", "erase_account"} => u # run.id
      /\ run.at = "erase_root" /\ u = run.id => d = Root(u)

\* What no request cut short leaves: only the account of the running request may
\* lack something, and how much of it is known from the write it is at.
Agreement ==
  /\ \A u \in DOMAIN account : run = Idle \/ run.id # u => Indexed(u) /\ HasHome(u)
  /\ run.at \in ModifyWrites => HasHome(run.id)
  /\ run.at \in {"unlist_email", "deleted"} => run.id \notin DOMAIN account
  /\ \A e \in DOMAIN index : index[e] \in DOMAIN account /\ account[index[e]].email = e
  /\ listed = ListedNow
  /\ \A d \in DOMAIN dir : dir[d].owner < ticket.user /\ Belongs(d)

AgreeInv == WholeInv /\ (~cut => Agreement)

LEMMA InitAgree == Init => AgreeInv
<1> SUFFICES ASSUME Init PROVE AgreeInv
  OBVIOUS
<1>1. run.at = "idle" /\ listed = {} /\ DOMAIN index = {} /\ DOMAIN account = {}
  BY DEF Init, Idle
<1>2. listed = ListedNow
  BY <1>1 DEF ListedNow
<1>3. \A d \in DOMAIN dir : dir[d].owner < ticket.user /\ Belongs(d)
  BY DEF Init
<1> QED BY <1>1, <1>2, <1>3, InitWhole DEF AgreeInv, Agreement, ModifyWrites

\* Requests that begin, and ids that are drawn, write no record.
LEMMA SignUpAgrees ==
  ASSUME WholeInv, Agreement, NEW e \in Emails, SignUp(e)
  PROVE  Agreement'
<1>1. /\ run'.at = "draw_root" /\ run'.id = ticket.user /\ run = Idle /\ run.at = "idle"
      /\ ticket'.user = ticket.user + 1
      /\ UNCHANGED <<account, index, listed, dir>>
      /\ ticket.user \in Nat /\ DOMAIN account \subseteq Nat
      /\ \A d \in DOMAIN dir : dir[d].owner \in Nat
  BY Bounds, IdBounds DEF SignUp, WholeInv, BookInv, Typed, TypeOK, Idle
<1>2. listed' = ListedNow'
  BY <1>1 DEF Agreement, ListedNow
<1>3. \A u \in DOMAIN account' : Indexed(u)' /\ HasHome(u)'
  BY <1>1 DEF Agreement, Indexed, HasHome, Root
<1>4. \A d \in DOMAIN dir' : dir'[d].owner < ticket'.user /\ Belongs(d)'
  BY <1>1 DEF Agreement, Belongs, Root
<1> QED BY <1>1, <1>2, <1>3, <1>4 DEF Agreement, ModifyWrites

LEMMA DrawAgrees ==
  ASSUME WholeInv, Agreement,
         NEW w \in {"draw_root", "draw_shared"}, NEW v \in {"make_root", "make_shared"},
         w = "draw_root" <=> v = "make_root", DrawDirectory(w, v)
  PROVE  Agreement'
<1>1. /\ run.at = w /\ run'.at = v /\ run # Idle
      /\ run'.id = run.id /\ run'.email = run.email
      /\ ticket'.user = ticket.user
      /\ UNCHANGED <<account, index, listed, dir>>
  BY DEF DrawDirectory, WholeInv, BookInv, Typed, TypeOK, Idle
<1>2. listed' = ListedNow'
  BY <1>1 DEF Agreement, ListedNow
<1>3. \A u \in DOMAIN account' : run' = Idle \/ run'.id # u => Indexed(u)' /\ HasHome(u)'
  BY <1>1 DEF Agreement, Indexed, HasHome, Root, Idle
<1>4. \A d \in DOMAIN dir' : dir'[d].owner < ticket'.user /\ Belongs(d)'
  BY <1>1 DEF Agreement, Belongs, Root
<1> QED BY <1>1, <1>2, <1>3, <1>4 DEF Agreement, ModifyWrites

LEMMA ModifyUserInfoAgrees ==
  ASSUME WholeInv, Agreement, NEW e \in Emails, NEW u \in UserId, ModifyUserInfo(u, e)
  PROVE  Agreement'
<1>1. /\ run = Idle /\ run.at = "idle" /\ run'.at = "unlist_old" /\ run'.id = u
      /\ u \in DOMAIN account
      /\ UNCHANGED <<account, index, listed, dir, ticket>>
  BY DEF ModifyUserInfo, Idle
<1>2. listed' = ListedNow'
  BY <1>1 DEF Agreement, ListedNow
<1>3. \A v \in DOMAIN account' : Indexed(v)' /\ HasHome(v)'
  BY <1>1 DEF Agreement, Indexed, HasHome, Root
<1>4. \A d \in DOMAIN dir' : dir'[d].owner < ticket'.user /\ Belongs(d)'
  BY <1>1 DEF Agreement, Belongs, Root
<1> QED BY <1>1, <1>2, <1>3, <1>4 DEF Agreement

LEMMA DeleteUserAgrees ==
  ASSUME WholeInv, Agreement, NEW u \in UserId, DeleteUser(u)
  PROVE  Agreement'
<1>1. /\ run = Idle /\ run.at = "idle" /\ run'.id = u
      /\ run'.at = "erase_shared"
      /\ UNCHANGED <<account, index, listed, dir, ticket>>
  BY DEF DeleteUser, Idle, Agreement, HasHome
<1>2. listed' = ListedNow'
  BY <1>1 DEF Agreement, ListedNow
<1>3. \A v \in DOMAIN account' : Indexed(v)' /\ HasHome(v)'
  BY <1>1 DEF Agreement, Indexed, HasHome, Root
<1>4. \A d \in DOMAIN dir' : dir'[d].owner < ticket'.user /\ Belongs(d)'
  BY <1>1 DEF Agreement, Belongs, Root
<1> QED BY <1>1, <1>2, <1>3, <1>4 DEF Agreement, ModifyWrites

\* The writes of a sign-up.
LEMMA MakeRootAgrees ==
  ASSUME WholeInv, Agreement, MakeRoot
  PROVE  Agreement'
<1>1. /\ run # Idle /\ run' # Idle /\ run.at = "make_root" /\ run'.at = "make_account"
      /\ run'.id = run.id /\ run'.email = run.email /\ run'.dir_id = run.dir_id
      /\ run.id \in Nat /\ ticket.user \in Nat /\ run.id < ticket.user
      /\ run.id \notin DOMAIN account
      /\ UNCHANGED <<account, index, listed, ticket>>
  BY Goes, IdBounds DEF MakeRoot, WholeInv, BookInv, Held, PreIndex, Progress, SignUpWrites
<1>2. /\ DOMAIN dir' = DOMAIN dir \cup {run.dir_id}
      /\ dir'[run.dir_id] = [owner |-> run.id, directories_contained |-> {}]
      /\ \A d \in DOMAIN dir : dir'[d] = dir[d]
      /\ run.dir_id \notin DOMAIN dir
  BY <1>1 DEF MakeRoot, Put, WholeInv, Progress, Unused
<1>3. listed' = ListedNow'
  BY <1>1 DEF Agreement, ListedNow
<1>4. \A u \in DOMAIN account' : run' = Idle \/ run'.id # u => Indexed(u)' /\ HasHome(u)'
  BY <1>1, <1>2 DEF Agreement, Indexed, HasHome, Root
<1>5. \A d \in DOMAIN dir' : dir'[d].owner < ticket'.user /\ Belongs(d)'
  BY <1>1, <1>2 DEF Agreement, Belongs, Root
<1> QED BY <1>1, <1>3, <1>4, <1>5 DEF Agreement, ModifyWrites

LEMMA MakeAccountAgrees ==
  ASSUME WholeInv, Agreement, MakeAccount
  PROVE  Agreement'
<1>1. /\ run # Idle /\ run' # Idle /\ run.at = "make_account" /\ run'.at = "index_email"
      /\ run'.id = run.id /\ run'.email = run.email
      /\ UNCHANGED <<index, listed, dir, ticket>>
  BY Goes DEF MakeAccount, WholeInv, BookInv, SignUpWrites
<1>2. /\ DOMAIN account' = DOMAIN account \cup {run.id} /\ run.id \notin DOMAIN account
      /\ account'[run.id] = [email |-> run.email, dir_root |-> run.dir_id]
      /\ \A u \in DOMAIN account : account'[u] = account[u]
      /\ EmptyRoot(run.dir_id)
  BY <1>1 DEF MakeAccount, Put, WholeInv, Progress
<1>3. listed' = ListedNow'
  BY <1>1 DEF Agreement, ListedNow
<1>4. \A u \in DOMAIN account' : run' = Idle \/ run'.id # u => Indexed(u)' /\ HasHome(u)'
  BY <1>1, <1>2 DEF Agreement, Indexed, HasHome, Root
<1>5. \A d \in DOMAIN dir' : dir'[d].owner < ticket'.user /\ Belongs(d)'
  BY <1>1, <1>2 DEF Agreement, Belongs, Root, EmptyRoot
<1>6. \A e \in DOMAIN index' : index'[e] \in DOMAIN account' /\ account'[index'[e]].email = e
  BY <1>1, <1>2 DEF Agreement
<1> QED BY <1>1, <1>3, <1>4, <1>5, <1>6 DEF Agreement, ModifyWrites

LEMMA IndexEmailAgrees ==
  ASSUME WholeInv, Agreement, IndexEmail
  PROVE  Agreement'
<1>1. /\ run # Idle /\ run' # Idle /\ run.at = "index_email" /\ run'.at = "list_email"
      /\ run'.id = run.id /\ run'.email = run.email
      /\ UNCHANGED <<account, listed, dir, ticket>>
  BY Goes DEF IndexEmail, WholeInv, BookInv, SignUpWrites
<1>2. /\ DOMAIN index' = DOMAIN index \cup {run.email} /\ run.email \notin DOMAIN index
      /\ index'[run.email] = run.id
      /\ \A e \in DOMAIN index : index'[e] = index[e]
      /\ run.id \in DOMAIN account /\ account[run.id].email = run.email
  BY <1>1 DEF IndexEmail, Put, WholeInv, BookInv, Held, PreIndex, Progress
<1>3. listed' = ListedNow'
  BY <1>1, <1>2 DEF Agreement, ListedNow
<1>4. \A u \in DOMAIN account' : run' = Idle \/ run'.id # u => Indexed(u)' /\ HasHome(u)'
  BY <1>1, <1>2 DEF Agreement, Indexed, HasHome, Root
<1>5. \A d \in DOMAIN dir' : dir'[d].owner < ticket'.user /\ Belongs(d)'
  BY <1>1 DEF Agreement, Belongs, Root
<1>6. \A e \in DOMAIN index' : index'[e] \in DOMAIN account' /\ account'[index'[e]].email = e
  BY <1>1, <1>2 DEF Agreement
<1> QED BY <1>1, <1>3, <1>4, <1>5, <1>6 DEF Agreement, ModifyWrites

LEMMA ListEmailAgrees ==
  ASSUME WholeInv, Agreement, ListEmail
  PROVE  Agreement'
<1>1. /\ run # Idle /\ run' # Idle /\ run.at = "list_email" /\ run'.at = "draw_shared"
      /\ run'.id = run.id /\ run'.email = run.email
      /\ listed' = listed \cup {run.email}
      /\ UNCHANGED <<account, index, dir, ticket>>
  BY Goes DEF ListEmail, WholeInv, BookInv, SignUpWrites
<1>2. run.email \in DOMAIN index
  BY <1>1 DEF WholeInv, Progress, Indexed
<1>3. listed' = ListedNow'
  BY <1>1, <1>2 DEF Agreement, ListedNow
<1>4. \A u \in DOMAIN account' : run' = Idle \/ run'.id # u => Indexed(u)' /\ HasHome(u)'
  BY <1>1 DEF Agreement, Indexed, HasHome, Root
<1>5. \A d \in DOMAIN dir' : dir'[d].owner < ticket'.user /\ Belongs(d)'
  BY <1>1 DEF Agreement, Belongs, Root
<1> QED BY <1>1, <1>3, <1>4, <1>5 DEF Agreement, ModifyWrites

LEMMA MakeSharedAgrees ==
  ASSUME WholeInv, Agreement, MakeShared
  PROVE  Agreement'
<1> DEFINE r == Root(run.id)
<1>1. /\ run # Idle /\ run' # Idle /\ run.at = "make_shared" /\ run'.at = "signed_up"
      /\ run'.id = run.id /\ run'.email = run.email
      /\ run.id \in Nat /\ ticket.user \in Nat
      /\ UNCHANGED <<account, index, listed, ticket>>
  BY Goes, IdBounds DEF MakeShared, WholeInv, BookInv, SignUpWrites
<1>2. /\ run.id \in DOMAIN account /\ r \in DOMAIN dir /\ r # run.dir_id
      /\ run.dir_id \notin DOMAIN dir
      /\ dir[r] = [owner |-> run.id, directories_contained |-> {}]
      /\ DOMAIN dir' = DOMAIN dir \cup {run.dir_id}
      /\ dir'[run.dir_id] = [owner |-> run.id, directories_contained |-> {}]
      /\ dir'[r] = [owner |-> run.id, directories_contained |-> {run.dir_id}]
      /\ \A d \in DOMAIN dir \ {r} : dir'[d] = dir[d]
  BY MakeSharedEffect
<1>3. run.id < ticket.user /\ \A u \in DOMAIN account : Root(u) = r => u = run.id
  BY <1>2 DEF WholeInv, Homes
<1>4. \A u : Root(u)' = Root(u)
  BY <1>1 DEF Root
<1> HIDE DEF r
<1>5. listed' = ListedNow'
  BY <1>1 DEF Agreement, ListedNow
<1>6. \A u \in DOMAIN account' : run' = Idle \/ run'.id # u => Indexed(u)' /\ HasHome(u)'
  <2> SUFFICES ASSUME NEW u \in DOMAIN account, run.id # u
               PROVE  Indexed(u)' /\ HasHome(u)'
    BY <1>1
  <2>1. Indexed(u) /\ HasHome(u) /\ Root(u) # r
    BY <1>1, <1>3 DEF Agreement
  <2>2. \A d \in dir[Root(u)].directories_contained : d # r
    BY <1>2, <2>1 DEF HasHome
  <2> QED BY <1>1, <1>2, <1>4, <2>1, <2>2 DEF Indexed, HasHome
<1>7. \A d \in DOMAIN dir' : dir'[d].owner < ticket'.user /\ Belongs(d)'
  <2> SUFFICES ASSUME NEW d \in DOMAIN dir'
               PROVE  dir'[d].owner < ticket'.user /\ Belongs(d)'
    OBVIOUS
  <2>1. CASE d = run.dir_id \/ d = r
    <3>1. dir'[d].owner = run.id
      BY <1>2, <2>1
    <3>2. r = account[run.id].dir_root
      BY DEF r, Root
    <3> QED BY <1>1, <1>2, <1>3, <2>1, <3>1, <3>2 DEF Belongs, Root
  <2>2. CASE d \in DOMAIN dir /\ d # r
    <3>1. dir'[d] = dir[d] /\ dir[d].owner < ticket.user /\ Belongs(d)
      BY <1>2, <2>2 DEF Agreement
    <3>2. \A u : Root(u) \in DOMAIN dir /\ d \in dir[Root(u)].directories_contained =>
                   dir'[Root(u)] = dir[Root(u)] /\ Root(u) \in DOMAIN dir'
      BY <1>2
    <3> QED BY <1>1, <1>4, <3>1, <3>2 DEF Belongs
  <2> QED BY <1>2, <2>1, <2>2
<1> QED BY <1>1, <1>5, <1>6, <1>7 DEF Agreement, ModifyWrites

\* The writes of a change of address.
LEMMA UnlistOldAgrees ==
  ASSUME WholeInv, Agreement, UnlistOld
  PROVE  Agreement'
<1>1. /\ run # Idle /\ run' # Idle /\ run.at = "unlist_old" /\ run'.at = "list_new"
      /\ run'.id = run.id /\ run'.email = run.email
      /\ listed' = listed \ {account[run.id].email}
      /\ UNCHANGED <<account, index, dir, ticket>>
  BY Goes DEF UnlistOld, WholeInv, BookInv, ModifyWrites
<1>2. listed' = ListedNow'
  BY <1>1 DEF Agreement, ListedNow
<1>3. \A u \in DOMAIN account' : Indexed(u) /\ HasHome(u) => Indexed(u)' /\ HasHome(u)'
  BY <1>1 DEF Indexed, HasHome, Root
<1>4. HasHome(run.id)'
  BY <1>1 DEF Agreement, ModifyWrites, HasHome, Root
<1>5. \A d \in DOMAIN dir' : dir'[d].owner < ticket'.user /\ Belongs(d)'
  BY <1>1 DEF Agreement, Belongs, Root
<1> QED BY <1>1, <1>2, <1>3, <1>4, <1>5 DEF Agreement

LEMMA ListNewAgrees ==
  ASSUME WholeInv, Agreement, ListNew
  PROVE  Agreement'
<1>1. /\ run # Idle /\ run' # Idle /\ run.at = "list_new" /\ run'.at = "move_email"
      /\ run'.id = run.id /\ run'.email = run.email
      /\ listed' = listed \cup {run.email}
      /\ UNCHANGED <<account, index, dir, ticket>>
  BY Goes DEF ListNew, WholeInv, BookInv, ModifyWrites
<1>2. listed' = ListedNow'
  BY <1>1 DEF Agreement, ListedNow
<1>3. \A u \in DOMAIN account' : Indexed(u) /\ HasHome(u) => Indexed(u)' /\ HasHome(u)'
  BY <1>1 DEF Indexed, HasHome, Root
<1>4. HasHome(run.id)'
  BY <1>1 DEF Agreement, ModifyWrites, HasHome, Root
<1>5. \A d \in DOMAIN dir' : dir'[d].owner < ticket'.user /\ Belongs(d)'
  BY <1>1 DEF Agreement, Belongs, Root
<1> QED BY <1>1, <1>2, <1>3, <1>4, <1>5 DEF Agreement

LEMMA MoveEmailAgrees ==
  ASSUME WholeInv, Agreement, MoveEmail
  PROVE  Agreement'
<1> DEFINE old == account[run.id].email
<1>1. /\ run # Idle /\ run' # Idle /\ run.at = "move_email" /\ run'.at = "modified"
      /\ run'.id = run.id /\ run'.email = run.email
      /\ UNCHANGED <<listed, dir, ticket>>
  BY Goes DEF MoveEmail, WholeInv, BookInv, ModifyWrites
<1>2. /\ run.id \in DOMAIN account /\ old \in DOMAIN index /\ index[old] = run.id
      /\ run.email \notin DOMAIN index
  BY <1>1 DEF WholeInv, BookInv, Held, Moving, Indexed
<1>3. /\ DOMAIN account' = DOMAIN account
      /\ account'[run.id].email = run.email
      /\ \A u \in DOMAIN account : Root(u)' = Root(u)
      /\ \A u \in DOMAIN account \ {run.id} : account'[u] = account[u]
  <2>1. /\ account = [u \in DOMAIN account |-> account[u]]
        /\ account[run.id] \in AccountRecord
    BY <1>2 DEF WholeInv, BookInv, Typed, TypeOK, AccountRecord
  <2> QED BY <1>2, <2>1 DEF MoveEmail, Root, AccountRecord
<1>4. /\ DOMAIN index' = (DOMAIN index \ {old}) \cup {run.email}
      /\ index'[run.email] = run.id
      /\ \A e \in DOMAIN index \ {old} : index'[e] = index[e]
  BY <1>2 DEF MoveEmail, Put, Erase
<1>5. listed = (DOMAIN index \ {old}) \cup {run.email}
  BY <1>1 DEF Agreement, ListedNow
<1>6. \A e \in DOMAIN index : index[e] \in DOMAIN account /\ account[index[e]].email = e
  BY DEF Agreement
<1>7. \A e \in DOMAIN index' : index'[e] \in DOMAIN account' /\ account'[index'[e]].email = e
  <2>1. \A e \in DOMAIN index \ {old} : index[e] # run.id
    BY <1>6
  <2> HIDE DEF old
  <2> QED BY <1>2, <1>3, <1>4, <1>6, <2>1
<1> HIDE DEF old
<1>8. listed' = ListedNow'
  BY <1>1, <1>4, <1>5 DEF ListedNow
<1>9. \A u \in DOMAIN account' : run' = Idle \/ run'.id # u => Indexed(u)' /\ HasHome(u)'
  <2> SUFFICES ASSUME NEW u \in DOMAIN account, run.id # u
               PROVE  Indexed(u)' /\ HasHome(u)'
    BY <1>1, <1>3
  <2>1. Indexed(u) /\ HasHome(u)
    BY <1>1 DEF Agreement
  <2> QED BY <1>1, <1>2, <1>3, <1>4, <2>1 DEF Indexed, HasHome
<1>10. HasHome(run.id)'
  BY <1>1, <1>2, <1>3 DEF Agreement, ModifyWrites, HasHome
<1>11. \A d \in DOMAIN dir' : dir'[d].owner < ticket'.user /\ Belongs(d)'
  BY <1>1, <1>3 DEF Agreement, Belongs
<1> QED BY <1>1, <1>7, <1>8, <1>9, <1>10, <1>11 DEF Agreement

\* The writes of a removal.  Erasing directories of one account leaves those of the
\* others as they were.
LEMMA EraseElsewhere ==
  ASSUME WholeInv, Agreement, run # Idle, run.id \in DOMAIN account,
         NEW E, dir' = Erase(dir, E),
         \A d \in E : d \in DOMAIN dir => dir[d].owner = run.id,
         UNCHANGED <<account, index>>
  PROVE  /\ \A u \in DOMAIN account \ {run.id} : Indexed(u)' /\ HasHome(u)'
         /\ DOMAIN dir' = DOMAIN dir \ E
         /\ \A d \in DOMAIN dir \ E : dir'[d] = dir[d]
         /\ \A d \in DOMAIN dir \ E : dir[d].owner # run.id =>
              /\ dir[d].owner \in DOMAIN account
              /\ \/ d = Root(dir[d].owner)
                 \/ /\ Root(dir[d].owner) \in DOMAIN dir'
                    /\ d \in dir'[Root(dir[d].owner)].directories_contained
<1>1. /\ DOMAIN dir' = DOMAIN dir \ E
      /\ \A d \in DOMAIN dir \ E : dir'[d] = dir[d]
  BY DEF Erase
<1>2. \A u \in DOMAIN account \ {run.id} : Indexed(u)' /\ HasHome(u)'
  BY <1>1 DEF Agreement, Indexed, HasHome, Root
<1>3. ASSUME NEW d \in DOMAIN dir \ E, dir[d].owner # run.id
      PROVE  /\ dir[d].owner \in DOMAIN account
             /\ \/ d = Root(dir[d].owner)
                \/ /\ Root(dir[d].owner) \in DOMAIN dir'
                   /\ d \in dir'[Root(dir[d].owner)].directories_contained
  <2>1. dir[d].owner \in DOMAIN account
    BY <1>3 DEF Agreement, Belongs
  <2>2. Root(dir[d].owner) \in DOMAIN dir /\ dir[Root(dir[d].owner)].owner = dir[d].owner
    BY <1>3, <2>1 DEF Agreement, HasHome
  <2>3. Root(dir[d].owner) \in DOMAIN dir \ E
    BY <1>3, <2>2
  <2> QED BY <1>1, <1>3, <2>1, <2>3 DEF Agreement, Belongs
<1> QED BY <1>1, <1>2, <1>3

LEMMA EraseSharedAgrees ==
  ASSUME WholeInv, Agreement, EraseShared
  PROVE  Agreement'
<1> DEFINE E == dir[Root(run.id)].directories_contained
<1>1. /\ run # Idle /\ run' # Idle /\ run.at = "erase_shared" /\ run'.at = "erase_root"
      /\ run'.id = run.id /\ run'.email = run.email
      /\ dir' = Erase(dir, E)
      /\ UNCHANGED <<account, index, listed, ticket>>
  BY Goes DEF EraseShared, WholeInv, BookInv, DeleteWrites
<1>2. run.id \in DOMAIN account /\ Root(run.id) \in DOMAIN dir
  BY <1>1 DEF WholeInv, Progress, Closing
<1>3. \A d \in E : d \in DOMAIN dir => dir[d].owner = run.id
  BY <1>2 DEF WholeInv, Homes
<1>4. \A d \in DOMAIN dir \ E : dir[d].owner = run.id => d = Root(run.id)
  BY <1>2 DEF Agreement, Belongs
<1>5. listed' = ListedNow'
  BY <1>1 DEF Agreement, ListedNow
<1> HIDE DEF E
<1>6. /\ \A u \in DOMAIN account \ {run.id} : Indexed(u)' /\ HasHome(u)'
      /\ DOMAIN dir' = DOMAIN dir \ E
      /\ \A d \in DOMAIN dir \ E : dir'[d] = dir[d]
      /\ \A d \in DOMAIN dir \ E : dir[d].owner # run.id =>
              /\ dir[d].owner \in DOMAIN account
              /\ \/ d = Root(dir[d].owner)
                 \/ /\ Root(dir[d].owner) \in DOMAIN dir'
                    /\ d \in dir'[Root(dir[d].owner)].directories_contained
  BY <1>1, <1>2, <1>3, EraseElsewhere
<1>7. \A d \in DOMAIN dir' : dir'[d].owner < ticket'.user /\ Belongs(d)'
  <2>1. \A d \in DOMAIN dir : dir[d].owner < ticket.user
    BY DEF Agreement
  <2> QED BY <1>1, <1>2, <1>4, <1>6, <2>1 DEF Belongs, Root
<1> QED BY <1>1, <1>5, <1>6, <1>7 DEF Agreement, ModifyWrites

LEMMA EraseRootAgrees ==
  ASSUME WholeInv, Agreement, EraseRoot
  PROVE  Agreement'
<1> DEFINE E == {Root(run.id)}
<1>1. /\ run # Idle /\ run' # Idle /\ run.at = "erase_root" /\ run'.at = "erase_account"
      /\ run'.id = run.id /\ run'.email = run.email
      /\ dir' = Erase(dir, E)
      /\ UNCHANGED <<account, index, listed, ticket>>
  BY Goes DEF EraseRoot, WholeInv, BookInv, DeleteWrites
<1>2. run.id \in DOMAIN account
  BY <1>1 DEF WholeInv, Progress, Closing
<1>3. \A d \in E : d \in DOMAIN dir => dir[d].owner = run.id
  BY <1>2 DEF WholeInv, Homes
<1>4. \A d \in DOMAIN dir \ E : dir[d].owner # run.id
  BY <1>1 DEF Agreement, Belongs
<1>5. listed' = ListedNow'
  BY <1>1 DEF Agreement, ListedNow
<1> HIDE DEF E
<1>6. /\ \A u \in DOMAIN account \ {run.id} : Indexed(u)' /\ HasHome(u)'
      /\ DOMAIN dir' = DOMAIN dir \ E
      /\ \A d \in DOMAIN dir \ E : dir'[d] = dir[d]
      /\ \A d \in DOMAIN dir \ E : dir[d].owner # run.id =>
              /\ dir[d].owner \in DOMAIN account
              /\ \/ d = Root(dir[d].owner)
                 \/ /\ Root(dir[d].owner) \in DOMAIN dir'
                    /\ d \in dir'[Root(dir[d].owner)].directories_contained
  BY <1>1, <1>2, <1>3, EraseElsewhere
<1>7. \A d \in DOMAIN dir' : dir'[d].owner < ticket'.user /\ Belongs(d)'
  <2>1. \A d \in DOMAIN dir : dir[d].owner < ticket.user
    BY DEF Agreement
  <2> QED BY <1>1, <1>4, <1>6, <2>1 DEF Belongs, Root
<1> QED BY <1>1, <1>5, <1>6, <1>7 DEF Agreement, ModifyWrites

LEMMA EraseAccountAgrees ==
  ASSUME WholeInv, Agreement, EraseAccount
  PROVE  Agreement'
<1>1. /\ run # Idle /\ run' # Idle /\ run.at = "erase_account" /\ run'.at = "unlist_email"
      /\ run'.id = run.id /\ run'.email = run.email
      /\ UNCHANGED <<listed, dir, ticket>>
  BY Goes DEF EraseAccount, WholeInv, BookInv, DeleteWrites
<1>2. /\ DOMAIN account' = DOMAIN account \ {run.id}
      /\ \A u \in DOMAIN account \ {run.id} : account'[u] = account[u]
      /\ DOMAIN index' = DOMAIN index \ {run.email}
      /\ \A e \in DOMAIN index \ {run.email} : index'[e] = index[e]
  BY DEF EraseAccount, Erase
<1>3. run.id \in DOMAIN account /\ Indexed(run.id) /\ account[run.id].email = run.email
  BY <1>1 DEF WholeInv, Progress, Closing
<1>4. listed' = ListedNow'
  BY <1>1, <1>2, <1>3 DEF Agreement, ListedNow, Indexed
<1>5. \A u \in DOMAIN account' : Indexed(u)' /\ HasHome(u)'
  BY <1>1, <1>2, <1>3 DEF Agreement, Indexed, HasHome, Root
<1>6. \A e \in DOMAIN index' : index'[e] \in DOMAIN account' /\ account'[index'[e]].email = e
  BY <1>2, <1>3 DEF Agreement
<1>7. \A d \in DOMAIN dir' : dir'[d].owner < ticket'.user /\ Belongs(d)'
  BY <1>1, <1>2 DEF Agreement, Belongs, Root
<1> QED BY <1>1, <1>2, <1>4, <1>5, <1>6, <1>7 DEF Agreement, ModifyWrites

LEMMA UnlistEmailAgrees ==
  ASSUME WholeInv, Agreement, UnlistEmail
  PROVE  Agreement'
<1>1. /\ run # Idle /\ run' # Idle /\ run.at = "unlist_email" /\ run'.at = "deleted"
      /\ run'.id = run.id /\ run'.email = run.email
      /\ listed' = listed \ {run.email}
      /\ UNCHANGED <<account, index, dir, ticket>>
  BY Goes DEF UnlistEmail, WholeInv, BookInv, DeleteWrites
<1>2. run.email \notin DOMAIN index
  BY <1>1 DEF WholeInv, Progress
<1>3. listed' = ListedNow'
  BY <1>1, <1>2 DEF Agreement, ListedNow
<1>4. \A u \in DOMAIN account' : run' = Idle \/ run'.id # u => Indexed(u)' /\ HasHome(u)'
  BY <1>1 DEF Agreement, Indexed, HasHome, Root
<1>5. \A d \in DOMAIN dir' : dir'[d].owner < ticket'.user /\ Belongs(d)'
  BY <1>1 DEF Agreement, Belongs, Root
<1> QED BY <1>1, <1>3, <1>4, <1>5 DEF Agreement, ModifyWrites

\* An answer is given only when the account of the request is whole, or gone.
LEMMA AnswerAgrees ==
  ASSUME WholeInv, Agreement, Answer
  PROVE  Agreement'
<1>1. /\ run.at \in {"signed_up", "modified", "deleted"} /\ run' = Idle /\ run'.at = "idle"
      /\ UNCHANGED <<account, index, listed, dir, ticket>>
  BY DEF Answer, Idle
<1>2. run.id \in DOMAIN account => Indexed(run.id) /\ HasHome(run.id)
  BY <1>1 DEF WholeInv, Progress, Agreement, ModifyWrites
<1>3. \A u \in DOMAIN account' : Indexed(u)' /\ HasHome(u)'
  BY <1>1, <1>2 DEF Agreement, Indexed, HasHome, Root
<1>4. listed' = ListedNow'
  BY <1>1 DEF Agreement, ListedNow
<1>5. \A d \in DOMAIN dir' : dir'[d].owner < ticket'.user /\ Belongs(d)'
  BY <1>1 DEF Agreement, Belongs, Root
<1> QED BY <1>1, <1>3, <1>4, <1>5 DEF Agreement, ModifyWrites

LEMMA StepAgrees ==
  ASSUME "taken_email" \notin Slips
  PROVE  AgreeInv /\ [Next]_vars => AgreeInv'
<1> SUFFICES ASSUME AgreeInv, [Next]_vars, ~cut'
             PROVE  Agreement'
  BY StepWhole DEF AgreeInv
<1>1. CASE RestartInRequest
  BY <1>1 DEF RestartInRequest
<1>2. CASE UNCHANGED vars
  <2>1. UNCHANGED <<account, index, listed, dir, ticket, run, answered, cut>>
    BY <1>2 DEF vars
  <2>2. listed' = ListedNow'
    BY <2>1 DEF AgreeInv, Agreement, ListedNow
  <2>3. \A d \in DOMAIN dir' : dir'[d].owner < ticket'.user /\ Belongs(d)'
    BY <2>1 DEF AgreeInv, Agreement, Belongs, Root
  <2> QED BY <2>1, <2>2, <2>3 DEF AgreeInv, Agreement, Indexed, HasHome, Root
<1>3. CASE Next /\ ~RestartInRequest
  <2>1. ~cut
    BY <1>3 DEF Next, SignUp, DrawDirectory, MakeRoot, MakeAccount, IndexEmail, ListEmail,
       MakeShared, ModifyUserInfo, UnlistOld, ListNew, MoveEmail, DeleteUser, EraseShared,
       EraseRoot, EraseAccount, UnlistEmail, Answer, RestartAtRest, vars
  <2>2. CASE RestartAtRest
    BY <1>2, <2>2 DEF RestartAtRest
  <2> QED BY SMTT(30), <1>3, <2>1, <2>2, SignUpAgrees, DrawAgrees, MakeRootAgrees, MakeAccountAgrees,
     IndexEmailAgrees, ListEmailAgrees, MakeSharedAgrees, ModifyUserInfoAgrees,
     UnlistOldAgrees, ListNewAgrees, MoveEmailAgrees, DeleteUserAgrees, EraseSharedAgrees,
     EraseRootAgrees, EraseAccountAgrees, UnlistEmailAgrees, AnswerAgrees DEF Next, AgreeInv
<1> QED BY <1>1, <1>2, <1>3

\* Unless an account may change to the address of another: between requests, as long
\* as no request was cut short, every account is indexed, listed and has its
\* directories, nothing else is listed or indexed, and a removed account has left no
\* directory behind.
THEOREM RecordsAgreeAtRest ==
  ASSUME "taken_email" \notin Slips
  PROVE  Spec => []WholeAtRest
<1>1. AgreeInv => WholeAtRest
  <2> SUFFICES ASSUME AgreeInv, run = Idle, ~cut
               PROVE  /\ \A u \in DOMAIN account : Indexed(u) /\ HasHome(u)
                      /\ listed = DOMAIN index
                      /\ listed = {account[u].email : u \in DOMAIN account}
                      /\ \A d \in DOMAIN dir : dir[d].owner \in DOMAIN account
    BY DEF WholeAtRest
  <2>1. run.at = "idle"
    BY DEF Idle
  <2>2. listed = DOMAIN index
    BY <2>1 DEF AgreeInv, Agreement, ListedNow
  <2>3. \A u \in DOMAIN account : Indexed(u) /\ HasHome(u)
    BY DEF AgreeInv, Agreement
  <2>4. DOMAIN index = {account[u].email : u \in DOMAIN account}
    <3>1. \A u \in DOMAIN account : account[u].email \in DOMAIN index
      BY <2>3 DEF Indexed
    <3>2. \A e \in DOMAIN index : index[e] \in DOMAIN account /\ account[index[e]].email = e
      BY DEF AgreeInv, Agreement
    <3> QED BY <3>1, <3>2
  <2>5. \A d \in DOMAIN dir : dir[d].owner \in DOMAIN account
    BY <2>1 DEF AgreeInv, Agreement, Belongs
  <2> QED BY <2>2, <2>3, <2>4, <2>5
<1> QED BY <1>1, InitAgree, StepAgrees, PTL DEF Spec

=============================================================================
