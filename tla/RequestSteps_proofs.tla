------------------------- MODULE RequestSteps_proofs -------------------------
(***************************************************************************)
(* Theorems about RequestSteps, for every number of users and every bound: *)
(* what stays true of the store whatever request dies after whichever of   *)
(* its writes.                                                             *)
(*                                                                         *)
(* The argument is about the writes a request has still to do.  Each was   *)
(* planned when the request started and relies on something: a recovery    *)
(* relists a file where the file says it is, a purge erases what is in the *)
(* trash, a directory is erased after its sub-directories.  Ready says     *)
(* what each relies on, now or after the writes before it.  Every program  *)
(* is ready when it starts, for concatenation keeps programs ready, and a  *)
(* write leaves those after it ready.                                      *)
(***************************************************************************)
EXTENDS RequestSteps, Catalog_proofs, FiniteSetTheorems, SequenceTheorems,
        WellFoundedInduction

----------------------------------------------------------------------------
(* Induction and recursion over an interval.                               *)

\* A set that has 0 and, below N, the successor of each of its numbers.
LEMMA IntervalInduction ==
  ASSUME NEW N \in Nat, NEW A, 0 \in A,
         \A n \in Nat : n < N /\ n \in A => n + 1 \in A
  PROVE  \A n \in 0 .. N : n \in A
<1> DEFINE Bad == {n \in Nat : n <= N /\ n \notin A}
<1> SUFFICES ASSUME Bad # {} PROVE FALSE
  OBVIOUS
<1>1. PICK m \in Bad : \A k \in Bad : ~(<<k, m>> \in OpToRel(<, Nat))
  BY NatLessThanWellFounded, WFMin
<1>2. \A k \in Bad : ~(k < m)
  BY <1>1 DEF OpToRel
<1>3. m \in Nat /\ m <= N /\ m \notin A
  BY <1>1
<1>4. m # 0 /\ m - 1 \in Nat /\ m - 1 < m /\ m - 1 < N /\ m - 1 <= N
  BY <1>3
<1>5. m - 1 \in A
  BY <1>2, <1>4
<1>6. (m - 1) + 1 \in A
  BY <1>4, <1>5
<1> QED
  BY <1>3, <1>6

\* A function defined by recursion from the value before.
Recursion(N, a, g, f) == [n \in 0 .. N |-> IF n = 0 THEN a ELSE g[n][f[n - 1]]]

\* What it returns.
LEMMA RecursionType ==
  ASSUME NEW N \in Nat, NEW T, NEW a \in T, NEW g \in [1 .. N -> [T -> T]],
         NEW f, f = Recursion(N, a, g, f)
  PROVE  \A n \in 0 .. N : f[n] \in T
<1> DEFINE A == {n \in 0 .. N : f[n] \in T}
<1>1. 0 \in A
  BY DEF Recursion
<1>2. ASSUME NEW n \in Nat, n < N, n \in A
      PROVE  n + 1 \in A
  <2>1. n + 1 \in 1 .. N /\ n + 1 \in 0 .. N /\ n + 1 # 0 /\ (n + 1) - 1 = n
    BY <1>2
  <2>2. f[n + 1] = g[n + 1][f[n]]
    BY <2>1 DEF Recursion
  <2>3. f[n] \in T
    BY <1>2
  <2> QED
    BY <2>1, <2>2, <2>3
<1> HIDE DEF A
<1>3. \A n \in 0 .. N : n \in A
  BY <1>1, <1>2, IntervalInduction
<1> QED
  BY <1>3 DEF A

\* That there is such a function.
LEMMA RecursionExists ==
  ASSUME NEW N \in Nat, NEW T, NEW a \in T, NEW g \in [1 .. N -> [T -> T]]
  PROVE  \E f : f = Recursion(N, a, g, f)
<1> DEFINE Upto(m) == {f \in [0 .. m -> T] :
                         \A n \in 0 .. m : f[n] = IF n = 0 THEN a ELSE g[n][f[n - 1]]}
           A == {m \in 0 .. N : Upto(m) # {}}
<1>1. 0 \in A
  <2>1. [n \in 0 .. 0 |-> a] \in Upto(0)
    OBVIOUS
  <2> QED
    BY <2>1
<1>2. ASSUME NEW m \in Nat, m < N, m \in A
      PROVE  m + 1 \in A
  <2>1. PICK f \in Upto(m) : TRUE
    BY <1>2
  <2> DEFINE h == [n \in 0 .. m + 1 |-> IF n = m + 1 THEN g[m + 1][f[m]] ELSE f[n]]
  <2>2. m + 1 \in 1 .. N /\ m + 1 \in 0 .. N /\ m \in 0 .. m
    BY <1>2
  <2>3. g[m + 1][f[m]] \in T
    BY <2>1, <2>2
  <2>4. h \in [0 .. m + 1 -> T]
    BY <2>1, <2>3
  <2>5. ASSUME NEW n \in 0 .. m + 1
        PROVE  h[n] = IF n = 0 THEN a ELSE g[n][h[n - 1]]
    <3>1. CASE n = m + 1
      <4>1. n # 0 /\ n - 1 = m /\ m \in 0 .. m + 1 /\ m # m + 1
        BY <3>1
      <4> QED
        BY <3>1, <4>1
    <3>2. CASE n # m + 1
      <4>1. n \in 0 .. m /\ (n # 0 => n - 1 \in 0 .. m + 1 /\ n - 1 # m + 1)
        BY <3>2
      <4>2. f[n] = IF n = 0 THEN a ELSE g[n][f[n - 1]]
        BY <2>1, <4>1
      <4> QED
        BY <3>2, <4>1, <4>2
    <3> QED
      BY <3>1, <3>2
  <2> HIDE DEF h
  <2>6. h \in Upto(m + 1)
    BY <2>4, <2>5
  <2> QED
    BY <2>2, <2>6
<1> HIDE DEF A
<1>3. \A m \in 0 .. N : m \in A
  BY <1>1, <1>2, IntervalInduction
<1>4. N \in A
  BY <1>3
<1>5. PICK f \in Upto(N) : TRUE
  BY <1>4 DEF A
<1>6. f = Recursion(N, a, g, f)
  BY <1>5 DEF Recursion
<1> QED
  BY <1>6

----------------------------------------------------------------------------
(* The writes of programs.                                                 *)

SharingOps  == {"list_share", "grant_share", "unlist_share", "revoke_share"}
DeletionOps == SharingOps \cup {"trash", "unlist", "erase_dir", "unlist_dir"}
PurgeOps    == {"remove", "erase_file"}
RecoveryOps == {"adopt", "relist"}

Writes ==
  [op : {"draw"}, id : {"dir", "file"}]
    \cup [op : {"add_dir"}, dir : DirId, user : Users, parent : DirId]
    \cup [op : {"add_file"}, file : FileId, user : Users, dir : DirId, name : Names]
    \cup [op : {"save", "remove"}, blob : Users \X FileId \X (1 .. MaxRevision)]
    \cup [op : SharingOps \cup {"trash"}, user : Users, file : FileId]
    \cup [op : {"unlist", "relist", "adopt"}, dir : DirId, file : FileId]
    \cup [op : {"empty_trash"}, user : Users, files : SUBSET FileId]
    \cup [op : {"unlist_dir"}, dir : DirId \cup {NoParent}, child : DirId]
    \cup [op : {"erase_dir"}, dir : DirId]
    \cup [op : {"erase_file", "revise"}, file : FileId]

\* What each kind of write names.
LEMMA WriteFields ==
  ASSUME NEW w \in Writes
  PROVE  /\ w.op = "draw" => w.id \in {"dir", "file"}
         /\ w.op = "add_dir" => w.dir \in DirId /\ w.user \in Users /\ w.parent \in DirId
         /\ w.op = "add_file" => /\ w.file \in FileId /\ w.user \in Users
                                 /\ w.dir \in DirId /\ w.name \in Names
         /\ w.op \in {"save", "remove"} => w.blob \in Users \X FileId \X (1 .. MaxRevision)
         /\ w.op \in SharingOps \cup {"trash"} => w.user \in Users /\ w.file \in FileId
         /\ w.op \in {"unlist", "relist", "adopt"} => w.dir \in DirId /\ w.file \in FileId
         /\ w.op = "empty_trash" => w.user \in Users /\ w.files \in SUBSET FileId
         /\ w.op = "unlist_dir" => w.child \in DirId
         /\ w.op = "erase_dir" => w.dir \in DirId
         /\ w.op \in {"erase_file", "revise"} => w.file \in FileId
BY DEF Writes, SharingOps

\* Concatenating and taking off the first.
LEMMA Concatenation ==
  ASSUME NEW s \in Seq(Writes), NEW t \in Seq(Writes)
  PROVE  /\ s \o t \in Seq(Writes) /\ Len(s \o t) = Len(s) + Len(t)
         /\ \A i \in 1 .. Len(s) : (s \o t)[i] = s[i]
         /\ \A i \in 1 .. Len(t) : (s \o t)[Len(s) + i] = t[i]
         /\ \A i \in 1 .. Len(s \o t) : i > Len(s) =>
              i - Len(s) \in 1 .. Len(t) /\ (s \o t)[i] = t[i - Len(s)]
OBVIOUS

LEMMA Rest ==
  ASSUME NEW s \in Seq(Writes), s # <<>>
  PROVE  /\ Head(s) = s[1] /\ Head(s) \in Writes /\ Len(s) \in Nat \ {0}
         /\ Tail(s) \in Seq(Writes) /\ Len(Tail(s)) = Len(s) - 1
         /\ \A i \in 1 .. Len(Tail(s)) : i + 1 \in 1 .. Len(s) /\ Tail(s)[i] = s[i + 1]
         /\ (Len(s) > 1) <=> (Tail(s) # <<>>)
<1>1. Len(s) \in Nat \ {0}
  OBVIOUS
<1>2. Tail(s) \in Seq(Writes) /\ Len(Tail(s)) = Len(s) - 1
  OBVIOUS
<1>3. \A i \in 1 .. Len(Tail(s)) : i + 1 \in 1 .. Len(s) /\ Tail(s)[i] = s[i + 1]
  OBVIOUS
<1>4. Head(s) = s[1] /\ Head(s) \in Writes
  BY <1>1
<1>5. \A t \in Seq(Writes) : t = <<>> <=> Len(t) = 0
  OBVIOUS
<1>6. (Len(s) > 1) <=> (Tail(s) # <<>>)
  <2> DEFINE t == Tail(s)
  <2>1. t \in Seq(Writes) /\ Len(t) = Len(s) - 1
    BY <1>2
  <2> HIDE DEF t
  <2>2. (Len(s) > 1) <=> (t # <<>>)
    BY <1>1, <1>5, <2>1
  <2> QED
    BY <2>2 DEF t
<1> QED
  BY <1>1, <1>2, <1>3, <1>4, <1>6

----------------------------------------------------------------------------
(* Programs one after the other.                                           *)

Programs(T) == [todo : T, ok : BOOLEAN]

\* The recursion of a loop over a list, and that it is one.
Loop(o, S, B, done) ==
  [n \in 0 .. Len(o) |->
     IF n = 0 THEN Do(<<>>)
     ELSE IF o[n] \in S THEN Then(done[n - 1], B[o[n]]) ELSE done[n - 1]]

LEMMA LoopExists ==
  ASSUME NEW T, <<>> \in T, \A s, t \in T : s \o t \in T,
         NEW o, Len(o) \in Nat, NEW S, NEW B, \A x \in S : B[x] \in Programs(T)
  PROVE  /\ \A p, q \in Programs(T) : Then(p, q) \in Programs(T)
         /\ \E done : /\ done = Loop(o, S, B, done)
                      /\ ForEach(o, S, B) = done[Len(o)]
                      /\ \A n \in 0 .. Len(o) : done[n] \in Programs(T)
<1> DEFINE g    == [n \in 1 .. Len(o) |-> [p \in Programs(T) |->
                      IF o[n] \in S THEN Then(p, B[o[n]]) ELSE p]]
           start == Do(<<>>)
           done == CHOOSE f : f = Loop(o, S, B, f)
<1>1. start \in Programs(T)
  BY DEF Do, Programs
<1>2. \A p, q \in Programs(T) : Then(p, q) \in Programs(T)
  BY DEF Then, Programs
<1>3. g \in [1 .. Len(o) -> [Programs(T) -> Programs(T)]]
  BY <1>2
<1>4. \A n \in 1 .. Len(o) : \A p \in Programs(T) :
        g[n][p] = IF o[n] \in S THEN Then(p, B[o[n]]) ELSE p
  OBVIOUS
<1> HIDE DEF g, start
<1>5. PICK f : f = Recursion(Len(o), start, g, f)
  BY <1>1, <1>3, RecursionExists
<1>6. \A n \in 0 .. Len(o) : f[n] \in Programs(T)
  BY <1>1, <1>3, <1>5, RecursionType
<1>7. \A n \in 0 .. Len(o) : n # 0 =>
        n \in 1 .. Len(o) /\ n - 1 \in 0 .. Len(o) /\ f[n - 1] \in Programs(T)
  BY <1>6
<1>8. f = Loop(o, S, B, f)
  <2>1. \A n \in 0 .. Len(o) :
          f[n] = IF n = 0 THEN start
                 ELSE IF o[n] \in S THEN Then(f[n - 1], B[o[n]]) ELSE f[n - 1]
    BY SMTT(30), <1>4, <1>5, <1>7 DEF Recursion
  <2>2. f = [n \in 0 .. Len(o) |-> f[n]]
    BY <1>5 DEF Recursion
  <2> QED
    BY <2>1, <2>2 DEF Loop, start
<1>9. done = Loop(o, S, B, done)
  BY <1>8
<1>10. ForEach(o, S, B) = done[Len(o)]
  BY DEF ForEach, Loop
<1> HIDE DEF done
<1>11. \A n \in 0 .. Len(o) : done[n] \in Programs(T)
  <2> DEFINE A == {n \in 0 .. Len(o) : done[n] \in Programs(T)}
  <2>1. 0 \in A
    BY <1>1, <1>9 DEF Loop, start
  <2>2. ASSUME NEW n \in Nat, n < Len(o), n \in A
        PROVE  n + 1 \in A
    <3>1. n + 1 \in 0 .. Len(o) /\ n + 1 # 0 /\ (n + 1) - 1 = n
      BY <2>2
    <3>2. done[n + 1] = IF o[n + 1] \in S THEN Then(done[n], B[o[n + 1]]) ELSE done[n]
      BY <1>9, <3>1 DEF Loop
    <3> QED
      BY <1>2, <2>2, <3>1, <3>2
  <2> HIDE DEF A
  <2>3. \A n \in 0 .. Len(o) : n \in A
    BY <2>1, <2>2, IntervalInduction
  <2> QED
    BY <2>3 DEF A
<1> QED
  BY <1>2, <1>9, <1>10, <1>11

\* A loop over a list runs the programs of its elements: its writes are in any
\* set of sequences that has theirs and is closed under concatenation.
LEMMA ForEachType ==
  ASSUME NEW T, <<>> \in T, \A s, t \in T : s \o t \in T,
         NEW o, Len(o) \in Nat, NEW S, NEW B, \A x \in S : B[x] \in Programs(T)
  PROVE  ForEach(o, S, B) \in Programs(T)
<1>1. Len(o) \in 0 .. Len(o)
  OBVIOUS
<1> QED
  BY <1>1, LoopExists

\* A loop that gets to its end has done what the programs of its elements do.
Does(p, w) == \E i \in DOMAIN p.todo : p.todo[i] = w

LEMMA ForEachDoes ==
  ASSUME NEW T \in SUBSET Seq(Writes), <<>> \in T, \A s, t \in T : s \o t \in T,
         NEW o, Len(o) \in Nat, NEW S, NEW B, \A x \in S : B[x] \in Programs(T),
         ForEach(o, S, B).ok,
         NEW j \in 1 .. Len(o), o[j] \in S
  PROVE  B[o[j]].ok /\ \A w : Does(B[o[j]], w) => Does(ForEach(o, S, B), w)
<1>1. PICK done : /\ done = Loop(o, S, B, done)
                  /\ ForEach(o, S, B) = done[Len(o)]
                  /\ \A n \in 0 .. Len(o) : done[n] \in Programs(T)
  BY LoopExists
<1> DEFINE A == {n \in 0 .. Len(o) : j <= n /\ done[n].ok =>
                   B[o[j]].ok /\ \A w : Does(B[o[j]], w) => Does(done[n], w)}
<1>2. ASSUME NEW p \in Programs(T), NEW q \in Programs(T), Then(p, q).ok
      PROVE  /\ p.ok /\ q.ok
             /\ \A w : Does(p, w) \/ Does(q, w) => Does(Then(p, q), w)
  <2> DEFINE s == p.todo
             t == q.todo
             st == Then(p, q).todo
  <2>1. p.ok /\ q.ok /\ st = s \o t
    BY <1>2 DEF Then
  <2>2. s \in Seq(Writes) /\ t \in Seq(Writes)
    BY DEF Programs
  <2> HIDE DEF s, t, st
  <2>3. st \in Seq(Writes) /\ Len(st) = Len(s) + Len(t)
    BY <2>1, <2>2, Concatenation
  <2>4. DOMAIN s = 1 .. Len(s) /\ DOMAIN t = 1 .. Len(t) /\ DOMAIN st = 1 .. Len(st)
    BY <2>2, <2>3
  <2>5. Len(s) \in Nat /\ Len(t) \in Nat
    BY <2>2
  <2>6. \A i \in DOMAIN s : i \in DOMAIN st /\ st[i] = s[i]
    BY <2>1, <2>2, <2>3, <2>4, <2>5, Concatenation
  <2>7. \A i \in DOMAIN t : Len(s) + i \in DOMAIN st /\ st[Len(s) + i] = t[i]
    BY SMTT(30), <2>1, <2>2, <2>3, <2>4, <2>5, Concatenation
  <2> QED
    BY ZenonT(40), <2>1, <2>6, <2>7 DEF Does, s, t, st
<1>3. 0 \in A
  OBVIOUS
<1>4. ASSUME NEW n \in Nat, n < Len(o), n \in A
      PROVE  n + 1 \in A
  <2>1. n + 1 \in 0 .. Len(o) /\ n + 1 # 0 /\ (n + 1) - 1 = n /\ n \in 0 .. Len(o)
    BY <1>4
  <2>2. done[n + 1] = IF o[n + 1] \in S THEN Then(done[n], B[o[n + 1]]) ELSE done[n]
    BY <1>1, <2>1 DEF Loop
  <2>3. done[n] \in Programs(T)
    BY <1>1, <2>1
  <2>4. j <= n + 1 => j <= n \/ j = n + 1
    BY <1>4
  <2>5. CASE j = n + 1
    <3>1. done[n + 1] = Then(done[n], B[o[j]]) /\ B[o[j]] \in Programs(T)
      BY <2>2, <2>5
    <3> QED
      BY <1>2, <2>1, <2>3, <3>1
  <2>6. CASE j <= n /\ o[n + 1] \in S
    <3>1. done[n + 1] = Then(done[n], B[o[n + 1]]) /\ B[o[n + 1]] \in Programs(T)
      BY <2>2, <2>6
    <3>2. done[n].ok => B[o[j]].ok /\ \A w : Does(B[o[j]], w) => Does(done[n], w)
      BY <1>4, <2>6
    <3>3. done[n + 1].ok =>
            done[n].ok /\ \A w : Does(done[n], w) => Does(done[n + 1], w)
      BY <1>2, <2>3, <3>1
    <3> QED
      BY <2>1, <3>2, <3>3
  <2>7. CASE j <= n /\ o[n + 1] \notin S
    BY <1>4, <2>1, <2>2, <2>7
  <2> QED
    BY <2>1, <2>4, <2>5, <2>6, <2>7
<1> HIDE DEF A
<1>5. \A n \in 0 .. Len(o) : n \in A
  BY <1>3, <1>4, IntervalInduction
<1>6. Len(o) \in A /\ j <= Len(o)
  BY <1>5
<1> QED
  BY <1>1, <1>6 DEF A

----------------------------------------------------------------------------
(* What the writes rely on.                                                *)

\* Nothing knows of file id f yet.
FreshFile(f) ==
  /\ f \notin DOMAIN file
  /\ \A d \in DOMAIN dir : f \notin dir[d].files_contained
  /\ \A u \in Users : f \notin Trash(u)

DrawDir  == [op |-> "draw", id |-> "dir"]
DrawFile == [op |-> "draw", id |-> "file"]
EraseDir(d) == [op |-> "erase_dir", dir |-> d]
Adopt(d, f) == [op |-> "adopt", dir |-> d, file |-> f]

\* Directory d is not there, or is erased before write i.
GoneBefore(s, i, d) == d \in DOMAIN dir => \E j \in 1 .. i - 1 : s[j] = EraseDir(d)

\* Write i of the program s finds what it was planned for: the owner's trash for a
\* deleted file; a file in the trash to erase; a file whose directory is gone, or
\* moved to the root already; a file in the directory that lists it again, at the
\* latest by the write before; directories without sub-directories to erase, and
\* an erased sub-directory to forget.
Backed(s, i) ==
  /\ s[i].op = "trash" =>
       /\ s[i].file < ticket.file
       /\ s[i].file \in DOMAIN file => file[s[i].file].owner = s[i].user
  /\ s[i].op = "erase_file" => (s[i].file \in DOMAIN file => InTrash(s[i].file))
  /\ s[i].op = "adopt" =>
       (s[i].file \in DOMAIN file =>
          /\ s[i].dir = user[file[s[i].file].owner].dir_root
          /\ file[s[i].file].parent_directory \notin DOMAIN dir \ {s[i].dir})
  /\ s[i].op = "relist" =>
       /\ s[i].file < ticket.file /\ s[i].dir \in DOMAIN dir
       /\ s[i].file \in DOMAIN file =>
            \/ file[s[i].file].parent_directory = s[i].dir
            \/ i > 1 /\ s[i - 1] = Adopt(s[i].dir, s[i].file)
  /\ s[i].op = "erase_dir" =>
       \A c \in DOMAIN dir : dir[c].parent_directory = s[i].dir => GoneBefore(s, i, c)
  /\ s[i].op = "unlist_dir" => GoneBefore(s, i, s[i].child)

\* Writes that come first or last in their program: an id is drawn first and is
\* new when it is used, the last revision to have is not passed, the list of
\* deleted files is emptied at the end.
Placed(s, i) ==
  /\ s[i].op = "draw" => /\ i = 1
                         /\ s[i].id = "dir" => ticket.dir <= MaxDir
                         /\ s[i].id = "file" => ticket.file <= MaxFile
  /\ s[i].op = "add_dir" =>
       /\ i = Len(s) /\ s[i].dir \notin DOMAIN dir
       /\ s[i].parent \in DOMAIN dir /\ s[i].parent < s[i].dir
       /\ \/ s[i].dir < ticket.dir
          \/ s[i].dir = ticket.dir /\ i = 2 /\ s[1] = DrawDir
  /\ s[i].op = "add_file" =>
       /\ FreshFile(s[i].file)
       /\ \/ s[i].file < ticket.file /\ i = 1
          \/ s[i].file = ticket.file /\ i = 2 /\ s[1] = DrawFile
  /\ s[i].op = "revise" =>
       i = Len(s) /\ (s[i].file \in DOMAIN file => file[s[i].file].revision < MaxRevision)
  /\ s[i].op = "empty_trash" => i = Len(s)

PlacedOps == {"draw", "add_dir", "add_file", "revise", "empty_trash"}

Kinds == {{"draw", "add_dir"}, {"draw", "add_file", "save"}, {"save", "revise"}, DeletionOps,
          PurgeOps \cup {"empty_trash"}, RecoveryOps \cup {"empty_trash"}}

\* The programs of one kind that are backed.
Planned(K) == {s \in Seq(Writes) : \A i \in DOMAIN s : s[i].op \in K /\ Backed(s, i)}

\* A backed program and writes that are backed, at least after it.
LEMMA PlannedAfter ==
  ASSUME NEW K, NEW s \in Planned(K), NEW t \in Seq(Writes),
         \A i \in DOMAIN t : t[i].op \in K /\ (Backed(t, i) \/ Backed(s \o t, Len(s) + i))
  PROVE  s \o t \in Planned(K)
<1> DEFINE st == s \o t
<1>1. /\ s \in Seq(Writes) /\ t \in Seq(Writes) /\ DOMAIN s = 1 .. Len(s) /\ DOMAIN t = 1 .. Len(t)
      /\ Len(s) \in Nat /\ Len(t) \in Nat
  BY DEF Planned
<1>2. /\ st \in Seq(Writes) /\ Len(st) = Len(s) + Len(t) /\ DOMAIN st = 1 .. Len(st)
      /\ \A i \in 1 .. Len(s) : st[i] = s[i]
      /\ \A i \in 1 .. Len(t) : st[Len(s) + i] = t[i]
  BY <1>1, Concatenation
<1>3. \A i \in DOMAIN s : s[i].op \in K /\ Backed(s, i)
  BY DEF Planned
<1>4. \A i \in DOMAIN t : t[i].op \in K /\ (Backed(t, i) \/ Backed(st, Len(s) + i))
  BY SMTT(30)
<1> HIDE DEF st
<1>5. ASSUME NEW i \in 1 .. Len(s)
      PROVE  st[i].op \in K /\ Backed(st, i)
  <2>1. st[i] = s[i] /\ i \in DOMAIN s
    BY <1>1, <1>2
  <2>2. i > 1 => st[i - 1] = s[i - 1]
    <3>1. i > 1 => i - 1 \in 1 .. Len(s)
      BY <1>1
    <3> QED
      BY <1>2, <3>1
  <2>3. \A j \in 1 .. i - 1 : st[j] = s[j]
    <3>1. \A j \in 1 .. i - 1 : j \in 1 .. Len(s)
      BY <1>1
    <3> QED
      BY <1>2, <3>1
  <2>4. \A d : GoneBefore(s, i, d) => GoneBefore(st, i, d)
    BY <2>3 DEF GoneBefore
  <2> QED
    BY <1>3, <2>1, <2>2, <2>4 DEF Backed
<1>6. ASSUME NEW k \in 1 .. Len(t)
      PROVE  st[Len(s) + k].op \in K /\ Backed(st, Len(s) + k)
  <2> DEFINE i == Len(s) + k
  <2>1. st[i] = t[k] /\ k \in DOMAIN t
    BY <1>1, <1>2
  <2>2. k > 1 => i > 1 /\ st[i - 1] = t[k - 1]
    <3>1. k > 1 => k - 1 \in 1 .. Len(t) /\ Len(s) + (k - 1) = i - 1 /\ i > 1
      BY <1>1
    <3> QED
      BY <1>2, <3>1
  <2>3. \A j \in 1 .. k - 1 : Len(s) + j \in 1 .. i - 1 /\ st[Len(s) + j] = t[j]
    <3>1. \A j \in 1 .. k - 1 : j \in 1 .. Len(t) /\ Len(s) + j \in 1 .. i - 1
      BY <1>1
    <3> QED
      BY <1>2, <3>1
  <2> HIDE DEF i
  <2>4. \A d : GoneBefore(t, k, d) => GoneBefore(st, i, d)
    BY <2>3 DEF GoneBefore
  <2>5. t[k].op \in K /\ (Backed(t, k) \/ Backed(st, i))
    BY SMTT(30), <1>4, <2>1 DEF i
  <2>6. st[i].op \in K /\ Backed(st, i)
    BY ZenonT(40), <2>1, <2>2, <2>4, <2>5 DEF Backed
  <2> QED
    BY <2>6 DEF i
<1>7. ASSUME NEW i \in DOMAIN st
      PROVE  st[i].op \in K /\ Backed(st, i)
  <2>1. i \in 1 .. Len(s) \/ (i - Len(s) \in 1 .. Len(t) /\ i = Len(s) + (i - Len(s)))
    BY <1>1, <1>2
  <2> QED
    BY <1>5, <1>6, <2>1
<1>8. st \in Planned(K)
  BY <1>2, <1>7 DEF Planned
<1> QED
  BY <1>8 DEF st

\* Concatenation keeps programs backed.
LEMMA PlannedConcat ==
  ASSUME NEW K, NEW s \in Planned(K), NEW t \in Planned(K)
  PROVE  s \o t \in Planned(K)
<1>1. t \in Seq(Writes) /\ \A i \in DOMAIN t : t[i].op \in K /\ Backed(t, i)
  BY DEF Planned
<1> QED
  BY <1>1, PlannedAfter

LEMMA PlannedEmpty ==
  ASSUME NEW K
  PROVE  /\ <<>> \in Planned(K) /\ Planned(K) \in SUBSET Seq(Writes)
         /\ \A s, t \in Planned(K) : s \o t \in Planned(K)
<1>1. <<>> \in Planned(K)
  BY DEF Planned
<1>2. Planned(K) \in SUBSET Seq(Writes)
  BY DEF Planned
<1>3. \A s, t \in Planned(K) : s \o t \in Planned(K)
  BY PlannedConcat
<1> QED
  BY <1>1, <1>2, <1>3

\* What Do, Stop and Then make of them.
LEMMA PlannedThen ==
  ASSUME NEW K
  PROVE  /\ Stop \in Programs(Planned(K)) /\ Do(<<>>) \in Programs(Planned(K))
         /\ \A s \in Planned(K) : Do(s) \in Programs(Planned(K))
         /\ \A p, q \in Programs(Planned(K)) : Then(p, q) \in Programs(Planned(K))
BY PlannedEmpty DEF Do, Stop, Then, Programs

\* Programs of one or two writes.
LEMMA PlannedOne ==
  ASSUME NEW K, NEW w \in Writes, w.op \in K, Backed(<<w>>, 1)
  PROVE  <<w>> \in Planned(K)
BY DEF Planned

LEMMA PlannedTwo ==
  ASSUME NEW K, NEW w \in Writes, NEW x \in Writes, w.op \in K, x.op \in K,
         Backed(<<w, x>>, 1), Backed(<<w, x>>, 2)
  PROVE  <<w, x>> \in Planned(K)
BY DEF Planned

----------------------------------------------------------------------------
(* What is true of the store between any two writes, and the programs.     *)

\* Ids are handed out once; the trash is its owner's; a listed file is where it
\* says; a directory is younger than its parent, which is there and lists it.
StoreInv ==
  /\ \A f \in FileId : f >= ticket.file => FreshFile(f)
  /\ \A d \in DOMAIN dir : d < ticket.dir
  /\ \A f \in DOMAIN file : \A u \in Users : f \in Trash(u) => file[f].owner = u
  /\ ListedWhereItSays
  /\ ClimbsEnd
  /\ \A d \in DOMAIN dir : dir[d].parent_directory # NoParent =>
       d \in dir[dir[d].parent_directory].directories_contained
  /\ \A d \in DOMAIN dir : \A c \in dir[d].directories_contained : c > d

\* The lists that loops follow.
LEMMA ListLengths ==
  ASSUME CatalogAssumption
  PROVE  /\ \A o \in Orders : Len(o) \in Nat
         /\ Len(ByAge) = MaxDir /\ MaxDir \in Nat /\ DirId = 1 .. MaxDir
         /\ \A d \in DirId : ByAge[d] = d
<1>1. Cardinality(Users \cup FileId) \in Nat
  <2>1. IsFiniteSet(Users) /\ IsFiniteSet(FileId)
    BY FS_Interval DEF CatalogAssumption, Users, FileId
  <2> QED
    BY <2>1, FS_Union, FS_CardinalityType
<1>2. ASSUME NEW o \in Orders PROVE Len(o) \in Nat
  <2>1. o \in [1 .. Cardinality(Users \cup FileId) -> Users \cup FileId]
    BY DEF Orders, SetToSeqs
  <2>2. \A n \in Nat : \A S : \A f \in [1 .. n -> S] : f \in Seq(S)
    OBVIOUS
  <2>3. o \in Seq(Users \cup FileId)
    BY <1>1, <2>1, <2>2
  <2> QED
    BY <2>3
<1>3. MaxDir \in Nat /\ DirId = 1 .. MaxDir
  BY DEF CatalogAssumption, DirId
<1>4. Len(ByAge) = MaxDir
  <2>1. ByAge \in [1 .. MaxDir -> Nat]
    BY <1>3 DEF ByAge
  <2> QED
    BY <1>3, <2>1
<1> QED
  BY <1>2, <1>3, <1>4 DEF ByAge

\* Sharing and unsharing rely on nothing.
LEMMA SharingPlanned ==
  ASSUME NEW f \in FileId, NEW v \in Users
  PROVE  /\ ShareWrites(f, v) \in Programs(Planned(DeletionOps))
         /\ UnshareWrites(f, v) \in Programs(Planned(DeletionOps))
<1> DEFINE a == [op |-> "list_share",   user |-> v, file |-> f]
           b == [op |-> "grant_share",  user |-> v, file |-> f]
           c == [op |-> "unlist_share", user |-> v, file |-> f]
           d == [op |-> "revoke_share", user |-> v, file |-> f]
<1>1. a \in Writes /\ b \in Writes /\ c \in Writes /\ d \in Writes
  BY DEF Writes, SharingOps
<1>2. /\ a.op = "list_share" /\ b.op = "grant_share"
      /\ c.op = "unlist_share" /\ d.op = "revoke_share"
  OBVIOUS
<1>3. ShareWrites(f, v) = Do(<<a, b>>) /\ UnshareWrites(f, v) = Do(<<c, d>>)
  BY DEF ShareWrites, UnshareWrites
<1> HIDE DEF a, b, c, d
<1>4. /\ Backed(<<a, b>>, 1) /\ Backed(<<a, b>>, 2)
      /\ Backed(<<c, d>>, 1) /\ Backed(<<c, d>>, 2)
  BY <1>2 DEF Backed
<1>5. {"list_share", "grant_share", "unlist_share", "revoke_share"} \subseteq DeletionOps
  BY DEF DeletionOps, SharingOps
<1>6. <<a, b>> \in Planned(DeletionOps) /\ <<c, d>> \in Planned(DeletionOps)
  BY <1>1, <1>2, <1>4, <1>5, PlannedTwo
<1> QED
  BY <1>3, <1>6, PlannedThen

LEMMA OverwritePlanned ==
  ASSUME CatalogAssumption, TypeOK, NEW f \in DOMAIN file, NEW V \in SUBSET Users, NEW o \in Orders
  PROVE  OverwriteWrites(f, V, o) \in Programs(Planned(DeletionOps))
<1>1. f \in FileId /\ file[f].users_shared \subseteq Users
  BY DEF TypeOK, FileRecord
<1>2. Len(o) \in Nat
  BY ListLengths
<1>3. ForEach(o, file[f].users_shared, [v \in Users |-> UnshareWrites(f, v)])
        \in Programs(Planned(DeletionOps))
  <2> DEFINE B == [v \in Users |-> UnshareWrites(f, v)]
  <2>1. \A v \in file[f].users_shared : B[v] \in Programs(Planned(DeletionOps))
    BY <1>1, SharingPlanned
  <2> HIDE DEF B
  <2>2. ForEach(o, file[f].users_shared, B) \in Programs(Planned(DeletionOps))
    BY <1>2, <2>1, PlannedEmpty, ForEachType
  <2> QED
    BY <2>2 DEF B
<1>4. ForEach(o, V, [v \in Users |-> ShareWrites(f, v)]) \in Programs(Planned(DeletionOps))
  <2> DEFINE B == [v \in Users |-> ShareWrites(f, v)]
  <2>1. \A v \in V : B[v] \in Programs(Planned(DeletionOps))
    BY <1>1, SharingPlanned
  <2> HIDE DEF B
  <2>2. ForEach(o, V, B) \in Programs(Planned(DeletionOps))
    BY <1>2, <2>1, PlannedEmpty, ForEachType
  <2> QED
    BY <2>2 DEF B
<1> QED
  BY <1>3, <1>4, PlannedThen DEF OverwriteWrites

\* A deletion puts the id on the list of the file's owner.
LEMMA TrashPlanned ==
  ASSUME CatalogAssumption, TypeOK, StoreInv, NEW f \in DOMAIN file, NEW o \in Orders
  PROVE  TrashWrites(f, o) \in Programs(Planned(DeletionOps))
<1> DEFINE K == DeletionOps
           t == [op |-> "trash", user |-> file[f].owner, file |-> f]
           l == [op |-> "unlist", dir |-> file[f].parent_directory, file |-> f]
           B == [v \in Users |-> UnshareWrites(f, v)]
           p == Do(<<t>>)
           q == Do(<<l>>)
           r == ForEach(o, file[f].users_shared, B)
<1>1. /\ f \in FileId /\ file[f].users_shared \subseteq Users
      /\ file[f].owner \in Users /\ file[f].parent_directory \in DirId
  BY DEF TypeOK, FileRecord
<1>2. t \in Writes /\ l \in Writes
  BY <1>1 DEF Writes
<1>3. f < ticket.file
  <2>1. f \in Nat /\ ticket.file \in Nat /\ ~(f >= ticket.file)
    BY <1>1 DEF StoreInv, FreshFile, FileId, TypeOK, CatalogAssumption
  <2> QED
    BY <2>1
<1>4. t.op = "trash" /\ t.file = f /\ t.user = file[f].owner /\ l.op = "unlist"
  OBVIOUS
<1>5. \A v \in file[f].users_shared : B[v] \in Programs(Planned(K))
  BY <1>1, SharingPlanned
<1>6. TrashWrites(f, o) =
        Then(p, IF file[f].parent_directory \notin DOMAIN dir THEN Stop ELSE Then(q, r))
  BY DEF TrashWrites
<1> HIDE DEF t, l, B
<1>7. Backed(<<t>>, 1) /\ Backed(<<l>>, 1)
  BY <1>3, <1>4 DEF Backed
<1>8. t.op \in K /\ l.op \in K
  BY <1>4 DEF DeletionOps
<1> HIDE DEF K
<1>9. p \in Programs(Planned(K)) /\ q \in Programs(Planned(K))
  BY <1>2, <1>7, <1>8, PlannedOne, PlannedThen
<1>10. r \in Programs(Planned(K))
  <2>1. Len(o) \in Nat
    BY ListLengths
  <2> QED
    BY <1>5, <2>1, PlannedEmpty, ForEachType
<1> HIDE DEF p, q, r
<1>11. TrashWrites(f, o) \in Programs(Planned(K))
  BY <1>6, <1>9, <1>10, PlannedThen
<1> QED
  BY <1>11 DEF K

\* The files of a directory.
LEMMA TrashListedPlanned ==
  ASSUME CatalogAssumption, TypeOK, StoreInv, NEW x \in DOMAIN dir, NEW o \in Orders
  PROVE  TrashListed(x, o) \in Programs(Planned(DeletionOps))
<1> DEFINE B == [f \in FileId |-> IF f \in DOMAIN file THEN TrashWrites(f, o) ELSE Stop]
<1>1. \A f \in FileId : B[f] \in Programs(Planned(DeletionOps))
  BY TrashPlanned, PlannedThen
<1>2. dir[x].files_contained \subseteq FileId
  BY DEF TypeOK, DirRecord
<1>3. Len(o) \in Nat
  BY ListLengths
<1>4. TrashListed(x, o) = ForEach(o, dir[x].files_contained, B)
  BY DEF TrashListed
<1> HIDE DEF B
<1>5. \A f \in dir[x].files_contained : B[f] \in Programs(Planned(DeletionOps))
  BY <1>1, <1>2
<1> QED
  BY <1>3, <1>4, <1>5, PlannedEmpty, ForEachType

\* Programs that erase directory x, if they get to their end.
TreePrograms(x) == {p \in Programs(Planned(DeletionOps)) : p.ok => Does(p, EraseDir(x))}

LEMMA Pair == ASSUME NEW a, NEW b PROVE <<a>> \o <<b>> = <<a, b>>
<1> DEFINE S == {a, b}
           x == <<a>>
           y == <<b>>
           z == <<a, b>>
<1>1. x \in Seq(S) /\ y \in Seq(S) /\ z \in Seq(S)
  OBVIOUS
<1>2. Len(x) = 1 /\ Len(y) = 1 /\ Len(z) = 2 /\ x[1] = a /\ y[1] = b /\ z[1] = a /\ z[2] = b
  OBVIOUS
<1>3. \A s, t \in Seq(S) : Len(s) = Len(t) /\ (\A i \in 1 .. Len(s) : s[i] = t[i]) => s = t
  OBVIOUS
<1> HIDE DEF S, x, y, z
<1>4. /\ x \o y \in Seq(S) /\ Len(x \o y) = 2
      /\ \A i \in 1 .. 2 : (x \o y)[i] = IF i <= 1 THEN x[i] ELSE y[i - 1]
  BY <1>1, <1>2, ConcatProperties
<1>5. \A i \in 1 .. 2 : (x \o y)[i] = z[i]
  BY <1>2, <1>4
<1>6. x \o y = z
  BY <1>1, <1>2, <1>3, <1>4, <1>5
<1> QED
  BY <1>6 DEF x, y, z

LEMMA Associative ==
  ASSUME NEW a \in Seq(Writes), NEW b \in Seq(Writes), NEW c \in Seq(Writes)
  PROVE  a \o (b \o c) = (a \o b) \o c
BY SMTT(30), ConcatAssociative

\* Two sequences and a last write.
LEMMA Append2 ==
  ASSUME NEW a \in Seq(Writes), NEW b \in Seq(Writes), NEW e \in Writes
  PROVE  /\ a \o (b \o <<e>>) = (a \o b) \o <<e>>
         /\ a \o b \in Seq(Writes) /\ Len(a \o b) \in Nat
         /\ (a \o b) \o <<e>> \in Seq(Writes)
         /\ Len((a \o b) \o <<e>>) = Len(a \o b) + 1
         /\ ((a \o b) \o <<e>>)[Len(a \o b) + 1] = e
         /\ \A i \in DOMAIN a : i \in 1 .. Len(a \o b) /\ ((a \o b) \o <<e>>)[i] = a[i]
<1> DEFINE last == <<e>>
           ab == a \o b
           all == ab \o last
<1>1. last \in Seq(Writes) /\ Len(last) = 1 /\ 1 \in 1 .. Len(last) /\ last[1] = e
  OBVIOUS
<1> HIDE DEF last
<1>2. a \o (b \o last) = ab \o last
  BY <1>1, Associative
<1>3. ab \in Seq(Writes) /\ Len(ab) = Len(a) + Len(b) /\ \A i \in 1 .. Len(a) : ab[i] = a[i]
  BY Concatenation
<1>4. Len(a) \in Nat /\ Len(b) \in Nat /\ DOMAIN a = 1 .. Len(a)
  OBVIOUS
<1> HIDE DEF ab
<1>5. /\ all \in Seq(Writes) /\ Len(all) = Len(ab) + 1 /\ all[Len(ab) + 1] = e
      /\ \A i \in 1 .. Len(ab) : all[i] = ab[i]
  <2>1. /\ all \in Seq(Writes) /\ Len(all) = Len(ab) + Len(last)
        /\ \A i \in 1 .. Len(ab) : all[i] = ab[i]
        /\ \A i \in 1 .. Len(last) : all[Len(ab) + i] = last[i]
    BY <1>1, <1>3, Concatenation
  <2> HIDE DEF all
  <2> QED
    BY <1>1, <2>1
<1> HIDE DEF all
<1>6. \A i \in DOMAIN a : i \in 1 .. Len(ab) /\ all[i] = a[i]
  BY <1>3, <1>4, <1>5
<1>7. Len(ab) \in Nat
  BY <1>3
<1> QED
  BY <1>2, <1>3, <1>5, <1>6, <1>7 DEF all, ab, last

\* One level of delete_dir_recursive: the directory goes after those it lists,
\* among them every directory whose parent it is.
LEMMA EraseOne ==
  ASSUME CatalogAssumption, TypeOK, StoreInv, NEW x \in DirId, NEW o \in Orders, NEW below,
         x \in DOMAIN dir =>
           \A c \in dir[x].directories_contained : below[c] \in TreePrograms(c)
  PROVE  EraseBottomUp(x, below, o) \in TreePrograms(x)
<1> DEFINE K    == DeletionOps
           kids == dir[x].directories_contained
           p    == ForEach(ByAge, kids, below)
           q    == TrashListed(x, o)
           e    == EraseDir(x)
           last == Do(<<e>>)
<1>1. CASE x \notin DOMAIN dir
  <2>1. EraseBottomUp(x, below, o) = Stop /\ Stop.ok = FALSE
    BY <1>1 DEF EraseBottomUp, Stop
  <2> QED
    BY <2>1, PlannedThen DEF TreePrograms
<1>2. CASE x \in DOMAIN dir
  <2>1. EraseBottomUp(x, below, o) = Then(p, Then(q, last))
    BY <1>2 DEF EraseBottomUp, EraseDir
  <2>2. kids \subseteq DirId /\ \A c \in kids : below[c] \in Programs(Planned(K))
    BY <1>2 DEF TypeOK, DirRecord, TreePrograms
  <2>3. Len(ByAge) \in Nat /\ \A c \in DirId : c \in 1 .. Len(ByAge) /\ ByAge[c] = c
    BY ListLengths
  <2>4. p \in Programs(Planned(K))
    <3> HIDE DEF K, kids
    <3> QED
      BY <2>2, <2>3, PlannedEmpty, ForEachType
  <2>5. q \in Programs(Planned(K))
    BY <1>2, TrashListedPlanned
  <2>6. p.ok => \A c \in kids : Does(p, EraseDir(c))
    <3> SUFFICES ASSUME p.ok, NEW c \in kids PROVE Does(p, EraseDir(c))
      OBVIOUS
    <3>1. c \in 1 .. Len(ByAge) /\ ByAge[c] = c /\ ByAge[c] \in kids
      BY <2>2, <2>3
    <3>2. below[c].ok => Does(below[c], EraseDir(c))
      BY <1>2 DEF TreePrograms
    <3> HIDE DEF K, kids
    <3>3. below[c].ok /\ \A w : Does(below[c], w) => Does(p, w)
      <4>1. Planned(K) \in SUBSET Seq(Writes) /\ <<>> \in Planned(K)
            /\ \A s, t \in Planned(K) : s \o t \in Planned(K)
        BY PlannedEmpty
      <4>2. below[ByAge[c]].ok /\ \A w : Does(below[ByAge[c]], w) => Does(p, w)
        BY <2>2, <2>3, <3>1, <4>1, ForEachDoes
      <4> QED
        BY <3>1, <4>2
    <3> QED
      BY <3>2, <3>3
  <2>7. \A c \in DOMAIN dir : dir[c].parent_directory = x => c \in kids
    <3>1. x # NoParent
      BY ListLengths DEF NoParent
    <3> QED
      BY <3>1 DEF StoreInv
  <2>8. e \in Writes /\ e.op = "erase_dir" /\ e.dir = x /\ e.op \in K
    BY DEF EraseDir, Writes, DeletionOps
  <2> HIDE DEF K, kids, p, q, e
  <2>9. /\ p.todo \in Planned(K) /\ q.todo \in Planned(K) /\ p.ok \in BOOLEAN /\ q.ok \in BOOLEAN
        /\ last.todo = <<e>> /\ last.ok = TRUE
    BY <2>4, <2>5 DEF Programs, Do
  <2> HIDE DEF last
  <2>10. CASE ~p.ok
    BY <2>1, <2>4, <2>10 DEF Then, TreePrograms, K
  <2>11. CASE p.ok /\ ~q.ok
    <3>1. Then(q, last) = q
      BY <2>11 DEF Then
    <3>2. Then(p, q) \in Programs(Planned(K)) /\ Then(p, q).ok = q.ok
      BY <2>4, <2>5, <2>11, PlannedThen DEF Then
    <3> QED
      BY <2>1, <2>11, <3>1, <3>2 DEF TreePrograms, K
  <2>12. CASE p.ok /\ q.ok
    <3> DEFINE a == p.todo
               b == q.todo
               s == a \o b
               all == s \o <<e>>
               prog == EraseBottomUp(x, below, o)
    <3>1. a \in Planned(K) /\ b \in Planned(K) /\ a \in Seq(Writes) /\ b \in Seq(Writes)
      BY <2>9 DEF Planned
    <3>2. prog = [todo |-> a \o (b \o <<e>>), ok |-> TRUE]
      <4>1. Then(q, last) = [todo |-> b \o <<e>>, ok |-> TRUE]
        BY <2>9, <2>12 DEF Then
      <4>2. Then(p, Then(q, last)) = [todo |-> a \o Then(q, last).todo, ok |-> Then(q, last).ok]
        BY <2>12 DEF Then
      <4> QED
        BY <2>1, <4>1, <4>2
    <3>3. DOMAIN p.todo = DOMAIN a /\ \A i \in DOMAIN a : p.todo[i] = a[i]
      OBVIOUS
    <3> HIDE DEF a, b, prog
    <3>4. /\ a \o (b \o <<e>>) = all
          /\ s \in Seq(Writes) /\ Len(s) \in Nat /\ all \in Seq(Writes)
          /\ Len(all) = Len(s) + 1 /\ all[Len(s) + 1] = e
          /\ \A i \in DOMAIN a : i \in 1 .. Len(s) /\ all[i] = a[i]
      BY <2>8, <3>1, Append2
    <3>5. s \in Planned(K)
      BY <3>1, PlannedConcat
    <3>6. prog = [todo |-> all, ok |-> TRUE]
      BY <3>2, <3>4
    <3> HIDE DEF s, all
    <3>7. ASSUME NEW c \in DOMAIN dir, dir[c].parent_directory = x
          PROVE  GoneBefore(all, Len(s) + 1, c)
      <4>1. PICK i \in DOMAIN p.todo : p.todo[i] = EraseDir(c)
        BY <2>6, <2>7, <2>12, <3>7 DEF Does
      <4>2. i \in DOMAIN a /\ a[i] = EraseDir(c)
        BY <3>3, <4>1
      <4>3. all[i] = EraseDir(c) /\ i \in 1 .. (Len(s) + 1) - 1
        BY <3>4, <4>2
      <4> QED
        BY <4>3 DEF GoneBefore
    <3>8. Backed(all, Len(s) + 1)
      BY <2>8, <3>4, <3>7 DEF Backed
    <3>9. all \in Planned(K)
      <4> DEFINE t == <<e>>
      <4>1. t \in Seq(Writes) /\ DOMAIN t = {1} /\ t[1] = e /\ all = s \o t
        BY <2>8 DEF all
      <4> HIDE DEF t
      <4> QED
        BY <2>8, <3>5, <3>8, <4>1, PlannedAfter
    <3>10. prog \in Programs(Planned(K))
      BY <3>6, <3>9 DEF Programs
    <3>11. Does(prog, e)
      <4>1. Len(s) + 1 \in DOMAIN all
        BY <3>4
      <4> QED
        BY <3>4, <3>6, <4>1 DEF Does
    <3> QED
      BY <3>10, <3>11 DEF TreePrograms, K, e, prog
  <2> QED
    BY <2>9, <2>10, <2>11, <2>12
<1> QED
  BY <1>1, <1>2

\* The recursion over the sub-directories.
Tree(o, f) ==
  [x \in DirId |-> EraseBottomUp(x, [c \in dir[x].directories_contained |-> f[c]], o)]

\* Sub-directories are younger: programs from id MaxDir - m on depend on younger
\* ones only, and there is a function that has them all.
LEMMA TreeExists ==
  ASSUME CatalogAssumption, TypeOK, StoreInv, NEW o \in Orders
  PROVE  \E f : f = Tree(o, f)
<1> DEFINE Good(f, x) ==
             f[x] = EraseBottomUp(x, [c \in dir[x].directories_contained |-> f[c]], o)
           From(m, f) == /\ f = [x \in DirId |-> f[x]]
                         /\ \A x \in DirId : x > MaxDir - m => Good(f, x)
           A == {m \in 0 .. MaxDir : \E f : From(m, f)}
<1>1. MaxDir \in Nat /\ DirId = 1 .. MaxDir
  BY DEF CatalogAssumption, DirId
<1>2. 0 \in A
  <2> DEFINE f == [x \in DirId |-> Stop]
  <2>1. f = [x \in DirId |-> f[x]]
    OBVIOUS
  <2>2. \A x \in DirId : ~(x > MaxDir - 0)
    BY <1>1
  <2> HIDE DEF f
  <2>3. From(0, f)
    BY <2>1, <2>2
  <2> QED
    BY <1>1, <2>3
<1>3. ASSUME NEW m \in Nat, m < MaxDir, m \in A
      PROVE  m + 1 \in A
  <2>1. PICK f : From(m, f)
    BY <1>3
  <2> DEFINE y == MaxDir - m
             v == EraseBottomUp(y, [c \in dir[y].directories_contained |-> f[c]], o)
             h == [x \in DirId |-> IF x = y THEN v ELSE f[x]]
  <2>2. h = [x \in DirId |-> h[x]] /\ \A x \in DirId : h[x] = IF x = y THEN v ELSE f[x]
    OBVIOUS
  <2>3. y \in DirId /\ \A x \in DirId : x > MaxDir - (m + 1) => x = y \/ x > y
    BY SMTT(30), <1>1, <1>3
  <2> HIDE DEF h
  <2>4. ASSUME NEW x \in DirId, x = y \/ x > y
        PROVE  Good(h, x)
    <3>1. f[x] = h[x] \/ x = y
      BY <2>2
    <3>2. h[x] = EraseBottomUp(x, [c \in dir[x].directories_contained |-> f[c]], o)
      BY <2>1, <2>2, <2>4
    <3>3. CASE x \notin DOMAIN dir
      BY <3>2, <3>3 DEF EraseBottomUp
    <3>4. CASE x \in DOMAIN dir
      <4>1. \A c \in dir[x].directories_contained : c \in DirId /\ c > x
        BY <3>4 DEF TypeOK, DirRecord, StoreInv
      <4>2. \A c \in dir[x].directories_contained : c # y
        BY <1>1, <2>3, <2>4, <4>1
      <4>3. \A c \in dir[x].directories_contained : h[c] = f[c]
        BY <2>2, <4>1, <4>2
      <4>4. [c \in dir[x].directories_contained |-> f[c]]
              = [c \in dir[x].directories_contained |-> h[c]]
        BY <4>3
      <4> QED
        BY <3>2, <4>4
    <3> QED
      BY <3>3, <3>4
  <2> HIDE DEF y, v, Good
  <2>5. From(m + 1, h)
    BY <2>2, <2>3, <2>4
  <2>6. m + 1 \in 0 .. MaxDir
    BY <1>1, <1>3
  <2> QED
    BY <2>5, <2>6
<1> HIDE DEF A
<1>4. \A m \in 0 .. MaxDir : m \in A
  BY <1>1, <1>2, <1>3, IntervalInduction
<1>5. MaxDir \in A
  BY <1>1, <1>4
<1>6. PICK f : From(MaxDir, f)
  BY <1>5 DEF A
<1>7. \A x \in DirId : Good(f, x)
  <2>1. \A x \in DirId : x > MaxDir - MaxDir
    BY <1>1
  <2> QED
    BY <1>6, <2>1
<1>8. f = Tree(o, f)
  BY <1>6, <1>7 DEF Tree
<1> QED
  BY <1>8

\* Every program of a tree erases its top, if it gets to its end.
LEMMA TreePlanned ==
  ASSUME CatalogAssumption, TypeOK, StoreInv, NEW o \in Orders, NEW d \in DirId
  PROVE  TreeWrites(d, o) \in TreePrograms(d)
<1> DEFINE f == CHOOSE g : g = Tree(o, g)
           A == {m \in 0 .. MaxDir : \A x \in DirId : x > MaxDir - m => f[x] \in TreePrograms(x)}
<1>1. f = Tree(o, f)
  BY TreeExists
<1>2. TreeWrites(d, o) = f[d]
  BY DEF TreeWrites, Tree
<1> HIDE DEF f
<1>3. MaxDir \in Nat /\ DirId = 1 .. MaxDir
  BY DEF CatalogAssumption, DirId
<1>4. 0 \in A
  BY <1>3
<1>5. ASSUME NEW m \in Nat, m < MaxDir, m \in A
      PROVE  m + 1 \in A
  <2>1. m + 1 \in 0 .. MaxDir
    BY <1>3, <1>5
  <2>2. ASSUME NEW x \in DirId, x > MaxDir - (m + 1)
        PROVE  f[x] \in TreePrograms(x)
    <3> DEFINE below == [c \in dir[x].directories_contained |-> f[c]]
    <3>1. f[x] = EraseBottomUp(x, below, o)
      BY <1>1 DEF Tree
    <3>2. x \in DOMAIN dir =>
            \A c \in dir[x].directories_contained : below[c] \in TreePrograms(c)
      <4> SUFFICES ASSUME x \in DOMAIN dir, NEW c \in dir[x].directories_contained
                   PROVE  below[c] \in TreePrograms(c)
        OBVIOUS
      <4>1. c \in DirId /\ c > x
        BY DEF TypeOK, DirRecord, StoreInv
      <4>2. c > MaxDir - m
        BY <1>3, <2>2, <4>1
      <4>3. f[c] \in TreePrograms(c)
        BY <1>5, <4>1, <4>2
      <4> QED
        BY <4>3
    <3> HIDE DEF below
    <3> QED
      BY <3>1, <3>2, EraseOne
  <2> QED
    BY <2>1, <2>2
<1> HIDE DEF A
<1>6. \A m \in 0 .. MaxDir : m \in A
  BY <1>3, <1>4, <1>5, IntervalInduction
<1>7. MaxDir \in A /\ d > MaxDir - MaxDir
  BY <1>3, <1>6
<1> QED
  BY <1>2, <1>7 DEF A

\* delete_directory: the parent's list forgets a directory that is erased.
LEMMA DeleteDirectoryPlanned ==
  ASSUME CatalogAssumption, TypeOK, StoreInv, NEW o \in Orders, NEW d \in DOMAIN dir
  PROVE  DeleteDirectoryWrites(d, o) \in Programs(Planned(DeletionOps))
<1> DEFINE p == TreeWrites(d, o)
           w == [op |-> "unlist_dir", dir |-> dir[d].parent_directory, child |-> d]
           last == Do(<<w>>)
<1>1. d \in DirId /\ dir[d].parent_directory \in DirId \cup {NoParent}
  BY DEF TypeOK, DirRecord
<1>2. p \in TreePrograms(d)
  BY <1>1, TreePlanned
<1>3. w \in Writes /\ w.op = "unlist_dir" /\ w.child = d /\ w.op \in DeletionOps
  BY <1>1 DEF Writes, DeletionOps
<1>4. DeleteDirectoryWrites(d, o) = Then(p, last) /\ last.todo = <<w>> /\ last.ok = TRUE
  BY DEF DeleteDirectoryWrites, Do
<1> HIDE DEF p, w, last
<1>5. CASE ~p.ok
  BY <1>2, <1>4, <1>5 DEF Then, TreePrograms
<1>6. CASE p.ok
  <2> DEFINE s == p.todo
             t == <<w>>
             all == s \o t
  <2>1. DeleteDirectoryWrites(d, o) = [todo |-> all, ok |-> TRUE]
    BY <1>4, <1>6 DEF Then
  <2>2. s \in Planned(DeletionOps) /\ Does(p, EraseDir(d))
    BY <1>2, <1>6 DEF TreePrograms, Programs
  <2>3. PICK i \in DOMAIN s : s[i] = EraseDir(d)
    BY <2>2 DEF Does
  <2> HIDE DEF s
  <2>4. s \in Seq(Writes)
    BY <2>2 DEF Planned
  <2>5. t \in Seq(Writes) /\ Len(t) = 1 /\ DOMAIN t = {1} /\ 1 \in 1 .. Len(t) /\ t[1] = w
    BY <1>3
  <2> HIDE DEF t
  <2>6. /\ \A j \in 1 .. Len(s) : all[j] = s[j]
        /\ all[Len(s) + 1] = w
    BY ZenonT(40), <2>4, <2>5, Concatenation
  <2> HIDE DEF all
  <2>7. i \in 1 .. Len(s) /\ Len(s) \in Nat
    BY <2>3, <2>4
  <2>8. i \in 1 .. (Len(s) + 1) - 1 /\ all[i] = EraseDir(d)
    BY <2>3, <2>6, <2>7
  <2>9. Backed(all, Len(s) + 1)
    BY <1>3, <2>6, <2>8 DEF Backed, GoneBefore
  <2>10. all \in Planned(DeletionOps)
    BY <1>3, <2>2, <2>5, <2>9, PlannedAfter DEF all
  <2> QED
    BY <2>1, <2>10 DEF Programs
<1>7. p.ok \in BOOLEAN
  BY <1>2 DEF TreePrograms, Programs
<1> QED
  BY <1>5, <1>6, <1>7

\* A program of the right kind in which the writes with a place have it.
Ready(s) == \E K \in Kinds : s \in Planned(K) /\ \A i \in DOMAIN s : Placed(s, i)

LEMMA ReadyLoop ==
  ASSUME NEW s \in Planned(DeletionOps)
  PROVE  Ready(s)
<1>1. DeletionOps \in Kinds /\ \A op \in DeletionOps : op \notin PlacedOps
  BY DEF Kinds, DeletionOps, SharingOps, PlacedOps
<1>2. \A i \in DOMAIN s : s[i].op \in DeletionOps
  BY DEF Planned
<1>3. \A i \in DOMAIN s : Placed(s, i)
  BY <1>1, <1>2 DEF Placed, PlacedOps
<1> QED
  BY <1>1, <1>3 DEF Ready

\* A loop over a trash, and then the list is emptied.
LEMMA ReadyEnd ==
  ASSUME NEW L \in {PurgeOps, RecoveryOps}, NEW p \in Programs(Planned(L)),
         NEW e \in Writes, e.op = "empty_trash"
  PROVE  Ready(Then(p, Do(<<e>>)).todo)
<1> DEFINE K == L \cup {"empty_trash"}
           s == p.todo
           t == <<e>>
           all == s \o t
<1>1. K \in Kinds /\ \A op \in L : op \notin PlacedOps
  BY DEF Kinds, PurgeOps, RecoveryOps, PlacedOps
<1>2. s \in Planned(L)
  BY DEF Programs
<1>3. t \in Seq(Writes) /\ Len(t) = 1 /\ DOMAIN t = {1} /\ t[1] = e
  OBVIOUS
<1>4. Then(p, Do(<<e>>)).todo = IF p.ok THEN all ELSE s
  BY DEF Then, Do
<1> HIDE DEF s, t
<1>5. s \in Planned(K) /\ s \in Seq(Writes) /\ \A i \in DOMAIN s : s[i].op \in L
  BY <1>2 DEF Planned
<1>6. t \in Planned(K)
  <2>1. Backed(t, 1)
    BY <1>3 DEF Backed
  <2> QED
    BY <1>3, <2>1 DEF Planned
<1>7. all \in Planned(K)
  BY <1>5, <1>6, PlannedConcat
<1>8. /\ Len(all) = Len(s) + 1 /\ all \in Seq(Writes) /\ DOMAIN all = 1 .. Len(all)
      /\ \A i \in 1 .. Len(s) : all[i] = s[i]
  <2>1. /\ all \in Seq(Writes) /\ Len(all) = Len(s) + Len(t)
        /\ \A i \in 1 .. Len(s) : all[i] = s[i]
    BY <1>5, <1>6, Concatenation DEF Planned
  <2> HIDE DEF all
  <2> QED
    BY <1>3, <2>1
<1> HIDE DEF all, K
<1>9. Len(s) \in Nat /\ DOMAIN s = 1 .. Len(s)
  BY <1>5
<1>10. \A i \in DOMAIN s : Placed(s, i)
  BY <1>1, <1>5 DEF Placed, PlacedOps
<1>11. ASSUME NEW i \in DOMAIN all
       PROVE  Placed(all, i)
  <2>1. CASE i \in 1 .. Len(s)
    <3>1. all[i].op \notin PlacedOps
      BY <1>1, <1>5, <1>8, <1>9, <2>1
    <3> QED
      BY <3>1 DEF Placed, PlacedOps
  <2>2. CASE i = Len(all)
    <3>1. all[i] = e
      <4>1. 1 \in 1 .. Len(t) /\ i = Len(s) + 1
        BY <1>3, <1>8, <2>2
      <4>2. (s \o t)[Len(s) + 1] = t[1]
        BY <1>3, <1>5, <4>1, Concatenation
      <4> QED
        BY <1>3, <4>1, <4>2 DEF all
    <3> QED
      BY <2>2, <3>1 DEF Placed
  <2> QED
    BY <1>8, <1>9, <2>1, <2>2
<1> QED
  BY <1>1, <1>4, <1>5, <1>7, <1>10, <1>11 DEF Ready

\* A purge erases what the trash has.
LEMMA PurgeOnePlanned ==
  ASSUME CatalogAssumption, TypeOK, StoreInv, NEW u \in Users, NEW f \in Trash(u)
  PROVE  PurgeOne(u, f) \in Programs(Planned(PurgeOps))
<1> DEFINE K == PurgeOps
           n == file[f].revision
           r == [i \in 1 .. n |-> [op |-> "remove", blob |-> <<file[f].owner, f, n + 1 - i>>]]
           e == [op |-> "erase_file", file |-> f]
           t == <<e>>
           q == IF user[u].files_deleted[f] > 1 THEN Stop ELSE Do(<<>>)
<1>1. f \in FileId
  BY DEF Trash
<1>2. q \in Programs(Planned(K))
  BY PlannedThen
<1>3. CASE f \notin DOMAIN file
  BY <1>3, PlannedThen DEF PurgeOne
<1>4. CASE f \in DOMAIN file
  <2>1. /\ file[f].owner \in Users /\ n \in 1 .. MaxRevision /\ MaxRevision \in Nat
        /\ file[f].owner = u
    BY <1>4 DEF TypeOK, FileRecord, StoreInv, CatalogAssumption
  <2>2. PurgeOne(u, f) = Then(Do(r \o t), q)
    BY <1>4 DEF PurgeOne
  <2>3. r \in Planned(K)
    <3>1. ASSUME NEW i \in 1 .. n
          PROVE  r[i] \in Writes /\ r[i].op = "remove"
      <4>1. n + 1 - i \in 1 .. MaxRevision
        BY <2>1
      <4> DEFINE b == <<file[f].owner, f, n + 1 - i>>
      <4>2. b \in Users \X FileId \X (1 .. MaxRevision)
        BY <1>1, <2>1, <4>1
      <4>3. r[i] = [op |-> "remove", blob |-> b]
        OBVIOUS
      <4> HIDE DEF b, r
      <4> QED
        BY <4>2, <4>3 DEF Writes
    <3>2. r \in Seq(Writes) /\ DOMAIN r = 1 .. n
      <4>1. n \in Nat
        BY <2>1
      <4>2. r = [i \in 1 .. n |-> r[i]]
        OBVIOUS
      <4> HIDE DEF r, n
      <4>3. r \in [1 .. n -> Writes]
        BY <3>1, <4>2
      <4> QED
        BY <4>1, <4>3
    <3> HIDE DEF r, n
    <3>3. \A i \in DOMAIN r : Backed(r, i)
      BY <3>1, <3>2 DEF Backed
    <3>4. "remove" \in K
      BY DEF PurgeOps
    <3> QED
      BY <3>1, <3>2, <3>3, <3>4 DEF Planned
  <2>4. t \in Planned(K)
    <3>1. e \in Writes /\ e.op = "erase_file" /\ e.file = f /\ e.op \in K
      BY <1>1 DEF Writes, PurgeOps
    <3>2. InTrash(f)
      BY <2>1 DEF InTrash
    <3> HIDE DEF e, K
    <3>3. Backed(<<e>>, 1)
      BY <3>1, <3>2 DEF Backed
    <3> QED
      BY <3>1, <3>3, PlannedOne
  <2> HIDE DEF r, t, q, n, K
  <2>5. Do(r \o t) \in Programs(Planned(K))
    BY <2>3, <2>4, PlannedConcat, PlannedThen
  <2>6. PurgeOne(u, f) \in Programs(Planned(K))
    BY <1>2, <2>2, <2>5, PlannedThen
  <2> QED
    BY <2>6 DEF K
<1> QED
  BY <1>3, <1>4

LEMMA PurgeReady ==
  ASSUME CatalogAssumption, TypeOK, StoreInv, NEW u \in Users, NEW S \in SUBSET Trash(u),
         NEW o \in Orders
  PROVE  Ready(PurgeWrites(u, S, o).todo)
<1> DEFINE B == [f \in FileId |-> PurgeOne(u, f)]
           p == ForEach(o, S, B)
           e == [op |-> "empty_trash", user |-> u, files |-> S]
<1>1. \A f \in S : B[f] \in Programs(Planned(PurgeOps))
  BY PurgeOnePlanned DEF Trash
<1>2. PurgeWrites(u, S, o) = Then(p, Do(<<e>>))
  BY DEF PurgeWrites
<1>3. e \in Writes /\ e.op = "empty_trash"
  BY DEF Writes, Trash
<1>4. Len(o) \in Nat
  BY ListLengths
<1> HIDE DEF B, e
<1>5. p \in Programs(Planned(PurgeOps))
  BY <1>1, <1>4, PlannedEmpty, ForEachType
<1> HIDE DEF p
<1> QED
  BY <1>2, <1>3, <1>5, ReadyEnd

\* A recovery lists a file again where the file says it is: its directory, or the
\* root, which it is told of by the write before.
LEMMA RecoverOnePlanned ==
  ASSUME CatalogAssumption, TypeOK, StoreInv, NEW u \in Users, NEW f \in Trash(u)
  PROVE  RecoverOne(u, f) \in Programs(Planned(RecoveryOps))
<1> DEFINE K == RecoveryOps
           h == Home(u, f)
           a == Adopt(user[u].dir_root, f)
           l == [op |-> "relist", dir |-> h, file |-> f]
           p == IF file[f].parent_directory \in DOMAIN dir THEN Do(<<>>) ELSE Do(<<a>>)
           q == IF h \notin DOMAIN dir THEN Stop ELSE Do(<<l>>)
<1>1. f \in FileId /\ user[u].dir_root \in DirId
  BY DEF Trash, TypeOK, UserRecord
<1>2. CASE f \notin DOMAIN file
  BY <1>2, PlannedThen DEF RecoverOne
<1>3. CASE f \in DOMAIN file
  <2>1. file[f].owner = u /\ file[f].parent_directory \in DirId
    BY <1>3 DEF TypeOK, FileRecord, StoreInv
  <2>2. f < ticket.file
    <3>1. f \in Nat /\ ticket.file \in Nat /\ ~(f >= ticket.file)
      BY <1>1, <1>3 DEF StoreInv, FreshFile, FileId, TypeOK, CatalogAssumption
    <3> QED
      BY <3>1
  <2>3. RecoverOne(u, f) = Then(p, q)
    BY <1>3 DEF RecoverOne, Adopt
  <2>4. h \in DirId /\ a \in Writes /\ l \in Writes
    BY <1>1, <2>1 DEF Home, Adopt, Writes
  <2>5. /\ a.op = "adopt" /\ a.dir = user[u].dir_root /\ a.file = f
        /\ l.op = "relist" /\ l.dir = h /\ l.file = f /\ a.op \in K /\ l.op \in K
    BY DEF Adopt, RecoveryOps
  <2>6. CASE h \notin DOMAIN dir
    <3>1. Backed(<<a>>, 1)
      <4>1. file[f].parent_directory \notin DOMAIN dir
        BY <2>6 DEF Home
      <4> HIDE DEF a
      <4> QED
        BY <2>1, <2>5, <4>1 DEF Backed
    <3> HIDE DEF a, h, K
    <3>2. <<a>> \in Planned(K)
      BY <2>4, <2>5, <3>1, PlannedOne
    <3>3. p \in Programs(Planned(K)) /\ q \in Programs(Planned(K))
      BY <2>6, <3>2, PlannedThen
    <3> HIDE DEF p, q
    <3>4. RecoverOne(u, f) \in Programs(Planned(K))
      BY <2>3, <3>3, PlannedThen
    <3> QED
      BY <3>4 DEF K
  <2>7. CASE h \in DOMAIN dir /\ file[f].parent_directory \in DOMAIN dir
    <3>1. h = file[f].parent_directory
      BY <2>7 DEF Home
    <3> HIDE DEF l, h, K
    <3>2. Backed(<<l>>, 1)
      BY <2>2, <2>5, <2>7, <3>1 DEF Backed
    <3>3. <<l>> \in Planned(K)
      BY <2>4, <2>5, <3>2, PlannedOne
    <3>4. p \in Programs(Planned(K)) /\ q \in Programs(Planned(K))
      BY <2>7, <3>3, PlannedThen
    <3> HIDE DEF p, q
    <3>5. RecoverOne(u, f) \in Programs(Planned(K))
      BY <2>3, <3>4, PlannedThen
    <3> QED
      BY <3>5 DEF K
  <2>8. CASE h \in DOMAIN dir /\ file[f].parent_directory \notin DOMAIN dir
    <3>1. h = user[u].dir_root
      BY <2>8 DEF Home
    <3>2. a = Adopt(h, f)
      BY <3>1
    <3>3. RecoverOne(u, f) = Do(<<a, l>>)
      <4>1. p = Do(<<a>>) /\ q = Do(<<l>>)
        BY <2>8
      <4>2. <<a>> \o <<l>> = <<a, l>>
        BY Pair
      <4>3. Then(Do(<<a>>), Do(<<l>>)) = Do(<<a>> \o <<l>>)
        BY DEF Then, Do
      <4> HIDE DEF p, q, a, l
      <4> QED
        BY <2>3, <4>1, <4>2, <4>3
    <3> HIDE DEF a, l, h, K
    <3>4. Backed(<<a, l>>, 1)
      BY <2>1, <2>5, <2>8 DEF Backed
    <3>5. Backed(<<a, l>>, 2)
      BY <2>2, <2>5, <2>8, <3>2 DEF Backed
    <3>6. <<a, l>> \in Planned(K)
      BY <2>4, <2>5, <3>4, <3>5, PlannedTwo
    <3>7. RecoverOne(u, f) \in Programs(Planned(K))
      BY <3>3, <3>6, PlannedThen
    <3> QED
      BY <3>7 DEF K
  <2> QED
    BY <2>6, <2>7, <2>8
<1> QED
  BY <1>2, <1>3

LEMMA RecoverReady ==
  ASSUME CatalogAssumption, TypeOK, StoreInv, NEW u \in Users, NEW S \in SUBSET Trash(u),
         NEW o \in Orders
  PROVE  Ready(RecoverWrites(u, S, o).todo)
<1> DEFINE B == [f \in FileId |-> RecoverOne(u, f)]
           p == ForEach(o, S, B)
           e == [op |-> "empty_trash", user |-> u, files |-> S]
<1>1. \A f \in S : B[f] \in Programs(Planned(RecoveryOps))
  BY RecoverOnePlanned DEF Trash
<1>2. RecoverWrites(u, S, o) = Then(p, Do(<<e>>))
  BY DEF RecoverWrites
<1>3. e \in Writes /\ e.op = "empty_trash"
  BY DEF Writes, Trash
<1>4. Len(o) \in Nat
  BY ListLengths
<1> HIDE DEF B, e
<1>5. p \in Programs(Planned(RecoveryOps))
  BY <1>1, <1>4, PlannedEmpty, ForEachType
<1> HIDE DEF p
<1> QED
  BY <1>2, <1>3, <1>5, ReadyEnd

----------------------------------------------------------------------------
(* Every request starts with a ready program.                              *)

\* A new directory: its id is drawn, then used.
LEMMA DirectoryReady ==
  ASSUME CatalogAssumption, TypeOK, StoreInv, NEW u \in Users, NEW p \in DirId,
         RequestDirectory(u, p)
  PROVE  \E ask, program : Start(u, ask, program) /\ Ready(program.todo)
<1> DEFINE K == {"draw", "add_dir"}
           x == [op |-> "draw", id |-> "dir"]
           y == [op |-> "add_dir", dir |-> ticket.dir, user |-> u, parent |-> p]
           ask == [kind |-> "new_directory", dir |-> p]
           program == Then(Do(<<x>>), IF p \in DOMAIN dir THEN Do(<<y>>) ELSE Stop)
<1>1. Start(u, ask, program)
  BY DEF RequestDirectory
<1>2. ticket.dir \in DirId /\ ticket.dir <= MaxDir /\ p < ticket.dir
  BY DEF RequestDirectory, TypeOK, DirId, CatalogAssumption
<1>3. /\ x \in Writes /\ y \in Writes /\ x.op = "draw" /\ x.id = "dir" /\ y.op = "add_dir"
      /\ y.dir = ticket.dir /\ y.parent = p /\ x = DrawDir
  BY <1>2 DEF Writes, DrawDir
<1>4. program.todo = IF p \in DOMAIN dir THEN <<x>> \o <<y>> ELSE <<x>> \o <<>>
  BY DEF Then, Do, Stop
<1>5. K \in Kinds /\ "draw" \in K /\ "add_dir" \in K
  BY DEF Kinds
<1>6. ticket.dir \notin DOMAIN dir
  BY <1>2 DEF StoreInv, DirId, CatalogAssumption
<1> HIDE DEF x, y, K, program, ask
<1>7. CASE p \in DOMAIN dir
  <2>1. program.todo = <<x, y>>
    BY <1>4, <1>7, Pair
  <2>2. Backed(<<x, y>>, 1) /\ Backed(<<x, y>>, 2)
    BY <1>3 DEF Backed
  <2>3. <<x, y>> \in Planned(K)
    BY <1>3, <1>5, <2>2, PlannedTwo
  <2>4. Placed(<<x, y>>, 1) /\ Placed(<<x, y>>, 2)
    BY <1>2, <1>3, <1>6, <1>7 DEF Placed
  <2>5. \A i \in DOMAIN <<x, y>> : i = 1 \/ i = 2
    OBVIOUS
  <2> QED
    BY <1>1, <1>5, <2>1, <2>3, <2>4, <2>5 DEF Ready
<1>8. CASE p \notin DOMAIN dir
  <2>1. program.todo = <<x>>
    <3>1. <<x>> \in Seq(Writes)
      BY <1>3
    <3> QED
      BY <1>4, <1>8, <3>1, ConcatEmptySeq
  <2>2. Backed(<<x>>, 1)
    BY <1>3 DEF Backed
  <2>3. <<x>> \in Planned(K)
    BY <1>3, <1>5, <2>2, PlannedOne
  <2>4. Placed(<<x>>, 1)
    BY <1>2, <1>3 DEF Placed
  <2>5. \A i \in DOMAIN <<x>> : i = 1
    OBVIOUS
  <2> QED
    BY <1>1, <1>5, <2>1, <2>3, <2>4, <2>5 DEF Ready
<1> QED
  BY <1>7, <1>8

\* A new file: its id is drawn, the records are written, then the bytes.
LEMMA NewFileReady ==
  ASSUME CatalogAssumption, TypeOK, StoreInv, NEW u \in Users, NEW p \in DirId, NEW n \in Names,
         RequestNewFile(u, p, n)
  PROVE  \E ask, program : Start(u, ask, program) /\ Ready(program.todo)
<1> DEFINE K == {"draw", "add_file", "save"}
           b == <<u, ticket.file, 1>>
           x == [op |-> "draw", id |-> "file"]
           y == [op |-> "add_file", file |-> ticket.file, user |-> u, dir |-> p, name |-> n]
           z == [op |-> "save", blob |-> b]
           ask == [kind |-> "new_file", dir |-> p, name |-> n]
           s == <<x, y, z>>
<1>1. Start(u, ask, Do(s))
  BY DEF RequestNewFile
<1>2. ticket.file \in FileId /\ ticket.file <= MaxFile
  BY DEF RequestNewFile, TypeOK, FileId, CatalogAssumption
<1>3. b \in Users \X FileId \X (1 .. MaxRevision)
  BY <1>2 DEF CatalogAssumption
<1> HIDE DEF b
<1>4. /\ x \in Writes /\ y \in Writes /\ z \in Writes
      /\ x.op = "draw" /\ x.id = "file" /\ y.op = "add_file" /\ y.file = ticket.file
      /\ z.op = "save" /\ x = DrawFile
  BY <1>2, <1>3 DEF Writes, DrawFile
<1>5. K \in Kinds /\ "draw" \in K /\ "add_file" \in K /\ "save" \in K
  BY DEF Kinds
<1>6. FreshFile(ticket.file)
  BY <1>2 DEF StoreInv, FileId, CatalogAssumption
<1> HIDE DEF x, y, z, K
<1>7. s \in Seq(Writes) /\ DOMAIN s = 1 .. 3 /\ s[1] = x /\ s[2] = y /\ s[3] = z
  BY <1>4
<1> HIDE DEF s
<1>8. \A i \in DOMAIN s : i = 1 \/ i = 2 \/ i = 3
  BY <1>7
<1>9. \A i \in DOMAIN s : s[i].op \in K /\ Backed(s, i)
  BY <1>4, <1>5, <1>7, <1>8 DEF Backed
<1>10. \A i \in DOMAIN s : Placed(s, i)
  BY <1>2, <1>4, <1>6, <1>7, <1>8 DEF Placed
<1>11. Ready(s)
  BY <1>5, <1>7, <1>9, <1>10 DEF Ready, Planned
<1>12. Do(s).todo = s
  BY DEF Do
<1> QED
  BY <1>1, <1>11, <1>12

\* A revision: the bytes, then the record.
LEMMA RevisionReady ==
  ASSUME CatalogAssumption, TypeOK, NEW u \in Users, NEW p \in DirId, NEW g \in FileId,
         RequestRevision(u, p, g)
  PROVE  \E ask, program : Start(u, ask, program) /\ Ready(program.todo)
<1> DEFINE K == {"save", "revise"}
           b == <<u, g, file[g].revision + 1>>
           x == [op |-> "save", blob |-> b]
           y == [op |-> "revise", file |-> g]
           ask == [kind |-> "revision", dir |-> p, file |-> g]
<1>1. Start(u, ask, Do(<<x, y>>))
  BY DEF RequestRevision
<1>2. g \in DOMAIN file /\ file[g].revision < MaxRevision
  BY DEF RequestRevision
<1>3. file[g].revision + 1 \in 1 .. MaxRevision
  BY <1>2 DEF TypeOK, FileRecord, CatalogAssumption
<1>4. b \in Users \X FileId \X (1 .. MaxRevision)
  BY <1>3
<1> HIDE DEF b
<1>5. /\ x \in Writes /\ y \in Writes /\ x.op = "save" /\ y.op = "revise" /\ y.file = g
  BY <1>4 DEF Writes
<1>6. K \in Kinds /\ "save" \in K /\ "revise" \in K
  BY DEF Kinds
<1> HIDE DEF x, y, K
<1>7. Backed(<<x, y>>, 1) /\ Backed(<<x, y>>, 2)
  BY <1>5 DEF Backed
<1>8. <<x, y>> \in Planned(K)
  BY <1>5, <1>6, <1>7, PlannedTwo
<1>9. Placed(<<x, y>>, 1) /\ Placed(<<x, y>>, 2)
  BY <1>2, <1>5 DEF Placed
<1>10. \A i \in DOMAIN <<x, y>> : i = 1 \/ i = 2
  OBVIOUS
<1>11. Do(<<x, y>>).todo = <<x, y>>
  BY DEF Do
<1> QED
  BY <1>1, <1>6, <1>8, <1>9, <1>10, <1>11 DEF Ready

\* Programs of loops.
LEMMA LoopReady ==
  ASSUME NEW p \in Programs(Planned(DeletionOps))
  PROVE  Ready(p.todo)
BY ReadyLoop DEF Programs

LEMMA RequestReady ==
  ASSUME CatalogAssumption, TypeOK, StoreInv, Request
  PROVE  \E u \in Users : \E ask, program : Start(u, ask, program) /\ Ready(program.todo)
<1> PICK u \in Users :
     \/ \E p \in DirId : \/ RequestDirectory(u, p)
                         \/ \E n \in Names : RequestNewFile(u, p, n)
                         \/ \E g \in FileId : RequestRevision(u, p, g)
     \/ \E f \in FileId : RequestLeave(u, f) \/ \E v \in Users : RequestShare(u, f, v)
     \/ \E o \in Orders :
          \/ \E f \in FileId : \/ RequestDeletion(u, f, o)
                               \/ \E V \in SUBSET Users : RequestOverwrite(u, f, V, o)
          \/ \E d \in DirId : RequestDirectoryDeletion(u, d, o)
          \/ \E S \in SUBSET FileId : RequestPurge(u, S, o) \/ RequestRecovery(u, S, o)
  BY DEF Request
<1> SUFFICES \E ask, program : Start(u, ask, program) /\ Ready(program.todo)
  OBVIOUS
<1>1. ASSUME NEW p \in DirId,
             \/ RequestDirectory(u, p)
             \/ \E n \in Names : RequestNewFile(u, p, n)
             \/ \E g \in FileId : RequestRevision(u, p, g)
      PROVE  \E ask, program : Start(u, ask, program) /\ Ready(program.todo)
  BY <1>1, DirectoryReady, NewFileReady, RevisionReady
<1>2. ASSUME NEW f \in FileId, NEW v \in Users, RequestLeave(u, f) \/ RequestShare(u, f, v)
      PROVE  \E ask, program : Start(u, ask, program) /\ Ready(program.todo)
  <2>1. /\ Ready(ShareWrites(f, v).todo) /\ Ready(UnshareWrites(f, v).todo)
        /\ Ready(UnshareWrites(f, u).todo)
    BY SharingPlanned, LoopReady
  <2>2. CASE RequestLeave(u, f)
    <3>1. Start(u, [kind |-> "leave", file |-> f], UnshareWrites(f, u))
      BY <2>2 DEF RequestLeave
    <3> QED
      BY <2>1, <3>1
  <2>3. CASE RequestShare(u, f, v)
    <3>1. \/ Start(u, [kind |-> "share",   file |-> f, user |-> v], ShareWrites(f, v))
          \/ Start(u, [kind |-> "unshare", file |-> f, user |-> v], UnshareWrites(f, v))
      BY <2>3 DEF RequestShare
    <3> QED
      BY <2>1, <3>1
  <2> QED
    BY <1>2, <2>2, <2>3
<1>3. ASSUME NEW o \in Orders, NEW f \in FileId, NEW V \in SUBSET Users,
             RequestDeletion(u, f, o) \/ RequestOverwrite(u, f, V, o)
      PROVE  \E ask, program : Start(u, ask, program) /\ Ready(program.todo)
  <2>1. f \in DOMAIN file
    BY <1>3 DEF RequestDeletion, RequestOverwrite, Listed
  <2>2. Ready(TrashWrites(f, o).todo) /\ Ready(OverwriteWrites(f, V, o).todo)
    BY <2>1, TrashPlanned, OverwritePlanned, LoopReady
  <2>3. \/ Start(u, [kind |-> "delete", file |-> f], TrashWrites(f, o))
        \/ Start(u, [kind |-> "overwrite", file |-> f, users |-> V], OverwriteWrites(f, V, o))
    BY <1>3 DEF RequestDeletion, RequestOverwrite
  <2> QED
    BY <2>2, <2>3
<1>4. ASSUME NEW o \in Orders, NEW d \in DirId, RequestDirectoryDeletion(u, d, o)
      PROVE  \E ask, program : Start(u, ask, program) /\ Ready(program.todo)
  <2>1. d \in DOMAIN dir
    BY <1>4 DEF RequestDirectoryDeletion
  <2>2. Ready(DeleteDirectoryWrites(d, o).todo)
    BY <2>1, DeleteDirectoryPlanned, LoopReady
  <2>3. Start(u, [kind |-> "delete_dir", dir |-> d], DeleteDirectoryWrites(d, o))
    BY <1>4 DEF RequestDirectoryDeletion
  <2> QED
    BY <2>2, <2>3
<1>5. ASSUME NEW o \in Orders, NEW S \in SUBSET FileId,
             RequestPurge(u, S, o) \/ RequestRecovery(u, S, o)
      PROVE  \E ask, program : Start(u, ask, program) /\ Ready(program.todo)
  <2>1. S \in SUBSET Trash(u)
    BY <1>5 DEF RequestPurge, RequestRecovery
  <2>2. Ready(PurgeWrites(u, S, o).todo) /\ Ready(RecoverWrites(u, S, o).todo)
    BY <2>1, PurgeReady, RecoverReady
  <2>3. \/ Start(u, [kind |-> "purge", files |-> S], PurgeWrites(u, S, o))
        \/ Start(u, [kind |-> "recover", files |-> S], RecoverWrites(u, S, o))
    BY <1>5 DEF RequestPurge, RequestRecovery
  <2> QED
    BY <2>2, <2>3
<1> QED
  BY <1>1, <1>2, <1>3, <1>4, <1>5

----------------------------------------------------------------------------
(* A write leaves those after it ready.                                    *)

LEMMA ReadyEmpty == Ready(<<>>)'
<1>1. Ready(<<>>)
  <2>1. DeletionOps \in Kinds /\ <<>> \in Planned(DeletionOps)
    BY PlannedEmpty DEF Kinds
  <2> QED
    BY <2>1 DEF Ready
<1> QED
  BY <1>1, PTL

\* What a write may change so that the writes after it still find what they were
\* planned for, kind by kind: nothing the deletion of another directory needs,
\* nothing the recovery of another file needs, and so on.
LEMMA TailReady ==
  ASSUME NEW s \in Seq(Writes), s # <<>>, NEW K \in Kinds, s \in Planned(K),
         \A i \in DOMAIN s : Placed(s, i),
         s[1].op # "draw", "add_dir" \notin K,
         K \cap {"trash", "adopt", "relist"} # {} => ticket' = ticket,
         K \cap {"trash", "erase_file", "adopt", "relist", "revise"} # {} =>
           \A f \in DOMAIN file' : /\ f \in DOMAIN file
                                   /\ file'[f].owner = file[f].owner
                                   /\ file'[f].revision = file[f].revision,
         "erase_file" \in K => \A u \in Users, f \in FileId : f \in Trash(u) => f \in Trash(u)',
         "erase_file" \in K => \A f \in DOMAIN file : file[f].owner \in Users,
         K \cap {"adopt", "relist"} # {} =>
           /\ DOMAIN dir' = DOMAIN dir
           /\ \A u \in Users : user'[u].dir_root = user[u].dir_root
           /\ \A f \in DOMAIN file :
                file[f].owner \in Users
           /\ \A f \in DOMAIN file' :
                \/ file'[f].parent_directory = file[f].parent_directory
                \/ s[1] = Adopt(file'[f].parent_directory, f)
           /\ \A d, f : s[1] = Adopt(d, f) /\ f \in DOMAIN file' => file'[f].parent_directory = d,
         K \cap {"erase_dir", "unlist_dir"} # {} =>
           \A d \in DOMAIN dir' : /\ d \in DOMAIN dir /\ s[1] # EraseDir(d)
                                  /\ dir'[d].parent_directory = dir[d].parent_directory
  PROVE  Ready(Tail(s))'
<1> DEFINE t == Tail(s)
<1>1. /\ t \in Seq(Writes) /\ DOMAIN t = 1 .. Len(t) /\ Len(t) = Len(s) - 1 /\ Len(s) \in Nat
      /\ \A i \in 1 .. Len(t) : i + 1 \in 1 .. Len(s) /\ t[i] = s[i + 1]
      /\ DOMAIN s = 1 .. Len(s) /\ 1 \in DOMAIN s
  BY Rest
<1> HIDE DEF t
<1>2. \A i \in DOMAIN s : s[i].op \in K /\ Backed(s, i) /\ s[i] \in Writes
  BY <1>1 DEF Planned
<1>3. ASSUME NEW i \in DOMAIN t
      PROVE  /\ i \in Nat /\ i >= 1 /\ i + 1 \in DOMAIN s /\ t[i] = s[i + 1] /\ t[i] \in Writes
             /\ t[i].op \in K /\ Backed(s, i + 1) /\ Placed(s, i + 1) /\ (i + 1) - 1 = i
             /\ i > 1 => i - 1 \in DOMAIN t /\ t[i - 1] = s[i]
  <2>1. i \in Nat /\ i >= 1 /\ i + 1 \in DOMAIN s /\ t[i] = s[i + 1]
    BY <1>1
  <2>2. i > 1 => i - 1 \in 1 .. Len(t) /\ (i - 1) + 1 = i
    BY <1>1
  <2>3. i > 1 => i - 1 \in DOMAIN t /\ t[i - 1] = s[i]
    BY <1>1, <2>2
  <2>4. (i + 1) - 1 = i
    BY <2>1
  <2>5. t[i] \in Writes /\ t[i].op \in K /\ Backed(s, i + 1)
    BY <1>2, <2>1
  <2>6. Placed(s, i + 1)
    BY <2>1
  <2> QED
    BY <2>1, <2>3, <2>4, <2>5, <2>6
<1>4. ASSUME NEW i \in DOMAIN t, NEW d, GoneBefore(s, i + 1, d),
             K \cap {"erase_dir", "unlist_dir"} # {}
      PROVE  GoneBefore(t, i, d)'
  <2> SUFFICES ASSUME d \in DOMAIN dir'
               PROVE  \E j \in 1 .. i - 1 : t[j] = EraseDir(d)
    BY DEF GoneBefore, EraseDir
  <2>1. d \in DOMAIN dir /\ s[1] # EraseDir(d)
    BY <1>4
  <2>2. PICK j \in 1 .. i : s[j] = EraseDir(d)
    BY <1>3, <1>4, <2>1 DEF GoneBefore
  <2>3. j # 1 /\ j \in Nat /\ j >= 1
    BY <1>3, <2>1, <2>2
  <2>4. j - 1 \in 1 .. i - 1 /\ j - 1 \in 1 .. Len(t) /\ (j - 1) + 1 = j
    BY <1>1, <1>3, <2>3
  <2>5. t[j - 1] = EraseDir(d)
    BY <1>1, <2>2, <2>4
  <2> QED
    BY <2>4, <2>5
<1>5. ASSUME NEW i \in DOMAIN t
      PROVE  Backed(t, i)'
  <2> DEFINE w == t[i]
  <2>1. ASSUME w.op = "trash"
        PROVE  /\ w.file < ticket'.file
               /\ w.file \in DOMAIN file' => file'[w.file].owner = w.user
    BY <1>3, <2>1 DEF Backed
  <2>2. ASSUME w.op = "erase_file"
        PROVE  w.file \in DOMAIN file' => InTrash(w.file)'
    <3> SUFFICES ASSUME w.file \in DOMAIN file' PROVE InTrash(w.file)'
      OBVIOUS
    <3>1. "erase_file" \in K /\ w.file \in FileId
      BY <1>3, <2>2, WriteFields
    <3>2. w.file \in DOMAIN file /\ file'[w.file].owner = file[w.file].owner
          /\ file[w.file].owner \in Users
      BY <3>1
    <3>3. w.file \in Trash(file[w.file].owner)
      BY <1>3, <2>2, <3>2 DEF Backed, InTrash
    <3>4. w.file \in Trash(file[w.file].owner)'
      <4> DEFINE u == file[w.file].owner
      <4>1. \A v \in Users : w.file \in Trash(v) => w.file \in Trash(v)'
        BY <3>1
      <4>2. w.file \in {f \in FileId : user'[u].files_deleted[f] > 0}
        BY <3>2, <3>3, <4>1 DEF Trash
      <4> QED
        BY <3>2, <4>2 DEF Trash
    <3> QED
      BY <3>2, <3>4 DEF InTrash
  <2>3. ASSUME w.op = "adopt", w.file \in DOMAIN file'
        PROVE  /\ w.dir = user'[file'[w.file].owner].dir_root
               /\ file'[w.file].parent_directory \notin DOMAIN dir' \ {w.dir}
    <3>1. "adopt" \in K
      BY <1>3, <2>3
    <3>2. w.file \in DOMAIN file /\ file'[w.file].owner = file[w.file].owner
          /\ file[w.file].owner \in Users
      BY <2>3, <3>1
    <3>3. /\ w.dir = user[file[w.file].owner].dir_root
          /\ file[w.file].parent_directory \notin DOMAIN dir \ {w.dir}
      BY ZenonT(40), <1>3, <2>3, <3>2 DEF Backed
    <3>4. w.dir = user'[file'[w.file].owner].dir_root
      BY <3>1, <3>2, <3>3
    <3>5. CASE file'[w.file].parent_directory = file[w.file].parent_directory
      BY <3>1, <3>3, <3>4, <3>5
    <3>6. CASE s[1] = Adopt(file'[w.file].parent_directory, w.file)
      <4>1. /\ s[1].op = "adopt" /\ s[1].file = w.file
            /\ s[1].dir = file'[w.file].parent_directory
        BY <3>6 DEF Adopt
      <4>2. s[1].dir = user[file[w.file].owner].dir_root
        BY <1>1, <1>2, <3>2, <4>1 DEF Backed
      <4> QED
        BY <3>3, <3>4, <4>1, <4>2
    <3> QED
      BY <2>3, <3>1, <3>5, <3>6
  <2>4. ASSUME w.op = "relist"
        PROVE  /\ w.file < ticket'.file /\ w.dir \in DOMAIN dir'
               /\ w.file \in DOMAIN file' =>
                    \/ file'[w.file].parent_directory = w.dir
                    \/ i > 1 /\ t[i - 1] = Adopt(w.dir, w.file)
    <3>1. "relist" \in K
      BY <1>3, <2>4
    <3>2. w.file < ticket.file /\ w.dir \in DOMAIN dir
      BY <1>3, <2>4 DEF Backed
    <3>3. ASSUME w.file \in DOMAIN file'
          PROVE  \/ file'[w.file].parent_directory = w.dir
                 \/ i > 1 /\ t[i - 1] = Adopt(w.dir, w.file)
      <4>1. w.file \in DOMAIN file
        BY <3>1, <3>3
      <4>2. \/ file[w.file].parent_directory = w.dir
            \/ s[i] = Adopt(w.dir, w.file)
        BY <1>3, <2>4, <4>1 DEF Backed
      <4>3. CASE s[i] = Adopt(w.dir, w.file) /\ i > 1
        BY <1>3, <4>3
      <4>4. CASE s[i] = Adopt(w.dir, w.file) /\ i = 1
        BY <3>1, <3>3, <4>4
      <4>5. CASE file[w.file].parent_directory = w.dir
        <5>1. CASE file'[w.file].parent_directory = file[w.file].parent_directory
          BY <4>5, <5>1
        <5>2. CASE s[1] = Adopt(file'[w.file].parent_directory, w.file)
          <6>1. /\ s[1].op = "adopt" /\ s[1].file = w.file
                /\ s[1].dir = file'[w.file].parent_directory
            BY <5>2 DEF Adopt
          <6>2. file[w.file].parent_directory \notin DOMAIN dir \ {s[1].dir}
            BY <1>1, <1>2, <4>1, <6>1 DEF Backed
          <6> QED
            BY <3>2, <4>5, <6>1, <6>2
        <5> QED
          BY <3>1, <3>3, <5>1, <5>2
      <4> QED
        BY <1>3, <4>2, <4>3, <4>4, <4>5
    <3> QED
      BY <3>1, <3>2, <3>3
  <2>5. ASSUME w.op = "erase_dir", NEW c \in DOMAIN dir', dir'[c].parent_directory = w.dir
        PROVE  GoneBefore(t, i, c)'
    <3>1. "erase_dir" \in K
      BY <1>3, <2>5
    <3>2. c \in DOMAIN dir /\ dir[c].parent_directory = w.dir
      BY <2>5, <3>1
    <3>3. GoneBefore(s, i + 1, c)
      BY <1>3, <2>5, <3>2 DEF Backed
    <3> QED
      BY <1>4, <3>1, <3>3
  <2>6. ASSUME w.op = "unlist_dir"
        PROVE  GoneBefore(t, i, w.child)'
    <3>1. "unlist_dir" \in K
      BY <1>3, <2>6
    <3>2. GoneBefore(s, i + 1, w.child)
      BY <1>3, <2>6 DEF Backed
    <3> QED
      BY <1>4, <3>1, <3>2
  <2> QED
    BY <2>1, <2>2, <2>3, <2>4, <2>5, <2>6 DEF Backed, Adopt
<1>6. ASSUME NEW i \in DOMAIN t
      PROVE  Placed(t, i)'
  <2> DEFINE w == t[i]
  <2>1. w.op # "draw"
    BY <1>3 DEF Placed
  <2>2. w.op # "add_dir"
    BY <1>3
  <2>3. w.op # "add_file"
    <3> SUFFICES ASSUME w.op = "add_file" PROVE FALSE
      OBVIOUS
    <3>1. i + 1 = 1 \/ (i + 1 = 2 /\ s[1] = DrawFile)
      BY <1>3 DEF Placed
    <3>2. i + 1 # 1
      BY <1>3
    <3>3. DrawFile.op = "draw"
      BY DEF DrawFile
    <3>4. s[1].op = "draw"
      BY <3>1, <3>2, <3>3
    <3> QED
      BY <3>4
  <2>4. ASSUME w.op = "revise"
        PROVE  i = Len(t) /\ (w.file \in DOMAIN file' => file'[w.file].revision < MaxRevision)
    <3>1. i + 1 = Len(s) /\ (w.file \in DOMAIN file => file[w.file].revision < MaxRevision)
      BY <1>3, <2>4 DEF Placed
    <3> QED
      BY <1>1, <1>3, <2>4, <3>1
  <2>5. ASSUME w.op = "empty_trash"
        PROVE  i = Len(t)
    <3>1. i + 1 = Len(s)
      BY <1>3, <2>5 DEF Placed
    <3> QED
      BY <1>1, <1>3, <3>1
  <2> QED
    BY <2>1, <2>2, <2>3, <2>4, <2>5 DEF Placed
<1>7. t \in Planned(K)'
  <2>1. \A i \in DOMAIN t : t[i].op \in K
    BY <1>3
  <2> QED
    BY <1>1, <1>5, <2>1 DEF Planned, Writes, SharingOps, Users, FileId, DirId, NoParent
<1>8. Ready(t)'
  BY <1>6, <1>7 DEF Ready, Kinds, DeletionOps, PurgeOps, RecoveryOps, SharingOps
<1> QED
  BY <1>8 DEF t

----------------------------------------------------------------------------
(* A write keeps the store what it was.                                    *)

\* Writes that take ids from lists and records from tables, or change neither.
LEMMA StoreKept ==
  ASSUME CatalogAssumption, TypeOK, StoreInv, ticket' = ticket,
         \A d \in DOMAIN dir' :
           /\ d \in DOMAIN dir
           /\ dir'[d].parent_directory = dir[d].parent_directory
           /\ dir'[d].files_contained \subseteq dir[d].files_contained
           /\ dir'[d].directories_contained \subseteq dir[d].directories_contained
           /\ dir'[d].parent_directory # NoParent =>
                /\ dir'[d].parent_directory \in DOMAIN dir'
                /\ d \in dir'[dir'[d].parent_directory].directories_contained,
         \A f \in DOMAIN file' :
           /\ f \in DOMAIN file
           /\ file'[f].owner = file[f].owner
           /\ file'[f].parent_directory = file[f].parent_directory,
         \A u \in Users, f \in FileId : f \in Trash(u)' =>
           \/ f \in Trash(u)
           \/ f < ticket.file /\ (f \in DOMAIN file => file[f].owner = u)
  PROVE  StoreInv'
<1>2. ASSUME NEW f \in FileId, f >= ticket'.file PROVE FreshFile(f)'
  <2>1. FreshFile(f)
    BY <1>2 DEF StoreInv
  <2>2. ~ (f < ticket.file)
    BY <1>2 DEF FileId, TypeOK, CatalogAssumption
  <2> QED
    BY <2>1, <2>2 DEF FreshFile
<1>3. \A d \in DOMAIN dir' : d < ticket'.dir
  BY DEF StoreInv
<1>4. \A f \in DOMAIN file' : \A u \in Users : f \in Trash(u)' => file'[f].owner = u
  BY DEF StoreInv, TypeOK
<1>5. ListedWhereItSays'
  BY DEF StoreInv, ListedWhereItSays
<1>6. ClimbsEnd'
  BY DEF StoreInv, ClimbsEnd
<1>7. \A d \in DOMAIN dir' : dir'[d].parent_directory # NoParent =>
        d \in dir'[dir'[d].parent_directory].directories_contained
  OBVIOUS
<1>8. \A d \in DOMAIN dir' : \A c \in dir'[d].directories_contained : c > d
  BY DEF StoreInv
<1> QED
  BY <1>2, <1>3, <1>4, <1>5, <1>6, <1>7, <1>8 DEF StoreInv

\* Where dir is not written.
LEMMA DirKept ==
  ASSUME StoreInv, dir' = dir
  PROVE  \A d \in DOMAIN dir' :
           /\ d \in DOMAIN dir
           /\ dir'[d].parent_directory = dir[d].parent_directory
           /\ dir'[d].files_contained \subseteq dir[d].files_contained
           /\ dir'[d].directories_contained \subseteq dir[d].directories_contained
           /\ dir'[d].parent_directory # NoParent =>
                /\ dir'[d].parent_directory \in DOMAIN dir'
                /\ d \in dir'[dir'[d].parent_directory].directories_contained
BY DEF StoreInv, ClimbsEnd

\* The kind of a program, by one of its writes.
LEMMA KindOf ==
  ASSUME NEW K \in Kinds
  PROVE  /\ K \cap DeletionOps # {} => K = DeletionOps
         /\ K \cap PurgeOps # {} => K = PurgeOps \cup {"empty_trash"}
         /\ K \cap RecoveryOps # {} => K = RecoveryOps \cup {"empty_trash"}
         /\ "save" \in K => K = {"draw", "add_file", "save"} \/ K = {"save", "revise"}
         /\ "add_file" \in K => K = {"draw", "add_file", "save"}
BY DEF Kinds, DeletionOps, PurgeOps, RecoveryOps, SharingOps

\* The first write of the request in progress.
LEMMA FirstWrite ==
  ASSUME NEW s, s = run.todo, s # <<>>, Ready(s)
  PROVE  /\ s \in Seq(Writes) /\ W = s[1] /\ s[1] \in Writes
         /\ Backed(s, 1) /\ Placed(s, 1) /\ Len(s) \in Nat \ {0}
         /\ \A op : Next1(op) => s[1].op = op
         /\ \E K \in Kinds : s \in Planned(K) /\ s[1].op \in K /\ \A i \in DOMAIN s : Placed(s, i)
<1>1. PICK K \in Kinds : s \in Planned(K) /\ \A i \in DOMAIN s : Placed(s, i)
  BY DEF Ready
<1>2. s \in Seq(Writes) /\ \A i \in DOMAIN s : s[i].op \in K /\ Backed(s, i)
  BY <1>1 DEF Planned
<1>3. Head(s) = s[1] /\ Head(s) \in Writes /\ Len(s) \in Nat \ {0} /\ 1 \in DOMAIN s
  BY <1>2, Rest
<1> QED
  BY <1>1, <1>2, <1>3 DEF W, Next1

\* The last write leaves nothing to be ready.
LEMMA LastReady ==
  ASSUME NEW s \in Seq(Writes), s # <<>>, Len(s) = 1
  PROVE  Ready(Tail(s))'
<1> DEFINE t == Tail(s)
<1>1. t \in Seq(Writes) /\ Len(t) = 0
  BY Rest
<1> HIDE DEF t
<1>2. t = <<>>
  BY <1>1
<1>3. Ready(t)'
  BY <1>2, ReadyEmpty
<1> QED
  BY <1>3 DEF t

\* The rest of a deletion.
LEMMA DeletionTail ==
  ASSUME NEW s, s = run.todo, s # <<>>, Ready(s), s[1].op \in DeletionOps, ticket' = ticket,
         \A f \in DOMAIN file' : /\ f \in DOMAIN file
                                 /\ file'[f].owner = file[f].owner
                                 /\ file'[f].revision = file[f].revision,
         \A d \in DOMAIN dir' : /\ d \in DOMAIN dir /\ s[1] # EraseDir(d)
                                /\ dir'[d].parent_directory = dir[d].parent_directory
  PROVE  Ready(Tail(s))'
<1>1. s \in Seq(Writes)
  BY FirstWrite
<1>2. PICK K \in Kinds : s \in Planned(K) /\ s[1].op \in K /\ \A i \in DOMAIN s : Placed(s, i)
  BY FirstWrite
<1>3. K = DeletionOps
  BY <1>2, KindOf
<1>4. /\ "add_dir" \notin K /\ "erase_file" \notin K
      /\ K \cap {"adopt", "relist"} = {} /\ s[1].op # "draw"
  BY <1>3 DEF DeletionOps, SharingOps
<1> QED
  BY <1>1, <1>2, <1>4, TailReady

\* The rest of a purge.
LEMMA PurgeTail ==
  ASSUME TypeOK, NEW s, s = run.todo, s # <<>>, Ready(s), s[1].op \in PurgeOps,
         \A f \in DOMAIN file' : /\ f \in DOMAIN file
                                 /\ file'[f].owner = file[f].owner
                                 /\ file'[f].revision = file[f].revision,
         user' = user
  PROVE  Ready(Tail(s))'
<1>1. s \in Seq(Writes)
  BY FirstWrite
<1>2. PICK K \in Kinds : s \in Planned(K) /\ s[1].op \in K /\ \A i \in DOMAIN s : Placed(s, i)
  BY FirstWrite
<1>3. K = PurgeOps \cup {"empty_trash"}
  BY <1>2, KindOf
<1>4. /\ "add_dir" \notin K /\ K \cap {"trash", "adopt", "relist"} = {} /\ s[1].op # "draw"
      /\ K \cap {"erase_dir", "unlist_dir"} = {} /\ K \cap {"adopt", "relist"} = {}
  BY <1>3 DEF PurgeOps
<1>5. /\ \A f \in DOMAIN file : file[f].owner \in Users
      /\ \A u \in Users, f \in FileId : f \in Trash(u) => f \in Trash(u)'
  BY DEF TypeOK, FileRecord, Trash
<1> QED
  BY <1>1, <1>2, <1>4, <1>5, TailReady

\* The rest of a recovery.
LEMMA RecoveryTail ==
  ASSUME TypeOK, NEW s, s = run.todo, s # <<>>, Ready(s), s[1].op \in RecoveryOps,
         ticket' = ticket, user' = user, DOMAIN dir' = DOMAIN dir,
         \A f \in DOMAIN file' :
           /\ f \in DOMAIN file
           /\ file'[f].owner = file[f].owner
           /\ file'[f].revision = file[f].revision
           /\ \/ file'[f].parent_directory = file[f].parent_directory
              \/ s[1] = Adopt(file'[f].parent_directory, f),
         \A d, f : s[1] = Adopt(d, f) /\ f \in DOMAIN file' => file'[f].parent_directory = d
  PROVE  Ready(Tail(s))'
<1>1. s \in Seq(Writes)
  BY FirstWrite
<1>2. PICK K \in Kinds : s \in Planned(K) /\ s[1].op \in K /\ \A i \in DOMAIN s : Placed(s, i)
  BY FirstWrite
<1>3. K = RecoveryOps \cup {"empty_trash"}
  BY <1>2, KindOf
<1>4. /\ "add_dir" \notin K /\ "erase_file" \notin K /\ s[1].op # "draw"
      /\ K \cap {"erase_dir", "unlist_dir"} = {}
  BY <1>3 DEF RecoveryOps
<1>5. \A f \in DOMAIN file : file[f].owner \in Users
  BY DEF TypeOK, FileRecord
<1> QED
  BY <1>1, <1>2, <1>4, <1>5, TailReady

\* The rest of an upload.
LEMMA UploadTail ==
  ASSUME NEW s, s = run.todo, s # <<>>, Ready(s), s[1].op \in {"save", "add_file"},
         s[1].op = "save" => file' = file
  PROVE  Ready(Tail(s))'
<1>1. s \in Seq(Writes)
  BY FirstWrite
<1>2. PICK K \in Kinds : s \in Planned(K) /\ s[1].op \in K /\ \A i \in DOMAIN s : Placed(s, i)
  BY FirstWrite
<1>3. K = {"draw", "add_file", "save"} \/ (K = {"save", "revise"} /\ s[1].op = "save")
  BY <1>2, KindOf
<1>4. /\ "add_dir" \notin K /\ "erase_file" \notin K /\ s[1].op # "draw"
      /\ K \cap {"trash", "adopt", "relist"} = {} /\ K \cap {"adopt", "relist"} = {}
      /\ K \cap {"erase_dir", "unlist_dir"} = {}
      /\ K \cap {"trash", "erase_file", "adopt", "relist", "revise"} # {} => s[1].op = "save"
  BY <1>3
<1> QED
  BY <1>1, <1>2, <1>4, TailReady

\* The tables after one field of one record is written.
LEMMA FilesEdited ==
  ASSUME TypeOK, NEW d, NEW F, d \in DOMAIN dir => F \subseteq FileId,
         dir' = [dir EXCEPT ![d].files_contained = F]
  PROVE  /\ dir' \in [DOMAIN dir' -> DirRecord] /\ DOMAIN dir' = DOMAIN dir
         /\ \A x \in DOMAIN dir :
              /\ dir'[x].parent_directory = dir[x].parent_directory
              /\ dir'[x].directories_contained = dir[x].directories_contained
              /\ dir'[x].files_contained = IF x = d THEN F ELSE dir[x].files_contained
BY ZenonT(40) DEF TypeOK, DirRecord

LEMMA DirectoriesEdited ==
  ASSUME TypeOK, NEW d, NEW D, d \in DOMAIN dir => D \subseteq DirId,
         dir' = [dir EXCEPT ![d].directories_contained = D]
  PROVE  /\ dir' \in [DOMAIN dir' -> DirRecord] /\ DOMAIN dir' = DOMAIN dir
         /\ \A x \in DOMAIN dir :
              /\ dir'[x].parent_directory = dir[x].parent_directory
              /\ dir'[x].files_contained = dir[x].files_contained
              /\ dir'[x].directories_contained =
                   IF x = d THEN D ELSE dir[x].directories_contained
BY ZenonT(40) DEF TypeOK, DirRecord

\* create_id.
LEMMA CreateIdKeeps ==
  ASSUME CatalogAssumption, TypeOK, StoreInv, NEW s, s = run.todo, s # <<>>, Ready(s), CreateId
  PROVE  TypeOK' /\ StoreInv' /\ Ready(Tail(s))'
<1>1. /\ s \in Seq(Writes) /\ W = s[1] /\ s[1] \in Writes /\ s[1].op = "draw" /\ Placed(s, 1)
  BY FirstWrite DEF CreateId
<1>2. PICK K \in Kinds : s \in Planned(K) /\ s[1].op \in K /\ \A i \in DOMAIN s : Placed(s, i)
  BY FirstWrite
<1>3. /\ UNCHANGED <<user, dir, file, stored>>
      /\ ticket' = IF s[1].id = "dir" THEN [ticket EXCEPT !.dir = @ + 1]
                                      ELSE [ticket EXCEPT !.file = @ + 1]
  BY <1>1 DEF CreateId
<1>4. /\ s[1].id \in {"dir", "file"}
      /\ s[1].id = "dir" => ticket.dir <= MaxDir
      /\ s[1].id = "file" => ticket.file <= MaxFile
  BY <1>1, WriteFields DEF Placed
<1>5. /\ ticket \in [dir : 1 .. MaxDir + 1, file : 1 .. MaxFile + 1]
      /\ MaxDir \in Nat /\ MaxFile \in Nat
  BY DEF TypeOK, CatalogAssumption
<1>6. /\ ticket' \in [dir : 1 .. MaxDir + 1, file : 1 .. MaxFile + 1]
      /\ ticket'.dir = IF s[1].id = "dir" THEN ticket.dir + 1 ELSE ticket.dir
      /\ ticket'.file = IF s[1].id = "dir" THEN ticket.file ELSE ticket.file + 1
  BY SMTT(30), <1>3, <1>4, <1>5
<1>7. TypeOK'
  BY <1>3, <1>6 DEF TypeOK
<1>8. \A f : FreshFile(f) <=> FreshFile(f)'
  BY <1>3 DEF FreshFile, Trash
<1>9. StoreInv'
  <2>1. \A f \in FileId : f >= ticket'.file => FreshFile(f)'
    <3> SUFFICES ASSUME NEW f \in FileId, f >= ticket'.file PROVE FreshFile(f)'
      OBVIOUS
    <3>1. f \in Nat /\ f >= ticket.file
      BY <1>5, <1>6 DEF FileId
    <3> QED
      BY <1>8, <3>1 DEF StoreInv
  <2>2. \A d \in DOMAIN dir' : d < ticket'.dir
    <3> SUFFICES ASSUME NEW d \in DOMAIN dir PROVE d < ticket'.dir
      BY <1>3
    <3>1. d \in Nat /\ d < ticket.dir
      BY DEF StoreInv, TypeOK, DirId
    <3> QED
      BY <1>5, <1>6, <3>1
  <2> QED
    BY <1>3, <2>1, <2>2 DEF StoreInv, ListedWhereItSays, ClimbsEnd, Trash
<1> DEFINE t == Tail(s)
<1>10. /\ t \in Seq(Writes) /\ DOMAIN t = 1 .. Len(t) /\ Len(t) = Len(s) - 1 /\ Len(s) \in Nat
       /\ \A i \in 1 .. Len(t) : i + 1 \in 1 .. Len(s) /\ t[i] = s[i + 1]
       /\ DOMAIN s = 1 .. Len(s)
  BY <1>1, Rest
<1> HIDE DEF t
<1>11. K = {"draw", "add_dir"} \/ K = {"draw", "add_file", "save"}
  BY <1>1, <1>2 DEF Kinds, DeletionOps, SharingOps, PurgeOps, RecoveryOps
<1>12. ASSUME NEW i \in DOMAIN t
       PROVE  /\ t[i].op \in K /\ t[i] \in Writes /\ t[i] = s[i + 1] /\ Placed(s, i + 1)
              /\ i \in Nat /\ i >= 1
  <2>1. i \in Nat /\ i >= 1 /\ i + 1 \in DOMAIN s /\ t[i] = s[i + 1]
    BY <1>10
  <2> QED
    BY <1>2, <2>1 DEF Planned
<1>13. ASSUME NEW i \in DOMAIN t
       PROVE  Backed(t, i)'
  BY <1>11, <1>12 DEF Backed
<1>14. ASSUME NEW i \in DOMAIN t
       PROVE  Placed(t, i)'
  <2> DEFINE w == t[i]
  <2>1. w.op # "draw" /\ w.op # "revise" /\ w.op # "empty_trash"
    BY <1>11, <1>12 DEF Placed
  <2>2. ASSUME w.op = "add_dir"
        PROVE  /\ i = Len(t) /\ w.dir \notin DOMAIN dir'
               /\ w.parent \in DOMAIN dir' /\ w.parent < w.dir /\ w.dir < ticket'.dir
    <3>1. /\ i + 1 = Len(s) /\ w.dir \notin DOMAIN dir
          /\ w.parent \in DOMAIN dir /\ w.parent < w.dir
          /\ w.dir < ticket.dir \/ (w.dir = ticket.dir /\ s[1] = DrawDir)
      BY <1>12, <2>2 DEF Placed
    <3>2. w.dir \in Nat
      BY <1>12, <2>2, WriteFields DEF DirId
    <3>3. DrawDir.id = "dir"
      BY DEF DrawDir
    <3>4. w.dir < ticket'.dir
      BY <1>5, <1>6, <3>1, <3>2, <3>3
    <3> QED
      BY <1>3, <1>10, <1>12, <3>1, <3>4
  <2>3. ASSUME w.op = "add_file"
        PROVE  FreshFile(w.file)' /\ w.file < ticket'.file /\ i = 1
    <3>1. /\ FreshFile(w.file)
          /\ \/ i + 1 = 1
             \/ w.file = ticket.file /\ i + 1 = 2 /\ s[1] = DrawFile
      BY <1>12, <2>3 DEF Placed
    <3>2. i + 1 # 1 /\ (i + 1 = 2 => i = 1)
      BY <1>12
    <3>3. DrawFile.id = "file"
      BY DEF DrawFile
    <3>4. w.file < ticket'.file
      BY <1>5, <1>6, <3>1, <3>2, <3>3
    <3> QED
      BY <1>8, <3>1, <3>2, <3>4
  <2> QED
    BY <2>1, <2>2, <2>3 DEF Placed
<1>15. Ready(t)'
  <2>1. t \in Planned(K)'
    BY <1>10, <1>12, <1>13 DEF Planned, Writes, SharingOps, Users, FileId, DirId, NoParent
  <2> QED
    BY <1>14, <2>1 DEF Ready, Kinds, DeletionOps, PurgeOps, RecoveryOps, SharingOps
<1> QED
  BY <1>7, <1>9, <1>15 DEF t

\* put_directory: the record and the parent's list, in one batch.
LEMMA AddDirectoryKeeps ==
  ASSUME CatalogAssumption, TypeOK, StoreInv, NEW s, s = run.todo, s # <<>>, Ready(s), AddDirectory
  PROVE  TypeOK' /\ StoreInv' /\ Ready(Tail(s))'
<1> DEFINE w == s[1]
           d == w.dir
           p == w.parent
           new == EmptyDir(w.user, p)
           base == [dir EXCEPT ![p].directories_contained = @ \cup {d}]
<1>1. s \in Seq(Writes) /\ W = w /\ w \in Writes /\ w.op = "add_dir" /\ Placed(s, 1)
  BY FirstWrite DEF AddDirectory
<1>2. d \in DirId /\ p \in DirId /\ w.user \in Users
  BY <1>1, WriteFields
<1>3. /\ Len(s) = 1 /\ d \notin DOMAIN dir /\ p \in DOMAIN dir /\ p < d /\ d < ticket.dir
  BY <1>1 DEF Placed
<1>4. dir' = Put(base, d, new) /\ UNCHANGED <<user, file, stored, ticket>>
  BY <1>1 DEF AddDirectory
<1>7. Ready(Tail(s))'
  BY <1>1, <1>3, LastReady
<1> HIDE DEF d, p, w
<1>5. /\ base \in [DOMAIN base -> DirRecord] /\ DOMAIN base = DOMAIN dir
      /\ \A x \in DOMAIN dir :
           /\ base[x].parent_directory = dir[x].parent_directory
           /\ base[x].files_contained = dir[x].files_contained
           /\ base[x].directories_contained =
                IF x = p THEN dir[x].directories_contained \cup {d}
                ELSE dir[x].directories_contained
  BY ZenonT(40), <1>2 DEF TypeOK, DirRecord
<1>6. /\ new \in DirRecord /\ new.parent_directory = p /\ new.files_contained = {}
      /\ new.directories_contained = {}
  BY <1>2 DEF EmptyDir, DirRecord, w
<1> HIDE DEF new, base
<1>8. /\ DOMAIN dir' = DOMAIN dir \cup {d}
      /\ dir' \in [DOMAIN dir' -> DirRecord]
      /\ dir'[d] = new /\ \A x \in DOMAIN dir : dir'[x] = base[x]
  <2> DEFINE result == Put(base, d, new)
  <2>1. DOMAIN result = DOMAIN base \cup {d} /\ result \in [DOMAIN result -> DirRecord]
    <3>1. base \in [DOMAIN base -> DirRecord] /\ new \in DirRecord
      BY <1>5, <1>6
    <3> QED
      BY <3>1, PutTable
  <2>2. result[d] = new /\ \A x \in DOMAIN dir : result[x] = base[x]
    BY <1>3, <1>5 DEF Put
  <2> HIDE DEF result
  <2>3. dir' = result
    BY <1>4 DEF result
  <2> QED
    BY <1>5, <2>1, <2>2, <2>3
<1>19. /\ dir'[d].parent_directory = p /\ dir'[d].files_contained = {}
       /\ dir'[d].directories_contained = {}
       /\ \A x \in DOMAIN dir :
            /\ dir'[x].parent_directory = dir[x].parent_directory
            /\ dir'[x].files_contained = dir[x].files_contained
            /\ dir'[x].directories_contained =
                 IF x = p THEN dir[x].directories_contained \cup {d}
                 ELSE dir[x].directories_contained
  BY ZenonT(40), <1>5, <1>6, <1>8
<1>9. TypeOK'
  BY <1>2, <1>4, <1>8 DEF TypeOK
<1>10. \A x \in DOMAIN dir' : x = d \/ (x \in DOMAIN dir /\ x # d)
  BY <1>3, <1>8
<1>11. p # d /\ p # NoParent
  BY <1>2, <1>3 DEF DirId, NoParent
<1>12. \A f \in FileId : f >= ticket'.file => FreshFile(f)'
  BY <1>4, <1>8, <1>19, <1>10 DEF StoreInv, FreshFile, Trash
<1>13. \A x \in DOMAIN dir' : x < ticket'.dir
  BY <1>3, <1>4, <1>10 DEF StoreInv
<1>14. ListedWhereItSays'
  BY ZenonT(40), <1>4, <1>8, <1>19, <1>10 DEF StoreInv, ListedWhereItSays
<1>15. ClimbsEnd'
  BY ZenonT(40), <1>3, <1>8, <1>19, <1>10 DEF StoreInv, ClimbsEnd
<1>16. \A x \in DOMAIN dir' : dir'[x].parent_directory # NoParent =>
         x \in dir'[dir'[x].parent_directory].directories_contained
  <2>1. ASSUME NEW x \in DOMAIN dir, dir[x].parent_directory # NoParent
        PROVE  /\ dir[x].parent_directory \in DOMAIN dir
               /\ x \in dir'[dir[x].parent_directory].directories_contained
    BY ZenonT(40), <1>8, <1>19, <2>1 DEF StoreInv, ClimbsEnd
  <2>2. d \in dir'[p].directories_contained
    BY <1>3, <1>8, <1>19
  <2> QED
    BY <1>8, <1>19, <1>10, <2>1, <2>2
<1>17. \A x \in DOMAIN dir' : \A c \in dir'[x].directories_contained : c > x
  <2>1. \A x \in DOMAIN dir : \A c \in dir[x].directories_contained : c > x
    BY DEF StoreInv
  <2>2. d > p
    BY <1>2, <1>3 DEF DirId
  <2>3. ASSUME NEW x \in DOMAIN dir, NEW c \in dir'[x].directories_contained
        PROVE  c > x
    <3>1. c \in dir[x].directories_contained \/ (x = p /\ c = d)
      BY ZenonT(40), <1>19, <2>3
    <3> QED
      BY <2>1, <2>2, <3>1
  <2>4. dir'[d].directories_contained = {}
    BY <1>19
  <2> QED
    BY <1>10, <2>3, <2>4
<1>18. \A f \in DOMAIN file' : \A u \in Users : f \in Trash(u)' => file'[f].owner = u
  BY <1>4 DEF StoreInv, Trash
<1> QED
  BY <1>7, <1>9, <1>12, <1>13, <1>14, <1>15, <1>16, <1>17, <1>18 DEF StoreInv

\* put_file: the record and the directory's list, in one batch.
LEMMA AddFileKeeps ==
  ASSUME CatalogAssumption, TypeOK, StoreInv, NEW s, s = run.todo, s # <<>>, Ready(s), AddFile
  PROVE  TypeOK' /\ StoreInv' /\ Ready(Tail(s))'
<1> DEFINE w == s[1]
           g == w.file
           new == NewRecord(w.user, w.dir, w.name)
<1>1. s \in Seq(Writes) /\ W = w /\ w \in Writes /\ w.op = "add_file" /\ Placed(s, 1)
  BY FirstWrite DEF AddFile
<1>2. g \in FileId /\ w.dir \in DirId /\ w.user \in Users /\ w.name \in Names
  BY <1>1, WriteFields
<1>3. FreshFile(g) /\ g < ticket.file
  BY <1>1 DEF Placed
<1>4. /\ file' = Put(file, g, new) /\ UNCHANGED <<user, stored, ticket>>
      /\ dir' = [dir EXCEPT ![w.dir].files_contained = @ \cup {g}]
  BY <1>1 DEF AddFile
<1>7. Ready(Tail(s))'
  BY <1>1, UploadTail
<1> HIDE DEF g
<1>5. /\ dir' \in [DOMAIN dir' -> DirRecord] /\ DOMAIN dir' = DOMAIN dir
      /\ \A x \in DOMAIN dir :
           /\ dir'[x].parent_directory = dir[x].parent_directory
           /\ dir'[x].directories_contained = dir[x].directories_contained
           /\ dir'[x].files_contained = IF x = w.dir THEN dir[x].files_contained \cup {g}
                                        ELSE dir[x].files_contained
  <2> DEFINE e == w.dir
             F == dir[e].files_contained \cup {g}
  <2>1. dir' = [dir EXCEPT ![e].files_contained = F]
    BY <1>4
  <2>2. e \in DOMAIN dir => F \subseteq FileId
    BY <1>2 DEF TypeOK, DirRecord
  <2> HIDE DEF e, F
  <2>3. /\ dir' \in [DOMAIN dir' -> DirRecord] /\ DOMAIN dir' = DOMAIN dir
        /\ \A x \in DOMAIN dir :
             /\ dir'[x].parent_directory = dir[x].parent_directory
             /\ dir'[x].directories_contained = dir[x].directories_contained
             /\ dir'[x].files_contained = IF x = e THEN F ELSE dir[x].files_contained
    BY ZenonT(40), <2>1, <2>2, FilesEdited
  <2> QED
    BY <2>3 DEF e, F
<1>6. new \in FileRecord /\ new.parent_directory = w.dir /\ new.owner = w.user
  BY <1>2 DEF NewRecord, FileRecord, CatalogAssumption
<1> HIDE DEF new, w
<1>8. /\ DOMAIN file' = DOMAIN file \cup {g} /\ file' \in [DOMAIN file' -> FileRecord]
      /\ file'[g] = new /\ \A f \in DOMAIN file : f # g /\ file'[f] = file[f]
  <2> DEFINE result == Put(file, g, new)
  <2>1. DOMAIN result = DOMAIN file \cup {g} /\ result \in [DOMAIN result -> FileRecord]
    <3>1. file \in [DOMAIN file -> FileRecord] /\ new \in FileRecord
      BY <1>6 DEF TypeOK
    <3> QED
      BY <3>1, PutTable
  <2>2. g \notin DOMAIN file
    BY <1>3 DEF FreshFile
  <2>3. result[g] = new /\ \A f \in DOMAIN file : f # g /\ result[f] = file[f]
    BY <2>2 DEF Put
  <2> HIDE DEF result
  <2>4. file' = result
    BY <1>4 DEF result
  <2> QED
    BY <2>1, <2>3, <2>4
<1>9. TypeOK'
  BY <1>2, <1>4, <1>5, <1>8 DEF TypeOK
<1>10. \A f \in FileId : f >= ticket'.file => FreshFile(f)'
  <2> SUFFICES ASSUME NEW f \in FileId, f >= ticket.file PROVE FreshFile(f)'
    BY <1>4
  <2>1. f # g
    BY <1>2, <1>3 DEF FileId, TypeOK, CatalogAssumption
  <2>2. FreshFile(f)
    BY DEF StoreInv
  <2> QED
    BY <1>4, <1>5, <1>8, <2>1, <2>2 DEF FreshFile, Trash
<1>11. \A x \in DOMAIN dir' : x < ticket'.dir
  BY <1>4, <1>5 DEF StoreInv
<1>12. \A f \in DOMAIN file' : \A u \in Users : f \in Trash(u)' => file'[f].owner = u
  BY <1>3, <1>4, <1>8 DEF StoreInv, Trash, FreshFile
<1>13. ListedWhereItSays'
  <2> SUFFICES ASSUME NEW x \in DOMAIN dir, NEW f \in dir'[x].files_contained \cap DOMAIN file'
               PROVE  file'[f].parent_directory = x
    BY <1>5 DEF ListedWhereItSays
  <2>1. CASE f = g
    <3>1. x = w.dir
      BY <1>3, <1>5, <2>1 DEF FreshFile
    <3> QED
      BY <1>6, <1>8, <2>1, <3>1
  <2>2. CASE f # g
    <3>1. f \in DOMAIN file
      BY <1>8, <2>2
    <3>2. f \in dir[x].files_contained
      <4>1. dir'[x].files_contained \subseteq dir[x].files_contained \cup {g}
        BY <1>5
      <4> QED
        BY <2>2, <4>1
    <3>3. file[f].parent_directory = x
      BY <3>1, <3>2 DEF StoreInv, ListedWhereItSays
    <3> QED
      BY <1>8, <3>1, <3>3
  <2> QED
    BY <2>1, <2>2
<1>14. ClimbsEnd'
  BY <1>5 DEF StoreInv, ClimbsEnd
<1>15. \A x \in DOMAIN dir' : dir'[x].parent_directory # NoParent =>
         x \in dir'[dir'[x].parent_directory].directories_contained
  BY <1>5 DEF StoreInv, ClimbsEnd
<1>16. \A x \in DOMAIN dir' : \A c \in dir'[x].directories_contained : c > x
  BY <1>5 DEF StoreInv
<1> QED
  BY <1>7, <1>9, <1>10, <1>11, <1>12, <1>13, <1>14, <1>15, <1>16 DEF StoreInv
\* FileHandler's save and remove: no record knows.
LEMMA PhysicalFileKeeps ==
  ASSUME CatalogAssumption, TypeOK, StoreInv, NEW s, s = run.todo, s # <<>>, Ready(s),
         PhysicalFile
  PROVE  TypeOK' /\ StoreInv' /\ Ready(Tail(s))'
<1>1. s[1] \in Writes /\ W = s[1] /\ s[1].op \in {"save", "remove"}
  BY FirstWrite DEF PhysicalFile
<1>2. UNCHANGED <<user, dir, file, ticket>> /\ stored' \subseteq stored \cup {s[1].blob}
  BY <1>1 DEF PhysicalFile
<1>3. s[1].blob \in Users \X FileId \X (1 .. MaxRevision)
  BY <1>1, WriteFields
<1>4. TypeOK'
  BY <1>2, <1>3 DEF TypeOK
<1>5. StoreInv'
  <2>1. \A u \in Users, f \in FileId : f \in Trash(u)' => f \in Trash(u)
    BY <1>2 DEF Trash
  <2> QED
    BY <1>2, <2>1, StoreKept, DirKept
<1>6. Ready(Tail(s))'
  <2>1. CASE s[1].op = "save"
    BY <1>2, <2>1, UploadTail
  <2>2. CASE s[1].op = "remove"
    BY <1>2, <2>2, PurgeTail DEF PurgeOps
  <2> QED
    BY <1>1, <2>1, <2>2
<1> QED
  BY <1>4, <1>5, <1>6

\* An account's record after one of its lists is written.
LEMMA SharedFilesEdited ==
  ASSUME TypeOK, NEW u \in Users, NEW F \in SUBSET FileId,
         user' = [user EXCEPT ![u].shared_files = F]
  PROVE  /\ user' \in [Users -> UserRecord]
         /\ \A v \in Users : user'[v].files_deleted = user[v].files_deleted
BY DEF TypeOK, UserRecord

LEMMA FilesDeletedEdited ==
  ASSUME TypeOK, NEW u \in Users, NEW f \in FileId,
         user' = [user EXCEPT ![u].files_deleted[f] = @ + 1]
  PROVE  /\ user' \in [Users -> UserRecord]
         /\ \A v \in Users, g \in FileId :
              g \in Trash(v)' => g \in Trash(v) \/ (v = u /\ g = f)
<1> DEFINE copies == [user[u].files_deleted EXCEPT ![f] = @ + 1]
<1>1. user[u].files_deleted \in [FileId -> Nat] /\ user \in [Users -> UserRecord]
  BY DEF TypeOK, UserRecord
<1>2. copies \in [FileId -> Nat] /\ \A g \in FileId : g # f => copies[g] = user[u].files_deleted[g]
  BY <1>1
<1>3. user' = [user EXCEPT ![u].files_deleted = copies]
  OBVIOUS
<1> HIDE DEF copies
<1>4. user' \in [Users -> UserRecord]
  BY <1>1, <1>2, <1>3 DEF UserRecord
<1>5. \A v \in Users : user'[v].files_deleted = IF v = u THEN copies
                                                ELSE user[v].files_deleted
  BY <1>1, <1>3 DEF UserRecord
<1> QED
  BY <1>2, <1>4, <1>5 DEF Trash

\* put_user: a share is listed or not, a file is trashed, the trash is emptied.
LEMMA ModifyUserKeeps ==
  ASSUME CatalogAssumption, TypeOK, StoreInv, NEW s, s = run.todo, s # <<>>, Ready(s),
         ModifyUser
  PROVE  TypeOK' /\ StoreInv' /\ Ready(Tail(s))'
<1> DEFINE w == s[1]
           u == w.user
           f == w.file
<1>1. s \in Seq(Writes) /\ w \in Writes /\ W = w /\ Backed(s, 1) /\ Placed(s, 1)
  BY SMTT(30), FirstWrite
<1>2. /\ UNCHANGED <<dir, file, stored, ticket>>
      /\ \/ w.op = "list_share"   /\ user' = [user EXCEPT ![u].shared_files = @ \cup {f}]
         \/ w.op = "unlist_share" /\ user' = [user EXCEPT ![u].shared_files = @ \ {f}]
         \/ w.op = "trash"        /\ user' = [user EXCEPT ![u].files_deleted[f] = @ + 1]
         \/ w.op = "empty_trash"  /\ user' = Without(u, w.files)
  <2>1. /\ Next1("list_share") => w.op = "list_share"
        /\ Next1("unlist_share") => w.op = "unlist_share"
        /\ Next1("trash") => w.op = "trash"
        /\ Next1("empty_trash") => w.op = "empty_trash"
    BY SMTT(30), FirstWrite
  <2> QED
    BY ZenonT(40), <1>1, <2>1 DEF ModifyUser
<1>3. /\ u \in Users
      /\ w.op # "empty_trash" => f \in FileId
  BY ZenonT(40), <1>1, <1>2, WriteFields DEF SharingOps
<1>4. w.op = "trash" => f < ticket.file /\ (f \in DOMAIN file => file[f].owner = u)
  BY <1>1 DEF Backed
<1>5. w.op = "empty_trash" => Len(s) = 1
  BY <1>1 DEF Placed
<1> HIDE DEF w, u, f
<1>6. /\ user' \in [Users -> UserRecord]
      /\ \A v \in Users, g \in FileId :
           g \in Trash(v)' => g \in Trash(v) \/ (w.op = "trash" /\ v = u /\ g = f)
  <2>1. CASE w.op \in {"list_share", "unlist_share"}
    <3> DEFINE F == IF w.op = "list_share" THEN user[u].shared_files \cup {f}
                    ELSE user[u].shared_files \ {f}
    <3>1. F \in SUBSET FileId
      BY <1>3, <2>1 DEF TypeOK, UserRecord
    <3>2. user' = [user EXCEPT ![u].shared_files = F]
      BY <1>2, <2>1
    <3> HIDE DEF F
    <3>3. /\ user' \in [Users -> UserRecord]
          /\ \A v \in Users : user'[v].files_deleted = user[v].files_deleted
      BY <1>3, <3>1, <3>2, SharedFilesEdited
    <3> QED
      BY <3>3 DEF Trash
  <2>2. CASE w.op = "trash"
    <3>1. user' = [user EXCEPT ![u].files_deleted[f] = @ + 1] /\ f \in FileId
      BY <1>2, <1>3, <2>2
    <3> QED
      BY <1>3, <2>2, <3>1, FilesDeletedEdited
  <2>3. CASE w.op = "empty_trash"
    <3>1. user' = Without(u, w.files)
      BY <1>2, <2>3
    <3>2. user' \in [Users -> UserRecord]
      BY <1>3, <3>1, WithoutType
    <3>3. \A v \in Users, g \in FileId : g \in Trash(v)' => g \in Trash(v)
      BY <1>3, <3>1, WithoutEffect DEF Trash
    <3> QED
      BY <3>2, <3>3
  <2> QED
    BY <1>2, <2>1, <2>2, <2>3
<1>7. TypeOK'
  BY <1>2, <1>6 DEF TypeOK
<1>8. StoreInv'
  BY <1>2, <1>4, <1>6, StoreKept, DirKept
<1>9. Ready(Tail(s))'
  <2>1. CASE w.op = "empty_trash"
    BY <1>1, <1>5, <2>1, LastReady
  <2>2. CASE w.op # "empty_trash"
    <3>1. w.op \in DeletionOps /\ \A d : w # EraseDir(d)
      BY <1>2, <2>2 DEF DeletionOps, SharingOps, EraseDir
    <3> QED
      BY <1>2, <3>1, DeletionTail DEF w
  <2> QED
    BY <2>1, <2>2
<1> QED
  BY <1>7, <1>8, <1>9
\* A file's record after one of its fields is written.
LEMMA FileEdited ==
  ASSUME TypeOK, NEW f, NEW r, f \in DOMAIN file => r \in FileRecord,
         file' = [file EXCEPT ![f] = r]
  PROVE  /\ file' \in [DOMAIN file' -> FileRecord] /\ DOMAIN file' = DOMAIN file
         /\ \A g \in DOMAIN file : file'[g] = IF g = f THEN r ELSE file[g]
BY DEF TypeOK

\* put_file: a share is granted or revoked, the file has a new home or revision.
LEMMA ModifyFileKeeps ==
  ASSUME CatalogAssumption, TypeOK, StoreInv, NEW s, s = run.todo, s # <<>>, Ready(s),
         ModifyFile
  PROVE  TypeOK' /\ StoreInv' /\ Ready(Tail(s))'
<1> DEFINE w == s[1]
           f == w.file
           granted  == [file[f] EXCEPT !.users_shared = @ \cup {w.user}]
           revoked  == [file[f] EXCEPT !.users_shared = @ \ {w.user}]
           adopted  == [file[f] EXCEPT !.parent_directory = w.dir]
           revision == [file[f] EXCEPT !.revision = @ + 1]
           r == IF w.op = "grant_share" THEN granted
                ELSE IF w.op = "revoke_share" THEN revoked
                ELSE IF w.op = "adopt" THEN adopted ELSE revision
<1>1. s \in Seq(Writes) /\ w \in Writes /\ W = w /\ Backed(s, 1) /\ Placed(s, 1)
  BY FirstWrite
<1>2. /\ UNCHANGED <<user, dir, stored, ticket>>
      /\ w.op \in {"grant_share", "revoke_share", "adopt", "revise"}
      /\ file' = [file EXCEPT ![f] = r]
  <2>1. /\ Next1("grant_share") => w.op = "grant_share"
        /\ Next1("revoke_share") => w.op = "revoke_share"
        /\ Next1("adopt") => w.op = "adopt"
        /\ Next1("revise") => w.op = "revise"
    BY FirstWrite
  <2> QED
    BY <1>1, <2>1 DEF ModifyFile
<1>3. /\ w.op \in {"grant_share", "revoke_share"} => w.user \in Users
      /\ w.op = "adopt" => w.dir \in DirId
  BY <1>1, WriteFields DEF SharingOps
<1>4. /\ w.op = "adopt" => (f \in DOMAIN file =>
                              file[f].parent_directory \notin DOMAIN dir \ {w.dir})
      /\ w.op = "adopt" => w.file = f /\ w = s[1]
  BY <1>1 DEF Backed
<1>5. /\ w.op = "revise" => Len(s) = 1
      /\ w.op = "revise" => (f \in DOMAIN file => file[f].revision < MaxRevision)
  BY <1>1 DEF Placed
<1>6. f \in DOMAIN file =>
        /\ r \in FileRecord /\ r.owner = file[f].owner
        /\ w.op # "adopt" => r.parent_directory = file[f].parent_directory
        /\ w.op # "revise" => r.revision = file[f].revision
        /\ w.op = "adopt" => r.parent_directory = w.dir
  <2> SUFFICES ASSUME f \in DOMAIN file
               PROVE  /\ r \in FileRecord /\ r.owner = file[f].owner
                      /\ w.op # "adopt" => r.parent_directory = file[f].parent_directory
                      /\ w.op # "revise" => r.revision = file[f].revision
                      /\ w.op = "adopt" => r.parent_directory = w.dir
    OBVIOUS
  <2>1. file[f] \in FileRecord
    BY DEF TypeOK
  <2> HIDE DEF f, w
  <2>2. CASE w.op = "grant_share"
    BY <1>3, <2>1, <2>2 DEF FileRecord
  <2>3. CASE w.op = "revoke_share"
    BY <1>3, <2>1, <2>3 DEF FileRecord
  <2>4. CASE w.op = "adopt"
    BY <1>3, <2>1, <2>4 DEF FileRecord
  <2>5. CASE w.op = "revise"
    <3>1. file[f].revision + 1 \in 1 .. MaxRevision
      BY <1>5, <2>1, <2>5 DEF FileRecord, CatalogAssumption
    <3> QED
      BY <2>1, <2>5, <3>1 DEF FileRecord
  <2> QED
    BY SMTT(30), <1>2, <2>2, <2>3, <2>4, <2>5
<1> HIDE DEF w, f, r
<1>7. /\ file' \in [DOMAIN file' -> FileRecord] /\ DOMAIN file' = DOMAIN file
      /\ \A g \in DOMAIN file : file'[g] = IF g = f THEN r ELSE file[g]
  BY <1>2, <1>6, FileEdited
<1>8. TypeOK'
  BY <1>2, <1>7 DEF TypeOK
<1>9. \A g \in DOMAIN file :
        /\ file'[g].owner = file[g].owner
        /\ w.op # "adopt" => file'[g].parent_directory = file[g].parent_directory
        /\ w.op # "revise" => file'[g].revision = file[g].revision
        /\ w.op = "adopt" => file'[g].parent_directory = IF g = f THEN w.dir
                                                         ELSE file[g].parent_directory
  BY <1>6, <1>7
<1>10. CASE w.op # "adopt"
  <2>1. \A u \in Users, g \in FileId : g \in Trash(u)' => g \in Trash(u)
    BY <1>2 DEF Trash
  <2>2. StoreInv'
    BY <1>2, <1>7, <1>9, <1>10, <2>1, StoreKept, DirKept
  <2>3. CASE w.op = "revise"
    BY <1>1, <1>5, <1>8, <2>2, <2>3, LastReady
  <2>4. CASE w.op # "revise"
    <3>1. w.op \in DeletionOps /\ \A d : w # EraseDir(d)
      BY <1>2, <1>10, <2>4 DEF DeletionOps, SharingOps, EraseDir
    <3>2. Ready(Tail(s))'
      BY <1>2, <1>7, <1>9, <2>4, <3>1, DeletionTail DEF w
    <3> QED
      BY <1>8, <2>2, <3>2
  <2> QED
    BY <2>3, <2>4
<1>11. CASE w.op = "adopt"
  <2>1. \A g \in FileId : g >= ticket'.file => FreshFile(g)'
    BY <1>2, <1>7 DEF StoreInv, FreshFile, Trash
  <2>2. \A g \in DOMAIN file' : \A u \in Users : g \in Trash(u)' => file'[g].owner = u
    BY <1>2, <1>7, <1>9 DEF StoreInv, Trash
  <2>3. ListedWhereItSays'
    <3> SUFFICES ASSUME NEW x \in DOMAIN dir, NEW g \in dir[x].files_contained \cap DOMAIN file
                 PROVE  file'[g].parent_directory = x
      BY <1>2, <1>7 DEF ListedWhereItSays
    <3>1. file[g].parent_directory = x
      BY DEF StoreInv, ListedWhereItSays
    <3> QED
      BY <1>4, <1>9, <1>11, <3>1
  <2>4. StoreInv'
    BY <1>2, <2>1, <2>2, <2>3 DEF StoreInv, ClimbsEnd
  <2>5. \A d, g : w = Adopt(d, g) <=> d = w.dir /\ g = f /\ w = Adopt(w.dir, f)
    BY DEF Adopt, f
  <2>6. w = Adopt(w.dir, f)
    BY <1>1, <1>11 DEF Writes, Adopt, f, SharingOps
  <2>7. Ready(Tail(s))'
    <3>1. w.op \in RecoveryOps
      BY <1>11 DEF RecoveryOps
    <3>2. \A g \in DOMAIN file' : \/ file'[g].parent_directory = file[g].parent_directory
                                  \/ w = Adopt(file'[g].parent_directory, g)
      BY <1>7, <1>9, <1>11, <2>6
    <3>3. \A d, g : w = Adopt(d, g) /\ g \in DOMAIN file' => file'[g].parent_directory = d
      BY <1>7, <1>9, <1>11, <2>5
    <3>4. \A g \in DOMAIN file' : /\ g \in DOMAIN file
                                  /\ file'[g].owner = file[g].owner
                                  /\ file'[g].revision = file[g].revision
      BY <1>7, <1>9, <1>11
    <3> QED
      BY <1>2, <3>1, <3>2, <3>3, <3>4, RecoveryTail DEF w
  <2> QED
    BY <1>8, <2>4, <2>7
<1> QED
  BY <1>10, <1>11

\* put_directory: a file or a sub-directory leaves a list, a file comes back.
LEMMA ModifyDirectoryKeeps ==
  ASSUME CatalogAssumption, TypeOK, StoreInv, NEW s, s = run.todo, s # <<>>, Ready(s),
         ModifyDirectory
  PROVE  TypeOK' /\ StoreInv' /\ Ready(Tail(s))'
<1> DEFINE w == s[1]
           d == w.dir
<1>1. s \in Seq(Writes) /\ w \in Writes /\ W = w /\ Backed(s, 1) /\ s[1] = w
  BY SMTT(30), FirstWrite
<1>2. /\ UNCHANGED <<user, file, stored, ticket>>
      /\ \/ w.op = "unlist" /\ dir' = [dir EXCEPT ![d].files_contained = @ \ {w.file}]
         \/ w.op = "relist" /\ dir' = [dir EXCEPT ![d].files_contained = @ \cup {w.file}]
         \/ w.op = "unlist_dir" /\ dir' = [dir EXCEPT ![d].directories_contained = @ \ {w.child}]
  <2>1. /\ Next1("unlist") => w.op = "unlist"
        /\ Next1("relist") => w.op = "relist"
        /\ Next1("unlist_dir") => w.op = "unlist_dir"
    BY FirstWrite
  <2> QED
    BY <1>1, <2>1 DEF ModifyDirectory
<1>3. w.op = "relist" => w.file \in FileId /\ d \in DirId
  BY <1>1, WriteFields
<1>4. w.op = "relist" => /\ w.file < ticket.file /\ d \in DOMAIN dir
                         /\ w.file \in DOMAIN file => file[w.file].parent_directory = d
  BY <1>1 DEF Backed
<1>5. w.op = "unlist_dir" => w.child \notin DOMAIN dir
  BY SMTT(30), <1>1 DEF Backed, GoneBefore
<1>6. \A u \in Users, g \in FileId : g \in Trash(u)' => g \in Trash(u)
  BY <1>2 DEF Trash
<1>7. \A x : w.op # "erase_dir" => w # EraseDir(x)
  BY DEF EraseDir
<1> HIDE DEF w, d
<1>8. CASE w.op \in {"unlist", "relist"}
  <2> DEFINE F == IF w.op = "unlist" THEN dir[d].files_contained \ {w.file}
                  ELSE dir[d].files_contained \cup {w.file}
  <2>1. dir' = [dir EXCEPT ![d].files_contained = F]
    BY <1>2, <1>8
  <2>2. d \in DOMAIN dir => F \subseteq FileId
    BY <1>3, <1>8 DEF TypeOK, DirRecord
  <2>3. \A g \in F : g \in dir[d].files_contained \/ (w.op = "relist" /\ g = w.file)
    BY <1>8
  <2> HIDE DEF F
  <2>4. /\ dir' \in [DOMAIN dir' -> DirRecord] /\ DOMAIN dir' = DOMAIN dir
        /\ \A x \in DOMAIN dir :
             /\ dir'[x].parent_directory = dir[x].parent_directory
             /\ dir'[x].directories_contained = dir[x].directories_contained
             /\ dir'[x].files_contained = IF x = d THEN F ELSE dir[x].files_contained
    BY <2>1, <2>2, FilesEdited
  <2>5. TypeOK'
    BY <1>2, <2>4 DEF TypeOK
  <2>6. \A x \in DOMAIN dir : \A g \in dir'[x].files_contained :
          g \in dir[x].files_contained \/ (w.op = "relist" /\ g = w.file /\ x = d)
    BY <2>3, <2>4
  <2>7. \A g \in FileId : g >= ticket'.file => FreshFile(g)'
    <3> SUFFICES ASSUME NEW g \in FileId, g >= ticket.file PROVE FreshFile(g)'
      BY <1>2
    <3>1. FreshFile(g)
      BY DEF StoreInv
    <3>2. ~ (w.op = "relist" /\ g = w.file)
      BY <1>4 DEF FileId, TypeOK, CatalogAssumption
    <3> QED
      BY <1>2, <1>6, <2>4, <2>6, <3>1, <3>2 DEF FreshFile
  <2>8. ListedWhereItSays'
    <3> SUFFICES ASSUME NEW x \in DOMAIN dir, NEW g \in dir'[x].files_contained, g \in DOMAIN file
                 PROVE  file[g].parent_directory = x
      BY <1>2, <2>4 DEF ListedWhereItSays
    <3>1. CASE g \in dir[x].files_contained
      BY <3>1 DEF StoreInv, ListedWhereItSays
    <3>2. CASE w.op = "relist" /\ g = w.file /\ x = d
      BY <1>4, <3>2
    <3> QED
      BY <2>6, <3>1, <3>2
  <2>9. StoreInv'
    BY <1>2, <2>4, <2>7, <2>8 DEF StoreInv, ClimbsEnd, Trash
  <2>10. Ready(Tail(s))'
    <3>1. CASE w.op = "unlist"
      <4>1. w.op \in DeletionOps
        BY <3>1 DEF DeletionOps
      <4> QED
        BY <1>1, <1>2, <1>7, <2>4, <3>1, <4>1, DeletionTail
    <3>2. CASE w.op = "relist"
      <4>1. w.op \in RecoveryOps /\ \A x, g : w # Adopt(x, g)
        BY <3>2 DEF RecoveryOps, Adopt
      <4> QED
        BY <1>1, <1>2, <2>4, <4>1, RecoveryTail
    <3> QED
      BY <1>8, <3>1, <3>2
  <2> QED
    BY <2>5, <2>9, <2>10
<1>9. CASE w.op = "unlist_dir"
  <2> DEFINE D == dir[d].directories_contained \ {w.child}
  <2>1. dir' = [dir EXCEPT ![d].directories_contained = D]
    BY <1>2, <1>9
  <2>2. d \in DOMAIN dir => D \subseteq DirId
    BY DEF TypeOK, DirRecord
  <2>3. /\ D \subseteq dir[d].directories_contained
        /\ \A x \in dir[d].directories_contained : x \in D \/ x = w.child
    OBVIOUS
  <2> HIDE DEF D
  <2>4. /\ dir' \in [DOMAIN dir' -> DirRecord] /\ DOMAIN dir' = DOMAIN dir
        /\ \A x \in DOMAIN dir :
             /\ dir'[x].parent_directory = dir[x].parent_directory
             /\ dir'[x].files_contained = dir[x].files_contained
             /\ dir'[x].directories_contained = IF x = d THEN D
                                                ELSE dir[x].directories_contained
    BY ZenonT(40), <2>1, <2>2, DirectoriesEdited
  <2>5. TypeOK'
    BY <1>2, <2>4 DEF TypeOK
  <2>6. ASSUME NEW x \in DOMAIN dir, dir[x].parent_directory # NoParent
        PROVE  /\ dir[x].parent_directory \in DOMAIN dir
               /\ x \in dir'[dir[x].parent_directory].directories_contained
    <3>1. /\ dir[x].parent_directory \in DOMAIN dir
          /\ x \in dir[dir[x].parent_directory].directories_contained
      BY <2>6 DEF StoreInv, ClimbsEnd
    <3>2. x # w.child
      BY <1>5, <1>9
    <3> QED
      BY <2>3, <2>4, <3>1, <3>2
  <2>7. StoreInv'
    <3>1. \A x \in DOMAIN dir' :
            /\ x \in DOMAIN dir
            /\ dir'[x].parent_directory = dir[x].parent_directory
            /\ dir'[x].files_contained \subseteq dir[x].files_contained
            /\ dir'[x].directories_contained \subseteq dir[x].directories_contained
            /\ dir'[x].parent_directory # NoParent =>
                 /\ dir'[x].parent_directory \in DOMAIN dir'
                 /\ x \in dir'[dir'[x].parent_directory].directories_contained
      BY <2>3, <2>4, <2>6
    <3> QED
      BY <1>2, <1>6, <3>1, StoreKept
  <2>8. Ready(Tail(s))'
    <3>1. w.op \in DeletionOps
      BY <1>9 DEF DeletionOps
    <3> QED
      BY <1>1, <1>2, <1>7, <1>9, <2>4, <3>1, DeletionTail
  <2> QED
    BY <2>5, <2>7, <2>8
<1> QED
  BY <1>2, <1>8, <1>9

\* delete_key: a directory without sub-directories, or a file.
LEMMA EraseRecordKeeps ==
  ASSUME CatalogAssumption, TypeOK, StoreInv, NEW s, s = run.todo, s # <<>>, Ready(s),
         EraseRecord
  PROVE  TypeOK' /\ StoreInv' /\ Ready(Tail(s))'
<1> DEFINE w == s[1]
<1>1. s \in Seq(Writes) /\ w \in Writes /\ W = w /\ Backed(s, 1) /\ s[1] = w
  BY FirstWrite
<1>2. /\ UNCHANGED <<user, stored, ticket>>
      /\ \/ w.op = "erase_dir" /\ dir' = Erase(dir, {w.dir}) /\ file' = file
         \/ w.op = "erase_file" /\ file' = Erase(file, {w.file}) /\ dir' = dir
  <2>1. /\ Next1("erase_dir") => w.op = "erase_dir"
        /\ Next1("erase_file") => w.op = "erase_file"
    BY FirstWrite
  <2> QED
    BY <1>1, <2>1 DEF EraseRecord
<1>3. w.op = "erase_dir" => \A c \in DOMAIN dir : dir[c].parent_directory # w.dir
  BY <1>1 DEF Backed, GoneBefore
<1>4. \A x : w = EraseDir(x) => w.op = "erase_dir" /\ w.dir = x
  BY DEF EraseDir
<1>5. \A u \in Users, g \in FileId : g \in Trash(u)' => g \in Trash(u)
  BY <1>2 DEF Trash
<1> HIDE DEF w
<1>6. CASE w.op = "erase_dir"
  <2>1. /\ DOMAIN dir' = DOMAIN dir \ {w.dir} /\ file' = file
        /\ \A x \in DOMAIN dir' : dir'[x] = dir[x]
        /\ dir' = [x \in DOMAIN dir \ {w.dir} |-> dir[x]]
    BY <1>2, <1>6 DEF Erase
  <2>2. TypeOK'
    BY <1>2, <2>1 DEF TypeOK
  <2>3. \A x \in DOMAIN dir' :
          /\ x \in DOMAIN dir
          /\ dir'[x].parent_directory = dir[x].parent_directory
          /\ dir'[x].files_contained \subseteq dir[x].files_contained
          /\ dir'[x].directories_contained \subseteq dir[x].directories_contained
          /\ dir'[x].parent_directory # NoParent =>
               /\ dir'[x].parent_directory \in DOMAIN dir'
               /\ x \in dir'[dir'[x].parent_directory].directories_contained
    BY <1>3, <1>6, <2>1 DEF StoreInv, ClimbsEnd
  <2>4. StoreInv'
    <3>1. \A f \in DOMAIN file' : /\ f \in DOMAIN file
                                  /\ file'[f].owner = file[f].owner
                                  /\ file'[f].parent_directory = file[f].parent_directory
      BY <2>1
    <3>2. ticket' = ticket
      BY <1>2
    <3> HIDE <2>1, <1>2
    <3> QED
      BY <1>5, <2>3, <3>1, <3>2, StoreKept
  <2>5. Ready(Tail(s))'
    <3>1. w.op \in DeletionOps
      BY <1>6 DEF DeletionOps
    <3> QED
      BY <1>1, <1>2, <1>4, <2>1, <2>3, <3>1, DeletionTail
  <2> QED
    BY <2>2, <2>4, <2>5
<1>7. CASE w.op = "erase_file"
  <2>1. /\ DOMAIN file' = DOMAIN file \ {w.file} /\ dir' = dir
        /\ \A x \in DOMAIN file' : file'[x] = file[x]
        /\ file' = [x \in DOMAIN file \ {w.file} |-> file[x]]
    BY <1>2, <1>7 DEF Erase
  <2>2. TypeOK'
    BY <1>2, <2>1 DEF TypeOK
  <2>3. StoreInv'
    BY <1>2, <1>5, <2>1, StoreKept, DirKept
  <2>4. Ready(Tail(s))'
    <3>1. w.op \in PurgeOps
      BY <1>7 DEF PurgeOps
    <3> QED
      BY <1>1, <1>2, <2>1, <3>1, PurgeTail
  <2> QED
    BY <2>2, <2>3, <2>4
<1> QED
  BY <1>2, <1>6, <1>7
----------------------------------------------------------------------------
(* The invariant of requests that stop anywhere.  Between any two writes    *)
(* the store is sound, and the writes still to do find what they need; a    *)
(* crash only drops them.                                                   *)

StepsInv ==
  /\ TypeOK /\ StoreInv /\ Ready(run.todo)
  /\ run.todo = <<>> => run = Idle /\ before = Nothing
  /\ run.todo # <<>> =>
       /\ run.user \in Users /\ Len(before) = 5
       /\ run = [user |-> run.user, ask |-> run.ask, todo |-> run.todo,
                 ok |-> run.ok, begun |-> run.begun]
  /\ owed = [u \in Users |-> owed[u]]
  /\ \A u \in Users : owed[u].kind \in Repeatable \cup {"none"}
  /\ hurt \subseteq Users /\ crashes \in 0 .. MaxCrashes

\* Readiness is about the records, and about the writes still to do.
LEMMA ReadyKept ==
  ASSUME NEW t, Ready(t), UNCHANGED <<user, dir, file, ticket>>
  PROVE  Ready(t)'
<1>1. PICK K \in Kinds : t \in Planned(K) /\ \A i \in DOMAIN t : Placed(t, i)
  BY DEF Ready
<1>2. \A f : FreshFile(f) => FreshFile(f)'
  BY DEF FreshFile, Trash
<1>3. ASSUME NEW i, Backed(t, i) PROVE Backed(t, i)'
  BY <1>3 DEF Backed, GoneBefore, InTrash, Trash
<1>4. ASSUME NEW i, Placed(t, i) PROVE Placed(t, i)'
  BY <1>2, <1>4 DEF Placed
<1>5. t \in Planned(K)'
  BY <1>1, <1>3 DEF Planned, Writes, SharingOps, Users, FileId, DirId, NoParent
<1> QED
  BY <1>1, <1>4, <1>5 DEF Ready, Kinds, DeletionOps, PurgeOps, RecoveryOps, SharingOps

LEMMA ReadyNext ==
  ASSUME NEW t, Ready(t)', run'.todo = t
  PROVE  Ready(run.todo)'
OBVIOUS

LEMMA StoreQuiet ==
  ASSUME TypeOK, StoreInv, UNCHANGED store
  PROVE  TypeOK' /\ StoreInv'
BY DEF TypeOK, StoreInv, store, FreshFile, Trash, ListedWhereItSays, ClimbsEnd

\* After sign-up there is no file, and directory 2u is the child of 2u - 1.
LEMMA InitStore == ASSUME CatalogAssumption, Init PROVE StoreInv
<1>1. Climb
  BY InitClimb
<1>2. Ids
  BY InitIds
<1>3. /\ DOMAIN file = {} /\ ticket.file = 1 /\ DOMAIN dir = 1 .. 2 * NumUsers
      /\ \A d \in DOMAIN dir : dir[d].files_contained = {}
      /\ \A u \in Users : Trash(u) = {}
  BY DEF Init, EmptyDir, Trash
<1>4. \A f \in FileId : f >= ticket.file => FreshFile(f)
  BY <1>3 DEF FreshFile
<1>5. \A d \in DOMAIN dir : d < ticket.dir
  BY <1>2 DEF Ids, IdsBelowTicket
<1>6. ASSUME NEW d \in DOMAIN dir, NEW c \in dir[d].directories_contained PROVE c > d
  <2>1. dir[d].directories_contained \subseteq {d + 1} /\ d \in Nat
    BY <1>3 DEF Init, EmptyDir, CatalogAssumption
  <2> QED
    BY <1>6, <2>1
<1> QED
  BY <1>1, <1>3, <1>4, <1>5, <1>6 DEF StoreInv, Climb, ChildrenListed, ListedWhereItSays

LEMMA InitSteps == ASSUME CatalogAssumption, StepsAssumption, StepsInit PROVE StepsInv
<1>1. TypeOK /\ StoreInv
  BY InitTypeOK, InitStore DEF StepsInit
<1>2. run = Idle /\ run.todo = <<>> /\ before = Nothing
  BY DEF StepsInit, Idle
<1>3. Ready(<<>>)
  BY PlannedEmpty DEF Ready, Kinds
<1>4. /\ owed = [u \in Users |-> owed[u]]
      /\ \A u \in Users : owed[u].kind \in Repeatable \cup {"none"}
      /\ hurt \subseteq Users /\ crashes \in 0 .. MaxCrashes
  BY DEF StepsInit, NoAsk, StepsAssumption
<1> QED
  BY <1>1, <1>2, <1>3, <1>4 DEF StepsInv

\* A request plans its writes and changes nothing.
LEMMA RequestKeeps ==
  ASSUME CatalogAssumption, StepsInv, Request
  PROVE  StepsInv'
<1>1. PICK u \in Users : \E ask, program : Start(u, ask, program) /\ Ready(program.todo)
  BY RequestReady DEF StepsInv
<1>2. PICK ask, program : Start(u, ask, program) /\ Ready(program.todo)
  BY <1>1
<1> DEFINE t == program.todo
<1>3. /\ Ready(t) /\ t # <<>>
      /\ UNCHANGED <<user, dir, file, stored, ticket, owed, hurt, crashes>>
      /\ run' = [user |-> u, ask |-> ask, todo |-> t, ok |-> program.ok, begun |-> FALSE]
      /\ before' = store
  BY <1>2 DEF Start
<1> HIDE DEF t
<1>4. TypeOK' /\ StoreInv'
  BY <1>3, StoreQuiet DEF StepsInv, store
<1>5. Ready(t)'
  BY <1>3, ReadyKept
<1>6. run'.todo = t
  BY <1>3
<1>7. Ready(run.todo)'
  BY <1>5, <1>6, ReadyNext
<1>8. Len(before') = 5
  BY <1>3 DEF store
<1> QED
  BY <1>3, <1>4, <1>6, <1>7, <1>8 DEF StepsInv

\* A write is the next one, whichever it is.
LEMMA WriteKeepsStore ==
  ASSUME CatalogAssumption, TypeOK, StoreInv, NEW s, s = run.todo, s # <<>>, Ready(s), Write
  PROVE  TypeOK' /\ StoreInv' /\ Ready(Tail(s))'
BY SMTT(30), CreateIdKeeps, AddDirectoryKeeps, AddFileKeeps, PhysicalFileKeeps, ModifyUserKeeps,
   ModifyFileKeeps, ModifyDirectoryKeeps, EraseRecordKeeps DEF Write

LEMMA WriteAdvances ==
  ASSUME Write
  PROVE  run # Idle /\ Advance
BY DEF Write, CreateId, AddDirectory, AddFile, PhysicalFile, ModifyUser, ModifyFile,
       ModifyDirectory, EraseRecord, Next1

LEMMA WriteKeeps ==
  ASSUME CatalogAssumption, StepsInv, Write
  PROVE  StepsInv'
<1>1. run # Idle /\ Advance
  BY WriteAdvances
<1>2. PICK s : s = run.todo
  OBVIOUS
<1>3. s # <<>> /\ Ready(s) /\ TypeOK /\ StoreInv
  BY <1>1, <1>2 DEF StepsInv
<1>4. s \in Seq(Writes)
  BY <1>2, <1>3, FirstWrite
<1>5. TypeOK' /\ StoreInv' /\ Ready(Tail(s))'
  BY <1>2, <1>3, WriteKeepsStore
<1> DEFINE t == Tail(s)
<1>6. t \in Seq(Writes) /\ Len(t) = Len(s) - 1 /\ Len(s) \in Nat \ {0}
  BY <1>3, <1>4, Rest
<1>7. /\ run = [user |-> run.user, ask |-> run.ask, todo |-> run.todo,
                ok |-> run.ok, begun |-> run.begun]
      /\ run.user \in Users /\ Len(before) = 5
  BY <1>2, <1>3 DEF StepsInv
<1>8. CASE Len(s) > 1
  <2>1. /\ run' = [run EXCEPT !.todo = t, !.begun = @ \/ W.op # "draw"]
        /\ UNCHANGED <<before, owed, hurt, crashes>>
    BY <1>1, <1>2, <1>8 DEF Advance
  <2> HIDE DEF t
  <2>2. t # <<>>
    BY <1>6, <1>8
  <2>3. /\ run'.todo = t /\ run'.user = run.user
        /\ run' = [user |-> run'.user, ask |-> run'.ask, todo |-> run'.todo,
                   ok |-> run'.ok, begun |-> run'.begun]
    BY <1>7, <2>1
  <2>4. Ready(run.todo)'
    BY <1>5, <2>3, ReadyNext DEF t
  <2> QED
    BY <1>5, <1>7, <2>1, <2>2, <2>3, <2>4 DEF StepsInv
<1>9. CASE ~(Len(s) > 1)
  <2>1. /\ run' = Idle /\ before' = Nothing /\ UNCHANGED <<hurt, crashes>>
        /\ owed' = IF run.ok THEN [owed EXCEPT ![run.user] = NoAsk] ELSE owed
    BY <1>1, <1>2, <1>9 DEF Advance
  <2>2. run'.todo = <<>>
    BY <2>1 DEF Idle
  <2>3. Ready(run.todo)'
    BY <2>2, ReadyEmpty, ReadyNext
  <2>4. /\ owed' = [u \in Users |-> owed'[u]]
        /\ \A u \in Users : owed'[u].kind \in Repeatable \cup {"none"}
    BY <1>7, <2>1 DEF StepsInv, NoAsk
  <2> QED
    BY <1>5, <2>1, <2>2, <2>3, <2>4 DEF StepsInv
<1> QED
  BY <1>8, <1>9

\* A crash drops the writes that are left.
LEMMA CrashKeeps ==
  ASSUME CatalogAssumption, StepsAssumption, StepsInv, Crash
  PROVE  StepsInv'
<1>1. run' = Idle /\ before' = Nothing /\ UNCHANGED store /\ run'.todo = <<>>
  BY DEF Crash, store, Idle
<1>2. TypeOK' /\ StoreInv'
  BY <1>1, StoreQuiet DEF StepsInv
<1>3. Ready(run.todo)'
  BY <1>1, ReadyEmpty, ReadyNext
<1>4. run.user \in Users
  BY DEF Crash, StepsInv
<1>5. CASE UNCHANGED <<owed, hurt, crashes>>
  BY <1>1, <1>2, <1>3, <1>5 DEF StepsInv
<1>6. CASE /\ crashes < MaxCrashes /\ crashes' = crashes + 1
           /\ \/ /\ run.ask.kind \in Repeatable
                 /\ owed' = [owed EXCEPT ![run.user] = run.ask] /\ UNCHANGED hurt
              \/ /\ hurt' = hurt \cup {run.user}
                 /\ owed' = [owed EXCEPT ![run.user] = NoAsk]
  <2>1. crashes' \in 0 .. MaxCrashes
    BY <1>6 DEF StepsInv, StepsAssumption
  <2>2. hurt' \subseteq Users
    BY <1>4, <1>6 DEF StepsInv
  <2>3. /\ owed' = [u \in Users |-> owed'[u]]
        /\ \A u \in Users : owed'[u].kind \in Repeatable \cup {"none"}
    BY <1>4, <1>6 DEF StepsInv, NoAsk
  <2> QED
    BY <1>1, <1>2, <1>3, <2>1, <2>2, <2>3 DEF StepsInv
<1> QED
  BY <1>5, <1>6 DEF Crash

LEMMA QuietKeeps ==
  ASSUME StepsInv, UNCHANGED stepVars
  PROVE  StepsInv'
<1>1. UNCHANGED <<user, dir, file, stored, ticket, run, before, owed, hurt, crashes>>
  BY DEF stepVars
<1>2. TypeOK' /\ StoreInv'
  BY <1>1, StoreQuiet DEF StepsInv, store
<1>3. PICK t : t = run.todo
  OBVIOUS
<1>4. Ready(t)'
  BY <1>1, <1>3, ReadyKept DEF StepsInv
<1>5. Ready(run.todo)'
  BY <1>1, <1>3, <1>4, ReadyNext
<1> QED
  BY <1>1, <1>2, <1>5 DEF StepsInv

LEMMA NextSteps ==
  ASSUME CatalogAssumption, StepsAssumption, StepsInv, [StepsNext]_stepVars
  PROVE  StepsInv'
<1>1. CASE Request
  BY <1>1, RequestKeeps
<1>2. CASE Write
  BY <1>2, WriteKeeps
<1>3. CASE Crash
  BY <1>3, CrashKeeps
<1>4. CASE UNCHANGED stepVars
  BY <1>4, QuietKeeps
<1> QED
  BY <1>1, <1>2, <1>3, <1>4 DEF StepsNext, CrashAtRest

LEMMA StepsAlways == StepsSpec => []StepsInv
<1> USE CatalogAssumption, StepsAssumption
<1>1. StepsInit => StepsInv
  BY InitSteps
<1>2. StepsInv /\ [StepsNext]_stepVars => StepsInv'
  BY NextSteps
<1> QED
  BY <1>1, <1>2, PTL DEF StepsSpec

\* Whatever requests die and wherever, every record has its fields, and a request
\* in progress has writes left and the store it started from.
THEOREM StepsTypeCorrect == StepsSpec => []StepsTypeOK
<1>1. StepsInv => StepsTypeOK
  BY DEF StepsInv, StepsTypeOK, Idle
<1> QED
  BY <1>1, StepsAlways, PTL

\* Between any two writes of put_directory, put_file and delete_key, and after any
\* crashes, a file is listed by the directory it names and by no other.
THEOREM StepsListOnce == StepsSpec => []ListedWhereItSays
<1>1. StepsInv => ListedWhereItSays
  BY DEF StepsInv, StoreInv
<1> QED
  BY <1>1, StepsAlways, PTL

\* delete_dir_recursive may die after any of its writes: whoever climbs from a
\* directory that is left still gets to a root.
THEOREM StepsClimb == StepsSpec => []ClimbsEnd
<1>1. StepsInv => ClimbsEnd
  BY DEF StepsInv, StoreInv
<1> QED
  BY <1>1, StepsAlways, PTL

LEMMA NextErasesTrash ==
  ASSUME CatalogAssumption, StepsInv, [StepsNext]_stepVars
  PROVE  \A f \in DOMAIN file : f \in DOMAIN file' \/ InTrash(f)
<1>1. CASE UNCHANGED file
  BY <1>1
<1>2. CASE AddFile
  BY <1>2 DEF AddFile, Put
<1>3. CASE ModifyFile
  BY <1>3 DEF ModifyFile
<1>4. CASE EraseRecord /\ Next1("erase_file") /\ file' = Erase(file, {W.file})
  <2>1. PICK s : s = run.todo
    OBVIOUS
  <2>2. s # <<>> /\ Ready(s)
    BY <1>4, <2>1 DEF StepsInv, Next1
  <2>3. Backed(s, 1) /\ W = s[1]
    BY <2>1, <2>2, FirstWrite
  <2>4. s[1].op = "erase_file"
    BY <1>4, <2>3 DEF Next1, W
  <2>5. s[1].file \in DOMAIN file => InTrash(s[1].file)
    BY <2>3, <2>4 DEF Backed
  <2>6. DOMAIN file' = DOMAIN file \ {s[1].file}
    BY <1>4, <2>3 DEF Erase
  <2> QED
    BY <2>5, <2>6
<1>5. \/ UNCHANGED file \/ AddFile \/ ModifyFile
      \/ EraseRecord /\ Next1("erase_file") /\ file' = Erase(file, {W.file})
  <2>1. CASE Request
    BY <2>1, RequestReady DEF StepsInv, Start
  <2>2. CASE Write
    BY <2>2 DEF Write, CreateId, AddDirectory, PhysicalFile, ModifyUser, ModifyDirectory,
                EraseRecord
  <2>3. CASE Crash \/ CrashAtRest \/ UNCHANGED stepVars
    BY <2>3 DEF Crash, CrashAtRest, stepVars
  <2> QED
    BY <2>1, <2>2, <2>3 DEF StepsNext
<1> QED
  BY <1>1, <1>2, <1>3, <1>4, <1>5

\* A purge that dies half-way, a repeated one, one after a deletion that died: none
\* erases the record of a file that is not in its owner's trash.
THEOREM StepsEraseTrash == StepsSpec => OnlyTrashIsErased
<1> USE CatalogAssumption
<1>1. StepsInv /\ [StepsNext]_stepVars
        => [\A f \in DOMAIN file : f \in DOMAIN file' \/ InTrash(f)]_stepVars
  BY NextErasesTrash
<1> QED
  BY <1>1, StepsAlways, PTL DEF StepsSpec, OnlyTrashIsErased

=============================================================================
