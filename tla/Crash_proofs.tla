----------------------------- MODULE Crash_proofs -----------------------------
(***************************************************************************)
(* The theorem about crashes: a request that dies hurts nobody but its own *)
(* user, for every number of users, every bound and any number of crashes. *)
(*                                                                         *)
(* Mending_proofs says what a program of writes has to be for that and     *)
(* what a write, a crash and a start then keep.  Here each request is      *)
(* shown to start with such a program: the short ones write by write, the  *)
(* loops by joining programs, the deletion of a tree by induction on the   *)
(* depth it reaches.                                                       *)
(***************************************************************************)
EXTENDS Mending_proofs

----------------------------------------------------------------------------
(* Loops.                                                                  *)

\* A list has every user and every file, each once.
LEMMA OrderCovers ==
  ASSUME CatalogAssumption, NEW o \in Orders
  PROVE  /\ Len(o) \in Nat /\ DOMAIN o = 1 .. Len(o)
         /\ \A i, j \in 1 .. Len(o) : o[i] = o[j] => i = j
         /\ \A x \in Users \cup FileId : \E j \in 1 .. Len(o) : o[j] = x
<1>1. PICK S : S = Users \cup FileId
  OBVIOUS
<1>2. PICK n : n = Cardinality(S)
  OBVIOUS
<1>3. IsFiniteSet(S) /\ n \in Nat
  <2>1. IsFiniteSet(Users) /\ IsFiniteSet(FileId)
    BY FS_Interval DEF CatalogAssumption, Users, FileId
  <2> QED
    BY <1>1, <1>2, <2>1, FS_Union, FS_CardinalityType
<1>4. o \in [1 .. n -> S] /\ \A i, j \in 1 .. n : i # j => o[i] # o[j]
  BY <1>1, <1>2 DEF Orders, SetToSeqs
<1>5. Len(o) = n /\ DOMAIN o = 1 .. n
  <2>1. \A m \in Nat : \A T : \A f \in [1 .. m -> T] : f \in Seq(T) /\ Len(f) = m
    OBVIOUS
  <2> QED
    BY <1>3, <1>4, <2>1
<1>6. o \in Injection(1 .. n, S)
  BY <1>4 DEF Injection, IsInjective
<1>7. IsFiniteSet(1 .. n) /\ Cardinality(1 .. n) = n
  BY <1>3, FS_Interval
<1>8. o \in Surjection(1 .. n, S)
  BY <1>2, <1>3, <1>6, <1>7, FS_Injection
<1>9. \A x \in S : \E j \in 1 .. n : o[j] = x
  BY <1>8 DEF Surjection
<1> QED
  BY <1>1, <1>3, <1>4, <1>5, <1>9

\* What holds of a loop after n elements of the list, by induction.
LEMMA ForEachInduct ==
  ASSUME NEW o, Len(o) \in Nat, NEW S, NEW B, \A x \in S : B[x] \in Programs(Seq(Writes)),
         NEW T, Do(<<>>) \in T[0],
         \A n \in 1 .. Len(o) : \A p \in Programs(Seq(Writes)) : p \in T[n - 1] =>
           /\ o[n] \in S => Then(p, B[o[n]]) \in T[n]
           /\ o[n] \notin S => p \in T[n]
  PROVE  ForEach(o, S, B) \in Programs(Seq(Writes)) \cap T[Len(o)]
<1>1. <<>> \in Seq(Writes) /\ \A s, t \in Seq(Writes) : s \o t \in Seq(Writes)
  BY Concatenation
<1>2. PICK done : /\ done = Loop(o, S, B, done)
                  /\ ForEach(o, S, B) = done[Len(o)]
                  /\ \A n \in 0 .. Len(o) : done[n] \in Programs(Seq(Writes))
  <2>1. PICK R : R = Seq(Writes)
    OBVIOUS
  <2>2. <<>> \in R /\ (\A s, t \in R : s \o t \in R) /\ \A x \in S : B[x] \in Programs(R)
    BY <1>1, <2>1
  <2>3. \E f : /\ f = Loop(o, S, B, f)
               /\ ForEach(o, S, B) = f[Len(o)]
               /\ \A n \in 0 .. Len(o) : f[n] \in Programs(R)
    BY SMTT(30), <2>2, LoopExists
  <2> QED
    BY <2>1, <2>3
<1> DEFINE A == {n \in 0 .. Len(o) : done[n] \in T[n]}
<1>3. 0 \in A
  <2>1. done[0] = Do(<<>>)
    BY <1>2 DEF Loop
  <2> QED
    BY <2>1
<1>4. ASSUME NEW n \in Nat, n < Len(o), n \in A
      PROVE  n + 1 \in A
  <2>1. n + 1 \in 0 .. Len(o) /\ n + 1 # 0 /\ (n + 1) - 1 = n /\ n \in 0 .. Len(o) /\ n + 1 \in 1 .. Len(o)
    BY <1>4
  <2>2. done[n + 1] = IF o[n + 1] \in S THEN Then(done[n], B[o[n + 1]]) ELSE done[n]
    BY <1>2, <2>1 DEF Loop
  <2>3. done[n] \in Programs(Seq(Writes)) /\ done[n] \in T[(n + 1) - 1]
    BY <1>2, <1>4, <2>1
  <2>4. done[n + 1] \in T[n + 1]
    BY <2>1, <2>2, <2>3
  <2> QED
    BY <2>1, <2>4
<1> HIDE DEF A
<1>5. \A n \in 0 .. Len(o) : n \in A
  BY <1>3, <1>4, IntervalInduction
<1>6. Len(o) \in A /\ Len(o) \in 0 .. Len(o)
  BY <1>5
<1> QED
  BY <1>2, <1>6 DEF A

\* The same, for what holds after any number of elements.
LEMMA ForEachIn ==
  ASSUME NEW o, Len(o) \in Nat, NEW S, NEW B, NEW U, U \subseteq Programs(Seq(Writes)),
         Do(<<>>) \in U, \A p, q \in U : Then(p, q) \in U, \A x \in S : B[x] \in U
  PROVE  ForEach(o, S, B) \in U
<1>1. PICK T : T = [n \in 0 .. Len(o) |-> U]
  OBVIOUS
<1>2. T[0] = U /\ \A n \in 1 .. Len(o) : T[n] = U /\ T[n - 1] = U
  <2>1. \A n \in 1 .. Len(o) : n \in 0 .. Len(o) /\ n - 1 \in 0 .. Len(o)
    OBVIOUS
  <2> QED
    BY <1>1, <2>1
<1>3. T[Len(o)] = U
  BY <1>1
<1>4. ForEach(o, S, B) \in Programs(Seq(Writes)) \cap T[Len(o)]
  BY <1>2, ForEachInduct
<1> QED
  BY <1>3, <1>4

\* A loop writes what the programs of its elements write, all of it if it gets to
\* its end.
LEMMA ForEachWrites ==
  ASSUME NEW X, X \subseteq Writes, NEW o, Len(o) \in Nat, NEW S, NEW B,
         \A x \in S : B[x] \in Programs(Seq(X))
  PROVE  ForEach(o, S, B) \in Programs(Seq(X))
<1>1. <<>> \in Seq(X) /\ \A s, t \in Seq(X) : s \o t \in Seq(X)
  OBVIOUS
<1>2. PICK T : T = Seq(X)
  OBVIOUS
<1>3. ForEach(o, S, B) \in Programs(T)
  BY <1>1, <1>2, ForEachType
<1> QED
  BY <1>2, <1>3

LEMMA ForEachHas ==
  ASSUME CatalogAssumption, NEW o \in Orders, NEW S \in SUBSET (Users \cup FileId), NEW B,
         \A x \in S : B[x] \in Programs(Seq(Writes)), ForEach(o, S, B).ok,
         NEW x \in S, NEW w \in WritesOf(B[x].todo)
  PROVE  w \in WritesOf(ForEach(o, S, B).todo)
<1>1. PICK j \in 1 .. Len(o) : o[j] = x
  BY OrderCovers
<1>2. Len(o) \in Nat /\ <<>> \in Seq(Writes) /\ \A s, t \in Seq(Writes) : s \o t \in Seq(Writes)
  BY OrderCovers, Concatenation
<1>3. Does(B[o[j]], w)
  BY <1>1 DEF Does, WritesOf
<1>4. Does(ForEach(o, S, B), w)
  BY <1>1, <1>2, <1>3, ForEachDoes
<1> QED
  BY <1>4 DEF Does, WritesOf

----------------------------------------------------------------------------
(* Good writes stay good when more is written before or after them.        *)

LEMMA GoodAs ==
  ASSUME NEW u, NEW s, NEW t, NEW i, NEW j, NEW D, NEW L, NEW E, NEW M,
         Good(u, s, i, D, L), D \subseteq E, L \subseteq M, t[j] = s[i],
         s[i].op \in {"grant_share", "revoke_share"} => i # 1 /\ j # 1 /\ t[j - 1] = s[i - 1]
  PROVE  Good(u, t, j, E, M)
<1>1. PICK w : w = s[i]
  OBVIOUS
<1>2. t[j] = w
  BY <1>1
<1>3. \A f : Emptied(L, u, f) => Emptied(M, u, f)
  BY DEF Emptied
<1>4. CASE w.op \in {"list_share", "unlist_share"}
  BY <1>1, <1>2, <1>4 DEF Good
<1>5. CASE w.op = "grant_share"
  BY <1>1, <1>2, <1>5 DEF Good
<1>6. CASE w.op = "revoke_share"
  BY <1>1, <1>2, <1>6 DEF Good
<1>7. CASE w.op = "trash"
  BY <1>1, <1>2, <1>7 DEF Good
<1>8. CASE w.op = "unlist"
  BY <1>1, <1>2, <1>8 DEF Good
<1>9. CASE w.op = "erase_dir"
  BY <1>1, <1>2, <1>9 DEF Good
<1>10. CASE w.op = "remove"
  BY <1>1, <1>2, <1>10 DEF Good
<1>11. CASE w.op = "erase_file"
  BY <1>1, <1>2, <1>3, <1>11 DEF Good
<1>12. CASE w.op = "empty_trash"
  BY <1>1, <1>2, <1>12 DEF Good
<1>13. CASE w.op = "relist"
  BY <1>1, <1>2, <1>3, <1>13 DEF Good
<1>14. CASE w.op = "add_file"
  BY <1>1, <1>2, <1>14 DEF Good
<1>15. CASE w.op = "save"
  BY <1>1, <1>2, <1>15 DEF Good
<1>16. CASE w.op = "revise"
  BY <1>1, <1>2, <1>16 DEF Good
<1>17. CASE w.op \notin {"list_share", "unlist_share", "grant_share", "revoke_share", "trash", "unlist",
                         "erase_dir", "remove", "erase_file", "empty_trash", "relist", "add_file",
                         "save", "revise"}
  BY <1>2, <1>17 DEF Good
<1> QED
  BY <1>4, <1>5, <1>6, <1>7, <1>8, <1>9, <1>10, <1>11, <1>12, <1>13, <1>14, <1>15, <1>16, <1>17

\* Sequences of writes of sort K that are good once P is written before them and Q
\* after them, wherever they stand.
Sound(u, K, P, Q) ==
  {s \in Seq(Writes) :
     /\ s # <<>> => s[1].op \notin {"grant_share", "revoke_share"}
     /\ \A i \in DOMAIN s : s[i].op \in K /\ Good(u, s, i, P \cup Done(s, i), Q \cup Left(s, i))}

\* Where a write of r, the sequences s and t one after the other, comes from.
Joined(s, t, r, i) ==
  \/ /\ i \in DOMAIN s /\ r[i] = s[i] /\ Done(r, i) = Done(s, i)
     /\ Left(r, i) = Left(s, i) \cup WritesOf(t)
     /\ i # 1 => r[i - 1] = s[i - 1]
  \/ \E j \in DOMAIN t :
       /\ r[i] = t[j]
       /\ Done(r, i) = WritesOf(s) \cup Done(t, j)
       /\ Left(r, i) = Left(t, j)
       /\ j # 1 => i # 1 /\ r[i - 1] = t[j - 1]

LEMMA ConcatWrites ==
  ASSUME NEW s \in Seq(Writes), NEW t \in Seq(Writes), NEW r, r = s \o t
  PROVE  /\ r \in Seq(Writes) /\ WritesOf(r) = WritesOf(s) \cup WritesOf(t)
         /\ \A i \in DOMAIN r : Joined(s, t, r, i)
<1>2. PICK m \in Nat : m = Len(s)
  OBVIOUS
<1>3. PICK n \in Nat : n = Len(t)
  OBVIOUS
<1>4. /\ r \in Seq(Writes) /\ Len(r) = m + n /\ DOMAIN r = 1 .. m + n
      /\ DOMAIN s = 1 .. m /\ DOMAIN t = 1 .. n
      /\ \A i \in 1 .. m : r[i] = s[i]
      /\ \A i \in 1 .. n : r[m + i] = t[i]
  <2>1. r \in Seq(Writes) /\ Len(r) = m + n
    BY <1>2, <1>3, Concatenation
  <2>2. \A i \in 1 .. m : r[i] = s[i]
    BY <1>2, Concatenation
  <2>3. \A i \in 1 .. n : r[m + i] = t[i]
    BY <1>2, <1>3, Concatenation
  <2> QED
    BY <1>2, <1>3, <2>1, <2>2, <2>3
<1>5. WritesOf(s) = {s[i] : i \in 1 .. m} /\ WritesOf(t) = {t[i] : i \in 1 .. n}
  BY <1>4 DEF WritesOf
<1>6. \A i \in 1 .. m + n : i \in 1 .. m \/ (i - m \in 1 .. n /\ i = m + (i - m) /\ ~(i <= m))
  OBVIOUS
<1>7. \A x : x \in WritesOf(r) <=> x \in WritesOf(s) \/ x \in WritesOf(t)
  <2>1. ASSUME NEW i \in 1 .. m PROVE i \in 1 .. m + n /\ r[i] = s[i]
    BY <1>4
  <2>2. ASSUME NEW i \in 1 .. n PROVE m + i \in 1 .. m + n /\ r[m + i] = t[i]
    BY <1>4
  <2>3. ASSUME NEW i \in 1 .. m + n PROVE r[i] \in WritesOf(s) \/ r[i] \in WritesOf(t)
    <3>1. CASE i \in 1 .. m
      BY <1>4, <1>5, <3>1
    <3>2. CASE i - m \in 1 .. n /\ i = m + (i - m)
      BY <1>4, <1>5, <3>2
    <3> QED
      BY <1>6, <3>1, <3>2
  <2>4. WritesOf(r) = {r[i] : i \in 1 .. m + n}
    BY <1>4 DEF WritesOf
  <2> QED
    BY <1>5, <2>1, <2>2, <2>3, <2>4
<1>8. ASSUME NEW i \in 1 .. m
      PROVE  /\ r[i] = s[i] /\ Done(r, i) = Done(s, i)
             /\ Left(r, i) = Left(s, i) \cup WritesOf(t)
             /\ i # 1 => r[i - 1] = s[i - 1]
  <2>1. \A j \in 1 .. i - 1 : j \in 1 .. m
    OBVIOUS
  <2>2. Done(r, i) = Done(s, i)
    BY <1>4, <2>1 DEF Done
  <2>3. i # 1 => i - 1 \in 1 .. m
    OBVIOUS
  <2>4. Left(r, i) = {r[j] : j \in i + 1 .. m + n} /\ Left(s, i) = {s[j] : j \in i + 1 .. m}
    BY <1>2, <1>4 DEF Left
  <2>5. \A x : x \in Left(r, i) <=> x \in Left(s, i) \/ x \in WritesOf(t)
    <3>1. ASSUME NEW j \in i + 1 .. m PROVE j \in i + 1 .. m + n /\ r[j] = s[j]
      BY <1>4
    <3>2. ASSUME NEW j \in 1 .. n PROVE m + j \in i + 1 .. m + n /\ r[m + j] = t[j]
      BY <1>4
    <3>3. ASSUME NEW j \in i + 1 .. m + n PROVE r[j] \in Left(s, i) \/ r[j] \in WritesOf(t)
      <4>1. j \in 1 .. m + n
        OBVIOUS
      <4>2. CASE j \in 1 .. m
        BY <1>4, <2>4, <3>3, <4>2
      <4>3. CASE j - m \in 1 .. n /\ j = m + (j - m)
        BY <1>4, <1>5, <4>3
      <4> QED
        BY <1>6, <4>1, <4>2, <4>3
    <3> QED
      BY ZenonT(40), <1>5, <2>4, <3>1, <3>2, <3>3
  <2> QED
    BY <1>4, <2>2, <2>3, <2>5
<1>9. ASSUME NEW j \in 1 .. n
      PROVE  /\ r[m + j] = t[j] /\ Done(r, m + j) = WritesOf(s) \cup Done(t, j)
             /\ Left(r, m + j) = Left(t, j)
             /\ j # 1 => m + j # 1 /\ r[(m + j) - 1] = t[j - 1]
  <2>1. j # 1 => j - 1 \in 1 .. n /\ (m + j) - 1 = m + (j - 1) /\ m + j # 1
    OBVIOUS
  <2>2. Left(r, m + j) = {r[k] : k \in (m + j) + 1 .. m + n} /\ Left(t, j) = {t[k] : k \in j + 1 .. n}
    BY <1>3, <1>4 DEF Left
  <2>3. Left(r, m + j) = Left(t, j)
    <3>1. ASSUME NEW k \in j + 1 .. n PROVE m + k \in (m + j) + 1 .. m + n /\ r[m + k] = t[k]
      BY <1>4
    <3>2. ASSUME NEW k \in (m + j) + 1 .. m + n
          PROVE  k - m \in j + 1 .. n /\ r[k] = t[k - m]
      <4>1. k - m \in j + 1 .. n /\ k - m \in 1 .. n /\ m + (k - m) = k
        OBVIOUS
      <4>2. r[m + (k - m)] = t[k - m]
        BY <1>4, <4>1
      <4> QED
        BY <4>1, <4>2
    <3>3. \A x : x \in Left(t, j) => x \in Left(r, m + j)
      BY <2>2, <3>1
    <3>4. \A x : x \in Left(r, m + j) => x \in Left(t, j)
      BY <2>2, <3>2
    <3> QED
      BY <3>3, <3>4
  <2>4. Done(r, m + j) = {r[k] : k \in 1 .. (m + j) - 1} /\ Done(t, j) = {t[k] : k \in 1 .. j - 1}
    BY DEF Done
  <2>5. \A x : x \in Done(r, m + j) <=> x \in WritesOf(s) \/ x \in Done(t, j)
    <3>1. ASSUME NEW k \in 1 .. m PROVE k \in 1 .. (m + j) - 1 /\ r[k] = s[k]
      BY <1>4
    <3>2. ASSUME NEW k \in 1 .. j - 1 PROVE m + k \in 1 .. (m + j) - 1 /\ r[m + k] = t[k]
      BY <1>4
    <3>3. ASSUME NEW k \in 1 .. (m + j) - 1 PROVE r[k] \in WritesOf(s) \/ r[k] \in Done(t, j)
      <4>1. k \in 1 .. m + n
        OBVIOUS
      <4>2. CASE k \in 1 .. m
        BY <1>4, <1>5, <4>2
      <4>3. CASE k - m \in 1 .. n /\ k = m + (k - m)
        <5>1. k - m \in 1 .. j - 1
          BY <3>3, <4>3
        <5>2. r[k] = t[k - m]
          BY <1>4, <4>3
        <5> QED
          BY <2>4, <5>1, <5>2
      <4> QED
        BY <1>6, <4>1, <4>2, <4>3
    <3> QED
      BY <1>5, <2>4, <3>1, <3>2, <3>3
  <2> QED
    BY <1>4, <2>1, <2>3, <2>5
<1>10. ASSUME NEW i \in DOMAIN r
       PROVE  Joined(s, t, r, i)
  <2>1. CASE i \in 1 .. m
    BY <1>4, <1>8, <2>1 DEF Joined
  <2>2. CASE i - m \in 1 .. n /\ i = m + (i - m)
    <3>1. PICK j \in 1 .. n : i = m + j
      BY <2>2
    <3>2. /\ r[i] = t[j] /\ Done(r, i) = WritesOf(s) \cup Done(t, j)
          /\ Left(r, i) = Left(t, j)
          /\ j # 1 => i # 1 /\ r[i - 1] = t[j - 1]
      BY <1>9, <3>1
    <3>3. j \in DOMAIN t
      BY <1>4
    <3> QED
      BY <3>2, <3>3 DEF Joined
  <2> QED
    BY <1>4, <1>6, <2>1, <2>2
<1> QED
  BY <1>4, <1>7, <1>10

LEMMA SoundConcat ==
  ASSUME NEW u, NEW K, NEW P, NEW Q, NEW s, NEW t,
         s \in Sound(u, K, P, Q \cup WritesOf(t)), t \in Sound(u, K, P \cup WritesOf(s), Q)
  PROVE  s \o t \in Sound(u, K, P, Q)
<1>1. s \in Seq(Writes) /\ t \in Seq(Writes)
  BY DEF Sound
<1>2. PICK r : r = s \o t
  OBVIOUS
<1>3. r \in Seq(Writes) /\ \A i \in DOMAIN r : Joined(s, t, r, i)
  BY <1>1, <1>2, ConcatWrites
<1>4. /\ s # <<>> => s[1].op \notin {"grant_share", "revoke_share"}
      /\ t # <<>> => t[1].op \notin {"grant_share", "revoke_share"}
  BY DEF Sound
<1>5. ASSUME NEW i \in DOMAIN r
      PROVE  r[i].op \in K /\ Good(u, r, i, P \cup Done(r, i), Q \cup Left(r, i))
  <2>1. CASE /\ i \in DOMAIN s /\ r[i] = s[i] /\ Done(r, i) = Done(s, i)
             /\ Left(r, i) = Left(s, i) \cup WritesOf(t)
             /\ i # 1 => r[i - 1] = s[i - 1]
    <3>1. s[i].op \in K /\ Good(u, s, i, P \cup Done(s, i), (Q \cup WritesOf(t)) \cup Left(s, i))
      BY <2>1 DEF Sound
    <3>2. s # <<>>
      BY <1>1, <2>1
    <3> QED
      BY <1>4, <2>1, <3>1, <3>2, GoodAs
  <2>2. CASE \E j \in DOMAIN t :
                /\ r[i] = t[j]
                /\ Done(r, i) = WritesOf(s) \cup Done(t, j)
                /\ Left(r, i) = Left(t, j)
                /\ j # 1 => i # 1 /\ r[i - 1] = t[j - 1]
    <3>1. PICK j \in DOMAIN t : /\ r[i] = t[j]
                                /\ Done(r, i) = WritesOf(s) \cup Done(t, j)
                                /\ Left(r, i) = Left(t, j)
                                /\ j # 1 => i # 1 /\ r[i - 1] = t[j - 1]
      BY <2>2
    <3>2. t[j].op \in K /\ Good(u, t, j, (P \cup WritesOf(s)) \cup Done(t, j), Q \cup Left(t, j))
      BY <3>1 DEF Sound
    <3>3. t # <<>>
      BY <1>1, <3>1
    <3> QED
      BY <1>4, <3>1, <3>2, <3>3, GoodAs
  <2> QED
    BY <1>3, <2>1, <2>2 DEF Joined
<1>6. r # <<>> => r[1].op \notin {"grant_share", "revoke_share"}
  <2>1. CASE s = <<>>
    BY <1>1, <1>2, <1>4, <2>1
  <2>2. CASE s # <<>>
    <3>1. r[1] = s[1]
      BY <1>1, <1>2, <2>2, Concatenation
    <3> QED
      BY <1>4, <2>2, <3>1
  <2> QED
    BY <2>1, <2>2
<1> QED
  BY <1>2, <1>3, <1>5, <1>6 DEF Sound

LEMMA SoundMore ==
  ASSUME NEW u, NEW K, NEW P, NEW Q, NEW E, NEW M, P \subseteq E, Q \subseteq M, NEW s \in Sound(u, K, P, Q)
  PROVE  s \in Sound(u, K, E, M)
<1>1. s \in Seq(Writes)
  BY DEF Sound
<1>2. s # <<>> => s[1].op \notin {"grant_share", "revoke_share"}
  BY DEF Sound
<1>3. ASSUME NEW i \in DOMAIN s
      PROVE  s[i].op \in K /\ Good(u, s, i, E \cup Done(s, i), M \cup Left(s, i))
  <2>1. s[i].op \in K /\ Good(u, s, i, P \cup Done(s, i), Q \cup Left(s, i)) /\ s # <<>>
    <3>1. \A j \in DOMAIN s :
            s[j].op \in K /\ Good(u, s, j, P \cup Done(s, j), Q \cup Left(s, j))
      BY DEF Sound
    <3>2. s # <<>>
      BY <1>1
    <3> QED
      BY <3>1, <3>2
  <2> QED
    BY <1>2, <2>1, GoodAs
<1> QED
  BY <1>1, <1>2, <1>3 DEF Sound

\* Programs of such sequences that get to their end.
SoundPrograms(u, K, P, Q) == {p \in Programs(Sound(u, K, P, Q)) : p.ok}

LEMMA SoundThen ==
  ASSUME NEW u, NEW K, NEW P, NEW Q
  PROVE  /\ SoundPrograms(u, K, P, Q) \subseteq Programs(Seq(Writes))
         /\ Do(<<>>) \in SoundPrograms(u, K, P, Q)
         /\ \A p, q \in SoundPrograms(u, K, P, Q) : Then(p, q) \in SoundPrograms(u, K, P, Q)
<1>1. Sound(u, K, P, Q) \subseteq Seq(Writes)
  BY DEF Sound
<1>2. <<>> \in Sound(u, K, P, Q)
  BY DEF Sound
<1>3. ASSUME NEW p \in SoundPrograms(u, K, P, Q), NEW q \in SoundPrograms(u, K, P, Q)
      PROVE  Then(p, q) \in SoundPrograms(u, K, P, Q)
  <2>1. /\ p.ok /\ q.ok = TRUE /\ Then(p, q) = [todo |-> p.todo \o q.todo, ok |-> q.ok]
        /\ p.todo \in Sound(u, K, P, Q) /\ q.todo \in Sound(u, K, P, Q)
    BY DEF Then, SoundPrograms, Programs
  <2>2. /\ p.todo \in Sound(u, K, P, Q \cup WritesOf(q.todo))
        /\ q.todo \in Sound(u, K, P \cup WritesOf(p.todo), Q)
    <3>1. P \subseteq P /\ Q \subseteq Q \cup WritesOf(q.todo) /\ P \subseteq P \cup WritesOf(p.todo)
          /\ Q \subseteq Q
      OBVIOUS
    <3> QED
      BY <2>1, <3>1, SoundMore
  <2>3. p.todo \o q.todo \in Sound(u, K, P, Q)
    BY <2>2, SoundConcat
  <2> QED
    BY <2>1, <2>3 DEF SoundPrograms, Programs
<1> QED
  BY <1>1, <1>2, <1>3 DEF SoundPrograms, Programs, Do

----------------------------------------------------------------------------
(* A request starts.                                                       *)

\* The program does what the request was owed for.
Fulfils(u, s, a) ==
  \A f \in DOMAIN file :
    /\ file[f].owner = u =>
         /\ OwesRecovery(a, f) => Emptied(WritesOf(s), u, f)
         /\ OwesRevision(a, f) => Revise(f) \in WritesOf(s)
         /\ \A v \in Users :
              /\ OwesGrant(a, v, f) => GrantShare(v, f) \in WritesOf(s)
              /\ OwesRevoke(a, v, f) /\ v \in file[f].users_shared => RevokeShare(v, f) \in WritesOf(s)
    /\ OwesLeave(a, f) => RevokeShare(u, f) \in WritesOf(s)

\* A program that u, asking for a, starts with.
Asked(u, s, a) ==
  /\ a.kind # "revision" => Linked(u, s, a)
  /\ a.kind = "revision" => Len(s) = 2 /\ s[2] = Revise(a.file)

Fit(u, s, a) ==
  /\ \A i \in DOMAIN s : Local(u, s[i])
  /\ Asked(u, s, a)
  /\ u \notin hurt => Fulfils(u, s, a) /\ \E K \in Sorts : Kept(u, K, s)

\* What is said of programs is about the store and who is hurt.
LEMMA FitSame ==
  ASSUME UNCHANGED <<user, dir, file, stored, ticket, hurt>>, NEW u, NEW s, NEW a
  PROVE  /\ \A w : Local(u, w) => Local(u, w)'
         /\ \A K : Kept(u, K, s) => Kept(u, K, s)'
         /\ Asked(u, s, a) /\ ~run'.begun => Linked(u, s, a)'
         /\ Owned => Owned'
<1>1. ASSUME NEW w, Local(u, w) PROVE Local(u, w)'
  BY <1>1 DEF Local, OwnFile, OwnDir, NewDir, NewFile1, Untrashed, InTrash, Trash, Users, FileId
<1>2. \A f : /\ (Listed(f) <=> Listed(f)') /\ (InTrash(f) <=> InTrash(f)')
             /\ Trash(u) = Trash(u)' /\ (OwnFile(u, f) <=> OwnFile(u, f)')
             /\ (Untrashed(f) <=> Untrashed(f)')
  BY DEF Listed, InTrash, Trash, FileId, OwnFile, Untrashed
<1>3. ASSUME NEW i, NEW D, NEW L, Good(u, s, i, D, L) PROVE Good(u, s, i, D, L)'
  <2>1. /\ user' = user /\ dir' = dir /\ file' = file /\ stored' = stored
    OBVIOUS
  <2>2. PICK w : w = s[i]
    BY SMTT(30)
  <2>4. CASE w.op \in {"list_share", "unlist_share"}
    BY <1>3, <2>2, <2>4 DEF Good, GrantShare, RevokeShare
  <2>5. CASE w.op = "grant_share"
    BY <1>2, <1>3, <2>1, <2>2, <2>5 DEF Good, ListShare
  <2>6. CASE w.op = "revoke_share"
    BY <1>3, <2>1, <2>2, <2>6 DEF Good, UnlistShare
  <2>7. CASE w.op = "trash"
    BY <1>2, <1>3, <2>1, <2>2, <2>7 DEF Good, Unlist, RevokeShare
  <2>8. CASE w.op = "unlist"
    BY <1>2, <1>3, <2>2, <2>8 DEF Good, ToTrash
  <2>9. CASE w.op = "erase_dir"
    BY <1>3, <2>1, <2>2, <2>9 DEF Good, Unlist, EraseDir, UnlistDir
  <2>10. CASE w.op = "remove"
    BY <1>3, <2>2, <2>10 DEF Good, EraseFile
  <2>11. CASE w.op = "erase_file"
    BY <1>3, <2>1, <2>2, <2>11 DEF Good, RemoveBlob, Emptied
  <2>12. CASE w.op = "empty_trash"
    BY <1>2, <1>3, <2>1, <2>2, <2>12 DEF Good, EraseFile, Relist, DirId
  <2>13. CASE w.op = "relist"
    BY <1>3, <2>1, <2>2, <2>13 DEF Good, Emptied
  <2>14. CASE w.op = "add_file"
    BY <1>3, <2>1, <2>2, <2>14 DEF Good, SaveBlob
  <2>15. CASE w.op = "save"
    BY <1>3, <2>1, <2>2, <2>15 DEF Good, Revise
  <2>16. CASE w.op = "revise"
    BY <1>3, <2>1, <2>2, <2>16 DEF Good, SaveBlob
  <2>17. CASE w.op \notin {"list_share", "unlist_share", "grant_share", "revoke_share", "trash", "unlist",
                           "erase_dir", "remove", "erase_file", "empty_trash", "relist", "add_file",
                           "save", "revise"}
    BY <2>2, <2>17 DEF Good
  <2> QED
    BY <2>4, <2>5, <2>6, <2>7, <2>8, <2>9, <2>10, <2>11, <2>12, <2>13, <2>14, <2>15, <2>16, <2>17
<1>4. ASSUME NEW K, Kept(u, K, s) PROVE Kept(u, K, s)'
  BY <1>3, <1>4 DEF Kept, Once, Done, Left
<1>5. ASSUME Asked(u, s, a), ~run'.begun PROVE Linked(u, s, a)'
  <2>1. CASE a.kind = "revision"
    <3>1. Len(s) = 2 /\ s[2] = Revise(a.file)
      BY <1>5, <2>1 DEF Asked
    <3>2. Len(s) \in 1 .. 2 /\ s[Len(s)] = [op |-> "revise", file |-> a.file]
      BY <3>1 DEF Revise
    <3>3. /\ a.kind \notin {"share", "unshare", "overwrite"} /\ a.kind # "leave"
          /\ a.kind # "recover"
      BY <2>1
    <3> QED
      BY <1>5, <2>1, <3>1, <3>2, <3>3 DEF Linked
  <2>2. CASE a.kind # "revision"
    <3>1. OwnShare(u, s, a) <=> OwnShare(u, s, a)'
      BY <1>2 DEF OwnShare
    <3>2. Linked(u, s, a)
      BY <1>5, <2>2 DEF Asked
    <3> QED
      BY <1>2, <2>2, <3>1, <3>2 DEF Linked
  <2> QED
    BY <2>1, <2>2
<1>6. Owned => Owned'
  BY DEF Owned, Users, NoParent
<1> QED
  BY <1>1, <1>4, <1>5, <1>6

LEMMA StartMends ==
  ASSUME CatalogAssumption, StepsInv, MendInv, NEW u \in Users, NEW a, NEW p, Start(u, a, p),
         Fit(u, p.todo, a)
  PROVE  MendInv'
<1>1. PICK s : s = p.todo
  OBVIOUS
<1>2. /\ run = Idle /\ owed[u] \in {NoAsk, a} /\ s # <<>>
      /\ run' = [user |-> u, ask |-> a, todo |-> s, ok |-> p.ok, begun |-> FALSE]
      /\ UNCHANGED <<user, dir, file, stored, ticket, owed, hurt>>
  BY <1>1 DEF Start
<1>3. /\ run'.user = u /\ run'.ask = a /\ run'.todo = s /\ run'.begun = FALSE /\ run' # Idle
  BY <1>2 DEF Idle
<1>4. TypeOK /\ hurt \subseteq Users /\ owed = [v \in Users |-> owed[v]]
  BY DEF StepsInv
<1>5. PICK O : O = owed
  OBVIOUS
<1>6. PICK P : P = [v \in Users |-> IF v = u THEN NoAsk ELSE O[v]]
  OBVIOUS
<1>7. Owned /\ MendWith({}, O)
  <2>1. WritesOf(run.todo) = {}
    BY <1>2 DEF WritesOf, Idle
  <2>2. Owing = O
    BY <1>2, <1>4, <1>5 DEF Owing
  <2> QED
    BY <2>1, <2>2 DEF MendInv
<1>8. PICK M : M = WritesOf(s)
  OBVIOUS
<1>9. Owing' = P
  BY <1>2, <1>3, <1>5, <1>6 DEF Owing, Users
<1>10. /\ \A i \in DOMAIN s : Local(u, s[i])
       /\ Asked(u, s, a)
       /\ u \notin hurt => Fulfils(u, s, a) /\ \E K \in Sorts : Kept(u, K, s)
  BY <1>1 DEF Fit
<1>11. P[u] = NoAsk /\ \A v \in Users : v # u => P[v] = O[v]
  BY <1>6
<1>12. O[u] = a \/ O[u] = NoAsk
  BY <1>2, <1>5
<1>13. \A f : /\ ~OwesRecovery(NoAsk, f) /\ ~OwesLeave(NoAsk, f) /\ ~OwesRevision(NoAsk, f)
              /\ \A v : ~OwesGrant(NoAsk, v, f) /\ ~OwesRevoke(NoAsk, v, f)
  BY DEF NoAsk, OwesRecovery, OwesLeave, OwesRevision, OwesGrant, OwesRevoke
<1>14. \A f : ~Emptied({}, u, f) /\ \A v : ~Emptied({}, v, f)
  BY DEF Emptied
<1>15. ASSUME NEW f \in DOMAIN file, file[f].owner \notin hurt'
       PROVE  /\ OwesRecovery(O[file[f].owner], f) =>
                   Emptied(M, file[f].owner, f) \/ OwesRecovery(P[file[f].owner], f)
              /\ \A v \in Users \ hurt' :
                   /\ OwesGrant(O[file[f].owner], v, f) =>
                        GrantShare(v, f) \in M \/ OwesGrant(P[file[f].owner], v, f)
                   /\ v \in file[f].users_shared =>
                        (OwesRevoke(O[file[f].owner], v, f) \/ OwesLeave(O[v], f)
                         => \/ RevokeShare(v, f) \in M
                            \/ OwesRevoke(P[file[f].owner], v, f) \/ OwesLeave(P[v], f))
              /\ OwesRevision(O[file[f].owner], f) =>
                   Revise(f) \in M \/ OwesRevision(P[file[f].owner], f)
  <2>1. file[f].owner \in Users
    BY <1>4 DEF TypeOK, FileRecord
  <2>2. ASSUME NEW v \in Users \ hurt', OwesLeave(O[v], f)
        PROVE  RevokeShare(v, f) \in M \/ OwesLeave(P[v], f)
    <3>1. CASE v = u
      <4>1. u \notin hurt /\ OwesLeave(a, f)
        BY <1>2, <1>12, <1>13, <2>2, <3>1
      <4> QED
        BY <1>8, <1>10, <3>1, <4>1 DEF Fulfils
    <3>2. CASE v # u
      BY <1>11, <2>2, <3>2
    <3> QED
      BY <3>1, <3>2
  <2>3. CASE file[f].owner = u
    <3>1. u \notin hurt
      BY <1>2, <1>15, <2>3
    <3>2. Fulfils(u, s, a)
      BY <1>10, <3>1
    <3>3. /\ OwesRecovery(a, f) => Emptied(M, u, f)
          /\ OwesRevision(a, f) => Revise(f) \in M
          /\ \A v \in Users :
               /\ OwesGrant(a, v, f) => GrantShare(v, f) \in M
               /\ OwesRevoke(a, v, f) /\ v \in file[f].users_shared => RevokeShare(v, f) \in M
      BY <1>8, <2>3, <3>2 DEF Fulfils
    <3> QED
      BY <1>12, <1>13, <2>2, <2>3, <3>3
  <2>4. CASE file[f].owner # u
    BY <1>11, <2>1, <2>2, <2>4
  <2> QED
    BY <2>3, <2>4
<1>16. MendWith(M, P)'
  <2>1. /\ \A d \in DOMAIN dir : dir[d].owner \notin hurt' =>
             /\ EraseDir(d) \in {} => EraseDir(d) \in M
             /\ \A c : UnlistDir(d, c) \in {} => UnlistDir(d, c) \in M
        /\ \A f \in DOMAIN file : file[f].owner \notin hurt' =>
             /\ Listed(f) /\ InTrash(f) =>
                (\/ Unlist(file[f].parent_directory, f) \in {}
                 \/ Emptied({}, file[f].owner, f)
                 \/ OwesRecovery(O[file[f].owner], f)
                 => \/ Unlist(file[f].parent_directory, f) \in M
                    \/ Emptied(M, file[f].owner, f)
                    \/ OwesRecovery(P[file[f].owner], f))
             /\ \A v \in Users \ hurt' :
                  /\ GrantShare(v, f) \in {} \/ OwesGrant(O[file[f].owner], v, f) =>
                       GrantShare(v, f) \in M \/ OwesGrant(P[file[f].owner], v, f)
                  /\ v \in file[f].users_shared =>
                       (\/ RevokeShare(v, f) \in {}
                        \/ OwesRevoke(O[file[f].owner], v, f) \/ OwesLeave(O[v], f)
                        => \/ RevokeShare(v, f) \in M
                           \/ OwesRevoke(P[file[f].owner], v, f) \/ OwesLeave(P[v], f))
             /\ InTrash(f) => \A v : RevokeShare(v, f) \in {} => RevokeShare(v, f) \in M
             /\ \A b : SaveBlob(b) \in {} /\ b[1] = file[f].owner => SaveBlob(b) \in M
             /\ EraseFile(f) \in {} => EraseFile(f) \in M
             /\ Revise(f) \in {} \/ OwesRevision(O[file[f].owner], f) =>
                  Revise(f) \in M \/ OwesRevision(P[file[f].owner], f)
        /\ \A v \in Users \ hurt' : \A f : Emptied({}, v, f) => Emptied(M, v, f) \/ f \in DOMAIN file
    BY <1>14, <1>15
  <2>2. hurt \subseteq hurt' /\ hurt' \subseteq Users
    BY <1>2, <1>4
  <2> QED
    BY <1>2, <1>4, <1>7, <2>1, <2>2, MendCarried
<1>17. MendWith({}, O)'
  BY <1>2, <1>4, <1>7, MendSame
<1>18. Owned' /\ Linked(u, s, a)' /\ (\A i \in DOMAIN s : Local(u, s[i])')
       /\ (u \notin hurt => \E K \in Sorts : Kept(u, K, s)')
  BY <1>2, <1>3, <1>7, <1>10, FitSame
<1>19. MendWith(WritesOf(run.todo), Owing)'
  BY <1>3, <1>8, <1>9, <1>16 DEF WritesOf
<1>20. MendWith({}, owed)'
  BY <1>2, <1>5, <1>17
<1> QED
  BY <1>2, <1>3, <1>18, <1>19, <1>20 DEF MendInv, Sorts

----------------------------------------------------------------------------
(* The rest: the first state, steps that change nothing, the property.     *)

LEMMA InitMends ==
  ASSUME CatalogAssumption, StepsAssumption, StepsInit
  PROVE  MendInv
<1>1. /\ DOMAIN file = {} /\ stored = {} /\ ticket.dir = 2 * NumUsers + 1
      /\ DOMAIN dir = 1 .. 2 * NumUsers /\ NumUsers \in Nat
      /\ \A d \in DOMAIN dir : dir[d].files_contained = {}
      /\ \A u \in Users : Trash(u) = {} /\ user[u].shared_files = {} /\ user[u].dir_root = 2 * u - 1
      /\ run = Idle /\ hurt = {}
  BY DEF StepsInit, Init, EmptyDir, Trash, CatalogAssumption
<1>2. \A d \in DOMAIN dir :
        dir[d] = IF d % 2 = 1
                 THEN [EmptyDir((d + 1) \div 2, NoParent) EXCEPT !.directories_contained = {d + 1}]
                 ELSE EmptyDir(d \div 2, d - 1)
  BY DEF StepsInit, Init
<1>3. ASSUME NEW d \in DOMAIN dir, d % 2 = 1
      PROVE  /\ dir[d].directories_contained = {d + 1} /\ dir[d].owner = (d + 1) \div 2
             /\ dir[d].parent_directory = NoParent
  BY <1>2, <1>3 DEF EmptyDir
<1>4. ASSUME NEW d \in DOMAIN dir, d % 2 # 1
      PROVE  /\ dir[d].directories_contained = {} /\ dir[d].owner = d \div 2
             /\ dir[d].parent_directory = d - 1
  <2>1. dir[d] = EmptyDir(d \div 2, d - 1)
    BY <1>2, <1>4
  <2> QED
    BY <2>1 DEF EmptyDir
<1>5. ASSUME NEW d \in DOMAIN dir, NEW c \in dir[d].directories_contained
      PROVE  /\ c < ticket.dir /\ c \in DOMAIN dir
             /\ dir[c].parent_directory = d /\ dir[c].owner = dir[d].owner
  <2>1. d % 2 = 1 /\ c = d + 1 /\ dir[d].owner = (d + 1) \div 2 /\ d \in 1 .. 2 * NumUsers
    BY <1>1, <1>3, <1>4, <1>5
  <2>2. NumUsers \in Nat /\ DOMAIN dir = 1 .. 2 * NumUsers /\ ticket.dir = 2 * NumUsers + 1
    BY <1>1
  <2>3. c \in 1 .. 2 * NumUsers /\ c % 2 # 1
    <3>1. PICK n \in Nat : n = NumUsers
      BY <2>2
    <3>2. c = d + 1 /\ d \in 1 .. 2 * n /\ d % 2 = 1
      BY <2>1, <3>1
    <3>3. PICK k \in Int : d = 2 * k + 1
      <4>1. d \in Int /\ d = (2 * (d \div 2)) + (d % 2) /\ d \div 2 \in Int
        BY <3>2
      <4> QED
        BY <3>2, <4>1
    <3>4. c = 2 * (k + 1) /\ d # 2 * n
      BY <3>2, <3>3
    <3>5. (2 * (k + 1)) % 2 = 0
      BY <3>3
    <3> QED
      BY <3>1, <3>2, <3>4, <3>5
  <2>4. c \in DOMAIN dir
    BY <2>2, <2>3
  <2>5. dir[c].parent_directory = c - 1 /\ dir[c].owner = c \div 2
    BY <1>4, <2>3, <2>4
  <2>6. c - 1 = d /\ c < ticket.dir
    BY SMTT(30), <2>1, <2>2, <2>3
  <2> QED
    BY <2>1, <2>4, <2>5, <2>6
<1>6. ASSUME NEW u \in Users
      PROVE  /\ user[u].dir_root \in DOMAIN dir /\ dir[user[u].dir_root].owner = u
             /\ dir[user[u].dir_root].parent_directory = NoParent
  <2>1. PICK r : r = 2 * u - 1
    OBVIOUS
  <2>2. r \in 1 .. 2 * NumUsers /\ r % 2 = 1 /\ (r + 1) \div 2 = u
    BY <1>1, <2>1 DEF Users
  <2> QED
    BY <1>1, <1>3, <2>1, <2>2
<1>7. Owned
  BY <1>1, <1>5, <1>6 DEF Owned
<1>8. MendWith(WritesOf(run.todo), Owing)
  BY <1>1, <1>5 DEF MendWith, TreeMended, PlaceMended, ShareMended, TrashMended, BlobsMended
<1> QED
  BY <1>1, <1>7, <1>8 DEF MendInv

LEMMA QuietMends ==
  ASSUME StepsInv, MendInv, UNCHANGED stepVars
  PROVE  MendInv'
<1>1. UNCHANGED <<user, dir, file, stored, ticket, run, owed, hurt>>
  BY DEF stepVars
<1>2. PICK s : s = run.todo
  OBVIOUS
<1>3. PICK u : u = run.user
  OBVIOUS
<1>4. PICK a : a = run.ask
  OBVIOUS
<1>5. PICK O : O = Owing
  OBVIOUS
<1>6. PICK P : P = owed
  OBVIOUS
<1>7. TypeOK /\ hurt \subseteq Users
  BY DEF StepsInv
<1>8. \A L, Q : MendWith(L, Q) => MendWith(L, Q)'
  BY <1>1, <1>7, MendSame
<1>9. Owing' = O
  BY <1>1, <1>5 DEF Owing, Users
<1>10. MendWith(WritesOf(run.todo), Owing)'
  <2>1. MendWith(WritesOf(s), O)
    BY <1>2, <1>5 DEF MendInv
  <2> QED
    BY <1>1, <1>2, <1>8, <1>9, <2>1 DEF WritesOf
<1>11. ~run.begun /\ run # Idle => MendWith({}, owed)'
  BY <1>1, <1>6, <1>8 DEF MendInv
<1>12. Owned' /\ (\A w : Local(u, w) => Local(u, w)') /\ (\A K : Kept(u, K, s) => Kept(u, K, s)')
  BY <1>1, FitSame DEF MendInv
<1>13. run # Idle => Linked(u, s, a)'
  <2>1. run # Idle => Linked(u, s, a)
    BY <1>2, <1>3, <1>4 DEF MendInv
  <2>2. \A f : OwnFile(u, f)' = OwnFile(u, f) /\ Untrashed(f)' = Untrashed(f)
    BY <1>1 DEF OwnFile, Untrashed, InTrash, Trash, FileId
  <2> QED
    BY <1>1, <2>1, <2>2 DEF Linked, OwnShare, Revise
<1> QED
  BY <1>1, <1>2, <1>3, <1>4, <1>10, <1>11, <1>12, <1>13 DEF MendInv, Sorts

\* A user with every request answered or repeated: nothing is to be mended.
LEMMA MendedIsWhole ==
  ASSUME TypeOK, StoreInv, MendInv, run.todo = <<>> => run = Idle,
         NEW u \in Users, Clean(u)
  PROVE  Whole(u)
<1>1. PICK L : L = WritesOf(run.todo)
  OBVIOUS
<1>2. PICK O : O = Owing
  OBVIOUS
<1>3. PICK r : r = run.user
  OBVIOUS
<1>4. TreeMended(L) /\ PlaceMended(L, O) /\ ShareMended(L, O) /\ TrashMended(L) /\ BlobsMended(L, O)
  BY <1>1, <1>2 DEF MendInv, MendWith
<1>5. \A v \in Users : Clean(v) => v \notin hurt /\ O[v] = NoAsk
  BY <1>2 DEF Clean, Owing
<1>6. L # {} => run # Idle
  BY <1>1 DEF WritesOf, Idle
<1>7. \A w \in L : Local(r, w)
  BY <1>1, <1>3, <1>6 DEF MendInv, WritesOf
<1>8. \A v \in Users : Clean(v) /\ L # {} => v # r
  BY <1>3, <1>6 DEF Clean
<1>9. \A f : /\ ~OwesRecovery(NoAsk, f) /\ ~OwesLeave(NoAsk, f) /\ ~OwesRevision(NoAsk, f)
             /\ \A v : ~OwesGrant(NoAsk, v, f) /\ ~OwesRevoke(NoAsk, v, f)
  BY DEF NoAsk, OwesRecovery, OwesLeave, OwesRevision, OwesGrant, OwesRevoke
<1>10. Owned /\ u \notin hurt /\ O[u] = NoAsk /\ (L # {} => u # r)
  BY <1>5, <1>8 DEF MendInv
<1>11. ASSUME NEW d \in DOMAIN dir, dir[d].owner = u
       PROVE  /\ dir[d].parent_directory # NoParent =>
                   d \in dir[dir[d].parent_directory].directories_contained
              /\ dir[d].directories_contained \subseteq DOMAIN dir
              /\ dir[d].files_contained \subseteq DOMAIN file
  <2>1. EraseDir(d) \notin L
    BY <1>7, <1>10, <1>11, WriteNames DEF Local, OwnDir
  <2>2. \A c : UnlistDir(d, c) \notin L
    BY <1>7, <1>10, <1>11, WriteNames DEF Local, OwnDir
  <2> QED
    BY <1>4, <1>10, <1>11, <2>1, <2>2 DEF TreeMended, StoreInv
<1>12. \A f : ~Emptied(L, u, f)
  BY <1>7, <1>10 DEF Emptied, Local
<1>13. ASSUME NEW f \in DOMAIN file, file[f].owner = u
       PROVE  /\ InTrash(f) <=> ~Listed(f)
              /\ \A v \in Users : Clean(v) => (v \in file[f].users_shared <=> f \in user[v].shared_files)
              /\ InTrash(f) => file[f].users_shared = {}
  <2>1. Listed(f) => Unlist(file[f].parent_directory, f) \notin L
    BY <1>7, <1>10, <1>13, WriteNames DEF Local, OwnDir, Listed, Owned
  <2>2. InTrash(f) <=> ~Listed(f)
    BY <1>4, <1>9, <1>10, <1>12, <1>13, <2>1 DEF PlaceMended
  <2>3. \A v : GrantShare(v, f) \notin L
    BY <1>7, <1>10, <1>13, WriteNames DEF Local, OwnFile
  <2>4. ASSUME NEW v, RevokeShare(v, f) \in L PROVE v = r /\ ~InTrash(f)
    <3>1. PICK w \in L : w = RevokeShare(v, f)
      BY <2>4
    <3>2. w.op = "revoke_share" /\ w.user = v /\ w.file = f
      BY <3>1, WriteNames
    <3>3. OwnFile(r, f) \/ (v = r /\ Untrashed(f))
      BY <1>7, <3>2 DEF Local
    <3> QED
      BY <1>10, <1>13, <3>1, <3>3 DEF OwnFile, Untrashed
  <2>5. ASSUME NEW v \in Users, Clean(v)
        PROVE  v \in file[f].users_shared <=> f \in user[v].shared_files
    <3>1. v \in Users \ hurt /\ O[v] = NoAsk /\ RevokeShare(v, f) \notin L
      BY <1>5, <1>8, <2>4, <2>5
    <3> QED
      BY <1>4, <1>9, <1>10, <1>13, <2>3, <3>1 DEF ShareMended
  <2>6. InTrash(f) => file[f].users_shared = {}
    BY <1>4, <1>10, <1>13, <2>4 DEF ShareMended
  <2> QED
    BY <2>2, <2>5, <2>6
<1>14. \A f \in Trash(u) : f \in DOMAIN file /\ user[u].files_deleted[f] = 1
  BY <1>4, <1>10, <1>12 DEF TrashMended
<1>15. \A b : b \in stored /\ b[1] = u <=>
             \E f \in DOMAIN file : file[f].owner = u /\ \E i \in 1 .. file[f].revision : b = <<u, f, i>>
  <2>1. ASSUME NEW b \in stored, b[1] = u
        PROVE  \E f \in DOMAIN file : file[f].owner = u /\ \E i \in 1 .. file[f].revision : b = <<u, f, i>>
    <3>1. b = <<u, b[2], b[3]>> /\ b[3] \in 1 .. MaxRevision
      BY <2>1 DEF TypeOK
    <3>2. /\ b[2] \in DOMAIN file /\ file[b[2]].owner = u
          /\ b[3] > file[b[2]].revision => Revise(b[2]) \in L \/ OwesRevision(O[u], b[2])
      BY <1>4, <1>10, <2>1 DEF BlobsMended
    <3>3. Revise(b[2]) \notin L
      BY <1>7, <1>10, <3>2, WriteNames DEF Local, OwnFile
    <3>4. ~(b[3] > file[b[2]].revision)
      BY <1>9, <1>10, <3>2, <3>3
    <3>5. file[b[2]].revision \in Nat /\ b[3] \in Nat
      BY <3>1, <3>2 DEF TypeOK, FileRecord
    <3>6. b[3] \in 1 .. file[b[2]].revision
      BY <3>1, <3>4, <3>5
    <3> QED
      BY <3>1, <3>2, <3>6
  <2>2. ASSUME NEW f \in DOMAIN file, file[f].owner = u, NEW i \in 1 .. file[f].revision
        PROVE  <<u, f, i>> \in stored /\ <<u, f, i>>[1] = u
    <3>1. PICK b : b = <<u, f, i>>
      OBVIOUS
    <3>2. b[1] = u
      BY <3>1
    <3>3. SaveBlob(b) \notin L
      BY <1>7, <1>10, <3>2, WriteNames DEF Local
    <3>4. EraseFile(f) \notin L
      BY <1>7, <1>10, <2>2, WriteNames DEF Local, OwnFile
    <3>5. b \in stored \/ SaveBlob(b) \in L \/ EraseFile(f) \in L
      BY <1>4, <1>10, <2>2, <3>1 DEF BlobsMended
    <3> QED
      BY <3>1, <3>2, <3>3, <3>4, <3>5
  <2> QED
    BY <2>1, <2>2
<1>16. {b \in stored : b[1] = u} =
         UNION {{<<u, f, i>> : i \in 1 .. file[f].revision} :
                  f \in {g \in DOMAIN file : file[g].owner = u}}
  <2>1. \A b : b \in {x \in stored : x[1] = u} <=>
               b \in UNION {{<<u, f, i>> : i \in 1 .. file[f].revision} :
                              f \in {g \in DOMAIN file : file[g].owner = u}}
    BY <1>15
  <2> QED
    BY <2>1
<1> QED
  BY <1>11, <1>13, <1>14, <1>16 DEF Whole

----------------------------------------------------------------------------
(* What a request finds when it starts.                                    *)

\* What a user whom no crash has hurt keeps, when nothing is in progress and it
\* owes nothing but a.
Tidy(u, a) ==
  /\ \A d \in DOMAIN dir : dir[d].owner = u =>
       /\ dir[d].directories_contained \subseteq DOMAIN dir
       /\ dir[d].files_contained \subseteq DOMAIN file
  /\ \A f \in DOMAIN file : file[f].owner = u =>
       /\ ~Listed(f) => InTrash(f)
       /\ Listed(f) /\ InTrash(f) => a.kind = "recover"
       /\ InTrash(f) => file[f].users_shared = {}
  /\ \A f \in Trash(u) : f \in DOMAIN file /\ user[u].files_deleted[f] = 1
  /\ \A b \in stored : b[1] = u =>
       /\ b[2] \in DOMAIN file /\ file[b[2]].owner = u
       /\ b[3] > file[b[2]].revision => a.kind = "revision" /\ b[3] = file[b[2]].revision + 1

LEMMA StartsTidy ==
  ASSUME StepsInv, MendInv, NEW u \in Users, NEW a, NEW p, Start(u, a, p)
  PROVE  /\ TypeOK /\ StoreInv /\ Owned
         /\ u \notin hurt => Tidy(u, a)
         /\ \A f \in DOMAIN file : file[f].owner \notin hurt /\ InTrash(f) =>
              file[f].users_shared = {}
         /\ \A f \in DOMAIN file : f \in FileId /\ f < ticket.file
<1>1. run = Idle /\ owed[u] \in {NoAsk, a}
  BY DEF Start
<1>2. TypeOK /\ StoreInv /\ Owned
  BY DEF StepsInv, MendInv
<1>3. WritesOf(run.todo) = {}
  BY <1>1 DEF WritesOf, Idle
<1>4. PICK O : O = Owing
  OBVIOUS
<1>5. O[u] \in {NoAsk, a}
  BY <1>1, <1>4 DEF Owing
<1>6. TreeMended({}) /\ PlaceMended({}, O) /\ ShareMended({}, O) /\ TrashMended({}) /\ BlobsMended({}, O)
  BY <1>3, <1>4 DEF MendInv, MendWith
<1>7. \A f : ~OwesRecovery(NoAsk, f) /\ ~OwesRevision(NoAsk, f)
  BY DEF NoAsk, OwesRecovery, OwesRevision
<1>8. \A v, f : ~Emptied({}, v, f)
  BY DEF Emptied
<1>9. ASSUME u \notin hurt
      PROVE  Tidy(u, a)
  <2>1. \A d \in DOMAIN dir : dir[d].owner = u =>
          /\ dir[d].directories_contained \subseteq DOMAIN dir
          /\ dir[d].files_contained \subseteq DOMAIN file
    BY <1>6, <1>9 DEF TreeMended
  <2>2. ASSUME NEW f \in DOMAIN file, file[f].owner = u
        PROVE  /\ ~Listed(f) => InTrash(f)
               /\ Listed(f) /\ InTrash(f) => a.kind = "recover"
               /\ InTrash(f) => file[f].users_shared = {}
    BY <1>5, <1>6, <1>7, <1>8, <1>9, <2>2 DEF PlaceMended, ShareMended, OwesRecovery
  <2>3. \A f \in Trash(u) : f \in DOMAIN file /\ user[u].files_deleted[f] = 1
    BY <1>6, <1>8, <1>9 DEF TrashMended
  <2>4. ASSUME NEW b \in stored, b[1] = u
        PROVE  /\ b[2] \in DOMAIN file /\ file[b[2]].owner = u
               /\ b[3] > file[b[2]].revision => a.kind = "revision" /\ b[3] = file[b[2]].revision + 1
    BY <1>5, <1>6, <1>7, <1>9, <2>4 DEF BlobsMended, OwesRevision
  <2> QED
    BY <2>1, <2>2, <2>3, <2>4 DEF Tidy
<1>10. \A f \in DOMAIN file : file[f].owner \notin hurt /\ InTrash(f) => file[f].users_shared = {}
  BY <1>6 DEF ShareMended
<1>11. ASSUME NEW f \in DOMAIN file
       PROVE  f \in FileId /\ f < ticket.file
  <2>1. f \in FileId /\ f \in Nat /\ ticket.file \in Nat
    BY <1>2 DEF TypeOK, FileId
  <2>2. ~(f >= ticket.file)
    BY <1>2, <2>1 DEF StoreInv, FreshFile
  <2> QED
    BY <2>1, <2>2
<1> QED
  BY <1>2, <1>9, <1>10, <1>11

----------------------------------------------------------------------------
(* Short programs.                                                         *)

\* A request that is not repeated owes nothing.
LEMMA PlainAsk ==
  ASSUME NEW u, NEW s, NEW a, a.kind \notin Repeatable
  PROVE  Asked(u, s, a) /\ Fulfils(u, s, a)
<1>1. /\ a.kind # "share" /\ a.kind # "unshare" /\ a.kind # "overwrite"
      /\ a.kind # "leave" /\ a.kind # "recover" /\ a.kind # "revision"
  BY DEF Repeatable
<1>2. Asked(u, s, a)
  BY <1>1 DEF Asked, Linked
<1>3. Fulfils(u, s, a)
  BY <1>1 DEF Fulfils, OwesRecovery, OwesRevision, OwesGrant, OwesRevoke, OwesLeave
<1> QED
  BY <1>2, <1>3

\* Writes nothing is asked of.
LEMMA GoodAlone ==
  ASSUME NEW u, NEW s, NEW i, NEW D, NEW L, s[i].op \in {"draw", "add_dir", "adopt", "unlist_dir"}
  PROVE  Good(u, s, i, D, L)
<1>1. PICK w : w = s[i]
  OBVIOUS
<1> QED
  BY <1>1 DEF Good

\* A sequence of two writes.
LEMMA TwoWrites ==
  ASSUME NEW x \in Writes, NEW y \in Writes
  PROVE  LET s == <<x, y>>
         IN  /\ s \in Seq(Writes) /\ Len(s) = 2 /\ DOMAIN s = {1, 2} /\ s[1] = x /\ s[2] = y
             /\ s # <<>> /\ WritesOf(s) = {x, y}
             /\ Done(s, 1) = {} /\ Done(s, 2) = {x} /\ Left(s, 1) = {y} /\ Left(s, 2) = {}
<1>1. PICK s : s = <<x, y>>
  OBVIOUS
<1>2. s \in Seq(Writes) /\ Len(s) = 2 /\ DOMAIN s = {1, 2} /\ s[1] = x /\ s[2] = y /\ s # <<>>
  BY <1>1
<1>3. WritesOf(s) = {x, y}
  BY <1>2 DEF WritesOf
<1>4. /\ 1 .. 1 - 1 = {} /\ 1 .. 2 - 1 = {1} /\ 1 + 1 .. 2 = {2} /\ 2 + 1 .. 2 = {}
  OBVIOUS
<1>5. Done(s, 1) = {} /\ Done(s, 2) = {x}
  BY <1>2, <1>4 DEF Done
<1>6. Left(s, 1) = {y} /\ Left(s, 2) = {}
  BY <1>2, <1>4 DEF Left
<1> QED
  BY <1>1, <1>2, <1>3, <1>5, <1>6

LEMMA OneWrite ==
  ASSUME NEW x \in Writes
  PROVE  LET s == <<x>>
         IN  /\ s \in Seq(Writes) /\ Len(s) = 1 /\ DOMAIN s = {1} /\ s[1] = x
             /\ s # <<>> /\ WritesOf(s) = {x} /\ Done(s, 1) = {} /\ Left(s, 1) = {}
<1>1. PICK s : s = <<x>>
  OBVIOUS
<1>2. s \in Seq(Writes) /\ Len(s) = 1 /\ DOMAIN s = {1} /\ s[1] = x /\ s # <<>>
  BY <1>1
<1>3. WritesOf(s) = {x}
  BY <1>2 DEF WritesOf
<1>4. /\ 1 .. 1 - 1 = {} /\ 1 + 1 .. 1 = {}
  OBVIOUS
<1>5. Done(s, 1) = {} /\ Left(s, 1) = {}
  BY <1>2, <1>4 DEF Done, Left
<1> QED
  BY <1>1, <1>2, <1>3, <1>5

\* A sound sequence that trashes nothing twice is kept.
LEMMA SoundKept ==
  ASSUME NEW u, NEW K, NEW s \in Sound(u, K, {}, {}), Once(s)
  PROVE  Kept(u, K, s)
<1>1. \A i \in DOMAIN s : {} \cup Done(s, i) = Done(s, i) /\ {} \cup Left(s, i) = Left(s, i)
  OBVIOUS
<1> QED
  BY <1>1 DEF Sound, Kept

LEMMA NoTrashOnce ==
  ASSUME NEW s, \A i \in DOMAIN s : s[i].op # "trash"
  PROVE  Once(s)
BY DEF Once

\* Sequences with writes of a set.
LEMMA WritesIn ==
  ASSUME NEW X, X \subseteq Writes, NEW s \in Seq(Writes)
  PROVE  s \in Seq(X) <=> \A i \in DOMAIN s : s[i] \in X
<1>1. s \in Seq(X) => \A i \in DOMAIN s : s[i] \in X
  OBVIOUS
<1>2. ASSUME \A i \in DOMAIN s : s[i] \in X
      PROVE  s \in Seq(X)
  <2>1. Len(s) \in Nat /\ s = [i \in 1 .. Len(s) |-> s[i]] /\ DOMAIN s = 1 .. Len(s)
    OBVIOUS
  <2>2. s \in [1 .. Len(s) -> X]
    BY <1>2, <2>1
  <2> QED
    BY <2>1, <2>2
<1> QED
  BY <1>1, <1>2

\* The two halves of a share.
LEMMA SharePrograms ==
  ASSUME NEW u, NEW f \in FileId, NEW v \in Users, NEW K, NEW P, NEW Q
  PROVE  /\ UnshareWrites(f, v).ok /\ ShareWrites(f, v).ok
         /\ UnshareWrites(f, v).todo = <<UnlistShare(v, f), RevokeShare(v, f)>>
         /\ ShareWrites(f, v).todo = <<ListShare(v, f), GrantShare(v, f)>>
         /\ UnlistShare(v, f) \in Writes /\ RevokeShare(v, f) \in Writes
         /\ ListShare(v, f) \in Writes /\ GrantShare(v, f) \in Writes
         /\ {"unlist_share", "revoke_share"} \subseteq K =>
              UnshareWrites(f, v) \in SoundPrograms(u, K, P, Q)
         /\ {"list_share", "grant_share"} \subseteq K /\ (f \in DOMAIN file => ~InTrash(f)) =>
              ShareWrites(f, v) \in SoundPrograms(u, K, P, Q)
<1>1. PICK a, b, c, d : /\ a = ListShare(v, f) /\ b = GrantShare(v, f)
                        /\ c = UnlistShare(v, f) /\ d = RevokeShare(v, f)
  OBVIOUS
<1>2. a \in Writes /\ b \in Writes /\ c \in Writes /\ d \in Writes
  BY <1>1 DEF ListShare, GrantShare, UnlistShare, RevokeShare, Writes, SharingOps
<1>3. ShareWrites(f, v) = Do(<<a, b>>) /\ UnshareWrites(f, v) = Do(<<c, d>>)
  BY <1>1 DEF ListShare, GrantShare, UnlistShare, RevokeShare, ShareWrites, UnshareWrites
<1>4. /\ a.op = "list_share" /\ a.user = v /\ a.file = f
      /\ b.op = "grant_share" /\ b.user = v /\ b.file = f
      /\ c.op = "unlist_share" /\ c.user = v /\ c.file = f
      /\ d.op = "revoke_share" /\ d.user = v /\ d.file = f
  BY <1>1, WriteNames
<1>5. PICK s, t : s = <<a, b>> /\ t = <<c, d>>
  OBVIOUS
<1>6. /\ s \in Seq(Writes) /\ DOMAIN s = {1, 2} /\ s[1] = a /\ s[2] = b /\ Left(s, 1) = {b}
      /\ t \in Seq(Writes) /\ DOMAIN t = {1, 2} /\ t[1] = c /\ t[2] = d /\ Left(t, 1) = {d}
  BY <1>2, <1>5, TwoWrites
<1>7. ASSUME {"unlist_share", "revoke_share"} \subseteq K
      PROVE  t \in Sound(u, K, P, Q)
  <2>1. Good(u, t, 1, P \cup Done(t, 1), Q \cup Left(t, 1))
    BY <1>1, <1>4, <1>6 DEF Good
  <2>2. Good(u, t, 2, P \cup Done(t, 2), Q \cup Left(t, 2))
    <3>1. 2 # 1 /\ t[2 - 1] = UnlistShare(d.user, d.file)
      BY <1>1, <1>4, <1>6
    <3> QED
      BY <1>4, <1>6, <3>1 DEF Good
  <2> QED
    BY <1>4, <1>6, <1>7, <2>1, <2>2 DEF Sound
<1>8. ASSUME {"list_share", "grant_share"} \subseteq K, f \in DOMAIN file => ~InTrash(f)
      PROVE  s \in Sound(u, K, P, Q)
  <2>1. Good(u, s, 1, P \cup Done(s, 1), Q \cup Left(s, 1))
    BY <1>1, <1>4, <1>6 DEF Good
  <2>2. Good(u, s, 2, P \cup Done(s, 2), Q \cup Left(s, 2))
    <3>1. 2 # 1 /\ s[2 - 1] = ListShare(b.user, b.file)
      BY <1>1, <1>4, <1>6
    <3> QED
      BY <1>4, <1>6, <1>8, <3>1 DEF Good
  <2> QED
    BY <1>4, <1>6, <1>8, <2>1, <2>2 DEF Sound
<1> QED
  BY <1>1, <1>2, <1>3, <1>5, <1>7, <1>8 DEF Do, SoundPrograms, Programs

----------------------------------------------------------------------------
(* The requests that create something or share.                            *)

LEMMA DirectoryFits ==
  ASSUME CatalogAssumption, StepsInv, MendInv, NEW u \in Users, NEW p \in DirId,
         RequestDirectory(u, p)
  PROVE  \E a, q : Start(u, a, q) /\ Fit(u, q.todo, a)
<1> DEFINE x == [op |-> "draw", id |-> "dir"]
           y == [op |-> "add_dir", dir |-> ticket.dir, user |-> u, parent |-> p]
           a == [kind |-> "new_directory", dir |-> p]
           q == Then(Do(<<x>>), IF p \in DOMAIN dir THEN Do(<<y>>) ELSE Stop)
<1>1. Start(u, a, q)
  BY DEF RequestDirectory
<1>2. TypeOK /\ StoreInv /\ Owned
  BY <1>1, StartsTidy
<1>3. /\ ticket.dir \in DirId /\ ticket.dir \in Nat /\ a.kind \notin Repeatable
      /\ p \in DOMAIN dir => dir[p].owner = u
  BY <1>2 DEF RequestDirectory, TypeOK, DirId, CatalogAssumption, Repeatable, MayName
<1>4. /\ x \in Writes /\ y \in Writes /\ x.op = "draw" /\ y.op = "add_dir"
      /\ y.dir = ticket.dir /\ y.parent = p /\ y.user = u
  BY <1>3 DEF Writes
<1>5. q.todo = IF p \in DOMAIN dir THEN <<x>> \o <<y>> ELSE <<x>> \o <<>>
  BY DEF Then, Do, Stop
<1> HIDE DEF x, y, q, a
<1>6. NewDir(ticket.dir)
  <2>1. \A d \in DOMAIN dir : \A c \in dir[d].directories_contained : c < ticket.dir /\ c \in Nat
    BY <1>2 DEF Owned, TypeOK, DirRecord, DirId
  <2>2. \A f \in DOMAIN file : file[f].parent_directory < ticket.dir /\ file[f].parent_directory \in Nat
    BY <1>2 DEF Owned, TypeOK, FileRecord, DirId
  <2>3. \A n \in Nat : n < ticket.dir => n # ticket.dir
    BY <1>3
  <2> QED
    BY <2>1, <2>2, <2>3 DEF NewDir
<1>7. Local(u, x) /\ Local(u, y)
  <2>1. Local(u, x)
    BY <1>4 DEF Local
  <2>2. Local(u, y)
    BY <1>3, <1>4, <1>6 DEF Local, OwnDir
  <2> QED
    BY <2>1, <2>2
<1>8. PICK s : s = q.todo
  OBVIOUS
<1>9. s = <<x, y>> \/ s = <<x>>
  <2>1. CASE p \in DOMAIN dir
    BY <1>5, <1>8, <2>1, Pair
  <2>2. CASE p \notin DOMAIN dir
    <3>1. <<x>> \in Seq(Writes)
      BY <1>4
    <3> QED
      BY <1>5, <1>8, <2>2, <3>1, ConcatEmptySeq
  <2> QED
    BY <2>1, <2>2
<1>10. /\ \A i \in DOMAIN s : s[i] = x \/ s[i] = y
  BY <1>4, <1>9, OneWrite, TwoWrites
<1>11. Kept(u, Creating, s)
  <2>1. \A i \in DOMAIN s : s[i].op \in Creating /\ s[i].op \in {"draw", "add_dir", "adopt", "unlist_dir"}
                            /\ s[i].op # "trash"
    BY <1>4, <1>10 DEF Creating
  <2> QED
    BY <2>1, GoodAlone, NoTrashOnce DEF Kept
<1>12. Fit(u, s, a)
  BY <1>3, <1>7, <1>10, <1>11, PlainAsk DEF Fit, Sorts
<1> QED
  BY <1>1, <1>8, <1>12

LEMMA NewFileFits ==
  ASSUME CatalogAssumption, StepsInv, MendInv, NEW u \in Users, NEW p \in DirId, NEW n \in Names,
         RequestNewFile(u, p, n)
  PROVE  \E a, q : Start(u, a, q) /\ Fit(u, q.todo, a)
<1> DEFINE b == <<u, ticket.file, 1>>
           x == [op |-> "draw", id |-> "file"]
           y == [op |-> "add_file", file |-> ticket.file, user |-> u, dir |-> p, name |-> n]
           z == [op |-> "save", blob |-> b]
           a == [kind |-> "new_file", dir |-> p, name |-> n]
           s == <<x, y, z>>
<1>1. Start(u, a, Do(s))
  BY DEF RequestNewFile
<1>2. TypeOK /\ StoreInv /\ Owned
  BY <1>1, StartsTidy
<1>3. /\ ticket.file \in FileId /\ ticket.file \in Nat /\ a.kind \notin Repeatable
      /\ p \in DOMAIN dir /\ dir[p].owner = u /\ p < ticket.dir
  BY <1>2 DEF RequestNewFile, TypeOK, FileId, CatalogAssumption, Repeatable, MayName, StoreInv
<1>4. b \in Users \X FileId \X (1 .. MaxRevision) /\ b[1] = u /\ b[2] = ticket.file /\ b[3] = 1
  BY <1>3 DEF CatalogAssumption
<1>5. z = SaveBlob(b)
  BY DEF SaveBlob
<1>6. PICK c : c = b
  OBVIOUS
<1> HIDE DEF b
<1>7. /\ x \in Writes /\ y \in Writes /\ z \in Writes /\ x.op = "draw" /\ y.op = "add_file"
      /\ y.file = ticket.file /\ y.dir = p /\ y.user = u /\ z.op = "save" /\ z.blob = b
  BY <1>3, <1>4 DEF Writes
<1> HIDE DEF x, y, z, a
<1>8. s \in Seq(Writes) /\ Len(s) = 3 /\ DOMAIN s = 1 .. 3 /\ s[1] = x /\ s[2] = y /\ s[3] = z
  BY <1>7
<1> HIDE DEF s
<1>9. NewFile1(ticket.file)
  <2>1. \A v \in Users : \A f \in user[v].shared_files : f < ticket.file /\ f \in Nat
    BY <1>2 DEF Owned, TypeOK, UserRecord, FileId
  <2>2. \A m \in Nat : m < ticket.file => m # ticket.file
    BY <1>3
  <2> QED
    BY <2>1, <2>2 DEF NewFile1
<1>10. \A i \in DOMAIN s : i = 1 \/ i = 2 \/ i = 3
  BY <1>8
<1>11. Local(u, x) /\ Local(u, y) /\ Local(u, z)
  <2>1. Local(u, x)
    BY <1>7 DEF Local
  <2>2. Local(u, y)
    BY <1>3, <1>7, <1>9 DEF Local, OwnDir
  <2>3. Local(u, z)
    BY <1>4, <1>7 DEF Local
  <2> QED
    BY <2>1, <2>2, <2>3
<1>12. Good(u, s, 1, Done(s, 1), Left(s, 1))
  BY <1>7, <1>8, GoodAlone
<1>13. Good(u, s, 2, Done(s, 2), Left(s, 2))
  <2>1. 3 \in 2 + 1 .. Len(s)
    BY <1>8
  <2>2. SaveBlob(<<u, y.file, 1>>) \in Left(s, 2)
    BY <1>5, <1>7, <1>8, <2>1 DEF Left, b
  <2> QED
    BY <1>3, <1>7, <1>8, <2>2 DEF Good
<1>14. Good(u, s, 3, Done(s, 3), Left(s, 3))
  <2>1. 2 \in 1 .. 3 - 1
    OBVIOUS
  <2>2. y \in Done(s, 3)
    BY <1>8, <2>1 DEF Done
  <2>3. z.blob[3] = 1 /\ y.op = "add_file" /\ y.file = z.blob[2] /\ y.user = u
    BY <1>4, <1>7
  <2> QED
    BY <1>7, <1>8, <2>2, <2>3 DEF Good
<1>15. Kept(u, Uploading, s)
  <2>1. \A i \in DOMAIN s : s[i].op \in Uploading /\ s[i].op # "trash"
    BY <1>7, <1>8, <1>10 DEF Uploading
  <2> QED
    BY <1>10, <1>12, <1>13, <1>14, <2>1, NoTrashOnce DEF Kept
<1>16. Fit(u, s, a)
  BY <1>3, <1>8, <1>10, <1>11, <1>15, PlainAsk DEF Fit, Sorts
<1>17. Do(s).todo = s
  BY DEF Do
<1> QED
  BY <1>1, <1>16, <1>17

LEMMA RevisionFits ==
  ASSUME CatalogAssumption, StepsInv, MendInv, NEW u \in Users, NEW p \in DirId, NEW g \in FileId,
         RequestRevision(u, p, g)
  PROVE  \E a, q : Start(u, a, q) /\ Fit(u, q.todo, a)
<1> DEFINE b == <<u, g, file[g].revision + 1>>
           x == [op |-> "save", blob |-> b]
           y == [op |-> "revise", file |-> g]
           a == [kind |-> "revision", dir |-> p, file |-> g]
           s == <<x, y>>
<1>1. Start(u, a, Do(s))
  BY DEF RequestRevision
<1>2. TypeOK /\ StoreInv /\ Owned
  BY <1>1, StartsTidy
<1>3. /\ p \in DOMAIN dir /\ dir[p].owner = u /\ g \in dir[p].files_contained /\ g \in DOMAIN file
      /\ file[g].revision < MaxRevision /\ file[g].owner = u
  BY <1>2 DEF RequestRevision, MayName, Owned
<1>4. file[g].revision \in Nat /\ file[g].revision + 1 \in 1 .. MaxRevision
  BY <1>2, <1>3 DEF TypeOK, FileRecord, CatalogAssumption
<1>5. /\ b \in Users \X FileId \X (1 .. MaxRevision)
      /\ b[1] = u /\ b[2] = g /\ b[3] = file[g].revision + 1
  BY <1>4
<1>6. x = SaveBlob(b) /\ y = Revise(g)
  BY DEF SaveBlob, Revise
<1>7. a.kind = "revision" /\ a.file = g
  OBVIOUS
<1> HIDE DEF b
<1>8. x \in Writes /\ y \in Writes /\ x.op = "save" /\ x.blob = b /\ y.op = "revise" /\ y.file = g
  BY <1>5 DEF Writes
<1> HIDE DEF x, y, a
<1>9. /\ s \in Seq(Writes) /\ Len(s) = 2 /\ DOMAIN s = {1, 2} /\ s[1] = x /\ s[2] = y
      /\ WritesOf(s) = {x, y} /\ Done(s, 2) = {x} /\ Left(s, 1) = {y}
  BY <1>8, TwoWrites
<1> HIDE DEF s
<1>10. Local(u, x) /\ Local(u, y)
  <2>1. Local(u, x)
    BY <1>5, <1>8 DEF Local
  <2>2. Local(u, y)
    BY <1>3, <1>8 DEF Local, OwnFile
  <2> QED
    BY <2>1, <2>2
<1>11. Asked(u, s, a)
  BY <1>6, <1>7, <1>9 DEF Asked
<1>12. Fulfils(u, s, a)
  BY <1>6, <1>7, <1>9 DEF Fulfils, OwesRecovery, OwesRevision, OwesGrant, OwesRevoke, OwesLeave
<1>13. Good(u, s, 1, Done(s, 1), Left(s, 1))
  <2>1. Revise(x.blob[2]) \in Left(s, 1)
    BY <1>5, <1>6, <1>8, <1>9
  <2> QED
    BY <1>3, <1>5, <1>8, <1>9, <2>1 DEF Good
<1>14. Good(u, s, 2, Done(s, 2), Left(s, 2))
  <2>1. SaveBlob(<<u, y.file, file[y.file].revision + 1>>) \in Done(s, 2)
    BY <1>6, <1>8, <1>9 DEF b
  <2> QED
    BY <1>3, <1>8, <1>9, <2>1 DEF Good
<1>15. Kept(u, Revising, s)
  <2>1. \A i \in DOMAIN s : s[i].op \in Revising /\ s[i].op # "trash"
    BY <1>8, <1>9 DEF Revising
  <2> QED
    BY <1>9, <1>13, <1>14, <2>1, NoTrashOnce DEF Kept
<1>16. Fit(u, s, a)
  BY <1>9, <1>10, <1>11, <1>12, <1>15 DEF Fit, Sorts
<1>17. Do(s).todo = s
  BY DEF Do
<1> QED
  BY <1>1, <1>16, <1>17

\* Sharing with one user, or ending it.
LEMMA ShareFits ==
  ASSUME CatalogAssumption, StepsInv, MendInv, NEW u \in Users, NEW f \in FileId, NEW v \in Users,
         RequestShare(u, f, v)
  PROVE  \E a, q : Start(u, a, q) /\ Fit(u, q.todo, a)
<1>1. /\ f \in DOMAIN file /\ file[f].owner = u /\ Listed(f)
  BY DEF RequestShare, Listed
<1>2. OwnFile(u, f)
  BY <1>1 DEF OwnFile
<1>3. PICK w, x, y, z : /\ w = ListShare(v, f) /\ x = GrantShare(v, f)
                        /\ y = UnlistShare(v, f) /\ z = RevokeShare(v, f)
  OBVIOUS
<1>4. /\ w \in Writes /\ x \in Writes /\ y \in Writes /\ z \in Writes
      /\ ShareWrites(f, v).todo = <<w, x>> /\ UnshareWrites(f, v).todo = <<y, z>>
  BY <1>3, SharePrograms
<1>5. /\ w.op = "list_share" /\ w.user = v /\ w.file = f
      /\ x.op = "grant_share" /\ x.user = v /\ x.file = f
      /\ y.op = "unlist_share" /\ y.user = v /\ y.file = f
      /\ z.op = "revoke_share" /\ z.user = v /\ z.file = f
  BY <1>3, WriteNames
<1>6. CASE Start(u, [kind |-> "share", file |-> f, user |-> v], ShareWrites(f, v))
  <2> DEFINE a == [kind |-> "share", file |-> f, user |-> v]
  <2>1. a.kind = "share" /\ a.file = f /\ a.user = v
    OBVIOUS
  <2>2. Start(u, a, ShareWrites(f, v))
    BY <1>6
  <2> HIDE DEF a
  <2>3. (u \notin hurt => Tidy(u, a)) /\ f < ticket.file
    BY <1>1, <2>2, StartsTidy
  <2>4. u \notin hurt => ~InTrash(f)
    BY <1>1, <2>1, <2>3 DEF Tidy
  <2>5. PICK s : s = <<w, x>>
    OBVIOUS
  <2>6. s = ShareWrites(f, v).todo
    BY <1>4, <2>5
  <2>7. DOMAIN s = {1, 2} /\ s[1] = w /\ s[2] = x /\ WritesOf(s) = {w, x}
    BY <1>4, <2>5, TwoWrites
  <2>8. Local(u, w) /\ Local(u, x)
    BY <1>2, <1>5, <2>3 DEF Local
  <2>9. Untrashed(f)
    BY <1>1, <2>4 DEF Untrashed
  <2>10. Asked(u, s, a)
    BY <1>2, <1>5, <2>1, <2>7, <2>9 DEF Asked, Linked, OwnShare
  <2>11. Fulfils(u, s, a)
    BY <1>3, <2>1, <2>7 DEF Fulfils, OwesRecovery, OwesRevision, OwesGrant, OwesRevoke, OwesLeave
  <2>12. ASSUME u \notin hurt PROVE Kept(u, Sharing, s)
    <3>1. s \in Sound(u, Sharing, {}, {})
      <4>1. ShareWrites(f, v) \in SoundPrograms(u, Sharing, {}, {})
        BY <2>4, <2>12, SharePrograms DEF Sharing
      <4> QED
        BY <2>6, <4>1 DEF SoundPrograms, Programs
    <3>2. \A i \in DOMAIN s : s[i].op # "trash"
      BY <1>5, <2>7
    <3> QED
      BY <3>1, <3>2, SoundKept, NoTrashOnce
  <2>13. Fit(u, s, a)
    BY <2>7, <2>8, <2>10, <2>11, <2>12 DEF Fit, Sorts
  <2> QED
    BY <2>2, <2>6, <2>13
<1>7. CASE Start(u, [kind |-> "unshare", file |-> f, user |-> v], UnshareWrites(f, v))
  <2> DEFINE a == [kind |-> "unshare", file |-> f, user |-> v]
  <2>1. a.kind = "unshare" /\ a.file = f /\ a.user = v
    OBVIOUS
  <2>2. Start(u, a, UnshareWrites(f, v))
    BY <1>7
  <2> HIDE DEF a
  <2>3. u \notin hurt => Tidy(u, a)
    BY <2>2, StartsTidy
  <2>4. u \notin hurt => ~InTrash(f)
    BY <1>1, <2>1, <2>3 DEF Tidy
  <2>5. PICK s : s = <<y, z>>
    OBVIOUS
  <2>6. s = UnshareWrites(f, v).todo
    BY <1>4, <2>5
  <2>7. DOMAIN s = {1, 2} /\ s[1] = y /\ s[2] = z /\ WritesOf(s) = {y, z}
    BY <1>4, <2>5, TwoWrites
  <2>8. Local(u, y) /\ Local(u, z)
    BY <1>2, <1>5 DEF Local
  <2>9. Untrashed(f)
    BY <1>1, <2>4 DEF Untrashed
  <2>10. Asked(u, s, a)
    BY <1>2, <1>5, <2>1, <2>7, <2>9 DEF Asked, Linked, OwnShare
  <2>11. Fulfils(u, s, a)
    BY <1>3, <2>1, <2>7 DEF Fulfils, OwesRecovery, OwesRevision, OwesGrant, OwesRevoke, OwesLeave
  <2>12. Kept(u, Sharing, s)
    <3>1. s \in Sound(u, Sharing, {}, {})
      <4>1. UnshareWrites(f, v) \in SoundPrograms(u, Sharing, {}, {})
        BY SharePrograms DEF Sharing
      <4> QED
        BY <2>6, <4>1 DEF SoundPrograms, Programs
    <3>2. \A i \in DOMAIN s : s[i].op # "trash"
      BY <1>5, <2>7
    <3> QED
      BY <3>1, <3>2, SoundKept, NoTrashOnce
  <2>13. Fit(u, s, a)
    BY <2>7, <2>8, <2>10, <2>11, <2>12 DEF Fit, Sorts
  <2> QED
    BY <2>2, <2>6, <2>13
<1> QED
  BY <1>6, <1>7 DEF RequestShare

\* A user drops the share of another's file.
LEMMA LeaveFits ==
  ASSUME CatalogAssumption, StepsInv, MendInv, NEW u \in Users, NEW f \in FileId, RequestLeave(u, f)
  PROVE  \E a, q : Start(u, a, q) /\ Fit(u, q.todo, a)
<1> DEFINE a == [kind |-> "leave", file |-> f]
<1>1. a.kind = "leave" /\ a.file = f
  OBVIOUS
<1>2. Start(u, a, UnshareWrites(f, u))
  BY DEF RequestLeave
<1> HIDE DEF a
<1>3. f \in DOMAIN file /\ file[f].owner # u /\ u \in file[f].users_shared
  BY DEF RequestLeave
<1>4. PICK y, z : y = UnlistShare(u, f) /\ z = RevokeShare(u, f)
  OBVIOUS
<1>5. y \in Writes /\ z \in Writes /\ UnshareWrites(f, u).todo = <<y, z>>
  BY <1>4, SharePrograms
<1>6. /\ y.op = "unlist_share" /\ y.user = u /\ y.file = f
      /\ z.op = "revoke_share" /\ z.user = u /\ z.file = f
  BY <1>4, WriteNames
<1>7. PICK s : s = <<y, z>>
  OBVIOUS
<1>8. s = UnshareWrites(f, u).todo
  BY <1>5, <1>7
<1>9. DOMAIN s = {1, 2} /\ s[1] = y /\ s[2] = z /\ WritesOf(s) = {y, z}
  BY <1>5, <1>7, TwoWrites
<1>10. Untrashed(f)
  <2>1. file[f].owner \notin hurt /\ InTrash(f) => file[f].users_shared = {}
    BY <1>2, <1>3, StartsTidy
  <2> QED
    BY <1>3, <2>1 DEF Untrashed
<1>11. Local(u, y) /\ Local(u, z)
  BY <1>6, <1>10 DEF Local
<1>12. Asked(u, s, a)
  BY <1>1, <1>6, <1>9, <1>10 DEF Asked, Linked
<1>13. Fulfils(u, s, a)
  BY <1>1, <1>4, <1>9 DEF Fulfils, OwesRecovery, OwesRevision, OwesGrant, OwesRevoke, OwesLeave
<1>14. Kept(u, Sharing, s)
  <2>1. s \in Sound(u, Sharing, {}, {})
    <3>1. UnshareWrites(f, u) \in SoundPrograms(u, Sharing, {}, {})
      BY SharePrograms DEF Sharing
    <3> QED
      BY <1>8, <3>1 DEF SoundPrograms, Programs
  <2>2. \A i \in DOMAIN s : s[i].op # "trash"
    BY <1>6, <1>9
  <2> QED
    BY <2>1, <2>2, SoundKept, NoTrashOnce
<1>15. Fit(u, s, a)
  BY <1>9, <1>11, <1>12, <1>13, <1>14 DEF Fit, Sorts
<1> QED
  BY <1>2, <1>8, <1>15

----------------------------------------------------------------------------
(* Longer programs.                                                        *)

Locals(u) == {w \in Writes : Local(u, w)}

\* Programs with writes of a set X.
LEMMA ProgramsOf ==
  ASSUME NEW X, X \subseteq Writes
  PROVE  /\ Programs(Seq(X)) \subseteq Programs(Seq(Writes))
         /\ Stop \in Programs(Seq(X)) /\ Do(<<>>) \in Programs(Seq(X))
         /\ \A s \in Seq(X) : Do(s) \in Programs(Seq(X))
         /\ \A p, q \in Programs(Seq(X)) : Then(p, q) \in Programs(Seq(X))
         /\ \A p \in Programs(Seq(X)) : \A i \in DOMAIN p.todo : p.todo[i] \in X
<1>1. <<>> \in Seq(X) /\ (\A s, t \in Seq(X) : s \o t \in Seq(X)) /\ Seq(X) \subseteq Seq(Writes)
  OBVIOUS
<1>2. \A s \in Seq(X) : \A i \in DOMAIN s : s[i] \in X
  OBVIOUS
<1>3. PICK T : T = Seq(X)
  OBVIOUS
<1>4. <<>> \in T /\ (\A s, t \in T : s \o t \in T) /\ (\A s \in T : \A i \in DOMAIN s : s[i] \in X)
  BY <1>1, <1>2, <1>3
<1>5. /\ Stop \in Programs(T) /\ Do(<<>>) \in Programs(T)
      /\ \A s \in T : Do(s) \in Programs(T)
      /\ \A p, q \in Programs(T) : Then(p, q) \in Programs(T)
      /\ \A p \in Programs(T) : p.todo \in T
  BY <1>4 DEF Do, Stop, Then, Programs
<1>6. Programs(Seq(X)) \subseteq Programs(Seq(Writes))
  BY <1>1 DEF Programs
<1> QED
  BY <1>3, <1>4, <1>5, <1>6

\* What two programs write, one after the other.
LEMMA ThenWrites ==
  ASSUME NEW p \in Programs(Seq(Writes)), NEW q \in Programs(Seq(Writes)), p.ok
  PROVE  /\ Then(p, q).ok = q.ok
         /\ WritesOf(Then(p, q).todo) = WritesOf(p.todo) \cup WritesOf(q.todo)
<1>1. p.todo \in Seq(Writes) /\ q.todo \in Seq(Writes)
  BY DEF Programs
<1>2. PICK s, t, r : s = p.todo /\ t = q.todo /\ r = s \o t
  OBVIOUS
<1>3. Then(p, q).todo = r /\ Then(p, q).ok = q.ok
  BY <1>2 DEF Then
<1>4. WritesOf(r) = WritesOf(s) \cup WritesOf(t)
  BY <1>1, <1>2, ConcatWrites
<1> QED
  BY <1>2, <1>3, <1>4

\* A program of one write.
One(x) == Do(<<x>>)

LEMMA OneIs ==
  ASSUME NEW x \in Writes
  PROVE  /\ One(x) \in Programs(Seq(Writes)) /\ One(x).ok /\ One(x) = Do(<<x>>)
         /\ WritesOf(One(x).todo) = {x}
         /\ One(x).todo \in Seq(Writes) /\ DOMAIN One(x).todo = {1} /\ One(x).todo[1] = x
         /\ Done(One(x).todo, 1) = {} /\ Left(One(x).todo, 1) = {}
         /\ \A X : X \subseteq Writes /\ x \in X => One(x) \in Programs(Seq(X))
<1>1. PICK s : s = <<x>>
  OBVIOUS
<1>2. /\ s \in Seq(Writes) /\ DOMAIN s = {1} /\ s[1] = x
      /\ WritesOf(s) = {x} /\ Done(s, 1) = {} /\ Left(s, 1) = {}
  BY <1>1, OneWrite
<1>3. One(x) = [todo |-> s, ok |-> TRUE]
  BY <1>1 DEF One, Do
<1>4. ASSUME NEW X, X \subseteq Writes, x \in X
      PROVE  One(x) \in Programs(Seq(X))
  <2>1. s \in Seq(X)
    BY <1>1, <1>4
  <2> QED
    BY <1>3, <2>1 DEF Programs
<1>5. One(x) \in Programs(Seq(Writes))
  BY <1>4
<1>6. One(x) = Do(<<x>>)
  BY DEF One
<1>7. One(x).ok /\ One(x).todo = s
  BY <1>3
<1> QED
  BY <1>2, <1>4, <1>5, <1>6, <1>7

LEMMA SoundOne ==
  ASSUME NEW u, NEW K, NEW P, NEW Q, NEW x \in Writes, x.op \in K,
         x.op \notin {"grant_share", "revoke_share"},
         \A s : s[1] = x => Good(u, s, 1, P, Q)
  PROVE  One(x) \in SoundPrograms(u, K, P, Q)
<1>1. PICK s : s = One(x).todo
  OBVIOUS
<1>2. /\ s \in Seq(Writes) /\ DOMAIN s = {1} /\ s[1] = x
      /\ WritesOf(s) = {x} /\ Done(s, 1) = {} /\ Left(s, 1) = {}
  BY <1>1, OneIs
<1>3. P \cup {} = P /\ Q \cup {} = Q
  OBVIOUS
<1>4. s \in Sound(u, K, P, Q)
  BY <1>2, <1>3 DEF Sound
<1>5. PICK T : T = Sound(u, K, P, Q)
  OBVIOUS
<1>6. One(x).ok /\ One(x) = [todo |-> s, ok |-> TRUE]
  <2>1. PICK z : z = <<x>>
    OBVIOUS
  <2>2. One(x) = [todo |-> z, ok |-> TRUE]
    BY <2>1 DEF One, Do
  <2> QED
    BY <1>1, <2>2
<1>7. One(x) \in Programs(T)
  <2>1. \A r \in T : [todo |-> r, ok |-> TRUE] \in Programs(T)
    BY DEF Programs
  <2> QED
    BY <1>4, <1>5, <1>6, <2>1
<1> QED
  BY <1>5, <1>6, <1>7 DEF SoundPrograms

LEMMA SoundChain ==
  ASSUME NEW u, NEW K, NEW P, NEW Q, NEW p, NEW q,
         p \in SoundPrograms(u, K, P, Q \cup WritesOf(q.todo)),
         q \in SoundPrograms(u, K, P \cup WritesOf(p.todo), Q)
  PROVE  /\ Then(p, q) \in SoundPrograms(u, K, P, Q)
         /\ WritesOf(Then(p, q).todo) = WritesOf(p.todo) \cup WritesOf(q.todo)
<1>1. PICK s, t, r : s = p.todo /\ t = q.todo /\ r = s \o t
  OBVIOUS
<1>2. /\ s \in Sound(u, K, P, Q \cup WritesOf(t)) /\ t \in Sound(u, K, P \cup WritesOf(s), Q)
      /\ p.ok = TRUE /\ q.ok = TRUE
  BY <1>1 DEF SoundPrograms, Programs
<1>3. r \in Sound(u, K, P, Q)
  BY <1>1, <1>2, SoundConcat
<1>4. Then(p, q) = [todo |-> r, ok |-> TRUE]
  BY <1>1, <1>2 DEF Then
<1>5. p \in Programs(Seq(Writes)) /\ q \in Programs(Seq(Writes))
  BY SoundThen
<1>6. Then(p, q) \in SoundPrograms(u, K, P, Q)
  BY <1>3, <1>4 DEF SoundPrograms, Programs
<1> QED
  BY <1>2, <1>5, <1>6, ThenWrites

LEMMA SoundLoop ==
  ASSUME CatalogAssumption, NEW u, NEW K, NEW P, NEW Q, NEW o \in Orders,
         NEW S \in SUBSET (Users \cup FileId), NEW B,
         \A x \in S : B[x] \in SoundPrograms(u, K, P, Q)
  PROVE  /\ ForEach(o, S, B) \in SoundPrograms(u, K, P, Q)
         /\ \A x \in S : WritesOf(B[x].todo) \subseteq WritesOf(ForEach(o, S, B).todo)
<1>1. PICK U : U = SoundPrograms(u, K, P, Q)
  OBVIOUS
<1>2. /\ U \subseteq Programs(Seq(Writes)) /\ Do(<<>>) \in U /\ \A p, q \in U : Then(p, q) \in U
  BY <1>1, SoundThen
<1>3. Len(o) \in Nat
  BY OrderCovers
<1>4. ForEach(o, S, B) \in U
  BY <1>1, <1>2, <1>3, ForEachIn
<1>5. ForEach(o, S, B).ok
  BY <1>1, <1>4 DEF SoundPrograms
<1>6. \A x \in S : B[x] \in Programs(Seq(Writes))
  BY <1>1, <1>2
<1> QED
  BY <1>1, <1>4, <1>5, <1>6, ForEachHas

\* Replacing the list of those a file is shared with.
LEMMA OverwriteFits ==
  ASSUME CatalogAssumption, StepsInv, MendInv, NEW u \in Users, NEW f \in FileId,
         NEW V \in SUBSET Users, NEW o \in Orders, RequestOverwrite(u, f, V, o)
  PROVE  \E a, q : Start(u, a, q) /\ Fit(u, q.todo, a)
<1> DEFINE a == [kind |-> "overwrite", file |-> f, users |-> V]
           B == [v \in Users |-> UnshareWrites(f, v)]
           G == [v \in Users |-> ShareWrites(f, v)]
           X == {w \in Locals(u) : /\ w.file = f
                                   /\ \/ w.op \in {"unlist_share", "revoke_share"}
                                      \/ w.op \in {"list_share", "grant_share"} /\ w.user \in V}
           q == OverwriteWrites(f, V, o)
<1>1. f \in DOMAIN file /\ file[f].owner = u /\ Listed(f)
  BY DEF RequestOverwrite, Listed
<1>2. a.kind = "overwrite" /\ a.file = f /\ a.users = V
  OBVIOUS
<1>3. Start(u, a, q)
  BY DEF RequestOverwrite
<1> HIDE DEF a
<1>4. TypeOK /\ (u \notin hurt => Tidy(u, a)) /\ f < ticket.file
  BY <1>1, <1>3, StartsTidy
<1>5. PICK S : S = file[f].users_shared
  OBVIOUS
<1>6. S \subseteq Users
  BY <1>1, <1>4, <1>5 DEF TypeOK, FileRecord
<1>7. u \notin hurt => ~InTrash(f)
  BY <1>1, <1>2, <1>4 DEF Tidy
<1>8. OwnFile(u, f) /\ Untrashed(f)
  BY <1>1, <1>7 DEF OwnFile, Untrashed
<1>9. ASSUME NEW v \in Users
      PROVE  /\ B[v] \in Programs(Seq(X))
             /\ v \in V => G[v] \in Programs(Seq(X))
  <2>1. PICK w, x, y, z : /\ w = ListShare(v, f) /\ x = GrantShare(v, f)
                          /\ y = UnlistShare(v, f) /\ z = RevokeShare(v, f)
    OBVIOUS
  <2>2. /\ w \in Writes /\ x \in Writes /\ y \in Writes /\ z \in Writes
        /\ ShareWrites(f, v).todo = <<w, x>> /\ UnshareWrites(f, v).todo = <<y, z>>
    BY <2>1, SharePrograms
  <2>3. /\ w.op = "list_share" /\ w.user = v /\ w.file = f
        /\ x.op = "grant_share" /\ x.user = v /\ x.file = f
        /\ y.op = "unlist_share" /\ y.user = v /\ y.file = f
        /\ z.op = "revoke_share" /\ z.user = v /\ z.file = f
    BY <2>1, WriteNames
  <2>4. Local(u, w) /\ Local(u, x) /\ Local(u, y) /\ Local(u, z)
    BY <1>4, <1>8, <2>3 DEF Local
  <2>5. y \in X /\ z \in X /\ (v \in V => w \in X /\ x \in X)
    BY <2>2, <2>3, <2>4 DEF Locals
  <2> HIDE DEF X
  <2>6. UnshareWrites(f, v) = Do(<<y, z>>) /\ ShareWrites(f, v) = Do(<<w, x>>)
    BY <2>1 DEF ListShare, GrantShare, UnlistShare, RevokeShare, ShareWrites, UnshareWrites
  <2>7. <<y, z>> \in Seq(X) /\ (v \in V => <<w, x>> \in Seq(X))
    BY <2>5
  <2>8. PICK T : T = Seq(X)
    OBVIOUS
  <2>9. PICK g, h : g = <<y, z>> /\ h = <<w, x>>
    OBVIOUS
  <2>10. B[v] = [todo |-> g, ok |-> TRUE] /\ G[v] = [todo |-> h, ok |-> TRUE]
    BY <2>6, <2>9 DEF Do
  <2>11. g \in T /\ (v \in V => h \in T)
    BY <2>7, <2>8, <2>9
  <2>12. B[v] \in Programs(T) /\ (v \in V => G[v] \in Programs(T))
    <3> HIDE DEF B, G
    <3>1. \A e \in T : [todo |-> e, ok |-> TRUE] \in Programs(T)
      BY DEF Programs
    <3> QED
      BY <2>10, <2>11, <3>1
  <2> QED
    BY <2>8, <2>12
<1>10. X \subseteq Writes /\ Len(o) \in Nat
  BY OrderCovers DEF Locals
<1>11. q = Then(ForEach(o, S, B), ForEach(o, V, G))
  BY <1>5 DEF OverwriteWrites
<1>12. \A v \in Users : B[v] = UnshareWrites(f, v) /\ G[v] = ShareWrites(f, v)
  OBVIOUS
<1>13. \A i \in DOMAIN q.todo : q.todo[i] \in X
  <2> HIDE DEF B, G, X, q
  <2>1. ForEach(o, S, B) \in Programs(Seq(X)) /\ ForEach(o, V, G) \in Programs(Seq(X))
    BY <1>6, <1>9, <1>10, ForEachWrites
  <2>2. q \in Programs(Seq(X))
    BY <1>10, <1>11, <2>1, ProgramsOf
  <2> QED
    BY <1>10, <2>2, ProgramsOf
<1>14. PICK s : s = q.todo
  OBVIOUS
<1>15. \A i \in DOMAIN s : /\ Local(u, s[i]) /\ s[i].file = f
                           /\ \/ s[i].op \in {"unlist_share", "revoke_share"}
                              \/ s[i].op \in {"list_share", "grant_share"} /\ s[i].user \in V
  BY <1>13, <1>14 DEF Locals
<1> HIDE DEF B, G, X, q
<1>16. Asked(u, s, a)
  BY <1>2, <1>8, <1>15 DEF Asked, Linked, OwnShare
<1>17. ASSUME u \notin hurt
       PROVE  Fulfils(u, s, a) /\ Kept(u, Sharing, s)
  <2>1. \A v \in Users : B[v] \in SoundPrograms(u, Sharing, {}, {})
    BY <1>12, SharePrograms DEF Sharing
  <2>2. \A v \in Users : G[v] \in SoundPrograms(u, Sharing, {}, {})
    BY <1>7, <1>12, <1>17, SharePrograms DEF Sharing
  <2>3. PICK g, h : g = ForEach(o, S, B) /\ h = ForEach(o, V, G)
    OBVIOUS
  <2>4. /\ g \in SoundPrograms(u, Sharing, {}, {})
        /\ \A v \in S : WritesOf(B[v].todo) \subseteq WritesOf(g.todo)
    BY <1>6, <2>1, <2>3, SoundLoop
  <2>5. /\ h \in SoundPrograms(u, Sharing, {}, {})
        /\ \A v \in V : WritesOf(G[v].todo) \subseteq WritesOf(h.todo)
    BY <2>2, <2>3, SoundLoop
  <2>6. q = Then(g, h)
    BY <1>11, <2>3
  <2>7. q \in SoundPrograms(u, Sharing, {}, {})
    BY <2>4, <2>5, <2>6, SoundThen
  <2>8. WritesOf(s) = WritesOf(g.todo) \cup WritesOf(h.todo)
    <3>1. g \in Programs(Seq(Writes)) /\ h \in Programs(Seq(Writes)) /\ g.ok
      BY <2>4, <2>5, SoundThen DEF SoundPrograms
    <3> QED
      BY <1>14, <2>6, <3>1, ThenWrites
  <2>9. ASSUME NEW v \in S PROVE RevokeShare(v, f) \in WritesOf(s)
    <3>1. v \in Users
      BY <1>6
    <3>2. PICK y, z : y = UnlistShare(v, f) /\ z = RevokeShare(v, f)
      OBVIOUS
    <3>3. y \in Writes /\ z \in Writes /\ B[v].todo = <<y, z>>
      BY <1>12, <3>1, <3>2, SharePrograms
    <3>4. z \in WritesOf(B[v].todo)
      BY <3>3, TwoWrites
    <3> QED
      BY <2>4, <2>8, <3>2, <3>4
  <2>10. ASSUME NEW v \in V PROVE GrantShare(v, f) \in WritesOf(s)
    <3>1. v \in Users
      OBVIOUS
    <3>2. PICK y, z : y = ListShare(v, f) /\ z = GrantShare(v, f)
      OBVIOUS
    <3>3. y \in Writes /\ z \in Writes /\ G[v].todo = <<y, z>>
      BY <1>12, <3>1, <3>2, SharePrograms
    <3>4. z \in WritesOf(G[v].todo)
      BY <3>3, TwoWrites
    <3> QED
      BY <2>5, <2>8, <3>2, <3>4
  <2>11. Fulfils(u, s, a)
    BY <1>2, <1>5, <2>9, <2>10 DEF Fulfils, OwesRecovery, OwesRevision, OwesGrant, OwesRevoke, OwesLeave
  <2>12. s \in Sound(u, Sharing, {}, {})
    BY <1>14, <2>7 DEF SoundPrograms, Programs
  <2>13. \A i \in DOMAIN s : s[i].op # "trash"
    BY <1>15
  <2> QED
    BY <2>11, <2>12, <2>13, SoundKept, NoTrashOnce
<1>18. Fit(u, s, a)
  BY <1>15, <1>16, <1>17 DEF Fit, Sorts
<1> QED
  BY <1>3, <1>14, <1>18

----------------------------------------------------------------------------
(* Deletions: what they put in the trash.                                  *)

\* Sequences and programs that trash files of F, each once.
Trashing(s, F) == Once(s) /\ \A i \in DOMAIN s : s[i].op = "trash" => s[i].file \in F
OncePrograms(F) == {p \in Programs(Seq(Writes)) : Trashing(p.todo, F)}
Apart(F, G) == F \cap G = {}

LEMMA OnceMore ==
  ASSUME NEW F, NEW G, F \subseteq G
  PROVE  OncePrograms(F) \subseteq OncePrograms(G)
BY DEF OncePrograms, Trashing

LEMMA OnceConcat ==
  ASSUME NEW F, NEW G, Apart(F, G), NEW s \in Seq(Writes), NEW t \in Seq(Writes),
         Trashing(s, F), Trashing(t, G), NEW r, r = s \o t
  PROVE  Trashing(r, F \cup G)
<1> USE DEF Apart, Trashing
<1>1. PICK m \in Nat : m = Len(s)
  OBVIOUS
<1>2. PICK n \in Nat : n = Len(t)
  OBVIOUS
<1>3. /\ DOMAIN r = 1 .. m + n /\ DOMAIN s = 1 .. m /\ DOMAIN t = 1 .. n
      /\ \A i \in 1 .. m : r[i] = s[i]
      /\ \A i \in 1 .. n : r[m + i] = t[i]
  BY <1>1, <1>2
<1>4. \A i \in 1 .. m + n : i \in 1 .. m \/ (i - m \in 1 .. n /\ i = m + (i - m))
  BY <1>1, <1>2
<1>5. ASSUME NEW i \in DOMAIN r
      PROVE  \/ i \in DOMAIN s /\ r[i] = s[i]
             \/ \E j \in DOMAIN t : i = m + j /\ r[i] = t[j]
  <2>1. CASE i \in 1 .. m
    BY <1>3, <2>1
  <2>2. CASE i - m \in 1 .. n /\ i = m + (i - m)
    <3>1. PICK j \in 1 .. n : i = m + j
      BY <2>2
    <3> QED
      BY <1>3, <3>1
  <2> QED
    BY <1>3, <1>4, <2>1, <2>2
<1>6. ASSUME NEW i \in DOMAIN r, NEW j \in DOMAIN r, r[i].op = "trash", r[j].op = "trash",
             r[i].file = r[j].file
      PROVE  i = j
  <2>1. CASE (i \in DOMAIN s /\ r[i] = s[i]) /\ (j \in DOMAIN s /\ r[j] = s[j])
    BY <1>6, <2>1 DEF Once
  <2>2. CASE (i \in DOMAIN s /\ r[i] = s[i]) /\ (\E k \in DOMAIN t : j = m + k /\ r[j] = t[k])
    BY <1>6, <2>2
  <2>3. CASE (\E k \in DOMAIN t : i = m + k /\ r[i] = t[k]) /\ (j \in DOMAIN s /\ r[j] = s[j])
    BY <1>6, <2>3
  <2>4. CASE /\ \E k \in DOMAIN t : i = m + k /\ r[i] = t[k]
             /\ \E k \in DOMAIN t : j = m + k /\ r[j] = t[k]
    <3>1. PICK k \in DOMAIN t : i = m + k /\ r[i] = t[k]
      BY <2>4
    <3>2. PICK l \in DOMAIN t : j = m + l /\ r[j] = t[l]
      BY <2>4
    <3>3. k = l
      BY SMTT(30), <1>6, <3>1, <3>2 DEF Once
    <3> QED
      BY <3>1, <3>2, <3>3
  <2> QED
    BY <1>5, <2>1, <2>2, <2>3, <2>4
<1>7. \A i \in DOMAIN r : r[i].op = "trash" => r[i].file \in F \cup G
  BY <1>5
<1> QED
  BY <1>6, <1>7 DEF Once

LEMMA OnceThen ==
  ASSUME NEW F, NEW G, Apart(F, G), NEW p \in OncePrograms(F), NEW q \in OncePrograms(G)
  PROVE  Then(p, q) \in OncePrograms(F \cup G)
<1>1. PICK s, t, r : s = p.todo /\ t = q.todo /\ r = s \o t
  OBVIOUS
<1>2. /\ s \in Seq(Writes) /\ t \in Seq(Writes) /\ q.ok \in BOOLEAN
      /\ Trashing(s, F) /\ Trashing(t, G)
  BY <1>1 DEF OncePrograms, Programs
<1>3. CASE ~p.ok
  BY <1>3 DEF Then, OncePrograms, Trashing
<1>4. CASE p.ok
  <2>1. Then(p, q) = [todo |-> r, ok |-> q.ok]
    BY <1>1, <1>4 DEF Then
  <2>2. r \in Seq(Writes)
    BY <1>1, <1>2, ConcatWrites
  <2>3. Trashing(r, F \cup G)
    BY <1>1, <1>2, OnceConcat
  <2> QED
    BY <1>2, <2>1, <2>2, <2>3 DEF OncePrograms, Programs
<1> QED
  BY <1>3, <1>4

\* Programs that trash nothing.
LEMMA OnceNone ==
  ASSUME NEW p \in Programs(Seq({w \in Writes : w.op # "trash"}))
  PROVE  p \in OncePrograms({})
<1>1. PICK X : X = {w \in Writes : w.op # "trash"}
  OBVIOUS
<1>2. X \subseteq Writes /\ \A w \in X : w.op # "trash"
  BY <1>1
<1>3. p \in Programs(Seq(Writes)) /\ \A i \in DOMAIN p.todo : p.todo[i] \in X
  BY <1>1, <1>2, ProgramsOf
<1>4. \A i \in DOMAIN p.todo : p.todo[i].op # "trash"
  BY <1>2, <1>3
<1> QED
  BY <1>3, <1>4, NoTrashOnce DEF OncePrograms, Trashing

\* The shares of a file end.
LEMMA UnshareLoop ==
  ASSUME CatalogAssumption, NEW f \in FileId, NEW V \in SUBSET Users, NEW o \in Orders, NEW B,
         B = [v \in Users |-> UnshareWrites(f, v)]
  PROVE  /\ ForEach(o, V, B) \in OncePrograms({})
         /\ \A u : OwnFile(u, f) => ForEach(o, V, B) \in Programs(Seq(Locals(u)))
         /\ \A u, P, Q : ForEach(o, V, B) \in SoundPrograms(u, Deleting, P, Q)
         /\ \A v \in V : RevokeShare(v, f) \in WritesOf(ForEach(o, V, B).todo)
<1>1. PICK X : X = {w \in Writes : w.op \in {"unlist_share", "revoke_share"} /\ w.file = f}
  OBVIOUS
<1>2. X \subseteq Writes
  BY <1>1
<1>3. \A v \in Users : B[v] = UnshareWrites(f, v)
  OBVIOUS
<1>4. ASSUME NEW v \in Users
      PROVE  B[v] \in Programs(Seq(X))
  <2>1. PICK y, z : y = UnlistShare(v, f) /\ z = RevokeShare(v, f)
    OBVIOUS
  <2>2. y \in Writes /\ z \in Writes
    BY <2>1, SharePrograms
  <2>3. y \in X /\ z \in X
    BY <1>1, <2>1, <2>2, WriteNames
  <2>4. <<y, z>> \in Seq(X)
    BY <2>3
  <2>5. B[v] = Do(<<y, z>>)
    BY <1>3, <2>1 DEF UnlistShare, RevokeShare, UnshareWrites
  <2> QED
    BY <1>2, <2>4, <2>5, ProgramsOf
<1>5. Len(o) \in Nat
  BY OrderCovers
<1>6. PICK g : g = ForEach(o, V, B)
  OBVIOUS
<1>7. g \in Programs(Seq(X))
  BY <1>2, <1>4, <1>5, <1>6, ForEachWrites
<1>8. ASSUME NEW Y, X \subseteq Y
      PROVE  g \in Programs(Seq(Y))
  <2>1. Seq(X) \subseteq Seq(Y)
    BY <1>8
  <2> QED
    BY <1>7, <2>1 DEF Programs
<1>9. g \in OncePrograms({})
  <2>1. X \subseteq {w \in Writes : w.op # "trash"}
    BY <1>1
  <2> QED
    BY <1>8, <2>1, OnceNone
<1>10. ASSUME NEW u, OwnFile(u, f)
       PROVE  g \in Programs(Seq(Locals(u)))
  <2>1. ASSUME NEW w \in X PROVE w \in Locals(u)
    <3>1. w.op \in {"unlist_share", "revoke_share"} /\ w.file = f /\ w \in Writes
      BY <1>1
    <3>2. Local(u, w)
      BY <1>10, <3>1 DEF Local
    <3> QED
      BY <3>1, <3>2 DEF Locals
  <2> QED
    BY <1>8, <2>1
<1>11. ASSUME NEW u, NEW P, NEW Q
       PROVE  /\ g \in SoundPrograms(u, Deleting, P, Q)
              /\ \A v \in V : WritesOf(B[v].todo) \subseteq WritesOf(g.todo)
  <2>1. \A v \in V : B[v] \in SoundPrograms(u, Deleting, P, Q)
    BY <1>3, SharePrograms DEF Deleting
  <2> QED
    BY <1>6, <2>1, SoundLoop
<1>12. ASSUME NEW v \in V PROVE RevokeShare(v, f) \in WritesOf(g.todo)
  <2>1. PICK y, z : y = UnlistShare(v, f) /\ z = RevokeShare(v, f)
    OBVIOUS
  <2>2. y \in Writes /\ z \in Writes /\ B[v].todo = <<y, z>>
    BY <1>3, <2>1, SharePrograms
  <2>3. z \in WritesOf(B[v].todo)
    <3>1. z \in WritesOf(<<y, z>>)
      BY <2>2, TwoWrites
    <3> QED
      BY <2>2, <3>1
  <2>4. WritesOf(B[v].todo) \subseteq WritesOf(g.todo)
    BY <1>11
  <2> QED
    BY <2>1, <2>3, <2>4
<1> QED
  BY <1>6, <1>9, <1>10, <1>11, <1>12

\* What a file that is listed is deleted with.
LEMMA TrashSound ==
  ASSUME CatalogAssumption, TypeOK, Owned, NEW f \in DOMAIN file, NEW u, u = file[f].owner,
         Listed(f), NEW o \in Orders
  PROVE  /\ TrashWrites(f, o) \in OncePrograms({f})
         /\ TrashWrites(f, o) \in Programs(Seq(Locals(u)))
         /\ Unlist(file[f].parent_directory, f) \in WritesOf(TrashWrites(f, o).todo)
         /\ f \notin Trash(u) =>
              \A P, Q : TrashWrites(f, o) \in SoundPrograms(u, Deleting, P, Q)
<1>1. /\ f \in FileId /\ file[f].users_shared \subseteq Users /\ u \in Users
      /\ file[f].parent_directory \in DirId
  BY DEF TypeOK, FileRecord
<1>2. PICK d, V, B : /\ d = file[f].parent_directory /\ V = file[f].users_shared
                     /\ B = [v \in Users |-> UnshareWrites(f, v)]
  OBVIOUS
<1>3. d \in DOMAIN dir /\ dir[d].owner = u
  BY <1>2 DEF Listed, Owned
<1>4. PICK t, l, g : t = ToTrash(u, f) /\ l = Unlist(d, f) /\ g = ForEach(o, V, B)
  OBVIOUS
<1>5. /\ t.op = "trash" /\ t.user = u /\ t.file = f
      /\ l.op = "unlist" /\ l.dir = d /\ l.file = f
  BY <1>4, WriteNames
<1>6. t \in Writes /\ l \in Writes
  BY <1>1, <1>2, <1>4 DEF ToTrash, Unlist, Writes
<1>7. TrashWrites(f, o) = Then(One(t), Then(One(l), g))
  BY <1>2, <1>3, <1>4 DEF TrashWrites, ToTrash, Unlist, One
<1>8. PICK p : p = TrashWrites(f, o)
  OBVIOUS
<1>9. PICK q : q = Then(One(l), g)
  OBVIOUS
<1>10. /\ g \in OncePrograms({}) /\ g \in Programs(Seq(Writes))
       /\ g \in Programs(Seq(Locals(u)))
       /\ \A P, Q : g \in SoundPrograms(u, Deleting, P, Q)
       /\ \A v \in V : RevokeShare(v, f) \in WritesOf(g.todo)
  BY <1>1, <1>2, <1>4, UnshareLoop DEF OwnFile, OncePrograms
<1>11. Locals(u) \subseteq Writes
  BY DEF Locals
<1>12. p \in Programs(Seq(Locals(u)))
  <2>1. t \in Locals(u) /\ l \in Locals(u)
    <3>1. Local(u, t)
      BY <1>5 DEF Local
    <3>2. Local(u, l)
      BY <1>3, <1>5 DEF Local, OwnDir
    <3> QED
      BY <1>6, <3>1, <3>2 DEF Locals
  <2>2. PICK X : X = Locals(u)
    OBVIOUS
  <2>4. One(t) \in Programs(Seq(X)) /\ One(l) \in Programs(Seq(X))
    BY <1>6, <1>11, <2>1, <2>2, OneIs
  <2>5. q \in Programs(Seq(X))
    BY <1>9, <1>10, <1>11, <2>2, <2>4, ProgramsOf
  <2> QED
    BY <1>7, <1>8, <1>9, <1>11, <2>2, <2>4, <2>5, ProgramsOf
<1>13. p \in OncePrograms({f})
  <2>1. PICK E, F : E = {} /\ F = {f}
    OBVIOUS
  <2>2. ASSUME NEW w \in Writes, NEW G, w.op = "trash" => w.file \in G
        PROVE  One(w) \in OncePrograms(G)
    <3>1. /\ One(w) \in Programs(Seq(Writes)) /\ DOMAIN One(w).todo = {1}
          /\ One(w).todo[1] = w
      BY OneIs
    <3>2. Trashing(One(w).todo, G)
      BY <2>2, <3>1 DEF Trashing, Once
    <3> QED
      BY <3>1, <3>2 DEF OncePrograms
  <2>3. One(t) \in OncePrograms(F) /\ One(l) \in OncePrograms(E) /\ g \in OncePrograms(E)
    BY <1>5, <1>6, <1>10, <2>1, <2>2
  <2>4. Apart(E, E) /\ Apart(F, E) /\ E \cup E = E /\ F \cup E = F
    BY <2>1 DEF Apart
  <2>5. q \in OncePrograms(E)
    <3>1. Then(One(l), g) \in OncePrograms(E \cup E)
      BY <2>3, <2>4, OnceThen
    <3> QED
      BY <1>9, <2>4, <3>1
  <2>6. p \in OncePrograms(F)
    <3>1. Then(One(t), q) \in OncePrograms(F \cup E)
      BY <2>3, <2>4, <2>5, OnceThen
    <3> QED
      BY <1>7, <1>8, <1>9, <2>4, <3>1
  <2> QED
    BY <2>1, <2>6
<1>14. /\ One(t) \in Programs(Seq(Writes)) /\ One(t).ok /\ WritesOf(One(t).todo) = {t}
       /\ One(l) \in Programs(Seq(Writes)) /\ One(l).ok /\ WritesOf(One(l).todo) = {l}
  BY <1>6, OneIs
<1>15. WritesOf(q.todo) = {l} \cup WritesOf(g.todo) /\ q \in Programs(Seq(Writes))
  <2>1. q \in Programs(Seq(Writes))
    BY <1>9, <1>10, <1>14, ProgramsOf
  <2> QED
    BY <1>9, <1>10, <1>14, <2>1, ThenWrites
<1>16. l \in WritesOf(p.todo)
  BY <1>7, <1>8, <1>9, <1>14, <1>15, ThenWrites
<1>17. ASSUME f \notin Trash(u), NEW P, NEW Q
       PROVE  p \in SoundPrograms(u, Deleting, P, Q)
  <2>1. ASSUME NEW s, s[1] = t
        PROVE  Good(u, s, 1, P, Q \cup WritesOf(q.todo))
    <3>1. PICK L : L = Q \cup WritesOf(q.todo)
      OBVIOUS
    <3>2. l \in L /\ \A v \in V : RevokeShare(v, f) \in L
      BY <1>10, <1>15, <3>1
    <3>3. Good(u, s, 1, P, L)
      BY <1>2, <1>4, <1>5, <1>17, <2>1, <3>2 DEF Good
    <3> QED
      BY <3>1, <3>3
  <2>2. t.op \in Deleting /\ t.op \notin {"grant_share", "revoke_share"}
        /\ l.op \in Deleting /\ l.op \notin {"grant_share", "revoke_share"}
    BY <1>5 DEF Deleting
  <2>3. One(t) \in SoundPrograms(u, Deleting, P, Q \cup WritesOf(q.todo))
    BY <1>6, <2>1, <2>2, SoundOne
  <2>4. PICK D : D = P \cup WritesOf(One(t).todo)
    OBVIOUS
  <2>5. ASSUME NEW s, s[1] = l
        PROVE  Good(u, s, 1, D, Q \cup WritesOf(g.todo))
    <3>1. ToTrash(u, l.file) \in D
      BY <1>4, <1>5, <1>14, <2>4
    <3> QED
      BY <1>5, <2>5, <3>1 DEF Good
  <2>6. One(l) \in SoundPrograms(u, Deleting, D, Q \cup WritesOf(g.todo))
    BY <1>6, <2>2, <2>5, SoundOne
  <2>7. q \in SoundPrograms(u, Deleting, D, Q)
    BY <1>9, <1>10, <2>6, SoundChain
  <2> QED
    BY <1>7, <1>8, <1>9, <2>3, <2>4, <2>7, SoundChain
<1> QED
  BY <1>2, <1>4, <1>8, <1>12, <1>13, <1>16, <1>17

LEMMA DeletionFits ==
  ASSUME CatalogAssumption, StepsInv, MendInv, NEW u \in Users, NEW f \in FileId, NEW o \in Orders,
         RequestDeletion(u, f, o)
  PROVE  \E a, q : Start(u, a, q) /\ Fit(u, q.todo, a)
<1> DEFINE a == [kind |-> "delete", file |-> f]
<1>1. f \in DOMAIN file /\ file[f].owner = u /\ Listed(f)
  BY DEF RequestDeletion, Listed
<1>2. a.kind \notin Repeatable /\ a.kind # "recover"
  BY DEF Repeatable
<1>3. Start(u, a, TrashWrites(f, o))
  BY DEF RequestDeletion
<1> HIDE DEF a
<1>4. TypeOK /\ Owned /\ (u \notin hurt => Tidy(u, a))
  BY <1>3, StartsTidy
<1>5. PICK p : p = TrashWrites(f, o)
  OBVIOUS
<1>6. /\ p \in OncePrograms({f}) /\ p \in Programs(Seq(Locals(u)))
      /\ f \notin Trash(u) => p \in SoundPrograms(u, Deleting, {}, {})
  BY <1>1, <1>4, <1>5, TrashSound
<1>7. PICK s : s = p.todo
  OBVIOUS
<1>8. \A i \in DOMAIN s : Local(u, s[i])
  <2>1. Locals(u) \subseteq Writes /\ \A w \in Locals(u) : Local(u, w)
    BY DEF Locals
  <2> QED
    BY <1>6, <1>7, <2>1, ProgramsOf
<1>9. ASSUME u \notin hurt PROVE Kept(u, Deleting, s)
  <2>1. f \notin Trash(u)
    BY <1>1, <1>2, <1>4, <1>9 DEF Tidy, InTrash
  <2>2. s \in Sound(u, Deleting, {}, {}) /\ Once(s)
    BY <1>6, <1>7, <2>1 DEF SoundPrograms, Programs, OncePrograms, Trashing
  <2> QED
    BY <2>2, SoundKept
<1>10. Fit(u, s, a)
  BY <1>2, <1>8, <1>9, PlainAsk DEF Fit, Sorts
<1> QED
  BY <1>3, <1>5, <1>7, <1>10

----------------------------------------------------------------------------
(* Purges and recoveries.                                                  *)

\* The physical files of a file, latest first.
LEMMA RemoveSound ==
  ASSUME CatalogAssumption, TypeOK, NEW f \in DOMAIN file, NEW u, u = file[f].owner, NEW r,
         r = [i \in 1 .. file[f].revision |->
                [op |-> "remove", blob |-> <<file[f].owner, f, file[f].revision + 1 - i>>]]
  PROVE  /\ r \in Seq(Writes) /\ r \in Seq(Locals(u))
         /\ \A k \in 1 .. file[f].revision : RemoveBlob(<<u, f, k>>) \in WritesOf(r)
         /\ \A P, Q : EraseFile(f) \in Q => r \in Sound(u, Purging, P, Q)
<1>1. PICK n : n = file[f].revision
  OBVIOUS
<1>2. /\ u \in Users /\ f \in FileId /\ n \in 1 .. MaxRevision /\ MaxRevision \in Nat /\ n \in Nat
  BY <1>1 DEF TypeOK, FileRecord, CatalogAssumption
<1>3. r = [i \in 1 .. n |-> RemoveBlob(<<u, f, n + 1 - i>>)]
  BY <1>1 DEF RemoveBlob
<1>4. ASSUME NEW i \in 1 .. n
      PROVE  /\ r[i] \in Locals(u) /\ r[i] \in Writes /\ r[i].op = "remove" /\ r[i].blob[2] = f
  <2>1. PICK b : b = <<u, f, n + 1 - i>>
    OBVIOUS
  <2>2. n + 1 - i \in 1 .. MaxRevision
    BY <1>2
  <2>3. b \in Users \X FileId \X (1 .. MaxRevision) /\ b[1] = u /\ b[2] = f
    BY <1>2, <2>1, <2>2
  <2>4. PICK w : w = RemoveBlob(b)
    OBVIOUS
  <2>5. r[i] = w
    BY <1>3, <2>1, <2>4
  <2>6. w.op = "remove" /\ w.blob = b
    BY <2>4, WriteNames
  <2>7. w \in Writes
    BY <2>3, <2>4 DEF RemoveBlob, Writes
  <2>8. Local(u, w)
    BY <2>3, <2>6 DEF Local
  <2> QED
    BY <2>3, <2>5, <2>6, <2>7, <2>8 DEF Locals
<1>5. DOMAIN r = 1 .. n /\ r = [i \in 1 .. n |-> r[i]]
  BY <1>3
<1>6. r \in Seq(Writes) /\ r \in Seq(Locals(u))
  <2>1. r \in [1 .. n -> Writes] /\ r \in [1 .. n -> Locals(u)]
    BY <1>4, <1>5
  <2>2. \A m \in Nat : \A X : \A h \in [1 .. m -> X] : h \in Seq(X)
    OBVIOUS
  <2> QED
    BY <1>2, <2>1, <2>2
<1>7. ASSUME NEW k \in 1 .. n PROVE RemoveBlob(<<u, f, k>>) \in WritesOf(r)
  <2>1. PICK i \in 1 .. n : n + 1 - i = k
    <3>1. n + 1 - k \in 1 .. n /\ n + 1 - (n + 1 - k) = k
      BY <1>2
    <3> QED
      BY <3>1
  <2>2. r[i] = RemoveBlob(<<u, f, k>>)
    BY <1>3, <2>1
  <2> QED
    BY <1>5, <2>2 DEF WritesOf
<1>8. ASSUME NEW P, NEW Q, EraseFile(f) \in Q
      PROVE  r \in Sound(u, Purging, P, Q)
  <2>1. ASSUME NEW i \in DOMAIN r
        PROVE  r[i].op \in Purging /\ Good(u, r, i, P \cup Done(r, i), Q \cup Left(r, i))
    <3>1. PICK w : w = r[i]
      OBVIOUS
    <3>2. w.op = "remove" /\ w.blob[2] = f
      BY <1>4, <1>5, <3>1
    <3>3. EraseFile(w.blob[2]) \in Q \cup Left(r, i)
      BY <1>8, <3>2
    <3> QED
      BY ZenonT(40), <3>1, <3>2, <3>3 DEF Good, Purging
  <2>2. r # <<>> => r[1].op \notin {"grant_share", "revoke_share"}
    <3>1. 1 \in 1 .. n
      BY <1>2
    <3> QED
      BY <1>4, <3>1
  <2> QED
    BY ZenonT(40), <1>6, <2>1, <2>2 DEF Sound
<1> QED
  BY <1>1, <1>6, <1>7, <1>8

\* What one file of the trash is purged with.
LEMMA PurgeOneSound ==
  ASSUME CatalogAssumption, TypeOK, StoreInv, NEW u \in Users, NEW f \in Trash(u)
  PROVE  /\ PurgeOne(u, f) \in Programs(Seq(Locals(u)))
         /\ \A a, Q : Tidy(u, a) /\ a.kind = "purge" /\ Emptied(Q, u, f) =>
              /\ PurgeOne(u, f) \in SoundPrograms(u, Purging, {}, Q)
              /\ EraseFile(f) \in WritesOf(PurgeOne(u, f).todo)
<1>1. Locals(u) \subseteq Writes
  BY DEF Locals
<1>2. CASE f \notin DOMAIN file
  <2>1. PurgeOne(u, f) = Stop
    BY <1>2 DEF PurgeOne
  <2>2. \A a : ~Tidy(u, a)
    BY <1>2 DEF Tidy
  <2> QED
    BY <1>1, <2>1, <2>2, ProgramsOf
<1>3. CASE f \in DOMAIN file
  <2>1. f \in FileId /\ file[f].owner = u
    BY <1>3 DEF StoreInv, Trash
  <2>2. PICK r : r = [i \in 1 .. file[f].revision |->
                        [op |-> "remove", blob |-> <<file[f].owner, f, file[f].revision + 1 - i>>]]
    OBVIOUS
  <2>3. /\ r \in Seq(Writes) /\ r \in Seq(Locals(u))
        /\ \A k \in 1 .. file[f].revision : RemoveBlob(<<u, f, k>>) \in WritesOf(r)
        /\ \A P, Q : EraseFile(f) \in Q => r \in Sound(u, Purging, P, Q)
    BY <1>3, <2>1, <2>2, RemoveSound
  <2>4. PICK e : e = EraseFile(f)
    OBVIOUS
  <2>5. e \in Writes /\ e.op = "erase_file" /\ e.file = f
    BY <2>1, <2>4, WriteNames DEF EraseFile, Writes
  <2>6. PICK p : p = Do(r \o <<e>>)
    OBVIOUS
  <2>7. PICK g : g = IF user[u].files_deleted[f] > 1 THEN Stop ELSE Do(<<>>)
    OBVIOUS
  <2>8. PurgeOne(u, f) = Then(p, g)
    BY <1>3, <2>2, <2>4, <2>6, <2>7 DEF PurgeOne, EraseFile
  <2>9. PICK b : b = Do(r)
    OBVIOUS
  <2>10. /\ b.todo = r /\ b.ok
         /\ p = Then(b, One(e))
    BY <2>6, <2>9 DEF Then, One, Do
  <2>11. b \in Programs(Seq(Writes)) /\ b \in Programs(Seq(Locals(u)))
    BY <1>1, <2>3, <2>9, ProgramsOf
  <2>12. /\ One(e) \in Programs(Seq(Writes)) /\ One(e).ok /\ WritesOf(One(e).todo) = {e}
         /\ e \in Locals(u) => One(e) \in Programs(Seq(Locals(u)))
    BY <1>1, <2>5, OneIs
  <2>13. e \in Locals(u)
    <3>1. Local(u, e)
      BY <2>1, <2>5 DEF Local, OwnFile
    <3> QED
      BY <2>5, <3>1 DEF Locals
  <2>14. PurgeOne(u, f) \in Programs(Seq(Locals(u)))
    <3>1. p \in Programs(Seq(Locals(u)))
      BY <1>1, <2>10, <2>11, <2>12, <2>13, ProgramsOf
    <3>2. g \in Programs(Seq(Locals(u)))
      BY <1>1, <2>7, ProgramsOf
    <3> QED
      BY <1>1, <2>8, <3>1, <3>2, ProgramsOf
  <2>15. ASSUME NEW a, Tidy(u, a), a.kind = "purge", NEW Q, Emptied(Q, u, f)
         PROVE  /\ PurgeOne(u, f) \in SoundPrograms(u, Purging, {}, Q)
                /\ e \in WritesOf(PurgeOne(u, f).todo)
    <3>1. g = Do(<<>>)
      <4>1. user[u].files_deleted[f] = 1
        BY <2>15 DEF Tidy
      <4> QED
        BY <2>7, <4>1
    <3>2. PICK E : E = {}
      OBVIOUS
    <3>3. b \in SoundPrograms(u, Purging, E, Q \cup WritesOf(One(e).todo))
      <4>1. PICK M : M = Q \cup WritesOf(One(e).todo)
        OBVIOUS
      <4>2. EraseFile(f) \in M
        BY <2>4, <2>12, <4>1
      <4>3. PICK T : T = Sound(u, Purging, E, M)
        OBVIOUS
      <4>4. r \in T
        BY <2>3, <4>2, <4>3
      <4>5. b \in Programs(T)
        BY <2>9, <4>4 DEF Do, Programs
      <4> QED
        BY <2>10, <4>1, <4>3, <4>5 DEF SoundPrograms
    <3>4. PICK D : D = E \cup WritesOf(b.todo)
      OBVIOUS
    <3>5. ASSUME NEW x \in stored, x[1] = u, x[2] = f
          PROVE  RemoveBlob(x) \in D
      <4>1. x = <<u, f, x[3]>> /\ x[3] \in 1 .. MaxRevision
        BY <3>5 DEF TypeOK
      <4>2. ~(x[3] > file[f].revision)
        BY <2>15, <3>5 DEF Tidy
      <4>3. file[f].revision \in Nat /\ MaxRevision \in Nat
        BY <1>3 DEF TypeOK, FileRecord, CatalogAssumption
      <4>4. PICK k : k = x[3]
        OBVIOUS
      <4>5. k \in 1 .. file[f].revision
        BY <4>1, <4>2, <4>3, <4>4
      <4>6. RemoveBlob(<<u, f, k>>) \in WritesOf(r)
        BY <2>3, <4>5
      <4> QED
        BY <2>10, <3>4, <4>1, <4>4, <4>6
    <3>6. \A x \in DOMAIN dir : f \notin dir[x].files_contained
      <4> SUFFICES ASSUME NEW x \in DOMAIN dir, f \in dir[x].files_contained PROVE FALSE
        OBVIOUS
      <4>1. file[f].parent_directory = x
        BY <1>3 DEF StoreInv, ListedWhereItSays
      <4>2. Listed(f)
        BY <1>3, <4>1 DEF Listed
      <4>3. InTrash(f)
        BY <2>1 DEF InTrash
      <4> QED
        BY <1>3, <2>1, <2>15, <4>2, <4>3 DEF Tidy
    <3>7. ASSUME NEW s, s[1] = e PROVE Good(u, s, 1, D, Q)
      BY <2>5, <2>15, <3>5, <3>6, <3>7 DEF Good
    <3>8. One(e) \in SoundPrograms(u, Purging, D, Q)
      BY <2>5, <3>7, SoundOne DEF Purging
    <3>9. p \in SoundPrograms(u, Purging, E, Q) /\ WritesOf(p.todo) = WritesOf(b.todo) \cup {e}
      <4>1. PICK x : x = One(e)
        OBVIOUS
      <4>2. b \in SoundPrograms(u, Purging, E, Q \cup WritesOf(x.todo))
        BY <3>3, <4>1
      <4>3. x \in SoundPrograms(u, Purging, E \cup WritesOf(b.todo), Q)
        BY <3>4, <3>8, <4>1
      <4>4. /\ Then(b, x) \in SoundPrograms(u, Purging, E, Q)
            /\ WritesOf(Then(b, x).todo) = WritesOf(b.todo) \cup WritesOf(x.todo)
        BY <4>2, <4>3, SoundChain
      <4> QED
        BY <2>10, <2>12, <4>1, <4>4
    <3>10. Do(<<>>) \in SoundPrograms(u, Purging, E, Q)
      BY SoundThen
    <3>11. PurgeOne(u, f) \in SoundPrograms(u, Purging, E, Q)
      BY <2>8, <3>1, <3>9, <3>10, SoundThen
    <3>12. e \in WritesOf(PurgeOne(u, f).todo)
      <4>1. p \in Programs(Seq(Writes)) /\ g \in Programs(Seq(Writes)) /\ p.ok
        BY <3>1, <3>9, <3>10, SoundThen DEF SoundPrograms
      <4> QED
        BY <2>8, <3>9, <4>1, ThenWrites
    <3> QED
      BY <3>2, <3>11, <3>12
  <2> QED
    BY <2>4, <2>14, <2>15
<1> QED
  BY <1>2, <1>3

\* Each program of the loop erases or relists its file, once the list is emptied.
LoopSound(u, S, B, K) ==
  /\ "empty_trash" \in K
  /\ \A f \in S : B[f] \in SoundPrograms(u, K, {}, {EmptyTrash(u, S)})
  /\ \A f \in S : f \in DOMAIN file => \E w \in WritesOf(B[f].todo) :
       w = EraseFile(f) \/ \E d \in DirId : w = Relist(d, f)

\* The writes of a loop over the trash and of the list that is emptied last.
LEMMA TrashLoop ==
  ASSUME CatalogAssumption, NEW u \in Users, NEW S \in SUBSET FileId, NEW o \in Orders, NEW B,
         NEW X, X \subseteq Locals(u), EmptyTrash(u, S) \in X,
         \A f \in S : B[f] \in Programs(Seq(X)),
         NEW p, p = Then(ForEach(o, S, B), One(EmptyTrash(u, S)))
  PROVE  /\ \A i \in DOMAIN p.todo : p.todo[i] \in X
         /\ \A K : LoopSound(u, S, B, K) =>
              p.todo \in Sound(u, K, {}, {}) /\ EmptyTrash(u, S) \in WritesOf(p.todo)
<1>1. PICK e, g : e = EmptyTrash(u, S) /\ g = ForEach(o, S, B)
  OBVIOUS
<1>2. X \subseteq Writes /\ e \in Writes /\ Len(o) \in Nat
  BY <1>1, OrderCovers DEF Locals
<1>3. e.op = "empty_trash" /\ e.user = u /\ e.files = S
  BY <1>1, WriteNames
<1>4. p = Then(g, One(e))
  BY <1>1
<1>5. /\ One(e) \in Programs(Seq(Writes)) /\ One(e).ok /\ WritesOf(One(e).todo) = {e}
      /\ One(e) \in Programs(Seq(X))
  BY <1>1, <1>2, OneIs
<1>6. g \in Programs(Seq(X))
  BY <1>1, <1>2, ForEachWrites
<1>7. p \in Programs(Seq(X))
  BY <1>2, <1>4, <1>5, <1>6, ProgramsOf
<1>8. \A i \in DOMAIN p.todo : p.todo[i] \in X
  BY <1>2, <1>7, ProgramsOf
<1>9. ASSUME NEW K, LoopSound(u, S, B, K)
      PROVE  p.todo \in Sound(u, K, {}, {}) /\ e \in WritesOf(p.todo)
  <2> USE DEF LoopSound
  <2>1. PICK E, Q : E = {} /\ Q = {e}
    OBVIOUS
  <2>2. /\ g \in SoundPrograms(u, K, E, Q)
        /\ \A f \in S : WritesOf(B[f].todo) \subseteq WritesOf(g.todo)
    <3>1. \A f \in S : B[f] \in SoundPrograms(u, K, E, Q)
      BY <1>1, <1>9, <2>1
    <3>2. S \in SUBSET (Users \cup FileId)
      OBVIOUS
    <3> QED
      BY <1>1, <3>1, <3>2, SoundLoop
  <2>3. PICK D : D = E \cup WritesOf(g.todo)
    OBVIOUS
  <2>4. ASSUME NEW s, s[1] = e PROVE Good(u, s, 1, D, E)
    <3>1. ASSUME NEW f \in e.files \cap DOMAIN file
          PROVE  EraseFile(f) \in D \/ \E d \in DirId : Relist(d, f) \in D
      <4>1. f \in S /\ f \in DOMAIN file
        BY <1>3
      <4>2. PICK w \in WritesOf(B[f].todo) : w = EraseFile(f) \/ \E d \in DirId : w = Relist(d, f)
        BY <1>9, <4>1
      <4>3. w \in D
        BY <2>2, <2>3, <4>1, <4>2
      <4> QED
        BY <4>2, <4>3
    <3> QED
      BY <1>3, <2>4, <3>1 DEF Good
  <2>5. One(e) \in SoundPrograms(u, K, D, E)
    BY <1>2, <1>3, <1>9, <2>4, SoundOne
  <2>6. E \cup WritesOf(One(e).todo) = Q
    BY <1>5, <2>1
  <2>7. p \in SoundPrograms(u, K, E, E) /\ WritesOf(p.todo) = WritesOf(g.todo) \cup {e}
    <3>1. PICK x : x = One(e)
      OBVIOUS
    <3>2. g \in SoundPrograms(u, K, E, E \cup WritesOf(x.todo))
      BY <2>2, <2>6, <3>1
    <3>3. x \in SoundPrograms(u, K, E \cup WritesOf(g.todo), E)
      BY <2>3, <2>5, <3>1
    <3>4. /\ Then(g, x) \in SoundPrograms(u, K, E, E)
          /\ WritesOf(Then(g, x).todo) = WritesOf(g.todo) \cup WritesOf(x.todo)
      BY <3>2, <3>3, SoundChain
    <3> QED
      BY <1>4, <1>5, <3>1, <3>4
  <2> QED
    BY <2>1, <2>7 DEF SoundPrograms, Programs
<1> QED
  BY <1>1, <1>8, <1>9

LEMMA PurgeFits ==
  ASSUME CatalogAssumption, StepsInv, MendInv, NEW u \in Users, NEW S \in SUBSET FileId,
         NEW o \in Orders, RequestPurge(u, S, o)
  PROVE  \E a, q : Start(u, a, q) /\ Fit(u, q.todo, a)
<1> DEFINE a == [kind |-> "purge", files |-> S]
           B == [f \in FileId |-> PurgeOne(u, f)]
           p == PurgeWrites(u, S, o)
<1>1. S \subseteq Trash(u) /\ Start(u, a, p)
  BY DEF RequestPurge
<1>2. a.kind = "purge" /\ a.kind \notin Repeatable
  BY DEF Repeatable
<1> HIDE DEF a
<1>3. TypeOK /\ StoreInv /\ (u \notin hurt => Tidy(u, a))
  BY <1>1, StartsTidy
<1>4. PICK e : e = EmptyTrash(u, S)
  OBVIOUS
<1>5. e \in Writes /\ e.op = "empty_trash" /\ e.user = u /\ e.files = S
  BY <1>4, WriteNames DEF EmptyTrash, Writes
<1>6. e \in Locals(u)
  <2>1. Local(u, e)
    BY <1>5 DEF Local
  <2> QED
    BY <1>5, <2>1 DEF Locals
<1>7. p = Then(ForEach(o, S, B), One(e))
  BY <1>4 DEF PurgeWrites, EmptyTrash, One
<1>8. \A f \in S : B[f] = PurgeOne(u, f) /\ f \in Trash(u)
  BY <1>1
<1> HIDE DEF B, p
<1>9. \A f \in S : B[f] \in Programs(Seq(Locals(u)))
  BY <1>3, <1>8, PurgeOneSound
<1>10. PICK s : s = p.todo
  OBVIOUS
<1>11. \A i \in DOMAIN s : s[i] \in Locals(u)
  BY <1>4, <1>6, <1>7, <1>9, <1>10, TrashLoop
<1>12. ASSUME u \notin hurt PROVE Kept(u, Purging, s)
  <2>2. \A f \in S : Emptied({e}, u, f)
    BY <1>5 DEF Emptied
  <2>3. ASSUME NEW f \in S
        PROVE  /\ B[f] \in SoundPrograms(u, Purging, {}, {e})
               /\ EraseFile(f) \in WritesOf(B[f].todo)
    BY <1>2, <1>3, <1>8, <1>12, <2>2, PurgeOneSound
  <2>4. "empty_trash" \in Purging
    BY DEF Purging
  <2>5. LoopSound(u, S, B, Purging)
    BY <1>4, <2>3, <2>4 DEF LoopSound
  <2>6. s \in Sound(u, Purging, {}, {})
    BY <1>4, <1>6, <1>7, <1>9, <1>10, <2>5, TrashLoop
  <2>7. \A i \in DOMAIN s : s[i].op # "trash"
    BY <2>6 DEF Sound, Purging
  <2> QED
    BY <2>6, <2>7, SoundKept, NoTrashOnce
<1>13. Fit(u, s, a)
  BY <1>2, <1>11, <1>12, PlainAsk DEF Fit, Sorts, Locals
<1> QED
  BY <1>1, <1>10, <1>13

----------------------------------------------------------------------------
\* The writes of a recovery of the files S.
Recovering(u, S) ==
  {w \in Locals(u) : w.op \in {"adopt", "relist"} \/ (w.op = "empty_trash" /\ w.files = S)}

\* What one file of the trash is recovered with.
LEMMA RecoverOneSound ==
  ASSUME CatalogAssumption, TypeOK, StoreInv, Owned, NEW u \in Users, NEW f \in Trash(u), NEW S
  PROVE  /\ RecoverOne(u, f) \in Programs(Seq(Recovering(u, S)))
         /\ \A a, Q : Tidy(u, a) /\ Emptied(Q, u, f) =>
              /\ RecoverOne(u, f) \in SoundPrograms(u, Restoring, {}, Q)
              /\ \E w \in WritesOf(RecoverOne(u, f).todo) : \E d \in DirId : w = Relist(d, f)
<1>1. PICK X : X = Recovering(u, S)
  OBVIOUS
<1>2. X \subseteq Writes /\ X \subseteq Locals(u)
  BY <1>1 DEF Recovering, Locals
<1>3. CASE f \notin DOMAIN file
  <2>1. RecoverOne(u, f) = Stop
    BY <1>3 DEF RecoverOne
  <2>2. \A a : ~Tidy(u, a)
    BY <1>3 DEF Tidy
  <2> QED
    BY <1>1, <1>2, <2>1, <2>2, ProgramsOf
<1>4. CASE f \in DOMAIN file
  <2>1. PICK h, r : h = Home(u, f) /\ r = user[u].dir_root
    OBVIOUS
  <2>2. f \in FileId /\ file[f].owner = u
    BY <1>4 DEF StoreInv, Trash
  <2>3. r \in DOMAIN dir /\ dir[r].owner = u
    BY <2>1 DEF Owned
  <2>4. h \in DOMAIN dir /\ dir[h].owner = u
    BY <1>4, <2>1, <2>2, <2>3 DEF Owned, Home
  <2>5. DOMAIN dir \subseteq DirId /\ r < ticket.dir /\ h < ticket.dir
    BY <2>3, <2>4 DEF TypeOK, StoreInv
  <2>6. PICK y, z : y = Adopt(r, f) /\ z = Relist(h, f)
    OBVIOUS
  <2>7. /\ y.op = "adopt" /\ y.dir = r /\ y.file = f
        /\ z.op = "relist" /\ z.dir = h /\ z.file = f
    BY <2>6, WriteNames
  <2>8. y \in Writes /\ z \in Writes
    BY <2>2, <2>3, <2>4, <2>5, <2>6 DEF Adopt, Relist, Writes
  <2>9. y \in X /\ z \in X
    <3>1. Local(u, y) /\ Local(u, z)
      BY <1>4, <2>2, <2>3, <2>4, <2>5, <2>7 DEF Local, OwnDir, OwnFile
    <3> QED
      BY <1>1, <2>7, <2>8, <3>1 DEF Recovering, Locals
  <2>10. PICK b : b = IF file[f].parent_directory \in DOMAIN dir THEN Do(<<>>) ELSE One(y)
    OBVIOUS
  <2>11. RecoverOne(u, f) = Then(b, One(z))
    BY <1>4, <2>1, <2>4, <2>6, <2>10 DEF RecoverOne, Adopt, Relist, One
  <2>12. /\ One(y) \in Programs(Seq(X)) /\ One(z) \in Programs(Seq(X))
         /\ One(z) \in Programs(Seq(Writes)) /\ WritesOf(One(z).todo) = {z}
    BY <1>2, <2>8, <2>9, OneIs
  <2>13. RecoverOne(u, f) \in Programs(Seq(X))
    BY <1>2, <2>10, <2>11, <2>12, ProgramsOf
  <2>14. ASSUME NEW Q, Emptied(Q, u, f)
         PROVE  /\ RecoverOne(u, f) \in SoundPrograms(u, Restoring, {}, Q)
                /\ z \in WritesOf(RecoverOne(u, f).todo)
    <3>1. PICK E : E = {}
      OBVIOUS
    <3>2. \A s : s[1] = y => Good(u, s, 1, E, Q)
      BY <2>7, GoodAlone
    <3>3. \A s : s[1] = z => Good(u, s, 1, E, Q)
      BY <1>4, <2>7, <2>14 DEF Good
    <3>4. One(y) \in SoundPrograms(u, Restoring, E, Q)
      BY <2>7, <2>8, <3>2, SoundOne DEF Restoring
    <3>5. One(z) \in SoundPrograms(u, Restoring, E, Q)
      BY <2>7, <2>8, <3>3, SoundOne DEF Restoring
    <3>6. b \in SoundPrograms(u, Restoring, E, Q)
      BY <2>10, <3>4, SoundThen
    <3>7. Then(b, One(z)) \in SoundPrograms(u, Restoring, E, Q)
      BY <3>5, <3>6, SoundThen
    <3>8. z \in WritesOf(Then(b, One(z)).todo)
      <4>1. b \in Programs(Seq(Writes)) /\ b.ok
        BY <3>6, SoundThen DEF SoundPrograms
      <4>2. PICK x : x = One(z)
        OBVIOUS
      <4>3. WritesOf(Then(b, x).todo) = WritesOf(b.todo) \cup WritesOf(x.todo)
        BY <2>12, <4>1, <4>2, ThenWrites
      <4> QED
        BY <2>12, <4>2, <4>3
    <3> QED
      BY <2>11, <3>1, <3>7, <3>8
  <2>15. h \in DirId
    BY <2>4, <2>5
  <2> QED
    BY <1>1, <2>6, <2>13, <2>14, <2>15
<1> QED
  BY <1>3, <1>4

LEMMA RecoverFits ==
  ASSUME CatalogAssumption, StepsInv, MendInv, NEW u \in Users, NEW S \in SUBSET FileId,
         NEW o \in Orders, RequestRecovery(u, S, o)
  PROVE  \E a, q : Start(u, a, q) /\ Fit(u, q.todo, a)
<1> DEFINE a == [kind |-> "recover", files |-> S]
           B == [f \in FileId |-> RecoverOne(u, f)]
           p == RecoverWrites(u, S, o)
<1>1. S \subseteq Trash(u) /\ Start(u, a, p)
  BY DEF RequestRecovery
<1>2. a.kind = "recover" /\ a.files = S
  OBVIOUS
<1> HIDE DEF a
<1>3. TypeOK /\ StoreInv /\ Owned /\ (u \notin hurt => Tidy(u, a))
  BY <1>1, StartsTidy
<1>4. PICK e : e = EmptyTrash(u, S)
  OBVIOUS
<1>5. e \in Writes /\ e.op = "empty_trash" /\ e.user = u /\ e.files = S
  BY <1>4, WriteNames DEF EmptyTrash, Writes
<1>6. PICK X : X = Recovering(u, S)
  OBVIOUS
<1>7. X \subseteq Locals(u) /\ e \in X
  <2>1. Local(u, e)
    BY <1>5 DEF Local
  <2> QED
    BY <1>5, <1>6, <2>1 DEF Locals, Recovering
<1>8. p = Then(ForEach(o, S, B), One(e))
  BY <1>4 DEF RecoverWrites, EmptyTrash, One
<1>9. \A f \in S : B[f] = RecoverOne(u, f) /\ f \in Trash(u)
  BY <1>1
<1> HIDE DEF B, p
<1>10. \A f \in S : B[f] \in Programs(Seq(X))
  BY <1>3, <1>6, <1>9, RecoverOneSound
<1>11. PICK s : s = p.todo
  OBVIOUS
<1>12. \A i \in DOMAIN s : s[i] \in X
  BY <1>4, <1>7, <1>8, <1>10, <1>11, TrashLoop
<1>13. ASSUME u \notin hurt PROVE Kept(u, Restoring, s) /\ e \in WritesOf(s) /\ S \subseteq DOMAIN file
  <2>2. \A f \in S : Emptied({e}, u, f)
    BY <1>5 DEF Emptied
  <2>3. ASSUME NEW f \in S
        PROVE  /\ B[f] \in SoundPrograms(u, Restoring, {}, {e})
               /\ \E w \in WritesOf(B[f].todo) : \E d \in DirId : w = Relist(d, f)
    BY <1>3, <1>9, <1>13, <2>2, RecoverOneSound
  <2>4. "empty_trash" \in Restoring
    BY DEF Restoring
  <2>5. LoopSound(u, S, B, Restoring)
    BY <1>4, <2>3, <2>4 DEF LoopSound
  <2>6. s \in Sound(u, Restoring, {}, {}) /\ e \in WritesOf(s)
    BY <1>4, <1>7, <1>8, <1>10, <1>11, <2>5, TrashLoop
  <2>7. \A i \in DOMAIN s : s[i].op # "trash"
    BY <2>6 DEF Sound, Restoring
  <2>8. S \subseteq DOMAIN file
    BY <1>3, <1>9, <1>13 DEF Tidy
  <2> QED
    BY <2>6, <2>7, <2>8, SoundKept, NoTrashOnce
<1>14. Asked(u, s, a)
  BY <1>2, <1>6, <1>12, <1>13 DEF Asked, Linked, Recovering
<1>15. ASSUME u \notin hurt PROVE Fulfils(u, s, a)
  <2>1. \A f \in S : Emptied(WritesOf(s), u, f)
    BY <1>5, <1>13, <1>15 DEF Emptied
  <2> QED
    BY <1>2, <2>1 DEF Fulfils, OwesRecovery, OwesRevision, OwesGrant, OwesRevoke, OwesLeave
<1>16. Fit(u, s, a)
  BY <1>6, <1>12, <1>13, <1>14, <1>15 DEF Fit, Sorts, Recovering, Locals
<1> QED
  BY <1>1, <1>11, <1>16

----------------------------------------------------------------------------
(* A tree is deleted: what is beneath a directory.                         *)

\* Directory x and those that climb to it, the smallest set that has x and, with a
\* directory, its sub-directories.
Closed(S) == \A y \in DOMAIN dir : dir[y].parent_directory \in S => y \in S
Under(x) == {y \in DOMAIN dir : x \in DOMAIN dir /\ \A S : x \in S /\ Closed(S) => y \in S}
Beneath(x) == {f \in DOMAIN file : file[f].parent_directory \in Under(x)}

\* Sub-directories are younger than the directory they are in.
LEMMA Younger ==
  ASSUME TypeOK, StoreInv, NEW x \in DOMAIN dir, NEW c \in DOMAIN dir, dir[c].parent_directory = x
  PROVE  x \in Nat /\ c \in Nat /\ c > x
<1>1. DOMAIN dir \subseteq DirId /\ DirId \subseteq Nat /\ 0 \notin DirId
  BY DEF TypeOK, DirId
<1>2. x # NoParent
  BY <1>1 DEF NoParent
<1>3. c \in dir[x].directories_contained
  BY <1>2 DEF StoreInv
<1> QED
  BY <1>1, <1>3 DEF StoreInv

\* A directory is under itself, and what is in one under it is.
LEMMA UnderHas ==
  ASSUME NEW x \in DOMAIN dir
  PROVE  x \in Under(x) /\ Closed(Under(x)) /\ Under(x) \subseteq DOMAIN dir
BY DEF Under, Closed

LEMMA UnderLeast ==
  ASSUME NEW x, NEW S, x \in S, Closed(S)
  PROVE  Under(x) \subseteq S
BY DEF Under

\* What is under a directory is not older, and is the directory or in one under it.
LEMMA UnderAge ==
  ASSUME TypeOK, StoreInv, NEW x \in DOMAIN dir, NEW y \in Under(x)
  PROVE  /\ x \in Nat /\ y \in Nat /\ y >= x
         /\ y = x \/ dir[y].parent_directory \in Under(x)
<1>1. DOMAIN dir \subseteq Nat
  BY DEF TypeOK, DirId
<1>2. PICK S : S = {z \in Under(x) : z >= x /\ (z = x \/ dir[z].parent_directory \in Under(x))}
  OBVIOUS
<1>3. x \in S
  BY <1>1, <1>2, UnderHas
<1>4. Closed(S)
  <2> SUFFICES ASSUME NEW z \in DOMAIN dir, dir[z].parent_directory \in S PROVE z \in S
    BY DEF Closed
  <2>1. PICK p : p = dir[z].parent_directory
    OBVIOUS
  <2>2. p \in Under(x) /\ p >= x /\ p \in DOMAIN dir
    BY <1>2, <2>1, UnderHas
  <2>3. z \in Under(x)
    BY <2>1, <2>2, UnderHas DEF Closed
  <2>4. p \in Nat /\ z \in Nat /\ z > p
    BY <2>1, <2>2, Younger
  <2>5. z >= x
    BY <1>1, <2>2, <2>4
  <2> QED
    BY <1>2, <2>1, <2>2, <2>3, <2>5
<1>5. y \in S
  BY <1>3, <1>4, UnderLeast
<1> QED
  BY <1>1, <1>2, <1>5, UnderHas

\* Sub-directories are under the directory they are in, what is under one is not
\* under another, and the directory is under none of them.
LEMMA UnderChild ==
  ASSUME TypeOK, StoreInv, NEW x \in DOMAIN dir, NEW c \in DOMAIN dir, dir[c].parent_directory = x
  PROVE  /\ Under(c) \subseteq Under(x) /\ x \notin Under(c)
         /\ \A b \in DOMAIN dir : dir[b].parent_directory = x /\ b # c => Apart(Under(b), Under(c))
<1>1. x \in Nat /\ c \in Nat /\ c > x
  BY Younger
<1>2. Under(c) \subseteq Under(x)
  <2>1. x \in Under(x) /\ Closed(Under(x))
    BY UnderHas
  <2>2. c \in Under(x)
    BY <2>1 DEF Closed
  <2> QED
    BY <2>1, <2>2, UnderLeast
<1>3. x \notin Under(c)
  BY <1>1, UnderAge
<1>4. ASSUME NEW b \in DOMAIN dir, dir[b].parent_directory = x, b # c
      PROVE  Apart(Under(b), Under(c))
  <2>1. PICK S : S = {w \in DOMAIN dir : w \notin Under(c) /\ w > x}
    OBVIOUS
  <2>2. DOMAIN dir \subseteq Nat
    BY DEF TypeOK, DirId
  <2>3. b \in S
    <3>1. b > x
      BY <1>4, Younger
    <3>2. b \notin Under(c)
      BY <1>3, <1>4, UnderAge
    <3> QED
      BY <2>1, <3>1, <3>2
  <2>4. Closed(S)
    <3> SUFFICES ASSUME NEW w \in DOMAIN dir, dir[w].parent_directory \in S PROVE w \in S
      BY DEF Closed
    <3>1. PICK p : p = dir[w].parent_directory
      OBVIOUS
    <3>2. p \in DOMAIN dir /\ p \notin Under(c) /\ p > x
      BY <2>1, <3>1
    <3>3. w > p /\ w \in Nat /\ p \in Nat
      BY <3>1, <3>2, Younger
    <3>4. w # c
      BY <1>1, <3>1, <3>2, <3>3
    <3>5. w \notin Under(c)
      BY <3>1, <3>2, <3>4, UnderAge
    <3>6. w > x
      BY <1>1, <3>2, <3>3
    <3> QED
      BY <2>1, <3>5, <3>6
  <2>5. Under(b) \subseteq S
    BY <2>3, <2>4, UnderLeast
  <2> QED
    BY <2>1, <2>5 DEF Apart
<1> QED
  BY <1>2, <1>3, <1>4

----------------------------------------------------------------------------
(* What the loops of delete_dir_recursive put in the trash.                *)

\* The files a directory lists.
LEMMA TrashListedOnce ==
  ASSUME CatalogAssumption, TypeOK, StoreInv, Owned, NEW x \in DOMAIN dir, NEW o \in Orders
  PROVE  TrashListed(x, o) \in OncePrograms(dir[x].files_contained \cap DOMAIN file)
<1>1. PICK S, B : /\ S = dir[x].files_contained
                  /\ B = [f \in FileId |-> IF f \in DOMAIN file THEN TrashWrites(f, o) ELSE Stop]
  OBVIOUS
<1>2. S \subseteq FileId
  BY <1>1 DEF TypeOK, DirRecord
<1>3. /\ Len(o) \in Nat
      /\ \A i, j \in 1 .. Len(o) : o[i] = o[j] => i = j
  BY OrderCovers
<1>4. PICK E : E = {}
  OBVIOUS
<1>5. ASSUME NEW f \in S
      PROVE  /\ B[f] \in Programs(Seq(Writes))
             /\ f \in DOMAIN file => B[f] \in OncePrograms({f})
             /\ f \notin DOMAIN file => B[f] \in OncePrograms(E)
  <2>1. CASE f \in DOMAIN file
    <3>1. file[f].parent_directory = x
      BY <1>1, <2>1 DEF StoreInv, ListedWhereItSays
    <3>2. Listed(f)
      BY <1>1, <2>1, <3>1 DEF Listed
    <3>3. B[f] = TrashWrites(f, o)
      BY <1>1, <1>2, <2>1
    <3> QED
      BY <2>1, <3>2, <3>3, TrashSound DEF OncePrograms
  <2>2. CASE f \notin DOMAIN file
    <3>1. B[f] = Stop
      BY <1>1, <1>2, <2>2
    <3>2. Stop \in Programs(Seq({w \in Writes : w.op # "trash"}))
      BY DEF Stop, Programs
    <3>3. Stop \in OncePrograms(E)
      BY <1>4, <3>2, OnceNone
    <3> QED
      BY <2>2, <3>1, <3>3 DEF OncePrograms
  <2> QED
    BY <2>1, <2>2
<1>6. PICK H : H = [n \in 0 .. Len(o) |-> {f \in S \cap DOMAIN file : \E j \in 1 .. n : o[j] = f}]
  OBVIOUS
<1>7. PICK T : T = [n \in 0 .. Len(o) |-> OncePrograms(H[n])]
  OBVIOUS
<1>8. Do(<<>>) \in T[0]
  <2>1. Do(<<>>) \in Programs(Seq({w \in Writes : w.op # "trash"}))
    BY DEF Do, Programs
  <2>2. Do(<<>>) \in OncePrograms(E)
    BY <1>4, <2>1, OnceNone
  <2>3. E \subseteq H[0] /\ T[0] = OncePrograms(H[0])
    BY <1>3, <1>4, <1>7
  <2> QED
    BY <2>2, <2>3, OnceMore
<1>9. ASSUME NEW n \in 1 .. Len(o), NEW p \in T[n - 1]
      PROVE  /\ o[n] \in S => Then(p, B[o[n]]) \in T[n]
             /\ o[n] \notin S => p \in T[n]
  <2>1. n \in 0 .. Len(o) /\ n - 1 \in 0 .. Len(o) /\ n \in Nat
    BY <1>3
  <2>2. PICK F, G : F = H[n - 1] /\ G = H[n]
    OBVIOUS
  <2>3. /\ F = {f \in S \cap DOMAIN file : \E j \in 1 .. n - 1 : o[j] = f}
        /\ G = {f \in S \cap DOMAIN file : \E j \in 1 .. n : o[j] = f}
    BY <1>6, <2>1, <2>2
  <2>4. T[n - 1] = OncePrograms(F) /\ T[n] = OncePrograms(G)
    BY <1>7, <2>1, <2>2
  <2>5. F \subseteq G
    <3>1. \A j \in 1 .. n - 1 : j \in 1 .. n
      BY <2>1
    <3> QED
      BY <2>3, <3>1
  <2>6. p \in OncePrograms(F) /\ p \in OncePrograms(G)
    BY <1>9, <2>4, <2>5, OnceMore
  <2>7. ASSUME o[n] \in S PROVE Then(p, B[o[n]]) \in OncePrograms(G)
    <3>1. PICK f, q : f = o[n] /\ q = B[o[n]]
      OBVIOUS
    <3>2. CASE f \in DOMAIN file
      <4>1. PICK K : K = {f}
        OBVIOUS
      <4>2. q \in OncePrograms(K)
        BY <1>5, <2>7, <3>1, <3>2, <4>1
      <4>3. f \notin F
        <5>1. ASSUME NEW j \in 1 .. n - 1, o[j] = f PROVE FALSE
          <6>1. j \in 1 .. Len(o) /\ j # n
            BY <1>3, <2>1
          <6> QED
            BY <1>3, <3>1, <5>1, <6>1
        <5> QED
          BY <2>3, <5>1
      <4>4. Apart(F, K)
        BY <4>1, <4>3 DEF Apart
      <4>5. F \cup K \subseteq G
        <5>1. f \in G
          BY <2>1, <2>3, <2>7, <3>1, <3>2
        <5> QED
          BY <2>5, <4>1, <5>1
      <4>6. Then(p, q) \in OncePrograms(F \cup K)
        BY <2>6, <4>2, <4>4, OnceThen
      <4> QED
        BY <3>1, <4>5, <4>6, OnceMore
    <3>3. CASE f \notin DOMAIN file
      <4>1. q \in OncePrograms(E)
        BY <1>5, <2>7, <3>1, <3>3
      <4>2. Apart(G, E)
        BY <1>4 DEF Apart
      <4>3. Then(p, q) \in OncePrograms(G \cup E)
        BY <2>6, <4>1, <4>2, OnceThen
      <4>4. G \cup E \subseteq G
        BY <1>4
      <4> QED
        BY <3>1, <4>3, <4>4, OnceMore
    <3> QED
      BY <3>2, <3>3
  <2> QED
    BY <2>4, <2>6, <2>7
<1>10. \A f \in S : B[f] \in Programs(Seq(Writes))
  BY <1>5
<1>11. ForEach(o, S, B) \in Programs(Seq(Writes)) \cap T[Len(o)]
  BY <1>3, <1>8, <1>9, <1>10, ForEachInduct
<1>12. T[Len(o)] = OncePrograms(H[Len(o)]) /\ H[Len(o)] \subseteq S \cap DOMAIN file
  BY <1>3, <1>6, <1>7
<1>13. TrashListed(x, o) = ForEach(o, S, B)
  BY <1>1 DEF TrashListed
<1> QED
  BY <1>1, <1>11, <1>12, <1>13, OnceMore

\* The sub-directories.
LEMMA KidsOnce ==
  ASSUME CatalogAssumption, TypeOK, StoreInv, Owned, NEW x \in DOMAIN dir, NEW below,
         NEW S, S = dir[x].directories_contained,
         \A c \in S : below[c] \in OncePrograms(Beneath(c))
  PROVE  ForEach(ByAge, S, below)
           \in OncePrograms({f \in Beneath(x) : file[f].parent_directory # x})
<1>1. /\ Len(ByAge) \in Nat /\ Len(ByAge) = MaxDir /\ MaxDir \in Nat
      /\ \A n \in 1 .. MaxDir : ByAge[n] = n
  BY ListLengths
<1>2. PICK E : E = {}
  OBVIOUS
<1>3. PICK H : H = [n \in 0 .. MaxDir |-> {f \in DOMAIN file : \E c \in S : c <= n /\ f \in Beneath(c)}]
  OBVIOUS
<1>4. PICK T : T = [n \in 0 .. MaxDir |-> OncePrograms(H[n])]
  OBVIOUS
<1>5. \A c \in S : c \in DirId /\ c \in Nat
  BY DEF TypeOK, DirRecord, DirId
<1>6. ASSUME NEW c \in S, c \in DOMAIN dir
      PROVE  dir[c].parent_directory = x
  BY <1>6 DEF Owned
<1>7. \A c : c \notin DOMAIN dir => Beneath(c) = {}
  BY DEF Beneath, Under
<1>8. Do(<<>>) \in T[0]
  <2>1. Do(<<>>) \in Programs(Seq({w \in Writes : w.op # "trash"}))
    BY DEF Do, Programs
  <2>2. Do(<<>>) \in OncePrograms(E)
    BY <1>2, <2>1, OnceNone
  <2>3. E \subseteq H[0] /\ T[0] = OncePrograms(H[0])
    BY <1>1, <1>2, <1>4
  <2> QED
    BY <2>2, <2>3, OnceMore
<1>9. ASSUME NEW n \in 1 .. MaxDir, NEW p \in T[n - 1]
      PROVE  /\ n \in S => Then(p, below[n]) \in T[n]
             /\ n \notin S => p \in T[n]
  <2>1. n \in 0 .. MaxDir /\ n - 1 \in 0 .. MaxDir /\ n \in Nat
    BY <1>1
  <2>2. PICK F, G : F = H[n - 1] /\ G = H[n]
    OBVIOUS
  <2>3. /\ F = {f \in DOMAIN file : \E c \in S : c <= n - 1 /\ f \in Beneath(c)}
        /\ G = {f \in DOMAIN file : \E c \in S : c <= n /\ f \in Beneath(c)}
    BY <1>3, <2>1, <2>2
  <2>4. T[n - 1] = OncePrograms(F) /\ T[n] = OncePrograms(G)
    BY <1>4, <2>1, <2>2
  <2>5. F \subseteq G
    <3>1. \A c \in S : c <= n - 1 => c <= n
      BY <1>5, <2>1
    <3> QED
      BY <2>3, <3>1
  <2>6. p \in OncePrograms(F) /\ p \in OncePrograms(G)
    BY <1>9, <2>4, <2>5, OnceMore
  <2>7. ASSUME n \in S PROVE Then(p, below[n]) \in OncePrograms(G)
    <3>1. PICK q, K : q = below[n] /\ K = Beneath(n)
      OBVIOUS
    <3>2. q \in OncePrograms(K)
      BY <2>7, <3>1
    <3>3. Apart(F, K)
      <4>1. ASSUME NEW f \in F, f \in K PROVE FALSE
        <5>1. PICK c \in S : c <= n - 1 /\ f \in Beneath(c)
          BY <2>3, <4>1
        <5>2. c \in DOMAIN dir /\ n \in DOMAIN dir /\ c # n
          BY <1>5, <1>7, <2>1, <3>1, <4>1, <5>1
        <5>3. Apart(Under(c), Under(n))
          BY <1>6, <2>7, <5>1, <5>2, UnderChild
        <5> QED
          BY <3>1, <4>1, <5>1, <5>3 DEF Apart, Beneath
      <4> QED
        BY <4>1 DEF Apart
    <3>4. F \cup K \subseteq G
      <4>1. n <= n
        BY <2>1
      <4>2. K \subseteq DOMAIN file
        BY <3>1 DEF Beneath
      <4>3. K \subseteq G
        BY <2>3, <2>7, <3>1, <4>1, <4>2
      <4> QED
        BY <2>5, <4>3
    <3>5. Then(p, q) \in OncePrograms(F \cup K)
      BY <2>6, <3>2, <3>3, OnceThen
    <3> QED
      BY <3>1, <3>4, <3>5, OnceMore
  <2> QED
    BY <2>4, <2>6, <2>7
<1>10. \A c \in S : below[c] \in Programs(Seq(Writes))
  BY DEF OncePrograms
<1>11. ForEach(ByAge, S, below) \in Programs(Seq(Writes)) \cap T[Len(ByAge)]
  <2>1. PICK b, m : b = ByAge /\ m = Len(ByAge)
    OBVIOUS
  <2>2. /\ Len(b) \in Nat /\ Do(<<>>) \in T[0]
        /\ \A n \in 1 .. Len(b) : \A p \in Programs(Seq(Writes)) : p \in T[n - 1] =>
             /\ b[n] \in S => Then(p, below[b[n]]) \in T[n]
             /\ b[n] \notin S => p \in T[n]
    BY <1>1, <1>8, <1>9, <2>1
  <2>3. ForEach(b, S, below) \in Programs(Seq(Writes)) \cap T[Len(b)]
    BY <1>10, <2>2, ForEachInduct
  <2> QED
    BY <2>1, <2>3
<1>12. T[MaxDir] = OncePrograms(H[MaxDir])
  BY <1>1, <1>4
<1>13. H[MaxDir] \subseteq {f \in Beneath(x) : file[f].parent_directory # x}
  <2> SUFFICES ASSUME NEW f \in H[MaxDir] PROVE f \in Beneath(x) /\ file[f].parent_directory # x
    OBVIOUS
  <2>1. f \in DOMAIN file
    BY <1>1, <1>3
  <2>2. PICK c \in S : f \in Beneath(c)
    BY <1>1, <1>3
  <2>3. c \in DOMAIN dir
    BY <1>7, <2>2
  <2>4. Under(c) \subseteq Under(x) /\ x \notin Under(c)
    BY <1>6, <2>2, <2>3, UnderChild
  <2> QED
    BY <2>1, <2>2, <2>4 DEF Beneath
<1> QED
  BY <1>1, <1>11, <1>12, <1>13, OnceMore

----------------------------------------------------------------------------
(* Deletions of trees.                                                     *)

\* A fact about programs that holds of every level holds of the tree.
Inductive(o, G) ==
  \A x \in DirId : \A below :
    (x \in DOMAIN dir => \A c \in dir[x].directories_contained : below[c] \in G[c])
      => EraseBottomUp(x, below, o) \in G[x]

LEMMA TreeInduct ==
  ASSUME CatalogAssumption, TypeOK, StoreInv, NEW o \in Orders, NEW G, Inductive(o, G), NEW d \in DirId
  PROVE  TreeWrites(d, o) \in G[d]
<1> DEFINE f == CHOOSE g : g = Tree(o, g)
           A == {m \in 0 .. MaxDir : \A x \in DirId : x > MaxDir - m => f[x] \in G[x]}
<1>1. f = Tree(o, f)
  BY TreeExists
<1>2. TreeWrites(d, o) = f[d]
  BY DEF TreeWrites, Tree
<1> HIDE DEF f
<1>3. MaxDir \in Nat /\ DirId = 1 .. MaxDir
  BY DEF CatalogAssumption, DirId
<1>4. 0 \in A
  BY <1>3
<1>5. ASSUME NEW m \in Nat, m < MaxDir, m \in A
      PROVE  m + 1 \in A
  <2>1. m + 1 \in 0 .. MaxDir
    BY <1>3, <1>5
  <2>2. ASSUME NEW x \in DirId, x > MaxDir - (m + 1)
        PROVE  f[x] \in G[x]
    <3> DEFINE below == [c \in dir[x].directories_contained |-> f[c]]
    <3>1. f[x] = EraseBottomUp(x, below, o)
      BY <1>1 DEF Tree
    <3>2. x \in DOMAIN dir =>
            \A c \in dir[x].directories_contained : below[c] \in G[c]
      <4> SUFFICES ASSUME x \in DOMAIN dir, NEW c \in dir[x].directories_contained
                   PROVE  below[c] \in G[c]
        OBVIOUS
      <4>1. c \in DirId /\ c > x
        BY DEF TypeOK, DirRecord, StoreInv
      <4>2. c > MaxDir - m
        BY <1>3, <2>2, <4>1
      <4>3. f[c] \in G[c]
        BY <1>5, <4>1, <4>2
      <4> QED
        BY <4>3
    <3> HIDE DEF below
    <3> QED
      BY <3>1, <3>2 DEF Inductive
  <2> QED
    BY <2>1, <2>2
<1> HIDE DEF A
<1>6. \A m \in 0 .. MaxDir : m \in A
  BY <1>3, <1>4, <1>5, IntervalInduction
<1>7. MaxDir \in A /\ d > MaxDir - MaxDir
  BY <1>3, <1>6
<1> QED
  BY <1>2, <1>7 DEF A

\* Writes to come that make the parent forget directory x.
Answered(Q, x) ==
  \/ EraseDir(dir[x].parent_directory) \in Q
  \/ UnlistDir(dir[x].parent_directory, x) \in Q

\* The programs that delete directory x and what is in it: they trash what is beneath
\* it once, touch nothing but what u owns if x is one of u's, and take away nothing
\* that is not mended if u's directories and lists are whole.
TreeOnce(x)     == OncePrograms(Beneath(x))
TreeLocal(u, x) ==
  {p \in Programs(Seq(Writes)) :
     OwnDir(u, x) /\ x # user[u].dir_root => p \in Programs(Seq(Locals(u)))}
TreeSound(u, x) ==
  {p \in Programs(Seq(Writes)) :
     x \in DOMAIN dir /\ dir[x].owner = u =>
       \A Q : Answered(Q, x) => p \in SoundPrograms(u, Deleting, {}, Q)}

\* A directory's erasure.
LEMMA EraseIs ==
  ASSUME NEW x \in DirId, NEW e, e = EraseDir(x)
  PROVE  /\ e \in Writes /\ e.op = "erase_dir" /\ e.dir = x
         /\ One(e) \in Programs(Seq(Writes)) /\ One(e) \in OncePrograms({})
         /\ WritesOf(One(e).todo) = {e}
         /\ \A X : X \subseteq Writes /\ e \in X => One(e) \in Programs(Seq(X))
<1>1. e.op = "erase_dir" /\ e.dir = x
  BY WriteNames
<1>2. e \in Writes
  BY DEF EraseDir, Writes
<1>3. PICK X : X = {w \in Writes : w.op # "trash"}
  OBVIOUS
<1>4. e \in X /\ X \subseteq Writes
  BY <1>1, <1>2, <1>3
<1>5. One(e) \in Programs(Seq(X))
  BY <1>2, <1>4, OneIs
<1>6. One(e) \in OncePrograms({})
  BY <1>3, <1>5, OnceNone
<1> QED
  BY <1>1, <1>2, <1>6, OneIs

LEMMA StopIsAll ==
  /\ Stop \in Programs(Seq(Writes))
  /\ \A F : Stop \in OncePrograms(F)
<1>1. Stop \in Programs(Seq({w \in Writes : w.op # "trash"}))
  BY DEF Stop, Programs
<1>2. PICK E : E = {}
  OBVIOUS
<1>3. Stop \in OncePrograms(E)
  BY <1>1, <1>2, OnceNone
<1>4. \A F : E \subseteq F
  BY <1>2
<1>5. \A F : Stop \in OncePrograms(F)
  BY <1>3, <1>4, OnceMore
<1> QED
  BY <1>3, <1>5 DEF OncePrograms

LEMMA TreeTrashesOnce ==
  ASSUME CatalogAssumption, TypeOK, StoreInv, Owned, NEW o \in Orders, NEW d \in DirId
  PROVE  TreeWrites(d, o) \in TreeOnce(d)
<1>1. PICK G : G = [x \in DirId |-> TreeOnce(x)]
  OBVIOUS
<1>2. ASSUME NEW x \in DirId, NEW below, x \in DOMAIN dir,
             \A c \in dir[x].directories_contained : below[c] \in G[c]
      PROVE  EraseBottomUp(x, below, o) \in TreeOnce(x)
  <2>1. PICK S, F, K, E : /\ S = dir[x].directories_contained
                          /\ F = dir[x].files_contained \cap DOMAIN file
                          /\ K = {f \in Beneath(x) : file[f].parent_directory # x}
                          /\ E = {}
    OBVIOUS
  <2>2. S \subseteq DirId
    BY <1>2, <2>1 DEF TypeOK, DirRecord
  <2>3. \A c \in S : below[c] \in OncePrograms(Beneath(c))
    BY <1>1, <1>2, <2>1, <2>2 DEF TreeOnce
  <2>4. PICK p, q, e : p = ForEach(ByAge, S, below) /\ q = TrashListed(x, o) /\ e = EraseDir(x)
    OBVIOUS
  <2>5. p \in OncePrograms(K) /\ q \in OncePrograms(F)
    BY <1>2, <2>1, <2>3, <2>4, KidsOnce, TrashListedOnce
  <2>6. One(e) \in OncePrograms(E)
    BY <2>1, <2>4, EraseIs
  <2>7. EraseBottomUp(x, below, o) = Then(p, Then(q, One(e)))
    BY <1>2, <2>1, <2>4 DEF EraseBottomUp, EraseDir, One
  <2>8. PICK r : r = Then(q, One(e))
    OBVIOUS
  <2>9. r \in OncePrograms(F)
    <3>1. Apart(F, E)
      BY <2>1 DEF Apart
    <3>2. r \in OncePrograms(F \cup E)
      BY <2>5, <2>6, <2>8, <3>1, OnceThen
    <3>3. F \cup E \subseteq F
      BY <2>1
    <3> QED
      BY <3>2, <3>3, OnceMore
  <2>10. \A f \in F : file[f].parent_directory = x
    BY <1>2, <2>1 DEF StoreInv, ListedWhereItSays
  <2>11. Apart(K, F)
    BY <2>1, <2>10 DEF Apart
  <2>12. K \cup F \subseteq Beneath(x)
    <3>1. x \in Under(x)
      BY <1>2, UnderHas
    <3> QED
      BY <2>1, <2>10, <3>1 DEF Beneath
  <2>13. Then(p, r) \in OncePrograms(K \cup F)
    BY <2>5, <2>9, <2>11, OnceThen
  <2> QED
    BY <2>7, <2>8, <2>12, <2>13, OnceMore DEF TreeOnce
<1>3. ASSUME NEW x \in DirId, NEW below, x \notin DOMAIN dir
      PROVE  EraseBottomUp(x, below, o) \in TreeOnce(x)
  BY <1>3, StopIsAll DEF EraseBottomUp, TreeOnce
<1>4. Inductive(o, G)
  BY <1>1, <1>2, <1>3 DEF Inductive
<1>5. TreeWrites(d, o) \in G[d]
  BY <1>4, TreeInduct
<1> QED
  BY <1>1, <1>5

LEMMA TrashListedLocal ==
  ASSUME CatalogAssumption, TypeOK, StoreInv, Owned, NEW x \in DOMAIN dir, NEW o \in Orders,
         NEW u, u = dir[x].owner
  PROVE  TrashListed(x, o) \in Programs(Seq(Locals(u)))
<1>1. PICK S, B : /\ S = dir[x].files_contained
                  /\ B = [f \in FileId |-> IF f \in DOMAIN file THEN TrashWrites(f, o) ELSE Stop]
  OBVIOUS
<1>2. S \subseteq FileId
  BY <1>1 DEF TypeOK, DirRecord
<1>3. PICK X : X = Locals(u)
  OBVIOUS
<1>4. X \subseteq Writes
  BY <1>3 DEF Locals
<1>5. ASSUME NEW f \in S PROVE B[f] \in Programs(Seq(X))
  <2>1. CASE f \in DOMAIN file
    <3>1. file[f].parent_directory = x /\ file[f].owner = u
      BY <1>1, <2>1 DEF StoreInv, ListedWhereItSays, Owned
    <3>2. Listed(f)
      BY <1>1, <2>1, <3>1 DEF Listed
    <3>3. B[f] = TrashWrites(f, o)
      BY <1>1, <1>2, <2>1
    <3> QED
      BY <1>3, <2>1, <3>1, <3>2, <3>3, TrashSound
  <2>2. CASE f \notin DOMAIN file
    BY <1>1, <1>2, <1>4, <2>2, ProgramsOf
  <2> QED
    BY <2>1, <2>2
<1>6. Len(o) \in Nat
  BY OrderCovers
<1>7. ForEach(o, S, B) \in Programs(Seq(X))
  BY <1>4, <1>5, <1>6, ForEachWrites
<1> QED
  BY <1>1, <1>3, <1>7 DEF TrashListed

LEMMA TreeIsLocal ==
  ASSUME CatalogAssumption, TypeOK, StoreInv, Owned, NEW u \in Users, NEW o \in Orders, NEW d \in DirId
  PROVE  TreeWrites(d, o) \in TreeLocal(u, d)
<1>1. PICK G : G = [x \in DirId |-> TreeLocal(u, x)]
  OBVIOUS
<1>2. PICK X : X = Locals(u)
  OBVIOUS
<1>3. X \subseteq Writes
  BY <1>2 DEF Locals
<1>4. /\ Programs(Seq(X)) \subseteq Programs(Seq(Writes)) /\ Stop \in Programs(Seq(X))
      /\ \A p, q \in Programs(Seq(X)) : Then(p, q) \in Programs(Seq(X))
      /\ \A p, q \in Programs(Seq(Writes)) : Then(p, q) \in Programs(Seq(Writes))
  <2>1. PICK Y : Y = Writes
    OBVIOUS
  <2>2. \A p, q \in Programs(Seq(Y)) : Then(p, q) \in Programs(Seq(Y))
    BY <2>1, ProgramsOf
  <2> QED
    BY <1>3, <2>1, <2>2, ProgramsOf
<1>5. Len(ByAge) \in Nat
  BY ListLengths
<1>6. ASSUME NEW x \in DirId, NEW below, x \in DOMAIN dir,
             \A c \in dir[x].directories_contained : below[c] \in G[c]
      PROVE  EraseBottomUp(x, below, o) \in TreeLocal(u, x)
  <2>1. PICK S, p, q, e : /\ S = dir[x].directories_contained
                          /\ p = ForEach(ByAge, S, below) /\ q = TrashListed(x, o) /\ e = EraseDir(x)
    OBVIOUS
  <2>2. S \subseteq DirId
    BY <1>6, <2>1 DEF TypeOK, DirRecord
  <2>3. EraseBottomUp(x, below, o) = Then(p, Then(q, One(e)))
    BY <1>6, <2>1 DEF EraseBottomUp, EraseDir, One
  <2>4. \A c \in S : below[c] \in TreeLocal(u, c)
    BY <1>1, <1>6, <2>1, <2>2
  <2>5. p \in Programs(Seq(Writes))
    <3>1. \A c \in S : below[c] \in Programs(Seq(Writes))
      BY <2>4 DEF TreeLocal
    <3>2. PICK Y : Y = Writes
      OBVIOUS
    <3>3. ForEach(ByAge, S, below) \in Programs(Seq(Y))
      BY <1>5, <3>1, <3>2, ForEachWrites
    <3> QED
      BY <2>1, <3>2, <3>3
  <2>6. q \in Programs(Seq(Writes)) /\ One(e) \in Programs(Seq(Writes)) /\ e \in Writes
        /\ e.op = "erase_dir" /\ e.dir = x
    BY <1>6, <2>1, TrashListedOnce, EraseIs DEF OncePrograms
  <2>7. ASSUME OwnDir(u, x), x # user[u].dir_root
        PROVE  Then(p, Then(q, One(e))) \in Programs(Seq(X))
    <3>1. ASSUME NEW c \in S PROVE below[c] \in Programs(Seq(X))
      <4>1. user[u].dir_root \in DOMAIN dir /\ dir[user[u].dir_root].parent_directory = NoParent
        BY DEF Owned
      <4>2. c \in DOMAIN dir => dir[c].parent_directory = x /\ dir[c].owner = u
        BY <1>6, <2>1, <2>7 DEF Owned, OwnDir
      <4>3. x # NoParent
        BY DEF DirId, NoParent
      <4>4. OwnDir(u, c) /\ c # user[u].dir_root
        BY <4>1, <4>2, <4>3 DEF OwnDir
      <4> QED
        BY <1>2, <2>4, <4>4 DEF TreeLocal
    <3>2. p \in Programs(Seq(X))
      BY <1>3, <1>5, <2>1, <3>1, ForEachWrites
    <3>3. q \in Programs(Seq(X))
      BY <1>2, <1>6, <2>1, <2>7, TrashListedLocal DEF OwnDir
    <3>4. e \in X
      <4>1. Local(u, e)
        BY <2>6, <2>7 DEF Local, OwnDir
      <4> QED
        BY <1>2, <2>6, <4>1 DEF Locals
    <3>5. One(e) \in Programs(Seq(X))
      BY <1>3, <2>6, <3>4, OneIs
    <3> QED
      BY <1>4, <3>2, <3>3, <3>5
  <2> QED
    BY <1>2, <1>4, <2>3, <2>5, <2>6, <2>7 DEF TreeLocal
<1>7. ASSUME NEW x \in DirId, NEW below, x \notin DOMAIN dir
      PROVE  EraseBottomUp(x, below, o) \in TreeLocal(u, x)
  BY <1>2, <1>4, <1>7, StopIsAll DEF EraseBottomUp, TreeLocal
<1>8. Inductive(o, G)
  BY <1>1, <1>6, <1>7 DEF Inductive
<1>9. TreeWrites(d, o) \in G[d]
  BY <1>8, TreeInduct
<1> QED
  BY <1>1, <1>9

----------------------------------------------------------------------------
\* The files a directory of a user who is not hurt lists.
LEMMA TrashListedSound ==
  ASSUME CatalogAssumption, TypeOK, StoreInv, Owned, NEW x \in DOMAIN dir, NEW o \in Orders,
         NEW u, OwnDir(u, x), NEW a, Tidy(u, a), a.kind # "recover", NEW P, NEW Q
  PROVE  /\ TrashListed(x, o) \in SoundPrograms(u, Deleting, P, Q)
         /\ \A f \in dir[x].files_contained : Unlist(x, f) \in WritesOf(TrashListed(x, o).todo)
<1>1. PICK S, B : /\ S = dir[x].files_contained
                  /\ B = [f \in FileId |-> IF f \in DOMAIN file THEN TrashWrites(f, o) ELSE Stop]
  OBVIOUS
<1>2. S \subseteq FileId /\ S \subseteq DOMAIN file
  BY <1>1 DEF TypeOK, DirRecord, Tidy, OwnDir
<1>3. ASSUME NEW f \in S
      PROVE  /\ B[f] \in SoundPrograms(u, Deleting, P, Q)
             /\ Unlist(x, f) \in WritesOf(B[f].todo)
  <2>1. f \in DOMAIN file /\ file[f].parent_directory = x /\ file[f].owner = u
    BY <1>1, <1>2 DEF StoreInv, ListedWhereItSays, Owned, OwnDir
  <2>2. Listed(f)
    BY <1>1, <2>1 DEF Listed
  <2>3. f \notin Trash(u)
    BY <2>1, <2>2 DEF Tidy, InTrash
  <2>4. B[f] = TrashWrites(f, o)
    BY <1>1, <1>2, <2>1
  <2> QED
    BY <2>1, <2>2, <2>3, <2>4, TrashSound
<1>4. S \in SUBSET (Users \cup FileId)
  BY <1>2
<1>5. /\ ForEach(o, S, B) \in SoundPrograms(u, Deleting, P, Q)
      /\ \A f \in S : WritesOf(B[f].todo) \subseteq WritesOf(ForEach(o, S, B).todo)
  BY <1>3, <1>4, SoundLoop
<1>6. TrashListed(x, o) = ForEach(o, S, B)
  BY <1>1 DEF TrashListed
<1> QED
  BY <1>1, <1>3, <1>5, <1>6

LEMMA TreeIsSound ==
  ASSUME CatalogAssumption, TypeOK, StoreInv, Owned, NEW u \in Users, NEW o \in Orders, NEW d \in DirId,
         NEW a, Tidy(u, a), a.kind # "recover"
  PROVE  TreeWrites(d, o) \in TreeSound(u, d)
<1>1. PICK G : G = [x \in DirId |-> TreeSound(u, x)]
  OBVIOUS
<1>2. PICK E : E = {}
  OBVIOUS
<1>3. Len(ByAge) \in Nat
  BY ListLengths
<1>4. ASSUME NEW x \in DirId, NEW below, x \in DOMAIN dir,
             \A c \in dir[x].directories_contained : below[c] \in G[c]
      PROVE  EraseBottomUp(x, below, o) \in TreeSound(u, x)
  <2>1. PICK S, p, q, e : /\ S = dir[x].directories_contained
                          /\ p = ForEach(ByAge, S, below) /\ q = TrashListed(x, o) /\ e = EraseDir(x)
    OBVIOUS
  <2>2. S \subseteq DirId
    BY <1>4, <2>1 DEF TypeOK, DirRecord
  <2>3. PICK r : r = Then(q, One(e))
    OBVIOUS
  <2>4. EraseBottomUp(x, below, o) = Then(p, r)
    BY <1>4, <2>1, <2>3 DEF EraseBottomUp, EraseDir, One
  <2>5. \A c \in S : below[c] \in TreeSound(u, c)
    BY <1>1, <1>4, <2>1, <2>2
  <2>6. /\ e \in Writes /\ e.op = "erase_dir" /\ e.dir = x
        /\ One(e) \in Programs(Seq(Writes)) /\ WritesOf(One(e).todo) = {e}
    BY <2>1, EraseIs
  <2>7. Then(p, r) \in Programs(Seq(Writes))
    <3>1. PICK Y : Y = Writes
      OBVIOUS
    <3>2. \A c \in S : below[c] \in Programs(Seq(Y))
      BY <2>5, <3>1 DEF TreeSound
    <3>3. p \in Programs(Seq(Y))
      BY <1>3, <2>1, <3>1, <3>2, ForEachWrites
    <3>4. q \in Programs(Seq(Y))
      BY <1>4, <2>1, <3>1, TrashListedOnce DEF OncePrograms
    <3>5. \A s, t \in Programs(Seq(Y)) : Then(s, t) \in Programs(Seq(Y))
      BY <3>1, ProgramsOf
    <3> QED
      BY <2>3, <2>6, <3>1, <3>3, <3>4, <3>5
  <2>8. ASSUME dir[x].owner = u, NEW Q, Answered(Q, x)
        PROVE  Then(p, r) \in SoundPrograms(u, Deleting, E, Q)
    <3>1. /\ \A P, M : q \in SoundPrograms(u, Deleting, P, M)
          /\ \A f \in dir[x].files_contained : Unlist(x, f) \in WritesOf(q.todo)
      <4>1. OwnDir(u, x) /\ x \in DOMAIN dir /\ Tidy(u, a) /\ a.kind # "recover"
        BY <1>4, <2>8 DEF OwnDir
      <4>2. ASSUME NEW P, NEW M
            PROVE  /\ TrashListed(x, o) \in SoundPrograms(u, Deleting, P, M)
                   /\ \A f \in dir[x].files_contained : Unlist(x, f) \in WritesOf(TrashListed(x, o).todo)
        BY ONLY CatalogAssumption, TypeOK, StoreInv, Owned, o \in Orders, <4>1, TrashListedSound
      <4> QED
        BY <2>1, <4>2
    <3>2. PICK D : D = WritesOf(p.todo)
      OBVIOUS
    <3>3. PICK B : B = D \cup WritesOf(q.todo)
      OBVIOUS
    <3>4. ASSUME NEW s, s[1] = e PROVE Good(u, s, 1, B, Q)
      <4>1. \A f \in dir[x].files_contained : Unlist(x, f) \in B
        BY <3>1, <3>3
      <4> QED
        BY <2>6, <2>8, <3>4, <4>1 DEF Good, Answered
    <3>5. One(e) \in SoundPrograms(u, Deleting, B, Q)
      BY <2>6, <3>4, SoundOne DEF Deleting
    <3>6. r \in SoundPrograms(u, Deleting, D, Q) /\ e \in WritesOf(r.todo)
      <4>1. PICK y : y = One(e)
        OBVIOUS
      <4>2. q \in SoundPrograms(u, Deleting, D, Q \cup WritesOf(y.todo))
        BY <3>1
      <4>3. y \in SoundPrograms(u, Deleting, D \cup WritesOf(q.todo), Q)
        BY <3>3, <3>5, <4>1
      <4>4. /\ Then(q, y) \in SoundPrograms(u, Deleting, D, Q)
            /\ WritesOf(Then(q, y).todo) = WritesOf(q.todo) \cup WritesOf(y.todo)
        BY SMTT(30), <4>2, <4>3, SoundChain
      <4> QED
        BY <2>3, <2>6, <4>1, <4>4
    <3>7. PICK M : M = Q \cup WritesOf(r.todo)
      OBVIOUS
    <3>8. ASSUME NEW c \in S PROVE below[c] \in SoundPrograms(u, Deleting, E, M)
      <4>1. c \in DOMAIN dir
        BY <1>4, <2>1, <2>8 DEF Tidy
      <4>2. dir[c].parent_directory = x /\ dir[c].owner = u
        BY <1>4, <2>1, <2>8, <4>1 DEF Owned
      <4>3. Answered(M, c)
        BY <2>1, <3>6, <3>7, <4>2 DEF Answered
      <4> QED
        BY <1>2, <2>5, <4>1, <4>2, <4>3 DEF TreeSound
    <3>9. p \in SoundPrograms(u, Deleting, E, M)
      <4>1. PICK U : U = SoundPrograms(u, Deleting, E, M)
        OBVIOUS
      <4>2. /\ U \subseteq Programs(Seq(Writes)) /\ Do(<<>>) \in U /\ \A s, t \in U : Then(s, t) \in U
        BY <4>1, SoundThen
      <4>3. \A c \in S : below[c] \in U
        BY <3>8, <4>1
      <4>4. ForEach(ByAge, S, below) \in U
        BY <1>3, <4>2, <4>3, ForEachIn
      <4> QED
        BY <2>1, <4>1, <4>4
    <3>10. r \in SoundPrograms(u, Deleting, E \cup WritesOf(p.todo), Q)
      <4>1. E \cup WritesOf(p.todo) = D
        BY <1>2, <3>2
      <4> QED
        BY <3>6, <4>1
    <3> QED
      BY <3>7, <3>9, <3>10, SoundChain
  <2> QED
    BY <1>2, <2>4, <2>7, <2>8 DEF TreeSound
<1>5. ASSUME NEW x \in DirId, NEW below, x \notin DOMAIN dir
      PROVE  EraseBottomUp(x, below, o) \in TreeSound(u, x)
  BY <1>5, StopIsAll DEF EraseBottomUp, TreeSound
<1>6. Inductive(o, G)
  BY <1>1, <1>4, <1>5 DEF Inductive
<1>7. TreeWrites(d, o) \in G[d]
  BY <1>6, TreeInduct
<1> QED
  BY <1>1, <1>7

LEMMA TreeDeletionFits ==
  ASSUME CatalogAssumption, StepsInv, MendInv, NEW u \in Users, NEW d \in DirId, NEW o \in Orders,
         RequestDirectoryDeletion(u, d, o)
  PROVE  \E a, q : Start(u, a, q) /\ Fit(u, q.todo, a)
<1> DEFINE a == [kind |-> "delete_dir", dir |-> d]
<1>1. d \in DOMAIN dir /\ dir[d].owner = u /\ d # user[u].dir_root
  BY DEF RequestDirectoryDeletion
<1>2. a.kind \notin Repeatable /\ a.kind # "recover"
  BY DEF Repeatable
<1>3. Start(u, a, DeleteDirectoryWrites(d, o))
  BY DEF RequestDirectoryDeletion
<1> HIDE DEF a
<1>4. TypeOK /\ StoreInv /\ Owned /\ (u \notin hurt => Tidy(u, a))
  BY <1>3, StartsTidy
<1>5. PICK t, p, x : /\ t = TreeWrites(d, o) /\ p = DeleteDirectoryWrites(d, o)
                     /\ x = UnlistDir(dir[d].parent_directory, d)
  OBVIOUS
<1>6. p = Then(t, One(x))
  BY <1>5 DEF DeleteDirectoryWrites, UnlistDir, One
<1>7. x.op = "unlist_dir" /\ x.dir = dir[d].parent_directory /\ x.child = d
  BY <1>5, WriteNames
<1>8. x \in Writes
  BY <1>1, <1>4, <1>5 DEF UnlistDir, Writes, TypeOK, DirRecord
<1>9. x \in Locals(u)
  <2>1. ASSUME x.dir \in DOMAIN dir PROVE dir[x.dir].owner = u
    <3>1. x.dir # NoParent
      BY <1>4, <2>1 DEF TypeOK, DirId, NoParent
    <3>2. d \in dir[x.dir].directories_contained
      BY <1>1, <1>4, <1>7, <3>1 DEF StoreInv
    <3> QED
      BY <1>1, <1>4, <2>1, <3>2 DEF Owned
  <2>2. Local(u, x)
    BY <1>7, <2>1 DEF Local, OwnDir
  <2> QED
    BY <1>8, <2>2 DEF Locals
<1>10. PICK X, Y, E : X = Locals(u) /\ Y = {w \in Writes : w.op # "trash"} /\ E = {}
  OBVIOUS
<1>11. /\ One(x) \in Programs(Seq(X)) /\ WritesOf(One(x).todo) = {x}
       /\ One(x) \in Programs(Seq(Y))
  <2>1. X \subseteq Writes /\ Y \subseteq Writes /\ x \in X /\ x \in Y
    BY <1>7, <1>8, <1>9, <1>10 DEF Locals
  <2> QED
    BY <1>8, <2>1, OneIs
<1>12. PICK s : s = p.todo
  OBVIOUS
<1>13. \A i \in DOMAIN s : Local(u, s[i])
  <2>1. X \subseteq Writes /\ \A w \in X : Local(u, w)
    BY <1>10 DEF Locals
  <2>2. t \in Programs(Seq(X))
    BY <1>1, <1>4, <1>5, <1>10, TreeIsLocal DEF TreeLocal, OwnDir
  <2>3. p \in Programs(Seq(X))
    BY <1>6, <1>11, <2>1, <2>2, ProgramsOf
  <2> QED
    BY <1>12, <2>1, <2>3, ProgramsOf
<1>14. Once(s)
  <2>1. t \in OncePrograms(Beneath(d))
    BY <1>4, <1>5, TreeTrashesOnce DEF TreeOnce
  <2>2. One(x) \in OncePrograms(E)
    BY <1>10, <1>11, OnceNone
  <2>3. Apart(Beneath(d), E)
    BY <1>10 DEF Apart
  <2>4. PICK B : B = Beneath(d)
    OBVIOUS
  <2>5. p \in OncePrograms(B \cup E)
    BY <1>6, <2>1, <2>2, <2>3, <2>4, OnceThen
  <2> QED
    BY <1>12, <2>5 DEF OncePrograms, Trashing
<1>15. ASSUME u \notin hurt PROVE Kept(u, Deleting, s)
  <2>1. Tidy(u, a)
    BY <1>4, <1>15
  <2>2. t \in TreeSound(u, d)
    BY <1>2, <1>4, <1>5, <2>1, TreeIsSound
  <2>3. PICK M : M = E \cup WritesOf(One(x).todo)
    OBVIOUS
  <2>4. Answered(M, d)
    BY <1>5, <1>11, <2>3 DEF Answered
  <2>5. t \in SoundPrograms(u, Deleting, E, M)
    BY <1>1, <1>10, <2>2, <2>4 DEF TreeSound
  <2>6. PICK y, D : y = One(x) /\ D = E \cup WritesOf(t.todo)
    OBVIOUS
  <2>7. y \in SoundPrograms(u, Deleting, D, E)
    <3>1. \A r : r[1] = x => Good(u, r, 1, D, E)
      BY <1>7, GoodAlone
    <3> QED
      BY <1>7, <1>8, <2>6, <3>1, SoundOne DEF Deleting
  <2>8. t \in SoundPrograms(u, Deleting, E, E \cup WritesOf(y.todo))
    BY <2>3, <2>5, <2>6
  <2>9. y \in SoundPrograms(u, Deleting, E \cup WritesOf(t.todo), E)
    BY <2>6, <2>7
  <2>10. Then(t, y) \in SoundPrograms(u, Deleting, E, E)
    BY <2>8, <2>9, SoundChain
  <2>11. s \in Sound(u, Deleting, {}, {})
    BY <1>6, <1>10, <1>12, <2>6, <2>10 DEF SoundPrograms, Programs
  <2> QED
    BY <1>14, <2>11, SoundKept
<1>16. Fit(u, s, a)
  BY <1>2, <1>13, <1>15, PlainAsk DEF Fit, Sorts
<1> QED
  BY <1>3, <1>5, <1>12, <1>16

----------------------------------------------------------------------------
(* The theorem.                                                            *)

\* Every request starts with a program that fits it.
LEMMA RequestMends ==
  ASSUME CatalogAssumption, StepsInv, MendInv, Request
  PROVE  MendInv'
<1> PICK u \in Users :
     \/ \E p \in DirId : \/ RequestDirectory(u, p)
                         \/ \E n \in Names : RequestNewFile(u, p, n)
                         \/ \E g \in FileId : RequestRevision(u, p, g)
     \/ \E f \in FileId : RequestLeave(u, f) \/ \E v \in Users : RequestShare(u, f, v)
     \/ \E o \in Orders :
          \/ \E f \in FileId : \/ RequestDeletion(u, f, o)
                               \/ \E V \in SUBSET Users : RequestOverwrite(u, f, V, o)
          \/ \E d \in DirId : RequestDirectoryDeletion(u, d, o)
          \/ \E S \in SUBSET FileId : RequestPurge(u, S, o) \/ RequestRecovery(u, S, o)
  BY DEF Request
<1> SUFFICES \E a, q : Start(u, a, q) /\ Fit(u, q.todo, a)
  BY StartMends
<1>1. ASSUME NEW p \in DirId,
             \/ RequestDirectory(u, p)
             \/ \E n \in Names : RequestNewFile(u, p, n)
             \/ \E g \in FileId : RequestRevision(u, p, g)
      PROVE  \E a, q : Start(u, a, q) /\ Fit(u, q.todo, a)
  BY <1>1, DirectoryFits, NewFileFits, RevisionFits
<1>2. ASSUME NEW f \in FileId, RequestLeave(u, f) \/ \E v \in Users : RequestShare(u, f, v)
      PROVE  \E a, q : Start(u, a, q) /\ Fit(u, q.todo, a)
  BY <1>2, LeaveFits, ShareFits
<1>3. ASSUME NEW o \in Orders, NEW f \in FileId,
             RequestDeletion(u, f, o) \/ \E V \in SUBSET Users : RequestOverwrite(u, f, V, o)
      PROVE  \E a, q : Start(u, a, q) /\ Fit(u, q.todo, a)
  BY <1>3, DeletionFits, OverwriteFits
<1>4. ASSUME NEW o \in Orders, NEW d \in DirId, RequestDirectoryDeletion(u, d, o)
      PROVE  \E a, q : Start(u, a, q) /\ Fit(u, q.todo, a)
  BY <1>4, TreeDeletionFits
<1>5. ASSUME NEW o \in Orders, NEW S \in SUBSET FileId, RequestPurge(u, S, o) \/ RequestRecovery(u, S, o)
      PROVE  \E a, q : Start(u, a, q) /\ Fit(u, q.todo, a)
  BY <1>5, PurgeFits, RecoverFits
<1> QED
  BY <1>1, <1>2, <1>3, <1>4, <1>5

LEMMA NextMends ==
  ASSUME CatalogAssumption, StepsInv, MendInv, [StepsNext]_stepVars
  PROVE  MendInv'
<1>1. CASE Request
  BY <1>1, RequestMends
<1>2. CASE Write
  BY <1>2, WriteMends
<1>3. CASE Crash
  BY <1>3, CrashMends
<1>4. CASE UNCHANGED stepVars
  BY <1>4, QuietMends
<1> QED
  BY <1>1, <1>2, <1>3, <1>4 DEF StepsNext, CrashAtRest

\* At any time all that is wrong with what users who are not hurt keep is what the
\* writes to come will mend, or the requests they owe.
LEMMA MendAlways == StepsSpec => [](StepsInv /\ MendInv)
<1> USE CatalogAssumption, StepsAssumption
<1>1. StepsInit => StepsInv /\ MendInv
  BY InitSteps, InitMends
<1>2. StepsInv /\ MendInv /\ [StepsNext]_stepVars => (StepsInv /\ MendInv)'
  BY NextSteps, NextMends
<1> QED
  BY <1>1, <1>2, PTL DEF StepsSpec

\* put_directory, put_file, share, delete, purge and recover may die after any of
\* their writes, any number of times: a user whose requests were answered or have
\* been repeated keeps a consistent tree, trash, disk and shares.
THEOREM CrashesAreLocal == StepsSpec => []CrashIsLocal
<1>1. StepsInv /\ MendInv => CrashIsLocal
  <2> SUFFICES ASSUME StepsInv, MendInv, NEW u \in Users, Clean(u)
               PROVE  Whole(u)
    BY DEF CrashIsLocal
  <2>1. TypeOK /\ StoreInv /\ (run.todo = <<>> => run = Idle)
    BY DEF StepsInv
  <2> QED
    BY <2>1, MendedIsWhole
<1> QED
  BY <1>1, MendAlways, PTL

=============================================================================
