----------------------------- MODULE Server_proofs -----------------------------
(***************************************************************************)
(* Proofs about Server: with any number of connections, requests, bodies   *)
(* of any length and a network that cuts them up in any way, handlers are  *)
(* given whole bodies, and no answer is cut off under a client that reads. *)
(***************************************************************************)
EXTENDS Server, TLAPS

Serving == pc \in {"serve", "handler"}

\* What the thread goes through is the connections it has.
Ready(c) ==
  /\ client[c].at \in {"out", "queued", "left"} => ~conn[c].there /\ conn[c].out = 0 /\ conn[c].flags = {}
  /\ Serving /\ c \in read \cup write => conn[c].there
  /\ pc = "handler" /\ cur = c => conn[c].there
  /\ conn[c].out > 0 => conn[c].there

\* Between requests nothing of a connection is on the wire or in its counters;
\* within one, what was read and what is on the wire were written by its client.
Within(c) ==
  \/ /\ handled[c].count = client[c].request
     /\ conn[c].bytes = 0 /\ conn[c].content = 0 /\ wire[c] = 0
     /\ client[c].written \in {0, client[c].body + 1}
     /\ ~(pc = "handler" /\ cur = c)
  \/ /\ handled[c].count + 1 = client[c].request
     /\ conn[c].bytes + wire[c] <= client[c].written
     /\ client[c].written <= client[c].body + 1
     /\ conn[c].content = IF conn[c].bytes = 0 THEN 0 ELSE conn[c].bytes - 1
     /\ pc = "handler" /\ cur = c => conn[c].bytes = client[c].body + 1

\* What a client has got and is about to get was answered.
Paid(c) == client[c].got + conn[c].out <= AnswerSize * handled[c].count

Counted(c) == handled[c].whole /\ Within(c) /\ Paid(c)

\* A connection with an answer to send is no older than its socket has been full,
\* or as old as the pass that a handler held up; and it is not marked for closing at
\* once.
Young(c) ==
  /\ "close_immediately" \in conn[c].flags => conn[c].out = 0 \/ ~Up(c)
  /\ pc = "handler" /\ cur = c => conn[c].idle = spent
  /\ conn[c].out > 0 /\ Up(c) => (conn[c].idle <= stalled[c] \/ (spent = Old /\ conn[c].idle = Old))

ServerInv == TypeOK /\ \A c \in Conns : Ready(c) /\ Counted(c) /\ Young(c)

----------------------------------------------------------------------------
LEMMA Ends ==
  /\ NewConn \in ServerEnds /\ Absent \in ServerEnds
  /\ NewConn.there /\ ~Absent.there
  /\ NewConn.bytes = 0 /\ NewConn.content = 0 /\ NewConn.out = 0
  /\ NewConn.flags = {} /\ NewConn.idle = 0
  /\ Absent.bytes = 0 /\ Absent.content = 0 /\ Absent.out = 0
  /\ Absent.flags = {} /\ Absent.idle = 0
<1>1. /\ NewConn \in ServerEnds /\ NewConn.there
      /\ NewConn.bytes = 0 /\ NewConn.content = 0 /\ NewConn.out = 0
      /\ NewConn.flags = {} /\ NewConn.idle = 0
  BY ServerAssumption DEF NewConn, ServerEnds, Tick
<1>2. /\ Absent \in ServerEnds /\ ~Absent.there
      /\ Absent.bytes = 0 /\ Absent.content = 0 /\ Absent.out = 0
      /\ Absent.flags = {} /\ Absent.idle = 0
  BY <1>1 DEF Absent, ServerEnds
<1> QED BY <1>1, <1>2

LEMMA Ticks ==
  /\ Old \in Nat /\ Old > 0 /\ Old > MaxIdle /\ Tick = 0 .. Old /\ {0, Old} \subseteq Tick
  /\ \A t \in Tick : t \in Nat /\ t <= Old /\ (t > MaxIdle <=> t = Old)
  /\ TypeOK => spent \in Tick /\ stalled \in [Conns -> Tick]
BY ServerAssumption DEF Tick, Old, TypeOK

LEMMA InitInv == Init => ServerInv
<1> SUFFICES ASSUME Init PROVE ServerInv
  OBVIOUS
<1> USE ServerAssumption DEF Init
<1>1. TypeOK
  <2>1. client \in [Conns -> ClientEnds]
    BY DEF ClientEnds
  <2>2. conn \in [Conns -> ServerEnds]
    BY Ends
  <2>3. handled \in [Conns -> [count : Nat, whole : BOOLEAN]]
    OBVIOUS
  <2>4. spent \in {0, Old} /\ stalled \in [Conns -> Tick]
    BY DEF Tick, Old
  <2> QED BY <2>1, <2>2, <2>3, <2>4 DEF TypeOK
<1>2. ASSUME NEW c \in Conns PROVE Ready(c) /\ Counted(c) /\ Young(c)
  <2>1. AnswerSize * handled[c].count = 0
    BY DEF Init
  <2>2. Ready(c) /\ Young(c)
    BY Ends DEF Ready, Young, Serving, Up
  <2>3. Counted(c)
    BY <2>1, Ends DEF Counted, Within, Paid
  <2> QED BY <2>2, <2>3
<1> QED BY <1>1, <1>2 DEF ServerInv

----------------------------------------------------------------------------
(* Clients.                                                                *)

LEMMA ConnectInv ==
  ASSUME ServerInv, NEW c \in Conns, Connect(c)
  PROVE  ServerInv'
<1> USE ServerAssumption DEF ServerInv, Connect, thread, history
<1>1. TypeOK'
  BY SMTT(30) DEF TypeOK, ClientEnds
<1>2. ASSUME NEW d \in Conns PROVE Ready(d)' /\ Counted(d)' /\ Young(d)'
  BY DEF TypeOK, ClientEnds, Ready, Counted, Within, Paid, Young, Serving, Up
<1> QED BY <1>1, <1>2

LEMMA AskType ==
  ASSUME NEW f \in [Conns -> ClientEnds], NEW c \in Conns, NEW r \in Nat, NEW b \in Nat,
         NEW k \in BOOLEAN
  PROVE  [f EXCEPT ![c].request = r, ![c].body = b, ![c].keep = k, ![c].written = 1]
           \in [Conns -> ClientEnds]
<1> DEFINE e == [f[c] EXCEPT !.request = r, !.body = b, !.keep = k, !.written = 1]
<1>1. e \in ClientEnds
  BY Zenon, f[c] \in ClientEnds DEF ClientEnds
<1>2. [f EXCEPT ![c].request = r, ![c].body = b, ![c].keep = k, ![c].written = 1]
        = [f EXCEPT ![c] = e]
  OBVIOUS
<1> HIDE DEF e
<1> QED BY <1>1, <1>2

LEMMA AskInv ==
  ASSUME ServerInv, NEW c \in Conns, NEW b \in 0 .. MaxBody[c], NEW k \in BOOLEAN, Ask(c, b, k)
  PROVE  ServerInv'
<1> USE ServerAssumption DEF ServerInv, Ask, thread, history
<1>1. TypeOK'
  <2>1. b \in Nat
    OBVIOUS
  <2>2. client' \in [Conns -> ClientEnds]
    <3> DEFINE r == client[c].request + 1
    <3>1. r \in Nat /\ client \in [Conns -> ClientEnds]
      BY DEF TypeOK, ClientEnds
    <3>2. client' = [client EXCEPT ![c].request = r, ![c].body = b, ![c].keep = k,
                                   ![c].written = 1]
      OBVIOUS
    <3> HIDE DEF r
    <3>3. [client EXCEPT ![c].request = r, ![c].body = b, ![c].keep = k, ![c].written = 1]
            \in [Conns -> ClientEnds]
      BY <2>1, <3>1, AskType, Zenon
    <3> QED BY <3>2, <3>3, Zenon
  <2>3. wire' \in [Conns -> Nat]
    BY DEF TypeOK
  <2> QED BY <2>2, <2>3 DEF TypeOK
<1>2. ASSUME NEW d \in Conns PROVE Ready(d)' /\ Young(d)'
  <2>1. client'[d].at = client[d].at
    BY DEF TypeOK, ClientEnds, Up
  <2> QED BY <2>1 DEF Ready, Young, Serving, Up
<1>3. ASSUME NEW d \in Conns PROVE Counted(d)'
  <2>1. CASE d = c
    <3>1. handled[c].count = client[c].request /\ conn[c].out = 0
      <4> DEFINE r == client[c].request  h == handled[c].count
      <4>1. r \in Nat /\ h \in Nat /\ conn[c].out \in Nat /\ AnswerSize \in Nat \ {0}
        BY DEF TypeOK, ClientEnds, ServerEnds
      <4>2. r * AnswerSize + conn[c].out <= AnswerSize * h /\ (h = r \/ h + 1 = r)
        BY DEF Counted, Within, Paid
      <4>3. h + 1 = r => r * AnswerSize = AnswerSize * h + AnswerSize
        BY <4>1
      <4>4. h = r => r * AnswerSize = AnswerSize * h
        BY <4>1
      <4>5. r * AnswerSize \in Nat /\ AnswerSize * h \in Nat
        BY <4>1
      <4> HIDE DEF r, h
      <4>6. h = r /\ conn[c].out = 0
        BY <4>1, <4>2, <4>3, <4>4, <4>5
      <4> QED BY <4>6 DEF r, h
    <3>2. /\ client'[c].request = client[c].request + 1 /\ client'[c].written = 1
          /\ client'[c].body = b /\ client'[c].got = client[c].got
          /\ wire'[c] = wire[c] + 1
      BY DEF TypeOK, ClientEnds
    <3> QED BY <2>1, <3>1, <3>2 DEF Counted, Within, Paid, TypeOK, ClientEnds, ServerEnds
  <2>2. CASE d # c
    BY <2>2 DEF Counted, Within, Paid, TypeOK, ClientEnds
  <2> QED BY <2>1, <2>2
<1> QED BY <1>1, <1>2, <1>3

LEMMA SendBodyInv ==
  ASSUME ServerInv, NEW c \in Conns, SendBody(c)
  PROVE  ServerInv'
<1> USE ServerAssumption DEF ServerInv, SendBody, thread, history
<1>1. TypeOK'
  <2>1. client' \in [Conns -> ClientEnds]
    <3> DEFINE w == client[c].written + 1
    <3>1. w \in Nat /\ client \in [Conns -> ClientEnds]
      BY DEF TypeOK, ClientEnds
    <3>2. client' = [client EXCEPT ![c].written = w]
      OBVIOUS
    <3> HIDE DEF w
    <3> QED BY <3>1, <3>2 DEF ClientEnds
  <2>2. wire' \in [Conns -> Nat]
    BY DEF TypeOK
  <2> QED BY <2>1, <2>2 DEF TypeOK
<1>2. ASSUME NEW d \in Conns PROVE Ready(d)' /\ Young(d)'
  <2>1. client'[d].at = client[d].at
    BY DEF TypeOK, ClientEnds
  <2> QED BY <2>1 DEF Ready, Young, Serving, Up
<1>3. ASSUME NEW d \in Conns PROVE Counted(d)'
  <2>1. CASE d = c
    <3>1. /\ client'[c].request = client[c].request /\ client'[c].written = client[c].written + 1
          /\ client'[c].body = client[c].body /\ client'[c].got = client[c].got
          /\ wire'[c] = wire[c] + 1
      BY DEF TypeOK, ClientEnds
    <3>2. Within(d)'
      <4> DEFINE w == client[d].written
                 x == wire[d]
                 y == conn[d].bytes
                 z == client[d].body
      <4>1. w \in Nat /\ x \in Nat /\ y \in Nat /\ z \in Nat /\ 0 < w /\ w < z + 1
        BY <2>1 DEF TypeOK, ClientEnds, ServerEnds
      <4>2. /\ handled[d].count + 1 = client[d].request /\ y + x <= w
            /\ conn[d].content = IF y = 0 THEN 0 ELSE y - 1
            /\ pc = "handler" /\ cur = d => y = z + 1
        BY <2>1, <4>1 DEF Counted, Within
      <4>3. /\ client'[d].written = w + 1 /\ wire'[d] = x + 1
            /\ client'[d].request = client[d].request /\ client'[d].body = z
            /\ UNCHANGED <<conn, handled, pc, cur>>
        BY <2>1, <3>1
      <4> HIDE DEF w, x, y, z
      <4>4. y + (x + 1) <= w + 1 /\ w + 1 <= z + 1
        <5> HIDE DEF ServerInv, SendBody
        <5> QED BY <4>1, <4>2
      <4> HIDE DEF ServerInv, SendBody, thread, history
      <4> QED BY <4>2, <4>3, <4>4, Zenon DEF Within, w, x, y, z
    <3>3. handled'[d].whole /\ Paid(d)'
      <4>1. /\ UNCHANGED <<conn, handled>> /\ client'[d].got = client[d].got
            /\ handled[d].whole /\ Paid(d)
        BY <2>1, <3>1 DEF Counted
      <4> HIDE DEF ServerInv, SendBody, thread, history
      <4> QED BY <4>1, Zenon DEF Paid
    <3> QED BY <3>2, <3>3 DEF Counted
  <2>2. CASE d # c
    BY <2>2 DEF Counted, Within, Paid, TypeOK, ClientEnds
  <2> QED BY <2>1, <2>2
<1> QED BY <1>1, <1>2, <1>3

LEMMA LeaveInv ==
  ASSUME ServerInv, NEW c \in Conns, Leave(c)
  PROVE  ServerInv'
<1> USE ServerAssumption DEF ServerInv, Leave, thread, history
<1>1. TypeOK'
  <2>1. client' \in [Conns -> ClientEnds]
    BY SMTT(30) DEF TypeOK, ClientEnds
  <2>2. wire' \in [Conns -> Nat]
    BY DEF TypeOK
  <2> QED BY <2>1, <2>2 DEF TypeOK
<1>2. ASSUME NEW d \in Conns
      PROVE  /\ client'[d].request = client[d].request /\ client'[d].written = client[d].written
             /\ client'[d].body = client[d].body /\ client'[d].got = client[d].got
             /\ client'[d].at = IF d # c THEN client[d].at
                                ELSE IF client[d].at = "queued" THEN "left" ELSE "gone"
             /\ wire'[d] \in {0, wire[d]}
  BY DEF TypeOK, ClientEnds
<1>3. ASSUME NEW d \in Conns PROVE Ready(d)' /\ Young(d)'
  BY <1>2 DEF Ready, Young, Serving, Up
<1>4. ASSUME NEW d \in Conns PROVE Counted(d)'
  BY <1>2 DEF Counted, Within, Paid, TypeOK, ClientEnds, ServerEnds
<1> QED BY <1>1, <1>3, <1>4

----------------------------------------------------------------------------
(* The poll thread.                                                        *)

\* Closing connections leaves their clients with what they have got.
LEMMA CloseType ==
  ASSUME TypeOK, NEW C \in SUBSET Conns, Close(C, conn)
  PROVE  /\ client' \in [Conns -> ClientEnds] /\ wire' \in [Conns -> Nat]
         /\ conn' \in [Conns -> ServerEnds]
<1>1. ASSUME NEW d \in Conns
      PROVE  (IF d \in C /\ Up(d) THEN [client[d] EXCEPT !.at = "closed"] ELSE client[d])
               \in ClientEnds
  BY DEF TypeOK, ClientEnds
<1>2. client' \in [Conns -> ClientEnds]
  BY <1>1 DEF Close
<1>3. wire' \in [Conns -> Nat] /\ conn' \in [Conns -> ServerEnds]
  BY Ends DEF Close, TypeOK
<1> QED BY <1>2, <1>3

LEMMA CloseInv ==
  ASSUME ServerInv, NEW C \in SUBSET Conns, Close(C, conn),
         handled' = handled,
         pc' \notin {"serve", "handler"}, pc \notin {"handler"}
  PROVE  \A d \in Conns : Ready(d)' /\ Counted(d)'
<1> USE ServerAssumption DEF ServerInv
<1> TAKE d \in Conns
<1>1. conn'[d] = IF d \in C THEN Absent ELSE conn[d]
  BY DEF Close
<1>2. wire'[d] = IF d \in C THEN 0 ELSE wire[d]
  BY DEF Close
<1>3. client'[d] = IF d \in C /\ Up(d) THEN [client[d] EXCEPT !.at = "closed"] ELSE client[d]
  BY DEF Close
<1>4. /\ client'[d].request = client[d].request /\ client'[d].written = client[d].written
      /\ client'[d].body = client[d].body /\ client'[d].got = client[d].got
      /\ client'[d].at = IF d \in C /\ Up(d) THEN "closed" ELSE client[d].at
  BY <1>3 DEF TypeOK, ClientEnds
<1>5. Ready(d)'
  BY <1>1, <1>4, Ends DEF Ready, Serving, Up
<1>6. Counted(d)'
  BY <1>1, <1>2, <1>4, Ends DEF Counted, Within, Paid, TypeOK, ClientEnds, ServerEnds
<1> QED BY <1>5, <1>6

LEMMA NotifyInv == ASSUME ServerInv, Notify PROVE ServerInv'
<1> USE DEF ServerInv, Notify, Pass, history
<1> DEFINE C == Expired
<1>1. C \in SUBSET Conns /\ Close(C, conn)
  BY DEF Listed, Expired
<1>2. TypeOK'
  <2> HIDE DEF C
  <2> QED BY <1>1, CloseType DEF TypeOK
<1> HIDE DEF C
<1>3. \A d \in Conns : Ready(d)' /\ Counted(d)'
  BY <1>1, CloseInv
<1>4. ASSUME NEW d \in Conns PROVE Young(d)'
  <2>1. conn'[d] = IF d \in C THEN Absent ELSE conn[d]
    BY <1>1 DEF Close
  <2>2. Up(d)' => Up(d)
    BY <1>1 DEF Close, Up
  <2>3. conn[d].out > 0 /\ d \notin C => conn[d].idle # Old
    BY Ticks DEF C, Expired, Listed, Ready
  <2>4. pc' = "select" /\ UNCHANGED stalled
    OBVIOUS
  <2> QED BY <2>1, <2>2, <2>3, <2>4, Ends DEF Young
<1> QED BY <1>2, <1>3, <1>4

LEMMA SweepInv == ASSUME ServerInv, Sweep PROVE ServerInv'
<1> USE DEF ServerInv, Sweep, history
<1> DEFINE C == Finished
<1>1. C \in SUBSET Conns /\ Close(C, conn)
  BY DEF Listed, Finished
<1> HIDE DEF C
<1>2. TypeOK'
  BY <1>1, CloseType DEF TypeOK
<1>3. \A d \in Conns : Ready(d)' /\ Counted(d)'
  BY <1>1, CloseInv
<1>4. ASSUME NEW d \in Conns PROVE Young(d)'
  <2>1. conn'[d] = IF d \in C THEN Absent ELSE conn[d]
    BY <1>1 DEF Close
  <2>2. Up(d)' => Up(d)
    BY <1>1 DEF Close, Up
  <2> QED BY <2>1, <2>2, Ends DEF Young, Serving
<1> QED BY <1>2, <1>3, <1>4

\* The end of the server, with the thread out of the way or not: the connections
\* that are left have nothing to send.
LEMMA DestroyInv ==
  ASSUME ServerInv, DestroyServer \/ DestroyUnderThread
  PROVE  ServerInv'
<1> USE DEF ServerInv
<1> DEFINE C == Listed \cup {c \in Conns : Up(c)}
<1>1. /\ C \in SUBSET Conns /\ Close(C, conn) /\ pc' = "left" /\ main' = "ended"
      /\ UNCHANGED <<read, write, accepts, cur, spent, handled, stalled>>
  BY DEF Listed, DestroyServer, DestroyUnderThread, history, TypeOK
<1>2. TypeOK'
  <2> HIDE DEF C
  <2> QED BY <1>1, CloseType DEF TypeOK
<1>3. ASSUME NEW d \in Conns PROVE Ready(d)' /\ Counted(d)' /\ Young(d)'
  <2>1. conn'[d] = (IF d \in C THEN Absent ELSE conn[d]) /\ wire'[d] = IF d \in C THEN 0 ELSE wire[d]
    BY <1>1 DEF Close
  <2>2. client'[d] = IF d \in C /\ Up(d) THEN [client[d] EXCEPT !.at = "closed"] ELSE client[d]
    BY <1>1 DEF Close
  <2>3. /\ client'[d].request = client[d].request /\ client'[d].written = client[d].written
        /\ client'[d].body = client[d].body /\ client'[d].got = client[d].got
        /\ client'[d].at = IF d \in C /\ Up(d) THEN "closed" ELSE client[d].at
    BY <2>2 DEF TypeOK, ClientEnds
  <2>4. Up(d) => d \in C
    OBVIOUS
  <2> HIDE DEF C
  <2>5. Ready(d)' /\ Young(d)'
    BY <1>1, <2>1, <2>3, <2>4, Ends DEF Ready, Young, Serving, Up
  <2>6. Counted(d)'
    BY <1>1, <2>1, <2>3, Ends, ServerAssumption DEF Counted, Within, Paid, TypeOK, ClientEnds, ServerEnds
  <2> QED BY <2>5, <2>6
<1> QED BY <1>2, <1>3

\* Steps of the thread and of main that touch no connection.
LEMMA AsideInv ==
  ASSUME ServerInv, LeaveLoop \/ Stop \/ LastPoll \/ Ended
  PROVE  ServerInv'
<1> USE DEF ServerInv, LeaveLoop, Stop, LastPoll, Ended, thread, history, vars
<1>1. TypeOK'
  <2>1. /\ UNCHANGED <<client, wire, conn, read, write, cur, spent, handled, stalled>>
        /\ accepts' \in BOOLEAN /\ main' \in {"up", "stopping", "last", "ended"}
        /\ pc' \in {"loop", "select", "serve", "handler", "left", "done"}
        /\ pc' = "handler" => pc = "handler"
    BY DEF TypeOK
  <2> QED BY <2>1 DEF TypeOK
<1>2. ASSUME NEW d \in Conns PROVE Ready(d)' /\ Counted(d)' /\ Young(d)'
  <2>1. /\ UNCHANGED <<client, conn, wire, handled, stalled, spent, read, write, cur>>
        /\ Serving' = Serving /\ (pc' = "handler" <=> pc = "handler")
    BY DEF Serving
  <2> QED BY <2>1 DEF Ready, Counted, Within, Paid, Young, Up
<1> QED BY <1>1, <1>2

LEMMA AgeIs ==
  ASSUME conn \in [Conns -> ServerEnds], NEW n \in Nat
  PROVE  /\ Age(n) \in [Conns -> ServerEnds]
         /\ \A c \in Conns : /\ Age(n)[c].there = conn[c].there /\ Age(n)[c].bytes = conn[c].bytes
                             /\ Age(n)[c].content = conn[c].content /\ Age(n)[c].out = conn[c].out
                             /\ Age(n)[c].flags = conn[c].flags
<1> USE ServerAssumption
<1> DEFINE a(c) == IF ~conn[c].there THEN conn[c].idle
                   ELSE IF conn[c].idle + n > Old THEN Old ELSE conn[c].idle + n
<1>1. \A c \in Conns : a(c) \in Tick
  BY DEF Tick, Old, ServerEnds
<1>2. Age(n) = [c \in Conns |-> [conn[c] EXCEPT !.idle = a(c)]]
  BY DEF Age
<1> HIDE DEF a
<1>3. \A c \in Conns : [conn[c] EXCEPT !.idle = a(c)] \in ServerEnds
  BY <1>1 DEF ServerEnds
<1>4. \A c \in Conns : /\ Age(n)[c].there = conn[c].there /\ Age(n)[c].bytes = conn[c].bytes
                       /\ Age(n)[c].content = conn[c].content /\ Age(n)[c].out = conn[c].out
                       /\ Age(n)[c].flags = conn[c].flags
  BY <1>2 DEF ServerEnds
<1> QED BY <1>2, <1>3, <1>4

LEMMA SelectInv == ASSUME ServerInv, Select PROVE ServerInv'
<1> USE DEF ServerInv, Select, history
<1>1. conn \in [Conns -> ServerEnds] /\ conn' \in {conn, Age(1)}
  BY DEF TypeOK
<1>2. conn' \in [Conns -> ServerEnds]
  BY <1>1, AgeIs
<1>3. TypeOK'
  <2>1. stalled' \in [Conns -> Tick]
    <3>1. CASE stalled' = stalled
      BY <3>1 DEF TypeOK
    <3>2. CASE stalled' # stalled
      <4>1. \A d \in Conns : stalled[d] \in Tick /\ (stalled[d] < Old => stalled[d] + 1 \in Tick)
        BY ServerAssumption DEF TypeOK, Tick, Old
      <4> QED BY <3>2, <4>1
    <3> QED BY <3>1, <3>2
  <2> QED BY <1>2, <2>1 DEF TypeOK, Readable, Writable, Listed
<1>4. ASSUME NEW d \in Conns PROVE Ready(d)' /\ Counted(d)' /\ Young(d)'
  <2>1. /\ conn'[d].there = conn[d].there /\ conn'[d].bytes = conn[d].bytes
        /\ conn'[d].content = conn[d].content /\ conn'[d].out = conn[d].out
        /\ conn'[d].flags = conn[d].flags
    BY <1>1, AgeIs
  <2>2. d \in read' \cup write' => conn[d].there
    BY DEF Readable, Writable, Listed
  <2>3. Ready(d)'
    BY <2>1, <2>2 DEF Ready, Serving
  <2>5. Young(d)'
    <3>1. CASE UNCHANGED <<conn, stalled>>
      BY <3>1 DEF Young, Up
    <3>2. CASE /\ conn' = Age(1)
               /\ stalled' = [c \in Conns |-> IF c \in Writable /\ stalled[c] < Old
                                              THEN stalled[c] + 1 ELSE stalled[c]]
      <4>1. ASSUME conn[d].out > 0, Up(d)
            PROVE  conn'[d].idle <= stalled'[d] \/ (spent = Old /\ conn'[d].idle = Old)
        <5>1. conn[d].there /\ d \in Writable
          BY <4>1 DEF Ready, Writable, Listed
        <5>2. /\ conn'[d].idle = IF conn[d].idle + 1 > Old THEN Old ELSE conn[d].idle + 1
              /\ stalled'[d] = IF stalled[d] < Old THEN stalled[d] + 1 ELSE stalled[d]
          BY <1>1, <3>2, <5>1 DEF Age, ServerEnds
        <5>3. /\ conn[d].idle \in 0 .. Old /\ stalled[d] \in 0 .. Old /\ Old \in Nat
              /\ conn[d].idle <= stalled[d] \/ (spent = Old /\ conn[d].idle = Old)
          BY <4>1, ServerAssumption DEF TypeOK, ServerEnds, Tick, Old, Young
        <5> HIDE DEF ServerInv, Select
        <5> QED BY <5>2, <5>3
      <4>2. UNCHANGED <<client, spent>> /\ pc' = "serve" /\ Young(d)
        OBVIOUS
      <4> HIDE DEF ServerInv, Select
      <4> QED BY <2>1, <4>1, <4>2 DEF Young, Up
    <3> QED BY <3>1, <3>2
  <2>4. Counted(d)'
    BY <2>1 DEF Counted, Within, Paid
  <2> QED BY <2>3, <2>4, <2>5
<1> QED BY <1>3, <1>4

LEMMA AcceptConnInv ==
  ASSUME ServerInv, NEW c \in Conns, AcceptConn(c)
  PROVE  ServerInv'
<1> USE ServerAssumption DEF ServerInv, AcceptConn, history
<1>1. TypeOK'
  <2>1. client' \in [Conns -> ClientEnds]
    <3> DEFINE a == IF Up(c) THEN "open" ELSE "gone"
    <3>1. client' = [client EXCEPT ![c].at = a] /\ client \in [Conns -> ClientEnds]
      BY DEF TypeOK
    <3>2. a \in {"open", "gone"}
      OBVIOUS
    <3> HIDE DEF a
    <3>3. [client[c] EXCEPT !.at = a] \in ClientEnds
      BY <3>1, <3>2 DEF ClientEnds
    <3> QED BY <3>1, <3>3
  <2>2. conn' \in [Conns -> ServerEnds]
    BY Ends DEF TypeOK
  <2> QED BY <2>1, <2>2 DEF TypeOK
<1>2. ASSUME NEW d \in Conns PROVE Ready(d)' /\ Counted(d)' /\ Young(d)'
  <2>1. /\ client'[d].request = client[d].request /\ client'[d].written = client[d].written
        /\ client'[d].body = client[d].body /\ client'[d].got = client[d].got
        /\ client'[d].at = IF d # c THEN client[d].at ELSE IF Up(c) THEN "open" ELSE "gone"
    BY DEF TypeOK, ClientEnds
  <2>5. d = c => client[d].at \in {"queued", "left"}
    BY DEF Queued
  <2>2. conn'[d] = IF d = c THEN NewConn ELSE conn[d]
    BY DEF TypeOK
  <2>3. Ready(d)' /\ Young(d)'
    BY <2>1, <2>2, <2>5, Ends DEF Ready, Young, Serving, Up
  <2>4. Counted(d)'
    BY <2>1, <2>2, <2>5, Ends DEF Counted, Within, Paid, TypeOK, ClientEnds, ServerEnds
  <2> QED BY <2>3, <2>4
<1> QED BY <1>1, <1>2

\* Reading changes a connection's counters, and starts its handler when the
\* request is complete.
LEMMA ReadInv ==
  ASSUME ServerInv, NEW c \in Conns, NEW n \in Nat, ReadFromSocket(c, n)
  PROVE  ServerInv'
<1> USE ServerAssumption DEF ServerInv
<1> DEFINE b == conn[c].bytes + n
           k == conn[c].content + IF conn[c].bytes = 0 THEN n - 1 ELSE n
<1>1. /\ b \in Nat /\ k \in Nat /\ n \in 1 .. wire[c] /\ wire[c] - n \in Nat
  BY DEF ReadFromSocket, TypeOK, ServerEnds
<1>2. /\ conn' = [conn EXCEPT ![c].bytes = b, ![c].idle = spent, ![c].content = k]
      /\ wire' = [wire EXCEPT ![c] = wire[c] - n]
  BY DEF ReadFromSocket
<1>3. \/ b >= client[c].body + 1 /\ pc' = "handler" /\ cur' = c
      \/ ~(b >= client[c].body + 1) /\ UNCHANGED <<pc, cur>>
  BY DEF ReadFromSocket
<1>0. /\ UNCHANGED <<client, read, write, accepts, spent, main, handled, stalled>>
      /\ pc = "serve" /\ c \in read
  BY DEF ReadFromSocket, history
<1> HIDE DEF b, k
<1>4. conn' \in [Conns -> ServerEnds]
  <2> DEFINE e == [conn[c] EXCEPT !.bytes = b, !.idle = spent, !.content = k]
  <2>1. conn \in [Conns -> ServerEnds] /\ conn[c] \in ServerEnds /\ spent \in Tick
    BY Ticks DEF TypeOK
  <2>2. e \in ServerEnds
    BY <1>1, <2>1, Zenon DEF ServerEnds
  <2>3. conn' = [conn EXCEPT ![c] = e]
    BY <1>2
  <2> HIDE DEF e
  <2> QED BY <2>1, <2>2, <2>3
<1>5. TypeOK'
  BY <1>0, <1>1, <1>2, <1>3, <1>4 DEF TypeOK
<1>6. ASSUME NEW d \in Conns
      PROVE  /\ conn'[d].there = conn[d].there /\ conn'[d].out = conn[d].out
             /\ conn'[d].flags = conn[d].flags
             /\ d = c => conn'[d].bytes = b /\ conn'[d].content = k /\ conn'[d].idle = spent
             /\ d # c => /\ conn'[d].bytes = conn[d].bytes /\ conn'[d].content = conn[d].content
                        /\ conn'[d].idle = conn[d].idle
             /\ wire'[d] = IF d = c THEN wire[c] - n ELSE wire[d]
  BY <1>2 DEF TypeOK, ServerEnds
<1>7. ASSUME NEW d \in Conns PROVE Ready(d)' /\ Young(d)'
  <2>1. Ready(d)'
    BY <1>0, <1>3, <1>6 DEF Ready, Serving
  <2>2. Young(d)'
    <3>1. spent \in {0, Old} /\ stalled[d] \in Nat /\ Young(d)
      BY Ticks DEF TypeOK
    <3>2. /\ UNCHANGED <<client, stalled, spent>> /\ (pc' = "handler" /\ cur' = d => d = c)
          /\ pc = "serve"
      BY <1>0, <1>3
    <3> HIDE DEF ServerInv
    <3>3. CASE d = c
      BY <1>6, <3>1, <3>2, <3>3 DEF Young, Up
    <3>4. CASE d # c
      BY <1>6, <3>1, <3>2, <3>4 DEF Young, Up
    <3> QED BY <3>3, <3>4
  <2> QED BY <2>1, <2>2
<1>8. ASSUME NEW d \in Conns PROVE Counted(d)'
  <2>1. CASE d # c
    BY <1>0, <1>3, <1>6, <2>1 DEF Counted, Within, Paid
  <2>2. CASE d = c
    <3>1. /\ handled[c].whole /\ handled[c].count + 1 = client[c].request
          /\ handled[c].count # client[c].request
          /\ conn[c].bytes + wire[c] <= client[c].written
          /\ client[c].written <= client[c].body + 1
          /\ conn[c].content = IF conn[c].bytes = 0 THEN 0 ELSE conn[c].bytes - 1
          /\ client[c].got + conn[c].out <= AnswerSize * handled[c].count
      BY <1>0, <1>1 DEF Counted, Within, Paid, TypeOK, ClientEnds
    <3>0. /\ client[c].body \in Nat /\ client[c].written \in Nat /\ conn[c].bytes \in Nat
          /\ wire[c] \in Nat /\ n \in Nat /\ n <= wire[c] /\ conn[c].content \in Nat
      BY <1>1 DEF TypeOK, ClientEnds, ServerEnds
    <3>2. b + (wire[c] - n) = conn[c].bytes + wire[c]
      <4> b = conn[c].bytes + n
        BY DEF b
      <4> HIDE DEF ServerInv
      <4> QED BY <3>0
    <3>4. k = IF b = 0 THEN 0 ELSE b - 1
      BY <1>1, <3>0, <3>1 DEF b, k
    <3>3. b >= client[c].body + 1 => b = client[c].body + 1
      <4> DEFINE x == conn[c].bytes
                 w == wire[c]
                 y == client[c].written
                 z == client[c].body
      <4>1. /\ x \in Nat /\ w \in Nat /\ y \in Nat /\ z \in Nat /\ n \in Nat /\ n <= w
            /\ b = x + n /\ x + w <= y /\ y <= z + 1
        BY <3>0, <3>1 DEF b
      <4> HIDE DEF x, w, y, z
      <4>2. b >= z + 1 => b = z + 1
        <5> HIDE DEF ServerInv
        <5> QED BY <4>1
      <4> QED BY <4>2 DEF z
    <3>5. Within(d)'
      BY <1>0, <1>3, <1>6, <2>2, <3>1, <3>2, <3>3, <3>4 DEF Within
    <3>6. handled'[d].whole /\ Paid(d)'
      BY <1>0, <1>6, <2>2, <3>1 DEF Paid
    <3> QED BY <3>5, <3>6 DEF Counted
  <2> QED BY <2>1, <2>2
<1> QED BY <1>5, <1>7, <1>8

\* The answer goes to the buffer, and the connection to its next request.
LEMMA AnswerIs ==
  ASSUME NEW o \in ServerEnds, NEW k \in BOOLEAN
  PROVE  LET e == CloseLocalEndpoint(k, o)
         IN  /\ e \in ServerEnds /\ e.there /\ e.bytes = 0 /\ e.content = 0
             /\ e.out = o.out /\ e.idle = o.idle
             /\ "close_immediately" \in e.flags => o.out = 0
<1> DEFINE f == IF k THEN {} ELSE IF o.out = 0 THEN {"close_immediately"} ELSE {"finished_sending"}
           e == [NewConn EXCEPT !.out = o.out, !.idle = o.idle, !.flags = f]
<1>1. /\ f \in SUBSET {"close_immediately", "finished_sending"}
      /\ "close_immediately" \in f => o.out = 0
  OBVIOUS
<1>2. o.out \in Nat /\ o.idle \in Tick
  BY DEF ServerEnds
<1>3. CloseLocalEndpoint(k, o) = e
  BY Zenon DEF CloseLocalEndpoint
<1> HIDE DEF f
<1>4. e \in ServerEnds
  BY <1>1, <1>2, Ends, Zenon DEF ServerEnds
<1>5. /\ e.there /\ e.bytes = 0 /\ e.content = 0
      /\ e.out = o.out /\ e.idle = o.idle /\ e.flags = f
  BY Ends DEF ServerEnds
<1> HIDE DEF e
<1> QED BY <1>1, <1>3, <1>4, <1>5

LEMMA CallInv == ASSUME ServerInv, CallRequestHandler PROVE ServerInv'
<1> USE ServerAssumption DEF ServerInv
<1>1. /\ cur \in Conns /\ conn \in [Conns -> ServerEnds] /\ client[cur].keep \in BOOLEAN
      /\ AnswerSize \in Nat /\ pc = "handler" /\ pc' = "serve"
      /\ UNCHANGED <<client, wire, read, write, accepts, main>> /\ cur' = NoConn
      /\ stalled' = [stalled EXCEPT ![cur] = 0] /\ stalled \in [Conns -> Tick] /\ 0 \in Tick
  BY DEF CallRequestHandler, TypeOK, ClientEnds, Tick
<1>2. PICK o \in [Conns -> ServerEnds] :
        /\ conn' = [o EXCEPT ![cur] = CloseLocalEndpoint(client[cur].keep,
                                        [o[cur] EXCEPT !.out = @ + AnswerSize])]
        /\ \A c \in Conns : /\ o[c].there = conn[c].there /\ o[c].bytes = conn[c].bytes
                            /\ o[c].content = conn[c].content /\ o[c].out = conn[c].out
                            /\ o[c].flags = conn[c].flags
        /\ \/ o = conn /\ spent' = spent
           \/ spent' = Old /\ \A c \in Conns : conn[c].there => o[c].idle = Old
  <2>1. CASE /\ conn' = [conn EXCEPT ![cur] = CloseLocalEndpoint(client[cur].keep,
                                        [conn[cur] EXCEPT !.out = @ + AnswerSize])]
             /\ spent' = spent
    BY <1>1, <2>1
  <2>2. CASE /\ conn' = [Age(Old) EXCEPT ![cur] = CloseLocalEndpoint(client[cur].keep,
                                        [Age(Old)[cur] EXCEPT !.out = @ + AnswerSize])]
             /\ spent' = Old
    <3>1. Old \in Nat /\ Old \in Tick
      BY DEF Old, Tick
    <3>2. Age(Old) \in [Conns -> ServerEnds]
      BY <1>1, <3>1, AgeIs
    <3>3. \A c \in Conns : /\ Age(Old)[c].there = conn[c].there /\ Age(Old)[c].bytes = conn[c].bytes
                          /\ Age(Old)[c].content = conn[c].content /\ Age(Old)[c].out = conn[c].out
                          /\ Age(Old)[c].flags = conn[c].flags
      BY <1>1, <3>1, AgeIs
    <3>4. ASSUME NEW c \in Conns, conn[c].there PROVE Age(Old)[c].idle = Old
      <4>1. conn[c].idle \in Nat /\ Old \in Nat
        BY <1>1, <3>1 DEF ServerEnds, Tick
      <4>2. Age(Old)[c].idle = IF conn[c].idle + Old > Old THEN Old ELSE conn[c].idle + Old
        BY <1>1, <3>4 DEF Age, ServerEnds
      <4> HIDE DEF ServerInv
      <4> QED BY <4>1, <4>2
    <3> QED BY <2>2, <3>1, <3>2, <3>3, <3>4
  <2> QED BY <2>1, <2>2 DEF CallRequestHandler
<1> DEFINE a == [o[cur] EXCEPT !.out = @ + AnswerSize]
           e == CloseLocalEndpoint(client[cur].keep, a)
<1>3. a \in ServerEnds /\ a.out = conn[cur].out + AnswerSize /\ a.idle = o[cur].idle
  BY <1>1, <1>2 DEF ServerEnds
<1> HIDE DEF a
<1>4. /\ e \in ServerEnds /\ e.there /\ e.bytes = 0 /\ e.content = 0
      /\ e.out = conn[cur].out + AnswerSize /\ e.idle = o[cur].idle
      /\ "close_immediately" \in e.flags => e.out = 0
  BY <1>1, <1>3, AnswerIs
<1>5. conn' = [o EXCEPT ![cur] = e]
  BY <1>2 DEF a
<1> HIDE DEF e
<1>6. conn' \in [Conns -> ServerEnds]
  BY <1>1, <1>4, <1>5
<1>7. ASSUME NEW d \in Conns
      PROVE  conn'[d] = IF d = cur THEN e ELSE o[d]
  BY <1>1, <1>5
<1>8. /\ handled' \in [Conns -> [count : Nat, whole : BOOLEAN]]
      /\ \A d \in Conns : d # cur => handled'[d] = handled[d]
      /\ handled'[cur].count = handled[cur].count + 1
      /\ handled'[cur].whole <=> handled[cur].whole /\ conn[cur].content = client[cur].body
  <2> DEFINE n == handled[cur].count + 1
             w == handled[cur].whole /\ conn[cur].content = client[cur].body
  <2>1. n \in Nat /\ w \in BOOLEAN /\ handled \in [Conns -> [count : Nat, whole : BOOLEAN]]
    BY <1>1 DEF TypeOK
  <2>2. handled' = [handled EXCEPT ![cur].count = n, ![cur].whole = w]
    BY DEF CallRequestHandler
  <2> HIDE DEF n, w
  <2>3. /\ handled' \in [Conns -> [count : Nat, whole : BOOLEAN]]
        /\ \A d \in Conns : d # cur => handled'[d] = handled[d]
        /\ handled'[cur].count = n /\ handled'[cur].whole = w
    BY <1>1, <2>1, <2>2
  <2> QED BY <2>3 DEF n, w
<1>9. TypeOK'
  BY <1>1, <1>2, <1>6, <1>8 DEF TypeOK
<1>10. ASSUME NEW d \in Conns PROVE Ready(d)' /\ Counted(d)' /\ Young(d)'
  <2>1. CASE d = cur
    <3>1. conn'[d] = e
      BY <1>7, <2>1
    <3>2. Ready(d)
      OBVIOUS
    <3>3. Ready(d)'
      BY <1>1, <1>4, <2>1, <3>1, <3>2 DEF Ready, Serving
    <3>4. Young(d)'
      <4>1. conn'[d].idle = 0 \/ (conn'[d].idle = Old /\ spent' = Old)
        <5>1. conn[d].idle = spent /\ conn[d].there /\ spent \in {0, Old}
          BY <1>1, <2>1 DEF Young, Ready, TypeOK
        <5>2. conn'[d].idle = o[d].idle
          BY <1>4, <2>1, <3>1
        <5> HIDE DEF ServerInv
        <5> QED BY <1>1, <1>2, <2>1, <5>1, <5>2
      <4>2. stalled'[d] = 0
        BY <1>1, <2>1
      <4>3. pc' = "serve" /\ ("close_immediately" \in conn'[d].flags => conn'[d].out = 0)
        BY <1>1, <1>4, <2>1, <3>1
      <4> HIDE DEF ServerInv
      <4> QED BY <4>1, <4>2, <4>3 DEF Young
    <3>5. Counted(d)'
      <4>1. /\ handled[d].whole /\ handled[d].count + 1 = client[d].request
            /\ conn[d].bytes = client[d].body + 1
            /\ conn[d].bytes + wire[d] <= client[d].written
            /\ client[d].written <= client[d].body + 1
            /\ conn[d].content = IF conn[d].bytes = 0 THEN 0 ELSE conn[d].bytes - 1
            /\ client[d].got + conn[d].out <= AnswerSize * handled[d].count
        BY <1>1, <2>1 DEF Counted, Within, Paid
      <4>2. /\ client[d].body \in Nat /\ client[d].written \in Nat /\ wire[d] \in Nat
            /\ client[d].got \in Nat /\ conn[d].out \in Nat /\ handled[d].count \in Nat
        BY <1>1 DEF TypeOK, ClientEnds, ServerEnds
      <4>3. /\ conn[d].content = client[d].body /\ wire[d] = 0
            /\ client[d].written = client[d].body + 1
        <5> DEFINE w == client[d].written
                   x == wire[d]
                   z == client[d].body
        <5>1. /\ w \in Nat /\ x \in Nat /\ z \in Nat
              /\ (z + 1) + x <= w /\ w <= z + 1
              /\ conn[d].content = IF z + 1 = 0 THEN 0 ELSE (z + 1) - 1
          BY <4>1, <4>2
        <5> HIDE DEF w, x, z, ServerInv
        <5>2. x = 0 /\ w = z + 1 /\ conn[d].content = z
          BY <5>1
        <5> QED BY <5>2 DEF w, x, z
      <4>4. AnswerSize * (handled[d].count + 1) = AnswerSize * handled[d].count + AnswerSize
        <5> DEFINE m == handled[d].count
        <5>1. m \in Nat
          BY <4>2
        <5> HIDE DEF m, ServerInv
        <5>2. AnswerSize * (m + 1) = AnswerSize * m + AnswerSize
          BY <1>1, <5>1
        <5> QED BY <5>2 DEF m
      <4>5. client[d].got + (conn[d].out + AnswerSize) <= AnswerSize * (handled[d].count + 1)
        <5>1. AnswerSize * handled[d].count \in Nat
          BY <1>1, <4>2
        <5> QED BY <1>1, <4>1, <4>2, <4>4, <5>1
      <4> HIDE DEF ServerInv
      <4>6. Within(d)' /\ handled'[d].whole
        BY <1>1, <1>4, <1>8, <2>1, <3>1, <4>1, <4>3 DEF Within
      <4>7. Paid(d)'
        BY <1>1, <1>4, <1>8, <2>1, <3>1, <4>5 DEF Paid
      <4> QED BY <4>6, <4>7 DEF Counted
    <3> QED BY <3>3, <3>4, <3>5
  <2>2. CASE d # cur
    <3>1. conn'[d] = o[d]
      BY <1>7, <2>2
    <3>2. /\ conn'[d].there = conn[d].there /\ conn'[d].bytes = conn[d].bytes
          /\ conn'[d].content = conn[d].content /\ conn'[d].out = conn[d].out
          /\ conn'[d].flags = conn[d].flags
      BY <1>2, <3>1
    <3>3. Ready(d)' /\ Counted(d)'
      BY <1>1, <1>8, <2>2, <3>2 DEF Ready, Counted, Within, Paid, Serving
    <3>4. Young(d)'
      <4>1. stalled'[d] = stalled[d] /\ (conn[d].out > 0 => conn[d].there) /\ Up(d)' = Up(d)
        BY <1>1, <2>2 DEF Ready, Up
      <4> QED BY <1>1, <1>2, <2>2, <3>1, <3>2, <4>1 DEF Young
    <3> QED BY <3>3, <3>4
  <2> QED BY <2>1, <2>2
<1> QED BY <1>9, <1>10

LEMMA StopReadingInv ==
  ASSUME ServerInv, NEW c \in Conns, StopReading(c)
  PROVE  ServerInv'
<1> USE DEF ServerInv
<1>1. /\ UNCHANGED <<client, wire, pc, write, accepts, cur, spent, main, handled, stalled>>
      /\ read' = read \ {c} /\ conn \in [Conns -> ServerEnds] /\ spent \in Tick
      /\ pc = "serve" /\ c \in read
  BY Ticks DEF StopReading, history, TypeOK
<1> DEFINE f == conn[c].flags \cup {"close_immediately"}
           e == [conn[c] EXCEPT !.flags = f, !.idle = spent]
<1>2. conn' = IF Up(c) THEN conn ELSE [conn EXCEPT ![c] = e]
  BY <1>1 DEF StopReading
<1>3. f \in SUBSET {"close_immediately", "finished_sending"}
  BY <1>1 DEF ServerEnds
<1> HIDE DEF f
<1>4. e \in ServerEnds
  <2> conn[c] \in ServerEnds
    BY <1>1
  <2> QED BY <1>1, <1>3, Zenon DEF ServerEnds
<1>5. /\ e.there = conn[c].there /\ e.out = conn[c].out /\ e.bytes = conn[c].bytes
      /\ e.content = conn[c].content /\ e.flags = f /\ e.idle = spent
  BY <1>1 DEF ServerEnds
<1> HIDE DEF e
<1>6. conn' \in [Conns -> ServerEnds]
  BY <1>1, <1>2, <1>4
<1>7. TypeOK'
  BY <1>1, <1>6 DEF TypeOK
<1>8. ASSUME NEW d \in Conns PROVE Ready(d)' /\ Counted(d)' /\ Young(d)'
  <2>1. conn'[d] = IF d = c /\ ~Up(c) THEN e ELSE conn[d]
    BY <1>1, <1>2
  <2>2. Ready(d)'
    BY <1>1, <1>5, <2>1 DEF Ready, Serving
  <2>3. Counted(d)'
    BY <1>1, <1>5, <2>1 DEF Counted, Within, Paid
  <2>4. Young(d)'
    BY <1>1, <1>5, <2>1 DEF Young, Serving, Up
  <2> QED BY <2>2, <2>3, <2>4
<1> QED BY <1>7, <1>8

LEMMA WriteInv ==
  ASSUME ServerInv, NEW c \in Conns, NEW n \in Nat, WriteToSocket(c, n)
  PROVE  ServerInv'
<1> USE DEF ServerInv
<1>1. /\ UNCHANGED <<wire, pc, read, accepts, cur, spent, main, handled>>
      /\ write' = write \ {c} /\ conn \in [Conns -> ServerEnds] /\ spent \in Tick
      /\ client \in [Conns -> ClientEnds] /\ pc = "serve" /\ n \in 1 .. conn[c].out
  BY Ticks DEF WriteToSocket, history, TypeOK
<1> DEFINE o == IF Up(c) THEN conn[c].out - n ELSE conn[c].out
           f == IF Up(c) THEN conn[c].flags ELSE conn[c].flags \cup {"close_immediately"}
           g == IF Up(c) THEN client[c].got + n ELSE client[c].got
           e == [conn[c] EXCEPT !.idle = spent, !.out = o, !.flags = f]
<1>2. conn' = [conn EXCEPT ![c].idle = spent, ![c].out = o, ![c].flags = f]
  BY DEF WriteToSocket
<1>3. client' = [client EXCEPT ![c].got = g]
  BY DEF WriteToSocket
<1>4. /\ conn[c].out \in Nat /\ client[c].got \in Nat
      /\ conn[c].flags \in SUBSET {"close_immediately", "finished_sending"}
  BY <1>1 DEF ServerEnds, ClientEnds
<1>5. /\ o \in Nat /\ g \in Nat /\ f \in SUBSET {"close_immediately", "finished_sending"}
      /\ g + o = client[c].got + conn[c].out /\ o <= conn[c].out
      /\ ~Up(c) => o = conn[c].out
      /\ Up(c) => f = conn[c].flags
  <2>1. CASE Up(c)
    BY <1>1, <1>4, <2>1
  <2>2. CASE ~Up(c)
    BY <1>1, <1>4, <2>2
  <2> QED BY <2>1, <2>2
<1> HIDE DEF o, f, g
<1>6. client' \in [Conns -> ClientEnds]
  BY <1>1, <1>3, <1>5 DEF ClientEnds
<1>7. e \in ServerEnds
  <2> conn[c] \in ServerEnds
    BY <1>1
  <2> QED BY <1>1, <1>5, Zenon DEF ServerEnds
<1>8. conn' = [conn EXCEPT ![c] = e]
  BY <1>2
<1>9. /\ e.there = conn[c].there /\ e.out = o /\ e.bytes = conn[c].bytes
      /\ e.content = conn[c].content /\ e.flags = f /\ e.idle = spent
  BY <1>1 DEF ServerEnds
<1> HIDE DEF e
<1>10. conn' \in [Conns -> ServerEnds]
  BY <1>1, <1>7, <1>8
<1>11. stalled' = [stalled EXCEPT ![c] = 0] /\ stalled \in [Conns -> Tick] /\ 0 \in Tick
  BY Ticks DEF WriteToSocket
<1>13. TypeOK'
  BY <1>1, <1>6, <1>10, <1>11 DEF TypeOK
<1>12. ASSUME NEW d \in Conns PROVE Ready(d)' /\ Counted(d)' /\ Young(d)'
  <2>1. conn'[d] = IF d = c THEN e ELSE conn[d]
    BY <1>1, <1>8
  <2>2. /\ client'[d].request = client[d].request /\ client'[d].written = client[d].written
        /\ client'[d].body = client[d].body /\ client'[d].at = client[d].at
        /\ client'[d].got = IF d = c THEN g ELSE client[d].got
    BY <1>1, <1>3 DEF ClientEnds
  <2>3. Ready(d)'
    BY <1>1, <1>4, <1>5, <1>9, <2>1, <2>2 DEF Ready, Serving
  <2>4. Counted(d)'
    BY <1>1, <1>5, <1>9, <2>1, <2>2 DEF Counted, Within, Paid
  <2>5. Young(d)'
    <3>1. /\ UNCHANGED <<pc, cur, spent>> /\ pc = "serve" /\ spent \in {0, Old} /\ Young(d)
          /\ Up(d)' = Up(d) /\ stalled'[d] = IF d = c THEN 0 ELSE stalled[d]
      BY <1>1, <1>11, <2>2 DEF TypeOK, Up
    <3> HIDE DEF ServerInv
    <3>2. CASE d = c
      BY <1>4, <1>5, <1>9, <2>1, <3>1, <3>2 DEF Young
    <3>3. CASE d # c
      BY <2>1, <3>1, <3>3 DEF Young
    <3> QED BY <3>2, <3>3
  <2> QED BY <2>3, <2>4, <2>5
<1> QED BY <1>12, <1>13

----------------------------------------------------------------------------
LEMMA NextInv == ServerInv /\ [Next]_vars => ServerInv'
<1> SUFFICES ASSUME ServerInv, [Next]_vars PROVE ServerInv'
  OBVIOUS
<1>1. CASE UNCHANGED vars
  BY <1>1 DEF vars, ServerInv, TypeOK, Ready, Counted, Within, Paid, Young, Serving, Up
<1>2. CASE Clients
  <2>1. ASSUME NEW c \in Conns, NEW b \in 0 .. MaxBody[c], NEW k \in Keeps[c], Ask(c, b, k)
        PROVE  ServerInv'
    <3>1. k \in BOOLEAN
      BY ServerAssumption
    <3> QED BY <2>1, <3>1, AskInv
  <2> QED BY <1>2, <2>1, ConnectInv, SendBodyInv, LeaveInv DEF Clients
<1>3. CASE PollThread
  <2>1. CASE Notify \/ Select \/ CallRequestHandler \/ Sweep \/ LeaveLoop
    BY <2>1, NotifyInv, SelectInv, AsideInv, CallInv, SweepInv
  <2>2. ASSUME NEW c \in Conns, AcceptConn(c) \/ StopReading(c) PROVE ServerInv'
    BY <2>2, AcceptConnInv, StopReadingInv
  <2>3. ASSUME NEW c \in Conns, NEW n \in 1 .. MaxBody[c] + 1, ReadFromSocket(c, n)
        PROVE  ServerInv'
    <3>1. n \in Nat
      BY ServerAssumption
    <3> QED BY <2>3, <3>1, ReadInv
  <2>4. ASSUME NEW c \in Conns, NEW n \in 1 .. AnswerSize, WriteToSocket(c, n) PROVE ServerInv'
    <3>1. n \in Nat
      BY ServerAssumption
    <3> QED BY <2>4, <3>1, WriteInv
  <2> QED BY <1>3, <2>1, <2>2, <2>3, <2>4 DEF PollThread
<1>4. CASE Stop \/ Main \/ Ended
  BY <1>4, AsideInv, DestroyInv DEF Main
<1> QED BY <1>1, <1>2, <1>3, <1>4 DEF Next

\* The state of threads, connections and clients is what the declarations say, for
\* any number of connections and requests (the whole of Server).
THEOREM ServerType == Spec => []TypeOK
<1>1. ServerInv => TypeOK
  BY DEF ServerInv
<1> QED BY <1>1, InitInv, NextInv, PTL DEF Spec

\* Handlers are given whole bodies, each request once, and clients get no more
\* than the answers to what was handled (mongoose's buffers and counters).
THEOREM ServerHandledWhole == Spec => []HandledWhole
<1>1. ServerInv => HandledWhole
  <2> SUFFICES ASSUME ServerInv, NEW c \in Conns
               PROVE  /\ handled[c].whole /\ handled[c].count <= client[c].request
                      /\ client[c].got + conn[c].out <= AnswerSize * handled[c].count
    BY DEF HandledWhole
  <2>1. handled[c].count \in Nat /\ client[c].request \in Nat
    BY DEF ServerInv, TypeOK, ClientEnds
  <2>2. \/ handled[c].count = client[c].request
        \/ handled[c].count + 1 = client[c].request
    BY DEF ServerInv, Counted, Within, Paid
  <2>3. handled[c].count <= client[c].request
    BY <2>1, <2>2
  <2> QED BY <2>3 DEF ServerInv, Counted, Within, Paid
<1> QED BY <1>1, InitInv, NextInv, PTL DEF Spec

----------------------------------------------------------------------------
(* Answers are sent.                                                       *)

\* Nothing but a pass of the thread and the end of the server closes connections.
LEMMA OthersKeep ==
  ASSUME ServerInv, Next, ~Notify, ~Sweep, ~DestroyServer, ~DestroyUnderThread,
         NEW d \in Conns, conn[d].there
  PROVE  conn'[d].there
<1> USE DEF ServerInv
<1>0. conn \in [Conns -> ServerEnds]
  BY DEF TypeOK
<1>1. CASE \/ Clients \/ LeaveLoop \/ Stop \/ LastPoll \/ Ended
  <2>1. conn' = conn
    BY ZenonT(40), <1>1 DEF Clients, Connect, Ask, SendBody, Leave, LeaveLoop, Stop,
                LastPoll, Ended, vars
  <2> QED BY SMTT(30), <2>1
<1>2. CASE Select
  BY <1>0, <1>2, AgeIs DEF Select
<1>3. CASE CallRequestHandler
  <2>0. Old \in Nat
    BY ServerAssumption DEF Old
  <2>1. PICK o \in {conn, Age(Old)} :
          conn' = [o EXCEPT ![cur] = CloseLocalEndpoint(client[cur].keep,
                                        [o[cur] EXCEPT !.out = @ + AnswerSize])]
    BY <1>3 DEF CallRequestHandler
  <2>2. o \in [Conns -> ServerEnds] /\ o[d].there
    BY <1>0, <2>0, AgeIs
  <2>3. CloseLocalEndpoint(client[cur].keep, [o[cur] EXCEPT !.out = @ + AnswerSize]).there
    <3> DEFINE b == [o[cur] EXCEPT !.out = @ + AnswerSize]
               f == IF client[cur].keep THEN {} ELSE IF b.out = 0 THEN {"close_immediately"}
                                                ELSE {"finished_sending"}
    <3>1. CloseLocalEndpoint(client[cur].keep, b)
            = [NewConn EXCEPT !.out = b.out, !.idle = b.idle, !.flags = f]
      BY Zenon DEF CloseLocalEndpoint
    <3> HIDE DEF b, f
    <3>2. [NewConn EXCEPT !.out = b.out, !.idle = b.idle, !.flags = f].there = NewConn.there
      BY Ends DEF ServerEnds
    <3>3. CloseLocalEndpoint(client[cur].keep, b).there
      BY <3>1, <3>2, Ends
    <3> QED BY <3>3 DEF b
  <2> QED BY <2>1, <2>2, <2>3
<1>4. ASSUME NEW c \in Conns, AcceptConn(c) PROVE conn'[d].there
  BY <1>0, <1>4, Ends DEF AcceptConn
<1>5. ASSUME NEW c \in Conns, StopReading(c) PROVE conn'[d].there
  BY <1>0, <1>5 DEF StopReading, ServerEnds
<1>6. ASSUME NEW c \in Conns, NEW n \in Nat, ReadFromSocket(c, n) PROVE conn'[d].there
  BY <1>0, <1>6 DEF ReadFromSocket, ServerEnds
<1>7. ASSUME NEW c \in Conns, NEW n \in Nat, WriteToSocket(c, n) PROVE conn'[d].there
  BY <1>0, <1>7 DEF WriteToSocket, ServerEnds
<1>8. \A c \in Conns : 1 .. MaxBody[c] + 1 \subseteq Nat /\ 1 .. AnswerSize \subseteq Nat
  BY ServerAssumption
<1> QED BY <1>1, <1>2, <1>3, <1>4, <1>5, <1>6, <1>7, <1>8 DEF Next, PollThread, Main

\* No connection is closed with an answer in its buffer, however little its socket
\* takes at a time, unless the client left or read nothing for longer than the idle
\* limit, the server stops, or a handler held the thread up (ns_mgr_poll's order of
\* reading, writing, sweeping and expiring, and its last_io_time).
THEOREM ServerAnswersAreSent == Spec => AnswersAreSent
<1> DEFINE A == \A c \in Conns : conn[c].there /\ ~conn'[c].there =>
                  conn[c].out = 0 \/ ~Up(c) \/ Stalled(c) \/ main' = "ended" \/ Slow
<1>1. ServerInv /\ [Next]_vars => [A]_vars
  <2> SUFFICES ASSUME ServerInv, Next, NEW c \in Conns, conn[c].there, ~conn'[c].there
               PROVE  conn[c].out = 0 \/ ~Up(c) \/ Stalled(c) \/ main' = "ended" \/ Slow
    OBVIOUS
  <2> USE DEF ServerInv
  <2>1. CASE Notify
    <3>1. c \in Expired
      BY <2>1 DEF Notify, Close
    <3>2. conn[c].idle > MaxIdle \/ "close_immediately" \in conn[c].flags
      BY <3>1 DEF Expired
    <3>3. pc # "handler" /\ (conn[c].out > 0 \/ conn[c].out = 0)
      BY <2>1 DEF Notify, Pass, TypeOK, ServerEnds
    <3>4. /\ conn[c].idle \in Nat /\ stalled[c] \in Nat /\ MaxIdle \in Nat
          /\ conn[c].idle <= stalled[c] /\ conn[c].idle > MaxIdle => stalled[c] > MaxIdle
      BY ServerAssumption DEF TypeOK, ServerEnds, Tick
    <3> QED BY <3>2, <3>3, <3>4 DEF Young, Stalled, Slow
  <2>2. CASE Sweep
    <3>1. c \in Finished
      BY <2>2 DEF Sweep, Close
    <3> QED BY <3>1 DEF Finished, Young
  <2>3. CASE DestroyServer \/ DestroyUnderThread
    BY <2>3 DEF DestroyServer, DestroyUnderThread
  <2> QED BY <2>1, <2>2, <2>3, OthersKeep
<1> QED BY <1>1, InitInv, NextInv, PTL DEF Spec, AnswersAreSent

===============================================================================
