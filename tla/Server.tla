-------------------------------- MODULE Server --------------------------------
(***************************************************************************)
(* How a request gets to its handler and its answer back: the poll thread  *)
(* of WEBServer inside mongoose, the connections, the clients at their     *)
(* other ends, and main, which stops it all on a signal.                   *)
(*                                                                         *)
(* One pass of ns_mgr_poll tells every connection the time and closes the  *)
(* idle ones (Notify), waits in select, serves the connections that select *)
(* found ready, in any order, and sweeps those to be closed.  Clients keep *)
(* writing, reading and leaving meanwhile, or they stop reading: then their *)
(* socket is full and select does not report it.                           *)
(*                                                                         *)
(* A request is its head and `body' more pieces, which the network hands   *)
(* to recv in chunks of any length; an answer is AnswerSize pieces, which  *)
(* send takes in any portions.  Clients do not pipeline: the next request  *)
(* on a connection comes after the answer to the last one.  So pieces are  *)
(* counted, not named, and `request' is the number of the current one.     *)
(* What the handlers do is Catalog's; here they only take their time.      *)
(***************************************************************************)
EXTENDS Naturals, FiniteSets

CONSTANTS
  Conns,        \* connections clients may open
  MaxRequests,  \* bound: connection -> requests on it
  MaxBody,      \* bound: connection -> pieces of a body
  Keeps,        \* bound: connection -> what its requests may say about keeping it
  AnswerSize,   \* pieces of an answer
  MaxIdle       \* MONGOOSE_IDLE_TIMEOUT_SECONDS, in ticks of the clock

ASSUME ServerAssumption ==
  /\ MaxRequests \in [Conns -> Nat] /\ MaxBody \in [Conns -> Nat]
  /\ Keeps \in [Conns -> SUBSET BOOLEAN]
  /\ AnswerSize \in Nat \ {0} /\ MaxIdle \in Nat \ {0}

VARIABLES
  client,   \* connection -> the client's end
  wire,     \* connection -> pieces sent to the server and not read yet
  conn,     \* connection -> the server's end, with its two buffers
  pc,       \* where the poll thread is
  read,     \* the sockets select found readable, still to be read
  write,    \* those it found writable, still to be written
  accepts,  \* whether the listening socket was readable
  cur,      \* the connection whose handler is running, if pc = "handler"
  spent,    \* how long ago that pass of select returned
  main,     \* where the main thread is
  handled,  \* history: connection -> the bodies its handlers were given
  stalled   \* history: connection -> ticks for which a part of its answer was
            \* offered to its socket, which has taken none of it since

vars == <<client, wire, conn, pc, read, write, accepts, cur, spent, main,
          handled, stalled>>

thread   == <<pc, read, write, accepts, cur, spent>>
history  == <<handled, stalled>>

NoConn   == "none"
Tick     == 0 .. MaxIdle + 1
Old      == MaxIdle + 1

\* The fields of the two ends; an end that is not there has them too.
ClientEnds == [at : {"out", "queued", "left", "open", "closed", "gone"}, request : Nat,
               body : Nat, keep : BOOLEAN, written : Nat, got : Nat]
ServerEnds == [there : BOOLEAN, bytes : Nat, content : Nat, out : Nat,
           flags : SUBSET {"close_immediately", "finished_sending"}, idle : Tick]

NewConn == [there |-> TRUE, bytes |-> 0, content |-> 0, out |-> 0, flags |-> {}, idle |-> 0]
Absent  == [NewConn EXCEPT !.there = FALSE]

\* "left" is gone, too, with its connection still in the queue of the listening
\* socket.
Up(c)    == client[c].at \in {"queued", "open"}
Queued   == {c \in Conns : client[c].at \in {"queued", "left"}}
Away(c)  == client[c].at \in {"left", "gone"}
Listed   == {c \in Conns : conn[c].there}
Running  == main = "up"

Init ==
  /\ client = [c \in Conns |-> [at |-> "out", request |-> 0, body |-> 0, keep |-> TRUE,
                                written |-> 0, got |-> 0]]
  /\ wire = [c \in Conns |-> 0] /\ conn = [c \in Conns |-> Absent]
  /\ pc = "loop" /\ read = {} /\ write = {} /\ accepts = FALSE /\ cur = NoConn /\ spent = 0
  /\ main = "up"
  /\ handled = [c \in Conns |-> [count |-> 0, whole |-> TRUE]]
  /\ stalled = [c \in Conns |-> 0]

----------------------------------------------------------------------------
(* Clients.                                                                *)

Connect(c) ==
  /\ client[c].at = "out" /\ main # "ended"
  /\ client' = [client EXCEPT ![c].at = "queued"]
  /\ UNCHANGED <<wire, conn, thread, main, history>>

\* The head of the next request, once the last answer is there.
Ask(c, b, k) ==
  /\ Up(c) /\ client[c].request < MaxRequests[c]
  /\ client[c].got = client[c].request * AnswerSize
  /\ client[c].keep \/ client[c].request = 0
  /\ client' = [client EXCEPT ![c].request = @ + 1, ![c].body = b, ![c].keep = k,
                              ![c].written = 1]
  /\ wire' = [wire EXCEPT ![c] = @ + 1]
  /\ UNCHANGED <<conn, thread, main, history>>

SendBody(c) ==
  /\ Up(c) /\ 0 < client[c].written /\ client[c].written < client[c].body + 1
  /\ client' = [client EXCEPT ![c].written = @ + 1]
  /\ wire' = [wire EXCEPT ![c] = @ + 1]
  /\ UNCHANGED <<conn, thread, main, history>>

\* A client that leaves closes its socket; what it wrote may or may not arrive.
Leave(c) ==
  /\ Up(c)
  /\ client' = [client EXCEPT ![c].at = IF @ = "queued" THEN "left" ELSE "gone"]
  /\ wire' \in {wire, [wire EXCEPT ![c] = 0]}
  /\ UNCHANGED <<conn, thread, main, history>>

----------------------------------------------------------------------------
(* mongoose.                                                               *)

\* The end of the request: its data is dropped, its counters are reset; the
\* connection is kept for the next one, or closed when the answer is out.  (The
\* variants keep the count of bytes, and close without waiting.)
EndKeepingBytes(k, o) == [NewConn EXCEPT !.bytes = 1, !.out = o.out, !.idle = o.idle,
  !.flags = IF k THEN {} ELSE {"finished_sending"}]
EndAtOnce(k, o) == [NewConn EXCEPT !.out = o.out, !.idle = o.idle,
  !.flags = IF k THEN {} ELSE {"close_immediately"}]
CloseLocalEndpoint(k, o) == [NewConn EXCEPT !.out = o.out, !.idle = o.idle,
  !.flags = IF k THEN {} ELSE IF o.out = 0 THEN {"close_immediately"}
                                           ELSE {"finished_sending"}]

\* Closing the connections C: the clients see the end of the stream.
Close(C, rest) ==
  /\ conn' = [c \in Conns |-> IF c \in C THEN Absent ELSE rest[c]]
  /\ client' = [c \in Conns |-> IF c \in C /\ Up(c) THEN [client[c] EXCEPT !.at = "closed"]
                                ELSE client[c]]
  /\ wire' = [c \in Conns |-> IF c \in C THEN 0 ELSE wire[c]]

\* The poll thread starts a pass while the server runs; main makes one more
\* before it frees the server.  (NotifyNobody is the variant without expiry.)
Pass == \/ pc = "loop" /\ Running
        \/ pc = "left" /\ main = "last"

Expired == {c \in Listed : conn[c].idle > MaxIdle \/ "close_immediately" \in conn[c].flags}

NotifyNobody ==
  /\ Pass /\ pc' = "select" /\ spent' = 0
  /\ Close({c \in Listed : "close_immediately" \in conn[c].flags}, conn)
  /\ UNCHANGED <<read, write, accepts, cur, main, history>>

Notify ==
  /\ Pass /\ pc' = "select" /\ spent' = 0
  /\ Close(Expired, conn)
  /\ UNCHANGED <<read, write, accepts, cur, main, history>>

\* Sockets with data, or an end of stream, to read; those with data to send, which
\* select is asked about.  (WritableIfKept is the variant that forgets those to be
\* closed afterwards.)
Readable == {c \in Listed : wire[c] > 0 \/ ~Up(c)}
WritableIfKept == {c \in Listed : conn[c].out > 0 /\ "finished_sending" \notin conn[c].flags}
Writable == {c \in Listed : conn[c].out > 0}

\* All connections grow older by n; none beyond Old.  (AgeAndPass does not stop
\* there.)
AgeAndPass(n) == [c \in Conns |-> [conn[c] EXCEPT !.idle = @ + n]]
Age(n) == [c \in Conns |-> [conn[c] EXCEPT
             !.idle = IF ~conn[c].there THEN @ ELSE IF @ + n > Old THEN Old ELSE @ + n]]

\* select reports what can be read and, of what there is to send, what the sockets
\* have room for: any part of it.  It returns when there is some of either, and
\* otherwise after a tick.
Select ==
  /\ pc = "select" /\ pc' = "serve"
  /\ read' = Readable /\ write' \in SUBSET Writable
  /\ accepts' = (Queued # {})
  /\ \/ /\ accepts' \/ read' # {} \/ write' # {}
        /\ UNCHANGED <<conn, stalled>>
     \/ /\ conn' = Age(1)
        /\ stalled' = [c \in Conns |-> IF c \in Writable /\ stalled[c] < Old
                                       THEN stalled[c] + 1 ELSE stalled[c]]
  /\ UNCHANGED <<client, wire, cur, spent, main, handled>>

\* accept, once per pass, also of a client that left meanwhile.  The listening
\* socket was added first, and is the last in the list.
AcceptConn(c) ==
  /\ pc = "serve" /\ accepts /\ read = {} /\ write = {} /\ c \in Queued
  /\ client' = [client EXCEPT ![c].at = IF Up(c) THEN "open" ELSE "gone"]
  /\ conn' = [conn EXCEPT ![c] = NewConn]
  /\ accepts' = FALSE
  /\ UNCHANGED <<wire, pc, read, write, cur, spent, main, history>>

\* recv takes n pieces; the first of a request is its head and is parsed, the
\* rest is content; the handler is called when all of them are there.
\* last_io_time is the time when select returned.
ReadFromSocket(c, n) ==
  /\ pc = "serve" /\ c \in read /\ n \in 1 .. wire[c]
  /\ wire' = [wire EXCEPT ![c] = @ - n]
  /\ conn' = [conn EXCEPT ![c].bytes = @ + n, ![c].idle = spent,
                          ![c].content = @ + IF conn[c].bytes = 0 THEN n - 1 ELSE n]
  /\ IF conn[c].bytes + n >= client[c].body + 1
     THEN pc' = "handler" /\ cur' = c
     ELSE UNCHANGED <<pc, cur>>
  /\ UNCHANGED <<client, read, write, accepts, spent, main, history>>

\* The handler returns: its answer is in the buffer.  It may have taken longer
\* than an idle connection may live.
CallRequestHandler ==
  /\ pc = "handler" /\ pc' = "serve" /\ cur' = NoConn
  /\ handled' = [handled EXCEPT ![cur].count = @ + 1,
                                ![cur].whole = @ /\ conn[cur].content = client[cur].body]
  /\ LET answered(o) == [o EXCEPT ![cur] =
           CloseLocalEndpoint(client[cur].keep, [o[cur] EXCEPT !.out = @ + AnswerSize])]
     IN  \/ conn' = answered(conn) /\ UNCHANGED spent
         \/ conn' = answered(Age(Old)) /\ spent' = Old
  /\ stalled' = [stalled EXCEPT ![cur] = 0]
  /\ UNCHANGED <<client, wire, read, write, accepts, main>>

\* Nothing more to read for now, or for ever.
StopReading(c) ==
  /\ pc = "serve" /\ c \in read /\ wire[c] = 0
  /\ read' = read \ {c}
  /\ conn' = IF Up(c) THEN conn ELSE
       [conn EXCEPT ![c].flags = @ \cup {"close_immediately"}, ![c].idle = spent]
  /\ UNCHANGED <<client, wire, pc, write, accepts, cur, spent, main, history>>

\* send takes n pieces, as many as there is room for, or fails because the client is
\* gone.
WriteToSocket(c, n) ==
  /\ pc = "serve" /\ c \in write \ read /\ n \in 1 .. conn[c].out
  /\ write' = write \ {c}
  /\ conn' = [conn EXCEPT ![c].idle = spent,
                ![c].out = IF Up(c) THEN @ - n ELSE @,
                ![c].flags = IF Up(c) THEN @ ELSE @ \cup {"close_immediately"}]
  /\ client' = [client EXCEPT ![c].got = IF Up(c) THEN @ + n ELSE @]
  /\ stalled' = [stalled EXCEPT ![c] = 0]
  /\ UNCHANGED <<wire, pc, read, accepts, cur, spent, main, handled>>

Finished == {c \in Listed : \/ "close_immediately" \in conn[c].flags
                            \/ "finished_sending" \in conn[c].flags /\ conn[c].out = 0}
Sweep ==
  /\ pc = "serve" /\ read = {} /\ write = {} /\ ~accepts
  /\ pc' = IF main = "last" THEN "done" ELSE "loop"
  /\ Close(Finished, conn)
  /\ UNCHANGED <<read, write, accepts, cur, spent, main, history>>

\* The thread sees that running is 0.
LeaveLoop ==
  /\ pc = "loop" /\ ~Running /\ main # "ended" /\ pc' = "left"
  /\ UNCHANGED <<client, wire, conn, read, write, accepts, cur, spent, main, history>>

----------------------------------------------------------------------------
(* main: sleeps until a signal, clears `running' and destroys the server   *)
(* without waiting for the thread.                                         *)

Stop ==
  /\ main = "up" /\ main' = "stopping"
  /\ UNCHANGED <<client, wire, conn, thread, history>>

\* The thread is out of the way: one last pass, then every connection is closed.
LastPoll ==
  /\ main = "stopping" /\ pc = "left" /\ main' = "last"
  /\ UNCHANGED <<client, wire, conn, thread, history>>

DestroyServer ==
  /\ main = "last" /\ pc = "done" /\ main' = "ended" /\ pc' = "left"
  /\ Close(Listed \cup {c \in Conns : Up(c)}, conn)
  /\ UNCHANGED <<read, write, accepts, cur, spent, history>>

\* The thread is still inside: two threads in one list of connections, which one
\* of them frees.  Nothing is known of the process from here on but that its
\* connections are lost when it ends.
DestroyUnderThread ==
  /\ main = "stopping" /\ pc \notin {"left", "done"} /\ main' = "ended" /\ pc' = "left"
  /\ Close(Listed \cup {c \in Conns : Up(c)}, conn)
  /\ UNCHANGED <<read, write, accepts, cur, spent, history>>

Ended == main = "ended" /\ UNCHANGED vars

----------------------------------------------------------------------------
Clients == \E c \in Conns : \/ Connect(c) \/ SendBody(c) \/ Leave(c)
                            \/ \E b \in 0 .. MaxBody[c], k \in Keeps[c] : Ask(c, b, k)

PollThread ==
  \/ Notify \/ Select \/ CallRequestHandler \/ Sweep \/ LeaveLoop
  \/ \E c \in Conns : \/ AcceptConn(c) \/ StopReading(c)
                      \/ \E n \in 1 .. MaxBody[c] + 1 : ReadFromSocket(c, n)
                      \/ \E n \in 1 .. AnswerSize : WriteToSocket(c, n)

Main == LastPoll \/ DestroyServer \/ DestroyUnderThread

Next == Clients \/ PollThread \/ Stop \/ Main \/ Ended

\* The operating system runs both threads; it owes nothing to clients and signals.
Fairness == WF_vars(PollThread) /\ WF_vars(Main)

Spec == Init /\ [][Next]_vars /\ Fairness

----------------------------------------------------------------------------
(* Properties.                                                             *)

TypeOK ==
  /\ client \in [Conns -> ClientEnds] /\ wire \in [Conns -> Nat] /\ conn \in [Conns -> ServerEnds]
  /\ pc \in {"loop", "select", "serve", "handler", "left", "done"}
  /\ read \subseteq Conns /\ write \subseteq Conns /\ accepts \in BOOLEAN
  /\ cur \in Conns \cup {NoConn} /\ (pc = "handler" => cur \in Conns)
  /\ spent \in {0, Old} /\ main \in {"up", "stopping", "last", "ended"}
  /\ handled \in [Conns -> [count : Nat, whole : BOOLEAN]]
  /\ stalled \in [Conns -> Tick]

\* Every handler is given the whole body of the request it answers, however the
\* network cut it up and whatever came before on the connection; no request is
\* handled twice, and no client gets more than the answers to what was handled.
HandledWhole ==
  \A c \in Conns :
    /\ handled[c].whole
    /\ handled[c].count <= client[c].request
    /\ client[c].got + conn[c].out <= AnswerSize * handled[c].count

\* The server closes no connection with an answer in its buffer, however little its
\* socket takes at a time, unless the client left, or read nothing for longer than the
\* idle limit, the server stops, or a handler held up the last pass for so long that
\* everything read in it looks idle.
Stalled(c) == stalled[c] > MaxIdle
Slow       == spent = Old
AnswersAreSent ==
  [][\A c \in Conns : conn[c].there /\ ~conn'[c].there =>
       conn[c].out = 0 \/ ~Up(c) \/ Stalled(c) \/ main' = "ended" \/ Slow]_vars

\* A request sent completely is answered, or, failing that, it was not carried
\* out: the client may safely ask again.  Excepted are clients that leave or read
\* nothing for longer than the idle limit, whose requests may be carried out and the
\* answers dropped, a server that stops and handlers that take too long.
Sent(c)     == Up(c) /\ 0 < client[c].request /\ client[c].written = client[c].body + 1
Answered(c) == client[c].got = AnswerSize * client[c].request
Refused(c)  == client[c].at = "closed" /\ handled[c].count < client[c].request
AnsweredOrRefused ==
  \A c \in Conns : Sent(c) ~> \/ Answered(c) \/ Refused(c) \/ Away(c) \/ Stalled(c)
                              \/ main = "ended" \/ Slow

\* Idle connections do not pile up: clients that fall silent, without closing or
\* halfway through a request, do not keep their connection for ever.
SilentAreDropped == \A c \in Conns : <>[](~conn[c].there)

=============================================================================
