----------------------------- MODULE AccountBook -----------------------------
(***************************************************************************)
(* What the accounts of the server promise: a book of addresses.  An       *)
(* address is opened for an id that was never given before, an account may *)
(* move to a free address, an address may be closed.                       *)
(***************************************************************************)
EXTENDS Naturals

CONSTANTS Emails, Ids

VARIABLES
  book,  \* e-mail -> account id
  last   \* every id given or wasted so far is at most this

Init == book = [e \in {} |-> 0] /\ last = 0

Open(e, i) ==
  /\ e \notin DOMAIN book /\ i \in Nat /\ i > last
  /\ book' = [x \in DOMAIN book \cup {e} |-> IF x = e THEN i ELSE book[x]]
  /\ last' = i

\* An id is wasted.
Waste(i) == i \in Nat /\ i > last /\ last' = i /\ UNCHANGED book

Move(e, f) ==
  /\ e \in DOMAIN book /\ f \notin DOMAIN book
  /\ book' = [x \in (DOMAIN book \ {e}) \cup {f} |-> IF x = f THEN book[e] ELSE book[x]]
  /\ UNCHANGED last

Close(e) ==
  /\ e \in DOMAIN book
  /\ book' = [x \in DOMAIN book \ {e} |-> book[x]]
  /\ UNCHANGED last

Next ==
  \/ \E e \in Emails : Close(e) \/ \E f \in Emails : Move(e, f)
  \/ \E i \in Ids : Waste(i) \/ \E e \in Emails : Open(e, i)

Spec == Init /\ [][Next]_<<book, last>>

\* Two addresses never open the same account.
OneAddress ==
  /\ last \in Nat
  /\ \A e \in DOMAIN book : book[e] \in Nat /\ book[e] <= last
  /\ \A e, f \in DOMAIN book : book[e] = book[f] => e = f

=============================================================================
