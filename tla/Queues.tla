------------------------------- MODULE Queues -------------------------------
(***************************************************************************)
(* The queues of lib/xwmsrv.b.  Iqueue and Squeue are one data structure at *)
(* two types: h is read from the front, t is the reversed back.  Ptrqueue   *)
(* adds last, a reference to the newest event, whose contents put replaces  *)
(* when the button state has not changed.                                   *)
(***************************************************************************)
EXTENDS Naturals, Sequences

\* The list built by consing the elements of s one by one.
Rev(s) == [i \in 1..Len(s) |-> s[Len(s) + 1 - i]]

EmptyQueue == [h |-> <<>>, t |-> <<>>]

\* What the queue holds, oldest first.
Contents(q) == q.h \o Rev(q.t)

nonempty(q) == q.h # <<>> \/ q.t # <<>>

\* Iqueue.put, Squeue.put
put(q, s) == [h |-> q.h, t |-> <<s>> \o q.t]

\* The first half of get: an empty h is refilled from t.
Turn(q) == IF q.h = <<>> THEN [h |-> Rev(q.t), t |-> <<>>] ELSE q

\* Mutant of get: t is moved over without being reversed.
get_unreversed(q) ==
    IF q.h = <<>> THEN [h |-> Tail(q.t), t |-> <<>>]
    ELSE [h |-> Tail(q.h), t |-> q.t]

\* Iqueue.get, Squeue.get on a nonempty queue: the queue left behind.
get(q) == [h |-> Tail(Turn(q).h), t |-> Turn(q).t]

\* Iqueue.peek: get and push back; the value is Front.
peek(q) == Turn(q)
Front(q) == Head(Turn(q).h)

----------------------------------------------------------------------------
(* Ptrqueue.  An event is an object: id tells objects apart, buttons and at *)
(* (when it happened) are its contents.                                     *)

NoPtr == [id |-> 0, buttons |-> 0, at |-> 0]
EmptyPtrqueue == [h |-> <<>>, t |-> <<>>, last |-> NoPtr]

\* *q.last = *s, seen by every reference to the object.
Overwrite(seq, id, s) ==
    [i \in 1..Len(seq) |->
        IF seq[i].id = id THEN [seq[i] EXCEPT !.at = s.at] ELSE seq[i]]

\* Mutant of ptrput: events are merged whatever their buttons.
ptrput_merge_all(q, s) ==
    IF q.last # NoPtr
    THEN [h |-> Overwrite(q.h, q.last.id, s), t |-> Overwrite(q.t, q.last.id, s),
          last |-> [q.last EXCEPT !.at = s.at]]
    ELSE [h |-> q.h, t |-> <<s>> \o q.t, last |-> s]

\* Mutant of ptrput: the older of two merged events is kept.
ptrput_keep_old(q, s) ==
    IF q.last # NoPtr /\ s.buttons = q.last.buttons THEN q
    ELSE [h |-> q.h, t |-> <<s>> \o q.t, last |-> s]

\* Ptrqueue.put
ptrput(q, s) ==
    IF q.last # NoPtr /\ s.buttons = q.last.buttons
    THEN [h |-> Overwrite(q.h, q.last.id, s), t |-> Overwrite(q.t, q.last.id, s),
          last |-> [q.last EXCEPT !.at = s.at]]
    ELSE [h |-> q.h, t |-> <<s>> \o q.t, last |-> s]

\* Ptrqueue.get on a nonempty queue: last is forgotten when h runs empty.
ptrget(q) ==
    LET u == Turn([h |-> q.h, t |-> q.t]) IN
    [h |-> Tail(u.h), t |-> u.t, last |-> IF Len(u.h) = 1 THEN NoPtr ELSE q.last]

\* Ptrqueue.peek: last is kept.
ptrpeek(q) ==
    LET u == Turn([h |-> q.h, t |-> q.t]) IN [h |-> u.h, t |-> u.t, last |-> q.last]

\* Ptrqueue.flush: last is kept too.
flush(q) == [q EXCEPT !.h = <<>>, !.t = <<>>]
=============================================================================
