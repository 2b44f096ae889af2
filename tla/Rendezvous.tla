----------------------------- MODULE Rendezvous -----------------------------
(***************************************************************************)
(* What Limbo promises about channels (doc/limbo/limbo.ms on alt, and       *)
(* doc/dis.ms on send, recv and alt), without run queues, marks or kills:   *)
(*                                                                          *)
(*   a process waits only if nothing it offers can be done at once;         *)
(*   of several processes that wait for the same side of a channel the one  *)
(*   that began to wait first is served;                                    *)
(*   every value whose send is complete is received once, in order.         *)
(*                                                                          *)
(* A value that has been sent and not received is in the channel's buffer.  *)
(***************************************************************************)
EXTENDS Naturals, Sequences

CONSTANTS
    Progs,    \* processes
    Chans,    \* channels
    Vals,     \* values
    Nil,      \* no value
    Room      \* slots a channel gets when the system makes it buffered

VARIABLES
    want,     \* the sends and receives a process waits for; both empty if none
    ahead,    \* the waiting processes that began to wait before this one
    ptr,      \* the value a waiting process offers
    cap,      \* slots of the buffer, 0 for a synchronous channel
    sent,     \* values whose send is complete, per channel
    rcvd      \* values received, per channel

vars == <<want, ahead, ptr, cap, sent, rcvd>>

Nothing == [s |-> {}, r |-> {}]
Offers  == [s : SUBSET Chans, r : SUBSET Chans]

Init ==
    /\ want = [p \in Progs |-> Nothing]
    /\ ahead = [p \in Progs |-> {}]
    /\ ptr = [p \in Progs |-> Nil]
    /\ cap \in [Chans -> Nat]
    /\ sent = [c \in Chans |-> <<>>]
    /\ rcvd = [c \in Chans |-> <<>>]

Waiting == {p \in Progs : want[p] # Nothing}
Senders(c) == {p \in Progs : c \in want[p].s}
Receivers(c) == {p \in Progs : c \in want[p].r}

\* The one of S that has waited longest.
Longest(q, S) == q \in S /\ ahead[q] \cap S = {}

InBuffer(c) == Len(sent[c]) - Len(rcvd[c])

\* Somebody receives on c, or there is room; somebody sends, or there is a value.
CanSend(c) == Receivers(c) # {} \/ InBuffer(c) < cap[c]
CanRecv(c) == Senders(c) # {} \/ InBuffer(c) > 0

\* q waits no longer.
Served(q) ==
    /\ want' = [want EXCEPT ![q] = Nothing]
    /\ ahead' = [p \in Progs |-> IF p = q THEN {} ELSE ahead[p] \ {q}]
    /\ ptr' = [ptr EXCEPT ![q] = Nil]

Complete(c, v) == sent' = [sent EXCEPT ![c] = Append(@, v)]

\* The oldest value of c that has not been received is received; v is the one
\* a send adds in the same step.
Take(c, s) == rcvd' = [rcvd EXCEPT ![c] = Append(@, s[Len(@) + 1])]

\* p offers w, of which nothing can be done, and waits.
Wait(p, w) ==
    /\ want'[p] = w
    /\ want[p] = Nothing
    /\ w # Nothing
    /\ \A c \in w.s : ~CanSend(c)
    /\ \A c \in w.r : ~CanRecv(c)
    /\ want' = [want EXCEPT ![p] = w]
    /\ ahead' = [ahead EXCEPT ![p] = Waiting]
    /\ \E v \in Vals \cup {Nil} :
         /\ w.s # {} => v # Nil
         /\ ptr' = [ptr EXCEPT ![p] = v]
    /\ UNCHANGED <<cap, sent, rcvd>>

\* A process that does not wait sends v to the receiver that has waited
\* longest, or into the buffer.
Send(c, v) ==
    /\ Complete(c, v)
    /\ Waiting # Progs
    /\ \/ \E q \in Receivers(c) :
            /\ Longest(q, Receivers(c))
            /\ Served(q)
            /\ Take(c, Append(sent[c], v))
       \/ /\ Receivers(c) = {}
          /\ InBuffer(c) < cap[c]
          /\ UNCHANGED <<want, ahead, ptr, rcvd>>
    /\ UNCHANGED cap

\* A process that does not wait receives the oldest value; the send of the
\* sender that has waited longest is then complete.
Recv(c) ==
    /\ Waiting # Progs
    /\ \/ \E q \in Senders(c) :
            /\ Longest(q, Senders(c))
            /\ Complete(c, ptr[q])
            /\ Served(q)
            /\ Take(c, Append(sent[c], ptr[q]))
       \/ /\ Senders(c) = {}
          /\ InBuffer(c) > 0
          /\ Take(c, sent[c])
          /\ UNCHANGED <<want, ahead, ptr, sent>>
    /\ UNCHANGED cap

\* A process that waits is killed.
Withdraw(q) ==
    /\ want[q] # Nothing
    /\ Served(q)
    /\ UNCHANGED <<cap, sent, rcvd>>

\* The system sends on a synchronous channel nobody receives on: the channel
\* becomes a buffered one.
Grow(c, v) ==
    /\ cap[c] = 0
    /\ cap' = [cap EXCEPT ![c] = Room]
    /\ Receivers(c) = {}
    /\ Complete(c, v)
    /\ UNCHANGED <<want, ahead, ptr, rcvd>>

Next ==
    \/ \E p \in Progs : \E w \in Offers : Wait(p, w)
    \/ \E c \in Chans : Recv(c) \/ \E v \in Vals : Send(c, v) \/ Grow(c, v)
    \/ \E q \in Progs : Withdraw(q)

Spec == Init /\ [][Next]_vars

=============================================================================
