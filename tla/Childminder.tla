---------------------------- MODULE Childminder -----------------------------
(***************************************************************************)
(* lib/xwmsrv.b, childminder: the process that stands between the window    *)
(* manager and one client and buffers everything in between, together with  *)
(* the two sides that use it:                                               *)
(*                                                                          *)
(*   the manager's main loop, which sends keys, pointer events and control  *)
(*   messages and serves the client's requests (rowwm.b: "!reshape",        *)
(*   "!move", "!size", "delete", "ptr", pack_windows; xwmsrv.b:             *)
(*   Client.setimage, Client.setorigin);                                    *)
(*   the client's main loop (repl/dis/lib/tkclient.b): it takes one thing   *)
(*   at a time, and after a request that was accepted it waits in           *)
(*   recvimage for its image, or for nil and then its image.                *)
(*                                                                          *)
(* The client has one window with a tag.  Creating an image for it may fail  *)
(* anywhere: "!reshape" reports that, "!move", "!size" and pack_windows do   *)
(* not, and setorigin of a window without an image sends nothing.            *)
(*                                                                          *)
(* Keys and control messages are numbered as they are sent.                 *)
(***************************************************************************)
EXTENDS Queues, Integers, FiniteSets

CONSTANTS
    Buttons,       \* button states
    MaxKeys, MaxCtls, MaxPtrs  \* bounds: messages the manager sends

ASSUME ConstantsAssumption ==
    /\ Buttons \subseteq Nat
    /\ MaxKeys \in Nat /\ MaxCtls \in Nat /\ MaxPtrs \in Nat

VARIABLES
    polite,                  \* the client plays by the rules; it never changes
    moves,                   \* the client makes "ptr" requests; it never changes
    phase,                   \* of childminder: "reply", "run" or "exited"
    kbdq, ptrq, ctlq,
    imgstate,                \* "none", "send" or "origin"
    window,                  \* the client's window: "none", "nil" (no image) or "image"
    wm,                      \* manager: what it is doing, see Doing
    client,                  \* "connect", "idle", "request", "image1", "image2", "gone"
    sent, got,               \* numbers of keys, ctls and pointer events so far
    sentbuttons, gotbuttons, \* history: the button states sent and received
    unsent                   \* history: a polite client's last request was accepted
                             \* although it has no image to send

rules   == <<polite, moves>>
images  == <<window, unsent>>
history == <<sentbuttons, gotbuttons>>
vars == <<rules, phase, kbdq, ptrq, ctlq, imgstate, wm, client, sent, got, history, images>>

\* The manager waits for a message ("idle"); has flushed the pointer queue
\* ("ptr"); has dragged the window ("moved"); offers an image, with the result
\* reported to the client or not ("setimage", "ignored"), or a new origin
\* ("setorigin"); packs all windows ("pack", "rect") before it answers the
\* client ("answer": the message after "pack"); or has died of an exception.
Doing == {"idle", "ptr", "moved", "setimage", "ignored", "setorigin",
          "pack", "answer", "rect", "broken"}

Init ==
    /\ polite \in BOOLEAN /\ moves \in BOOLEAN
    /\ phase = "reply"
    /\ kbdq = EmptyQueue /\ ctlq = EmptyQueue /\ ptrq = EmptyPtrqueue
    /\ imgstate = "none"
    /\ window = "none" /\ unsent = FALSE
    /\ wm = "idle"
    /\ client = "connect"
    /\ sent = [kbd |-> 0, ctl |-> 0, ptr |-> 0]
    /\ got = [kbd |-> 0, ctl |-> 0, ptr |-> 0]
    /\ sentbuttons = <<>> /\ gotbuttons = <<>>

\* The queues after the head of the loop, which peeks into each of them.
Kbdq == IF phase = "run" THEN peek(kbdq) ELSE kbdq
Ctlq == IF phase = "run" THEN peek(ctlq) ELSE ctlq
Ptrq == IF phase = "run" THEN ptrpeek(ptrq) ELSE ptrq

----------------------------------------------------------------------------
(* The reply to the client *)

Reply ==
    /\ phase = "reply"
    /\ client = "connect"
    /\ phase' = "run"
    /\ client' = "idle"
    /\ UNCHANGED <<rules, kbdq, ptrq, ctlq, imgstate, wm, sent, got, history, images>>

----------------------------------------------------------------------------
(* Messages from the manager *)

\* c.kbd <-= key
WmKbd ==
    /\ wm = "idle" /\ phase # "exited" /\ sent.kbd < MaxKeys
    /\ sent' = [sent EXCEPT !.kbd = @ + 1]
    /\ kbdq' = put(Kbdq, sent.kbd + 1)
    /\ ctlq' = Ctlq /\ ptrq' = Ptrq
    /\ UNCHANGED <<rules, phase, imgstate, wm, client, got, history, images>>

\* c.ctl <-= msg
SendCtl ==
    /\ sent' = [sent EXCEPT !.ctl = @ + 1]
    /\ ctlq' = put(Ctlq, sent.ctl + 1)
    /\ kbdq' = Kbdq /\ ptrq' = Ptrq

WmCtl ==
    /\ wm = "idle" /\ phase # "exited" /\ sent.ctl < MaxCtls
    /\ SendCtl
    /\ UNCHANGED <<rules, phase, imgstate, wm, client, got, history, images>>

SendPtr(b) ==
    /\ sent' = [sent EXCEPT !.ptr = @ + 1]
    /\ ptrq' = ptrput(Ptrq, [id |-> sent.ptr + 1, buttons |-> b, at |-> sent.ptr + 1])
    /\ sentbuttons' = Append(sentbuttons, b)
    /\ kbdq' = Kbdq /\ ctlq' = Ctlq

\* c.ptr <-= p
WmPtr(b) ==
    /\ wm = "idle" /\ phase # "exited" /\ sent.ptr < MaxPtrs
    /\ SendPtr(b)
    /\ UNCHANGED <<rules, phase, imgstate, wm, client, got, gotbuttons, images>>

\* "ptr" request: c.ptr <-= nil flushes the queue, then the new position is
\* sent with the current buttons, and the request is answered.
WmFlush ==
    /\ moves
    /\ wm = "idle" /\ client = "request" /\ phase = "run" /\ sent.ptr < MaxPtrs
    /\ wm' = "ptr"
    /\ ptrq' = flush(Ptrq)
    /\ kbdq' = Kbdq /\ ctlq' = Ctlq
    /\ UNCHANGED <<rules, phase, imgstate, client, sent, got, history, images>>

\* buttons is the state last passed on, or 0 when nobody had the pointer.
WmMoved(b) ==
    /\ wm = "ptr" /\ phase = "run"
    /\ b = 0 \/ (sentbuttons # <<>> /\ b = sentbuttons[Len(sentbuttons)])
    /\ SendPtr(b)
    /\ wm' = "idle"
    /\ client' = IF client = "request" THEN "idle" ELSE client
    /\ UNCHANGED <<rules, phase, imgstate, got, gotbuttons, images>>

----------------------------------------------------------------------------
(* The answer to a request, if the client still waits for it *)

\* An error, or nothing to wait for.
Answered == client' = IF client = "request" THEN "idle" ELSE client

\* A "!" request succeeds, perhaps, for want of an image, without anything
\* having been offered to childminder.  The client goes on to wait for its
\* image; one that is not polite need not.
Accepted(nothing) ==
    /\ unsent' = (polite /\ nothing)
    /\ \/ client' = IF client = "request" THEN "image1" ELSE client
       \/ ~polite /\ Answered

----------------------------------------------------------------------------
(* "!" requests *)

\* The client asks, either on its own or because of a control message.
ClientRequest ==
    /\ client = "idle" /\ phase = "run"
    /\ client' = "request"
    /\ UNCHANGED <<rules, phase, kbdq, ptrq, ctlq, imgstate, wm, sent, got, history, images>>

\* A request that is wrong, comes too late or moves nothing is refused.
Refuse ==
    /\ wm' = "idle"
    /\ Answered
    /\ UNCHANGED images

\* reshape, up to the send to childminder; next is "setimage" if the caller
\* reports a failure to the client.  A window of the same size gets a new
\* origin, if it has an image; any other, and one whose origin is fixed, gets
\* a new image, if one can be created.
reshape(next) ==
    \/ /\ window = "image"
       /\ wm' = "setorigin"
       /\ UNCHANGED <<client, images>>
    \/ /\ window = "nil"
       /\ wm' = "idle"
       /\ Accepted(TRUE)
       /\ UNCHANGED window
    \/ /\ wm' = next
       /\ window' = "image"
       /\ UNCHANGED <<client, unsent>>
    \/ /\ wm' = "idle"
       /\ IF next = "setimage" THEN Answered /\ UNCHANGED unsent ELSE Accepted(TRUE)
       /\ UNCHANGED window

\* handlerequest of "!reshape", of "!size" (sizewin's result is dropped) and
\* of "delete".
WmServe ==
    /\ wm = "idle" /\ client = "request" /\ phase = "run"
    /\ \/ Refuse
       \/ reshape("setimage")
       \/ window # "none" /\ reshape("ignored")
       \/ wm' = "idle" /\ Answered /\ window' = "none" /\ UNCHANGED unsent
    /\ UNCHANGED <<rules, phase, kbdq, ptrq, ctlq, imgstate, sent, got, history>>

\* "!move": dragwin moves the window's image with the pointer until the user
\* lets go, and passes the last event on.  Without an image it raises an
\* exception, which nobody catches.
WmDrag(b) ==
    /\ wm = "idle" /\ client = "request" /\ phase = "run" /\ b = 0
    /\ \/ /\ window = "image" /\ sent.ptr < MaxPtrs
          /\ SendPtr(b)
          /\ wm' = "moved"
       \/ /\ window = "nil"
          /\ wm' = "broken"
          /\ UNCHANGED <<kbdq, ctlq, ptrq, sent, sentbuttons>>
    /\ UNCHANGED <<rules, phase, imgstate, client, got, gotbuttons, images>>

\* dragwin's end; it drops reshape's result.
WmMove ==
    /\ wm = "moved" /\ phase = "run"
    /\ Refuse \/ reshape("ignored")
    /\ UNCHANGED <<rules, phase, kbdq, ptrq, ctlq, imgstate, sent, got, history>>

\* Mutant of Images: a request waits until the image before it is gone.
Images_wait ==
    /\ wm \in {"setimage", "ignored", "setorigin"} /\ phase = "run" /\ imgstate = "none"
    /\ imgstate' = IF wm = "setorigin" THEN "origin" ELSE "send"
    /\ wm' = "idle"
    /\ Accepted(FALSE)
    /\ kbdq' = Kbdq /\ ctlq' = Ctlq /\ ptrq' = Ptrq
    /\ UNCHANGED <<rules, phase, sent, got, history, window>>

\* Mutant of Images: a new image is announced by nil, a new origin is not.
Images_swapped ==
    /\ wm \in {"setimage", "ignored", "setorigin"} /\ phase = "run"
    /\ imgstate' = IF imgstate # "none" THEN imgstate
                   ELSE IF wm = "setorigin" THEN "send" ELSE "none"
    /\ wm' = "idle"
    /\ Accepted(FALSE)
    /\ kbdq' = Kbdq /\ ctlq' = Ctlq /\ ptrq' = Ptrq
    /\ UNCHANGED <<rules, phase, sent, got, history, window>>

\* Packing sends two control messages; the named bound on them.
MayPack == sent.ctl + 2 <= MaxCtls

\* c.images <-= (o, img, rc): childminder refuses a second image.
TakeImage ==
    /\ imgstate' = IF imgstate # "none" THEN imgstate
                   ELSE IF wm = "setorigin" THEN "origin" ELSE "send"
    /\ kbdq' = Kbdq /\ ctlq' = Ctlq /\ ptrq' = Ptrq

\* setimage and setorigin, and what their callers make of the answer: only
\* setimage's refusal is reported, and only by "!reshape".  A new size then
\* packs all windows before the client is answered.
Images ==
    /\ wm \in {"setimage", "ignored", "setorigin"} /\ phase = "run"
    /\ TakeImage
    /\ LET accepted == imgstate = "none" IN
       \/ /\ ~accepted /\ wm = "setimage"
          /\ wm' = "idle" /\ Answered /\ UNCHANGED unsent
       \/ /\ accepted \/ wm # "setimage"
          /\ wm' = "idle" /\ Accepted(FALSE)
       \/ /\ accepted /\ wm # "setorigin" /\ MayPack
          /\ wm' = "pack" /\ UNCHANGED <<client, unsent>>
    /\ UNCHANGED <<rules, phase, sent, got, history, window>>

\* pack_windows gives the window a new image, or none if that fails, and tells
\* the client of its new rectangle and of the screen's.  It runs inside the
\* client's own request, or because of somebody else.
WmPack ==
    /\ phase # "exited"
    /\ \/ wm = "idle" /\ window # "none" /\ MayPack /\ wm' = "rect"
       \/ wm = "pack" /\ wm' = "answer"
    /\ SendCtl
    /\ window' \in {"image", "nil"}
    /\ UNCHANGED <<rules, phase, imgstate, client, got, history, unsent>>

WmRect ==
    /\ phase # "exited"
    /\ \/ wm = "rect" /\ UNCHANGED <<client, unsent>>
       \/ wm = "answer" /\ Accepted(FALSE)
    /\ wm' = "idle"
    /\ SendCtl
    /\ UNCHANGED <<rules, phase, imgstate, got, history, window>>

\* wmctxt.images <-= sendimg: nil before a new origin, then the image.
ClientImage ==
    /\ phase = "run"
    /\ client \in {"image1", "image2"}
    /\ \/ /\ imgstate = "send"
          /\ imgstate' = "none" /\ client' = "idle"
       \/ /\ imgstate = "origin"
          /\ imgstate' = "send"
          /\ client' = IF client = "image1" THEN "image2" ELSE "idle"
    /\ kbdq' = Kbdq /\ ctlq' = Ctlq /\ ptrq' = Ptrq
    /\ UNCHANGED <<rules, phase, wm, sent, got, history, images>>

----------------------------------------------------------------------------
(* What the client receives in its main loop *)

\* wmctxt.kbd <-= key
ClientKbd ==
    /\ phase = "run" /\ client = "idle" /\ nonempty(kbdq)
    /\ got' = [got EXCEPT !.kbd = Front(kbdq)]
    /\ kbdq' = get(kbdq)
    /\ ctlq' = Ctlq /\ ptrq' = Ptrq
    /\ UNCHANGED <<rules, phase, imgstate, wm, client, sent, history, images>>

\* wmctxt.ctl <-= ctl
ClientCtl ==
    /\ phase = "run" /\ client = "idle" /\ nonempty(ctlq)
    /\ got' = [got EXCEPT !.ctl = Front(ctlq)]
    /\ ctlq' = get(ctlq)
    /\ kbdq' = Kbdq /\ ptrq' = Ptrq
    /\ UNCHANGED <<rules, phase, imgstate, wm, client, sent, history, images>>

\* wmctxt.ptr <-= ptr
ClientPtr ==
    /\ phase = "run" /\ client = "idle" /\ nonempty(ptrq)
    /\ got' = [got EXCEPT !.ptr = Head(Ptrq.h).at]
    /\ gotbuttons' = Append(gotbuttons, Head(Ptrq.h).buttons)
    /\ ptrq' = ptrget(Ptrq)
    /\ kbdq' = Kbdq /\ ctlq' = Ctlq
    /\ UNCHANGED <<rules, phase, imgstate, wm, client, sent, sentbuttons, images>>

\* The client dies and its connection closes.
ClientGone ==
    /\ client \notin {"connect", "gone"}
    /\ client' = "gone"
    /\ UNCHANGED <<rules, phase, kbdq, ptrq, ctlq, imgstate, wm, sent, got, history, images>>

\* The manager notices: c.stop <-= 1, and childminder exits.
Stop ==
    /\ wm = "idle" /\ client = "gone" /\ phase # "exited"
    /\ phase' = "exited"
    /\ UNCHANGED <<rules, kbdq, ptrq, ctlq, imgstate, wm, client, sent, got, history, images>>

Stopped == (phase = "exited" \/ wm = "broken") /\ UNCHANGED vars

Next ==
    \/ Reply
    \/ WmKbd \/ WmCtl \/ (\E b \in Buttons : WmPtr(b))
    \/ WmFlush \/ (\E b \in Buttons : WmMoved(b))
    \/ ClientRequest \/ WmServe \/ (\E b \in Buttons : WmDrag(b)) \/ WmMove
    \/ Images \/ WmPack \/ WmRect \/ ClientImage
    \/ ClientKbd \/ ClientCtl \/ ClientPtr
    \/ ClientGone \/ Stop \/ Stopped

Spec == Init /\ [][Next]_vars

\* The manager and childminder always make progress.  A polite client serves
\* its channels, and alt does not neglect one of them for ever; nothing is
\* assumed of any other client.
Fairness ==
    /\ WF_vars(Images) /\ WF_vars(\E b \in Buttons : WmMoved(b)) /\ WF_vars(Stop)
    /\ WF_vars(WmMove) /\ WF_vars(wm # "idle" /\ WmPack) /\ WF_vars(WmRect)
    /\ SF_vars(WmServe)
    /\ WF_vars(polite /\ Reply) /\ WF_vars(polite /\ ClientImage)
    /\ SF_vars(polite /\ ClientKbd) /\ SF_vars(polite /\ ClientCtl)
    /\ SF_vars(polite /\ ClientPtr)

FairSpec == Spec /\ Fairness

----------------------------------------------------------------------------
(* Properties *)

PtrEvents == [id : 0..MaxPtrs, buttons : Buttons \cup {0}, at : 0..MaxPtrs]

\* Every variable has its type; in particular last, once set, is an event.
TypeOK ==
    /\ polite \in BOOLEAN /\ moves \in BOOLEAN
    /\ phase \in {"reply", "run", "exited"}
    /\ kbdq \in [h : Seq(1..MaxKeys), t : Seq(1..MaxKeys)]
    /\ ctlq \in [h : Seq(1..MaxCtls), t : Seq(1..MaxCtls)]
    /\ ptrq \in [h : Seq(PtrEvents), t : Seq(PtrEvents), last : PtrEvents]
    /\ imgstate \in {"none", "send", "origin"}
    /\ window \in {"none", "nil", "image"}
    /\ unsent \in BOOLEAN
    /\ wm \in Doing
    /\ client \in {"connect", "idle", "request", "image1", "image2", "gone"}
    /\ sent \in [kbd : 0..MaxKeys, ctl : 0..MaxCtls, ptr : 0..MaxPtrs]
    /\ got \in [kbd : 0..MaxKeys, ctl : 0..MaxCtls, ptr : 0..MaxPtrs]
    /\ sentbuttons \in Seq(Buttons) /\ gotbuttons \in Seq(Buttons)

\* The numbers after a up to b.
Numbers(a, b) == [i \in 1..(b - a) |-> a + i]

\* Keys and control messages reach the client in the order they were sent,
\* each once: what the two-list queues hold is exactly what has been sent
\* and not yet received, however puts, peeks and gets were interleaved.
InOrder ==
    /\ Contents(kbdq) = Numbers(got.kbd, sent.kbd)
    /\ Contents(ctlq) = Numbers(got.ctl, sent.ctl)

PtrContents == Contents([h |-> ptrq.h, t |-> ptrq.t])

\* s without repetitions of the element before.
Changes(s) ==
    LET new == {i \in 1..Len(s) : i = 1 \/ s[i] # s[i-1]}
        nth(k) == CHOOSE i \in new : Cardinality({j \in new : j <= i}) = k
    IN  [k \in 1..Cardinality(new) |-> s[nth(k)]]

\* Merging never hides a click: the changes of button state the client has
\* seen and those still queued are the changes that were sent.
NoClickLost ==
    ~moves =>
        Changes(gotbuttons \o [i \in 1..Len(PtrContents) |-> PtrContents[i].buttons])
          = Changes(sentbuttons)

\* lib/xwmsrv.b: "Ptrqueue is the same as the other queues except it merges
\* events that have the same button state." -- so the newest event is always
\* delivered or queued, possibly merged into an older one.  A "ptr" request
\* breaks this: flush empties the queue but keeps last, and the position sent
\* next may be merged into an event that is no longer queued.
NewestPointerKept ==
    ~moves /\ got.ptr # sent.ptr =>
        (PtrContents # <<>> /\ PtrContents[Len(PtrContents)].at = sent.ptr)

\* A client that waits for images is owed them: an image, or nil and then
\* an image; and one that does not wait is owed none, so that its next
\* request cannot be refused with "can't do two at once".  It waits in vain
\* only if its request was accepted although no image could be created for it.
ImageOwed ==
    polite =>
        /\ client = "image1" => imgstate \in {"send", "origin"} \/ unsent
        /\ client = "image2" => imgstate = "send"
        /\ client = "idle" \/ (client = "request" /\ wm \notin {"pack", "answer"}) =>
              imgstate = "none"

\* lib/xwmsrv.b: "so that one recalcitrant child can't clog the whole
\* system": the manager gets back to its main loop whatever the client does.
ManagerNotClogged == wm \notin {"idle", "broken"} ~> wm = "idle"

\* The client waits for an image that nobody has sent.
Forgotten == client = "image1" /\ imgstate = "none" /\ unsent

\* A request of a client that plays by the rules completes, images included,
\* unless it is forgotten as above or the manager has died.
RequestCompletes ==
    polite /\ client = "request" ~>
        (client \in {"idle", "gone"} \/ Forgotten \/ wm = "broken")

\* What is sent to a polite client is received, unless the client dies or is
\* kept waiting as above.
Delivered ==
    LET excused == client = "gone" \/ Forgotten \/ wm = "broken" IN
    /\ \A n \in 1..MaxKeys :
         polite /\ sent.kbd = n ~> (got.kbd >= n \/ excused)
    /\ \A n \in 1..MaxCtls :
         polite /\ sent.ctl = n ~> (got.ctl >= n \/ excused)

=============================================================================
