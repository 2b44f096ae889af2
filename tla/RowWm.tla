------------------------------- MODULE RowWm --------------------------------
(***************************************************************************)
(* alertswin/rowwm.b, the window manager that stacks the alert windows as   *)
(* rows: which clients it lists and in which order, and who has the         *)
(* keyboard, the pointer and control.  One action is one pass of the main   *)
(* alt loop, which is a single process.  Rectangles and images are not      *)
(* kept here; the client protocol behind c.images is in Childminder.        *)
(*                                                                          *)
(* A client announces its wintype before its first window and its first     *)
(* window is ".", as header.b, footer.b and tkclient.onscreen do.           *)
(***************************************************************************)
EXTENDS Zorder

CONSTANT Interactive   \* the clients that ask for the keyboard and for control

ASSUME InteractiveAssumption == Interactive \subseteq Clients

VARIABLES
    life,      \* "new", "joined" or "left"
    zl,        \* the z-order list of xwmsrv
    wins,      \* clients with a "." window
    attrs,     \* wintype: "none", "header" or "footer"
    kbdstarted,
    focus,     \* kbdfocus, and the clients whose last word is "haskbdfocus 1"
    ptrfocus,
    control    \* controller, allowcontrol, the Controller and Controlstarted flags

vars == <<life, zl, wins, attrs, kbdstarted, focus, ptrfocus, control>>

Live == {c \in Clients : life[c] = "joined"}

Init ==
    /\ life = [c \in Clients |-> "new"]
    /\ zl = EmptyZlist
    /\ wins = {}
    /\ attrs = [c \in Clients |-> "none"]
    /\ kbdstarted = {}
    /\ focus = [kbd |-> Nil, told |-> {}]
    /\ ptrfocus = Nil
    /\ control = [controller |-> Nil, allow |-> TRUE, flag |-> {}, started |-> {}]

\* Mutant of setfocus: the old owner is not told.
setfocus_silent(f, started, new) ==
    IF new = f.kbd \/ (new # Nil /\ new \notin started) THEN f
    ELSE [kbd |-> new, told |-> f.told \cup ({new} \ {Nil})]

\* setfocus: nothing happens if new has the focus or has not started kbd.
setfocus(f, started, new) ==
    IF new = f.kbd \/ (new # Nil /\ new \notin started) THEN f
    ELSE [kbd |-> new, told |-> (f.told \ {f.kbd}) \cup ({new} \ {Nil})]

\* The first listed client that is in S, or nil.
FirstListed(z, S) ==
    LET s == Order(z)
        hits == {i \in 1..Len(s) : s[i] \in S}
    IN  IF hits = {} THEN Nil ELSE s[CHOOSE i \in hits : \A j \in hits : i <= j]

OfType(type) == {c \in Clients : attrs[c] = type}

\* Mutant of pack_windows: the footer is forgotten.
pack_windows_no_footer(z) ==
    LET header == FirstListed(z, OfType("header"))
    IN  IF header = Nil THEN z ELSE top(z, header)

\* The list after pack_windows: a header comes to the top, a footer goes to
\* the bottom, and every client is told its new row.
pack_windows(z) ==
    LET header == FirstListed(z, OfType("header"))
        z1 == IF header = Nil THEN z ELSE top(z, header)
        footer == FirstListed(z1, OfType("footer"))
    IN  IF footer = Nil THEN z1 ELSE bottom(z1, footer)

----------------------------------------------------------------------------

\* A client joins; the first one, or the first after endcontrol, gets control.
Join(c) ==
    /\ life[c] = "new"
    /\ life' = [life EXCEPT ![c] = "joined"]
    /\ control' = IF control.allow
                  THEN [control EXCEPT !.controller = c, !.allow = FALSE,
                                       !.flag = @ \cup {c}]
                  ELSE control
    /\ UNCHANGED <<zl, wins, attrs, kbdstarted, focus, ptrfocus>>

\* Mutant of Leave: the client stays the controller.
Leave_keeps_control(c) ==
    /\ c \in Live
    /\ life' = [life EXCEPT ![c] = "left"]
    /\ zl' = pack_windows(remove(zl, c))
    /\ wins' = wins \ {c}
    /\ ptrfocus' = IF c = ptrfocus THEN Nil ELSE ptrfocus
    /\ LET f == [kbd |-> IF c = focus.kbd THEN Nil ELSE focus.kbd,
                 told |-> focus.told \ {c}] IN
       focus' = setfocus(f, kbdstarted, FirstListed(zl', kbdstarted))
    /\ attrs' = [attrs EXCEPT ![c] = "none"]
    /\ kbdstarted' = kbdstarted \ {c}
    /\ UNCHANGED control

\* A client leaves: it and its record are forgotten, the rows are packed again, and the
\* topmost client that has started kbd gets the focus.
Leave(c) ==
    /\ c \in Live
    /\ life' = [life EXCEPT ![c] = "left"]
    /\ zl' = pack_windows(remove(zl, c))
    /\ wins' = wins \ {c}
    /\ ptrfocus' = IF c = ptrfocus THEN Nil ELSE ptrfocus
    /\ LET f == [kbd |-> IF c = focus.kbd THEN Nil ELSE focus.kbd,
                 told |-> focus.told \ {c}] IN
       focus' = setfocus(f, kbdstarted, FirstListed(zl', kbdstarted))
    /\ attrs' = [attrs EXCEPT ![c] = "none"]
    /\ kbdstarted' = kbdstarted \ {c}
    /\ control' = IF c = control.controller
                  THEN [control EXCEPT !.controller = Nil, !.flag = @ \ {c},
                                       !.started = @ \ {c}]
                  ELSE control

\* A pointer event over client c, or over no client.
PointerEvent(c, pressed) ==
    /\ c = Nil \/ c \in Listed(zl) \cap wins
    /\ ptrfocus' = IF c # Nil /\ ~pressed THEN c ELSE ptrfocus
    /\ focus' = IF c # Nil /\ pressed THEN setfocus(focus, kbdstarted, c) ELSE focus
    /\ UNCHANGED <<life, zl, wins, attrs, kbdstarted, control>>

\* The window manager's own window is reshaped.
reshaped ==
    /\ zl' = pack_windows(zl)
    /\ UNCHANGED <<life, wins, attrs, kbdstarted, focus, ptrfocus, control>>

----------------------------------------------------------------------------
(* handlerequest *)

\* The setup script starts at most one header and one footer.
Wintype(c, type) ==
    /\ c \in Live \ Listed(zl)
    /\ \A d \in Live : attrs[d] # type
    /\ attrs' = [attrs EXCEPT ![c] = type]
    /\ UNCHANGED <<life, zl, wins, kbdstarted, focus, ptrfocus, control>>

\* start kbd: the flag is set first, then the client grabs the focus.
StartKbd(c) ==
    /\ c \in Live
    /\ kbdstarted' = kbdstarted \cup {c}
    /\ focus' = setfocus(focus, kbdstarted', c)
    /\ UNCHANGED <<life, zl, wins, attrs, ptrfocus, control>>

StartControl(c) ==
    /\ c \in Live \cap control.flag
    /\ control' = [control EXCEPT !.started = @ \cup {c}]
    /\ UNCHANGED <<life, zl, wins, attrs, kbdstarted, focus, ptrfocus>>

EndControl(c) ==
    /\ c \in Live
    /\ c = control.controller
    /\ control' = [controller |-> Nil, allow |-> TRUE,
                   flag |-> control.flag \ {c}, started |-> control.started \ {c}]
    /\ UNCHANGED <<life, zl, wins, attrs, kbdstarted, focus, ptrfocus>>

\* reshape of ".": a client that is not listed is put at the bottom; a new
\* window or a new size packs the rows again.
reshape(c, samesize) ==
    /\ c \in Live
    /\ samesize => c \in wins
    /\ wins' = wins \cup {c}
    /\ LET z == IF c \in Listed(zl) THEN zl ELSE bottom(zl, c) IN
       zl' = IF samesize THEN z ELSE pack_windows(z)
    /\ UNCHANGED <<life, attrs, kbdstarted, focus, ptrfocus, control>>

\* reshape of a client that has not fetched its last image yet: setimage adds
\* the window but is refused, and reshape returns before any packing.
reshape_refused(c) ==
    /\ c \in (Live \cap Listed(zl)) \ wins
    /\ wins' = wins \cup {c}
    /\ UNCHANGED <<life, zl, attrs, kbdstarted, focus, ptrfocus, control>>

\* delete of ".": the client has no windows left but stays listed.
Delete(c) ==
    /\ c \in Live
    /\ wins' = wins \ {c}
    /\ focus' = IF c = focus.kbd THEN setfocus(focus, kbdstarted, Nil) ELSE focus
    /\ UNCHANGED <<life, zl, attrs, kbdstarted, ptrfocus, control>>

\* kbdfocus 1 takes the focus, kbdfocus 0 gives it up.
KbdFocus(c, take) ==
    /\ c \in Live
    /\ focus' = IF take THEN setfocus(focus, kbdstarted, c)
                ELSE IF c = focus.kbd THEN setfocus(focus, kbdstarted, Nil) ELSE focus
    /\ UNCHANGED <<life, zl, wins, attrs, kbdstarted, ptrfocus, control>>

----------------------------------------------------------------------------

Next ==
    \/ \E c \in Clients :
         \/ Join(c) \/ Leave(c)
         \/ \E type \in {"header", "footer"} : Wintype(c, type)
         \/ \E samesize \in BOOLEAN : reshape(c, samesize)
         \/ reshape_refused(c) \/ Delete(c)
    \/ \E c \in Interactive :
         \/ StartKbd(c) \/ StartControl(c) \/ EndControl(c)
         \/ \E take \in BOOLEAN : KbdFocus(c, take)
    \/ \E c \in Refs, pressed \in BOOLEAN : PointerEvent(c, pressed)
    \/ reshaped

Spec == Init /\ [][Next]_vars

----------------------------------------------------------------------------
(* Properties *)

\* The references are clients or nil and the flags belong to clients.
TypeOK ==
    /\ life \in [Clients -> {"new", "joined", "left"}]
    /\ zl \in Zlists
    /\ wins \subseteq Clients
    /\ attrs \in [Clients -> {"none", "header", "footer"}]
    /\ kbdstarted \subseteq Clients
    /\ focus \in [kbd : Refs, told : SUBSET Clients]
    /\ ptrfocus \in Refs
    /\ control \in [controller : Refs, allow : BOOLEAN,
                    flag : SUBSET Clients, started : SUBSET Clients]

\* The links always form a list: no cycle, no client lost from the middle
\* (every client that has a window can be found by the pointer), no client
\* twice, and bottom is nil exactly when the list is empty.  (Every variable has
\* its type.)
ZorderIsList ==
    /\ TypeOK
    /\ Ends(zl)
    /\ wins \subseteq Listed(zl)
    /\ zl.bottom = Nil <=> zl.zorder = Nil
    /\ zl.bottom # Nil => zl.bottom \in Listed(zl)

\* Whoever the manager may send to has a childminder to receive it: the
\* listed clients, the owners of keyboard and pointer, and the controller.
\* A send to a client that has left would block the main loop for ever.
TargetsAlive ==
    Listed(zl) \cup ({focus.kbd, ptrfocus, control.controller} \ {Nil}) \subseteq Live

\* The header row is first and the footer row last after every event, even
\* though bottom may be stale when pack_windows consults it.
HeaderFirstFooterLast ==
    LET s == Order(zl) IN
    /\ (\E i \in 1..Len(s) : attrs[s[i]] = "header") => attrs[s[1]] = "header"
    /\ (\E i \in 1..Len(s) : attrs[s[i]] = "footer") => attrs[Last(s)] = "footer"

\* Among the clients that are still there, exactly the owner of the keyboard
\* was last told that it has the focus.
FocusToldRight ==
    focus.told = {focus.kbd} \ {Nil}
=============================================================================
