------------------------------- MODULE Zorder -------------------------------
(***************************************************************************)
(* The z-order list of lib/xwmsrv.b: clients linked by znext from the       *)
(* global zorder, and the global bottom, which lets Client.bottom return    *)
(* early.  A value of the list is a record [zorder, bottom, znext]; the     *)
(* operators are the methods of Client, without their drawing.              *)
(***************************************************************************)
EXTENDS Naturals, FiniteSets, Sequences

CONSTANTS
    Clients,   \* ref Client
    Nil        \* the nil reference

ASSUME ClientsAssumption == IsFiniteSet(Clients) /\ Nil \notin Clients

Refs == Clients \cup {Nil}
Zlists == [zorder : Refs, bottom : Refs, znext : [Clients -> Refs]]

EmptyZlist == [zorder |-> Nil, bottom |-> Nil, znext |-> [c \in Clients |-> Nil]]

\* The first Cardinality(Clients)+1 references met when following next from h.
Walk(next, h) ==
    LET N == Cardinality(Clients)
        at[i \in 0..N] ==
            IF i = 0 THEN h
            ELSE LET prev == at[i-1] IN IF prev = Nil THEN Nil ELSE next[prev]
    IN  at

\* The list starting at h, provided it ends.
Chain(next, h) ==
    LET at == Walk(next, h)
        n == Cardinality({i \in DOMAIN at : at[i] # Nil})
    IN  [i \in 1..n |-> at[i-1]]

\* The list is free of cycles.
Ends(z) == Walk(z.znext, z.zorder)[Cardinality(Clients)] = Nil

\* The list from top to bottom, and its members.
Order(z) == Chain(z.znext, z.zorder)
Listed(z) == {Order(z)[i] : i \in 1..Len(Order(z))}

\* The end of a nonempty list.
Last(s) == s[Len(s)]

\* for(z := zorder; z != nil; (prev, z) = (z, z.znext)) if(z == c) break;
\* the client before c, or the last one when c is not in the list.
Prev(z, c) ==
    LET s == Order(z) IN
    IF s = <<>> \/ s[1] = c THEN Nil
    ELSE IF \E i \in 2..Len(s) : s[i] = c
         THEN s[(CHOOSE i \in 2..Len(s) : s[i] = c) - 1]
         ELSE Last(s)

\* Mutant of top: c is not unlinked from its old place.
top_not_unlinked(z, c) ==
    IF z.zorder = c THEN z
    ELSE [zorder |-> c,
          bottom |-> IF z.zorder = Nil THEN c ELSE z.bottom,
          znext  |-> [z.znext EXCEPT ![c] = z.zorder]]

\* Client.top
top(z, c) ==
    IF z.zorder = c THEN z
    ELSE LET prev == Prev(z, c)
             cut == IF prev = Nil THEN z.znext
                    ELSE [z.znext EXCEPT ![prev] = z.znext[c]]
         IN  [zorder |-> c,
              bottom |-> IF z.zorder = Nil THEN c ELSE z.bottom,
              znext  |-> [cut EXCEPT ![c] = z.zorder]]

\* Client.bottom
bottom(z, c) ==
    IF c = z.bottom THEN z
    ELSE LET prev == Prev(z, c)
             cut == IF prev = Nil THEN z.znext
                    ELSE [z.znext EXCEPT ![prev] = z.znext[c]]
             own == [cut EXCEPT ![c] = Nil]
             rest == Chain(own, z.znext[c])
             last == IF rest = <<>> THEN prev ELSE Last(rest)
         IN  [zorder |-> IF last = Nil THEN c
                         ELSE IF prev = Nil THEN z.znext[c] ELSE z.zorder,
              bottom |-> c,
              znext  |-> IF last = Nil THEN own ELSE [own EXCEPT ![last] = c]]

\* Client.remove
remove(z, c) ==
    IF c \notin Listed(z) THEN z
    ELSE LET prev == Prev(z, c) IN
         IF prev # Nil
         THEN [z EXCEPT !.znext[prev] = z.znext[c],
                        !.bottom = IF c = z.bottom THEN prev ELSE z.bottom]
         ELSE [z EXCEPT !.zorder = z.znext[c], !.bottom = z.znext[c]]
=============================================================================
