----------------------------- MODULE ServedIndex -----------------------------
(***************************************************************************)
(* What the generation store of one slug promises its readers, with no     *)
(* word of locks, files, clocks or crashes.  Some generations are whole    *)
(* (graph and vectors both there); at most one of them is published; a     *)
(* reader works on the generation that was published when it began.  Only  *)
(* an announced destruction takes a generation away from a reader, or the  *)
(* published generation away without a newer one in its place.             *)
(***************************************************************************)
EXTENDS Naturals

CONSTANTS Gens, Readers, None

VARIABLES
    whole,       \* the generations that can be read
    published,   \* the one a new reader gets, or None
    reading,     \* what each reader works on, or None
    destroying   \* a destruction of the index is under way

vars == <<whole, published, reading, destroying>>

Init ==
    /\ whole = {}
    /\ published = None
    /\ reading = [r \in Readers |-> None]
    /\ destroying = FALSE

Prepare(g) ==
    /\ g \notin whole
    /\ whole' = whole \cup {g}
    /\ UNCHANGED <<published, reading, destroying>>

Publish(g) ==
    /\ g \in whole
    /\ published # None => g > published
    /\ published' = g
    /\ UNCHANGED <<whole, reading, destroying>>

\* Garbage is what is neither published nor read.
Discard(g) ==
    /\ g \in whole
    /\ g # published
    /\ \A r \in Readers : reading[r] # g
    /\ whole' = whole \ {g}
    /\ UNCHANGED <<published, reading, destroying>>

Open(r) ==
    /\ reading[r] = None
    /\ published # None
    /\ reading' = [reading EXCEPT ![r] = published]
    /\ UNCHANGED <<whole, published, destroying>>

Close(r) ==
    /\ reading' = [reading EXCEPT ![r] = None]
    /\ UNCHANGED <<whole, published, destroying>>

Announce ==
    /\ destroying' = ~destroying
    /\ UNCHANGED <<whole, published, reading>>

\* Readers of a destroyed generation lose it.
Destroy(G) ==
    /\ destroying
    /\ whole' = whole \ G
    /\ published' \in {None, IF published \in G THEN None ELSE published}
    /\ reading' = [r \in Readers |-> IF reading[r] \in G THEN None ELSE reading[r]]
    /\ UNCHANGED destroying

Next ==
    \/ \E g \in Gens : Prepare(g) \/ Publish(g) \/ Discard(g)
    \/ \E r \in Readers : Open(r) \/ Close(r)
    \/ Announce
    \/ \E G \in SUBSET whole : Destroy(G)

Spec == Init /\ [][Next]_vars
=============================================================================
