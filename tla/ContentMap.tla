------------------------------- MODULE ContentMap -------------------------------
(***************************************************************************)
(* What artifact stores over one root promise, without files and writes:   *)
(* one map from digests to bytes for all of them, in which an entry comes  *)
(* into being because some store was asked to keep it, and stays.  A store *)
(* answers for a content only while the map has it.                        *)
(***************************************************************************)
CONSTANTS Stores, Contents

VARIABLES
    stored,   \* the contents that are kept
    held,     \* what each store has answered for since it was opened
    asked,    \* per store: the content it is asked to keep, if any
    spoiled   \* the contents that somebody other than a store has touched

vars == <<stored, held, asked, spoiled>>

Init ==
    /\ stored = {}
    /\ held = [s \in Stores |-> {}]
    /\ asked = [s \in Stores |-> {}]
    /\ spoiled = {}

Ask(s, c) ==
    /\ asked[s] = {} /\ c \notin held[s]
    /\ asked' = [asked EXCEPT ![s] = {c}]
    /\ UNCHANGED <<stored, held, spoiled>>

Keep(s, c) ==
    /\ c \in asked[s] \ stored
    /\ stored' = stored \cup {c}
    /\ UNCHANGED <<held, asked, spoiled>>

\* The store answers: the content is kept, by this call or another.
Answer(s, c) ==
    /\ c \in asked[s] \cap stored
    /\ held' = [held EXCEPT ![s] = @ \cup {c}]
    /\ asked' = [asked EXCEPT ![s] = {}]
    /\ UNCHANGED <<stored, spoiled>>

Refuse(s) ==
    /\ asked[s] # {}
    /\ asked' = [asked EXCEPT ![s] = {}]
    /\ UNCHANGED <<stored, held, spoiled>>

\* A store that is opened again answers for nothing yet, and loses nothing.
Reopen(s) ==
    /\ held' = [held EXCEPT ![s] = {}]
    /\ asked' = [asked EXCEPT ![s] = {}]
    /\ UNCHANGED <<stored, spoiled>>

Spoil(c) ==
    /\ stored' = stored \ {c}
    /\ spoiled' = spoiled \cup {c}
    /\ UNCHANGED <<held, asked>>

Next ==
    \/ \E s \in Stores : Refuse(s) \/ Reopen(s)
    \/ \E s \in Stores, c \in Contents : Ask(s, c) \/ Keep(s, c) \/ Answer(s, c)
    \/ \E c \in Contents : Spoil(c)

Spec == Init /\ [][Next]_vars
===============================================================================
