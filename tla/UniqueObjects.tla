--------------------------- MODULE UniqueObjects ---------------------------
(***************************************************************************)
(* What the object file database promises: each name has its different     *)
(* contents, numbered in the order in which they were met, and each DGO    *)
(* lists its files by name and number.                                     *)
(***************************************************************************)
EXTENDS Naturals, Sequences, Functions

CONSTANTS Dgos, Names, Contents

VARIABLES
  given,      \* DGO -> the [name, content] it holds, as far as it was read
  order,      \* the names, in the order in which they were met
  objects,    \* name -> its contents; content i + 1 is version i
  listing     \* DGO -> sequence of [name, version]

vars == <<given, order, objects, listing>>

Init == /\ given = [d \in Dgos |-> << >>]
        /\ order = << >>
        /\ objects = [n \in Names |-> << >>]
        /\ listing = [d \in Dgos |-> << >>]

(* DGO d holds content c under the name n. *)
Add(d, n, c) ==
  /\ given' = [given EXCEPT ![d] = Append(@, [name |-> n, content |-> c])]
  /\ order' = IF objects[n] = << >> THEN Append(order, n) ELSE order
  /\ objects' = IF c \in Range(objects[n]) THEN objects
                ELSE [objects EXCEPT ![n] = Append(@, c)]
  /\ \E i \in DOMAIN objects'[n] :
       /\ objects'[n][i] = c
       /\ listing' = [listing EXCEPT ![d] = Append(@, [name |-> n, version |-> i - 1])]

Next == \E d \in Dgos, n \in Names, c \in Contents : Add(d, n, c)

Spec == Init /\ [][Next]_vars
=============================================================================
