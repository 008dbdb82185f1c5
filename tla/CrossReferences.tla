-------------------------- MODULE CrossReferences --------------------------
(***************************************************************************)
(* What the linking information of one object file promises to the code    *)
(* that prints it: a set of labelled addresses and, for the places of the  *)
(* file that refer to one, which.  A place refers to an address for ever;  *)
(* several places found together refer to the same one; once the labels    *)
(* have their final names nothing is added.                                *)
(***************************************************************************)
VARIABLES
  refs,      \* site -> address, for the sites known to refer to one
  targets,   \* the labelled addresses
  frozen     \* the labels are named, or the program has stopped

vars == <<refs, targets, frozen>>

Init == /\ refs = [s \in {} |-> s]
        /\ targets = {}
        /\ frozen = FALSE

(* The sites that were not known before turn out to refer to address a. *)
Resolve(a) ==
  /\ ~frozen
  /\ DOMAIN refs \subseteq DOMAIN refs'
  /\ refs' = [s \in DOMAIN refs' |-> IF s \in DOMAIN refs THEN refs[s] ELSE a]
  /\ targets' = targets \cup {a}
  /\ UNCHANGED frozen

Freeze == /\ ~frozen
          /\ frozen' = TRUE
          /\ UNCHANGED <<refs, targets>>

Next == Freeze \/ \E a \in targets' : Resolve(a)

Spec == Init /\ [][Next]_vars

-----------------------------------------------------------------------------

(* Every reference has a label to print. *)
NoDanglingReference == \A s \in DOMAIN refs : refs[s] \in targets
=============================================================================
