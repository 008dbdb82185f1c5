------------------------------- MODULE MCCode -------------------------------
(* V3 files whose last segment is code of six words: room for two functions *)
(* of a tag, a return and a delay slot, or for one with an address built    *)
(* from a lui/ori pair.  The words left free take every value of a set.     *)
EXTENDS LinkedObjectFile

MCSize == (0 :> 1) @@ (1 :> 0) @@ (2 :> 6)

Tag == [op |-> "IMM", value |-> -1]
JrRa == [op |-> "JR_RA", value |-> 65011720]
Ori == [op |-> "ORI", value |-> 13 * 67108864 + 4]

(* A backward branch, and an fp-relative load of the word after the base. *)
BranchWords == {Tag, JrRa, [op |-> "BRANCH", value |-> 4 * 67108864 + 65534],
                [op |-> "FP_LOAD", value |-> -1883111422]}

MCBranches == {[l \in Loc |-> CASE l = <<0, 0>> -> Ori
                                [] l = <<2, 0>> -> Tag
                                [] OTHER -> code[l[2]]] :
                 code \in {c \in [1 .. 5 -> BranchWords] : c[5] \in {Tag, JrRa}}}

(* lui that may be the upper half of a pointer into segment 0, and the      *)
(* addition of fp to what lui and ori built.                                *)
PairWords == {Ori, [op |-> "LUI", value |-> 15 * 67108864 + 4096], [op |-> "FP_ADD", value |-> 62914593],
              [op |-> "FP_OTHER", value |-> 666894336], [op |-> "IMM", value |-> 9 * 67108864 + 65535]}

MCPairs == {[l \in Loc |-> CASE l = <<0, 0>> -> Ori
                             [] l = <<2, 0>> -> Tag
                             [] l = <<2, 4>> -> JrRa
                             [] l = <<2, 5>> -> Ori
                             [] OTHER -> code[l[2]]] :
              code \in [1 .. 3 -> PairWords]}

MCImages == MCBranches \cup MCPairs
=============================================================================
