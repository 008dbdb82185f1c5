------------------------------- MODULE MCLink -------------------------------
(* A V3 file with code, data and top-level segments of a word or two, and   *)
(* every link table over them.                                              *)
EXTENDS LinkedObjectFile

MCSize == (0 :> 2) @@ (1 :> 1) @@ (2 :> 1)

(* Two pointers into the segment (one to a pair, one just past the end), a  *)
(* word for symbols, the halves of a split pointer into segment 1.          *)
RawWords == {[op |-> "BAD", value |-> 2], [op |-> "REG", value |-> 12],
             [op |-> "IMM", value |-> -1],
             [op |-> "LUI", value |-> 15 * 67108864 + 4352],
             [op |-> "ORI", value |-> 13 * 67108864 + 4]}

MCImages == [Loc -> RawWords]
=============================================================================
