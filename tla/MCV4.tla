-------------------------------- MODULE MCV4 --------------------------------
(* A V4 file: one segment of data, no code.                                 *)
EXTENDS LinkedObjectFile

MCSize == (0 :> 4)

(* Pointers to a pair, to a word and past the end; a word for symbols, which *)
(* read as a pointer is -1; 0x8c120004, far before the segment; the least    *)
(* int; and 0x24000000, a word for a symbol offset, far after it.            *)
MCImages == [Loc -> {[op |-> "BAD", value |-> 2], [op |-> "REG", value |-> 8],
                     [op |-> "REG", value |-> 20], [op |-> "IMM", value |-> -1],
                     [op |-> "IMM", value |-> -1944977404],
                     [op |-> "IMM", value |-> -2147483647 - 1],
                     [op |-> "IMM", value |-> 9 * 67108864]}]
=============================================================================
