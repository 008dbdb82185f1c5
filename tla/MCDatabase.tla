----------------------------- MODULE MCDatabase -----------------------------
(* Two DGOs, object files of two names and four contents.                   *)
EXTENDS DgoReader, TLC

CONSTANTS a, b, code, twin, data, empty

MCDgos == <<"KERNEL.CGO", "GAME.CGO">>

(* code and twin collide; data differs from them in CRC, empty in length.   *)
MCSize == (code :> 2) @@ (twin :> 2) @@ (data :> 2) @@ (empty :> 1)
MCHash == (code :> 1) @@ (twin :> 1) @@ (data :> 2) @@ (empty :> 1)

MCSegments == (code :> 3) @@ (twin :> 1) @@ (data :> 1) @@ (empty :> 3)
MCHasFunctions == (code :> TRUE) @@ (twin :> FALSE) @@ (data :> FALSE) @@ (empty :> FALSE)

(* The shipped configuration of Jak 1 with every output switched on, and    *)
(* one with hex dumps and listings of everything, no scripts and no blocks. *)
MCConfigs == {[s \in Switches |-> s # "disassemble_objects_without_functions"],
              [s \in Switches |-> s \in {"write_hexdump", "write_disassembly",
                                         "disassemble_objects_without_functions"}]}

(* Chunks that end inside a word; and raw chunks between others, with words *)
(* of zeros before each.                                                    *)
Packing(chunk, raw, zeros) == [chunk |-> chunk, raw |-> raw, zeros |-> zeros]

MCPackings == {Packing(3, {}, 0), Packing(4, {1, 3}, 2)}
=============================================================================
