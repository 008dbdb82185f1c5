------------------------------ MODULE MCDecode ------------------------------
(* Words of every opcode, with each field at zero and at another value, and *)
(* the fields that choose an opcode at all their values.                    *)
EXTENDS InstructionDecode

Word(op, rs, rt, rd, sa, fn) ==
  [op |-> op, rs |-> rs, rt |-> rt, rd |-> rd, sa |-> sa, fn |-> fn]

Immediate == {Word(op, rs, rt, rd, sa, fn) :
                op \in 2 .. 63 \ {16, 17, 18, 28}, rs \in {0, 9}, rt \in {0, 10, 20},
                rd \in {0, 27}, sa \in {0}, fn \in {0, 33}}

Special == {Word(0, rs, rt, rd, sa, fn) :
              rs \in {0, 9}, rt \in {0, 10}, rd \in {0, 11}, sa \in {0, 3, 16}, fn \in 0 .. 63}

Regimm == {Word(1, rs, rt, rd, 3, 33) : rs \in {0, 9}, rt \in 0 .. 31, rd \in {0, 27}}

Cop0 == {Word(16, rs, rt, rd, sa, fn) :
           rs \in {0, 4, 8, 16}, rt \in {0, 10}, rd \in {0, 13, 24, 25}, sa \in {0, 1},
           fn \in {0, 1, 2, 3, 4, 5, 7, 24, 56, 63}}

Cop1 == {Word(17, rs, rt, rd, sa, fn) :
           rs \in {0, 4, 16, 20, 21}, rt \in {0, 12}, rd \in {0, 11}, sa \in {0, 12},
           fn \in 0 .. 63}
        \cup {Word(17, 8, rt, rd, sa, 5) : rt \in 0 .. 31, rd \in {0, 27}, sa \in {0, 12}}

Cop2 == {Word(18, rs, rt, rd, sa, fn) :
           rs \in {0, 1, 2, 5, 6, 16, 20, 25, 30}, rt \in {0, 10}, rd \in {0, 11}, sa \in {0, 12},
           fn \in 0 .. 59}
        \cup {Word(18, rs, rt, rd, sa, fn) :
                rs \in {0, 16, 20, 25, 30}, rt \in {0, 10}, rd \in {0, 11}, sa \in 0 .. 31,
                fn \in 60 .. 63}

Mmi == {Word(28, rs, rt, rd, sa, fn) :
          rs \in {0, 9}, rt \in {0, 10}, rd \in {0, 11}, sa \in {0, 3}, fn \in 0 .. 63}
       \cup {Word(28, rs, rt, 11, sa, fn) :
               rs \in {0, 9}, rt \in {0, 10}, sa \in 0 .. 31, fn \in {8, 9, 40, 41, 48}}

MCWords == Immediate \cup Special \cup Regimm \cup Cop0 \cup Cop1 \cup Cop2 \cup Mmi

(* Beyond the reach of any branch from the start of the segment. *)
MCWordId == 40000
=============================================================================
