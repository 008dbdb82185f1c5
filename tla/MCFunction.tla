----------------------------- MODULE MCFunction -----------------------------
(* Functions that save at most two registers of each kind.                  *)
EXTENDS FunctionAnalysis

MCGprs == <<"gp", "s5">>
MCFprs == <<"f30", "f28">>

Op(op, reg) == Instr(op, reg, 0)
Branch(target) == Instr("branch", "", target)

Frames ==
  {[ra |-> ra, fp |-> fp, nVars |-> v, nGpr |-> g, nFpr |-> f] :
     ra \in BOOLEAN, fp \in BOOLEAN, v \in {0, 4, 8, 16}, g \in 0 .. 2, f \in 0 .. 2}

(* Straight code, a loop over the first instruction, and a jump to the end. *)
Bodies == {<< >>,
           <<Op("other", "")>>,
           <<Branch(0), Op("nop", "")>>,
           <<Op("other", ""), Branch(0), Op("other", "")>>,
           <<Branch(2), Op("other", "")>>}

MCPrograms == {[frame |-> p, body |-> b, padding |-> n] :
                 p \in Frames, b \in Bodies, n \in 0 .. 1}

(* Any instruction of a compiled function replaced by any other, dropped or *)
(* doubled.                                                                 *)
Strange == {Op("sw", "sp"), Op("sd", "s7"), Op("sq", "r0"), Op("sq", "a0"),
            Op("sq", "s5"), Op("sd", "ra"), Op("sd", "fp"), Op("nop", ""),
            Op("jr", "ra"), Op("daddu_r0", "sp"), Instr("daddiu", "sp", 16),
            Op("swc1", "f28"), Op("other", ""),
            Branch(-1), Branch(1), Branch(4), Branch(5), Branch(9)}

Cut(s, i, j) == SubSeq(s, 1, i) \o SubSeq(s, j, Len(s))

FewFrames == {p \in Frames : p.nVars \in {0, 8} /\ p.nGpr # 1 /\ p.nFpr # 1}

Few == {Compile(x) : x \in {y \in MCPrograms : /\ y.frame \in FewFrames
                                              /\ Len(y.body) \in {0, 3}
                                              /\ y.padding = 1}}

MCAltered ==
  {IF i > Len(s) THEN s ELSE [s EXCEPT ![i] = x] : s \in Few, i \in 2 .. 16, x \in Strange}
    \cup {Cut(s, i - 1, i + 1) : s \in Few, i \in 2 .. 4}
    \cup {Cut(s, i, i) : s \in Few, i \in 2 .. 4}

(* The double return of an assembly function. *)
MCDoubled == {s \o <<Op("jr", "ra"), Op("daddu_r0", "sp")>> : s \in Compiled}

(* A function that ends early. *)
MCShort == {SubSeq(s, 1, IF n > Len(s) THEN Len(s) ELSE n) : s \in Few, n \in 1 .. 8}

MCOthers == MCAltered \cup MCDoubled \cup MCShort
=============================================================================
