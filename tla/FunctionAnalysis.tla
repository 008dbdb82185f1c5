-------------------------- MODULE FunctionAnalysis --------------------------
(***************************************************************************)
(* The analysis of one function: find_blocks_in_function                   *)
(* (BasicBlocks.cpp), then Function::analyze_prologue and check_epilogue   *)
(* (Function.cpp).  The instructions are split into basic blocks; the      *)
(* stores that begin the function and the loads that end it are recognised *)
(* and taken off the first and the last block.                             *)
(*                                                                         *)
(* Instruction 0 is the type tag.  The memory operations that matter are   *)
(* relative to sp; "sw" and "other" stand for those that are not looked    *)
(* at.  A failed assert, or a look at an instruction outside the function, *)
(* ends the program: pc = "aborted".                                       *)
(***************************************************************************)
EXTENDS Integers, Sequences, FiniteSets, SequencesExt

CONSTANTS
  Programs,     \* what is compiled: a frame, a body and an amount of padding
  Others,       \* other functions to analyse: sequences of [op, reg, imm]
  GprBackups,   \* gpr_backups and fpr_backups: the registers a function saves,
  FprBackups    \* in the order in which it takes to them

Instr(op, reg, imm) == [op |-> op, reg |-> reg, imm |-> imm]

IsCode(s) ==
  /\ s \in Seq(Range(s))
  /\ \A i \in DOMAIN s : /\ s[i] = Instr(s[i].op, s[i].reg, s[i].imm)
                         /\ s[i].imm \in Int
                         /\ s[i].op = "or_t9" => s[i].imm = 0

(* The tag is a linked word: 0xffffffff, which decodes to a store. *)
IsFunction(s) == IsCode(s) /\ s # << >> /\ s[1].op # "branch"

ASSUME BackupsAssumption ==
  /\ GprBackups \in Seq(Range(GprBackups))
  /\ FprBackups \in Seq(Range(FprBackups))
  /\ \A i, j \in DOMAIN GprBackups : GprBackups[i] = GprBackups[j] => i = j
  /\ \A i, j \in DOMAIN FprBackups : FprBackups[i] = FprBackups[j] => i = j
  /\ Range(GprBackups) \cap {"a0", "r0"} = {}
  /\ \A s \in Others : IsFunction(s)

VARIABLES
  code,         \* the function
  compiled,     \* whether it is one of Compiled (never read by the code)
  blocks,       \* basic_blocks: sequence of [start, end], end not in the block
  prologue,     \* Function::Prologue
  asm,          \* suspected_asm
  prologueEnd, epilogueStart, epilogueEnd,
  pc, idx       \* the running step, and the instruction it looks at

found == <<blocks, prologue, asm, prologueEnd, epilogueStart, epilogueEnd>>
vars == <<code, compiled, found, pc, idx>>

size == Len(code)

InRange(i) == i \in 0 .. size - 1

Is(i, op, reg) == InRange(i) /\ code[i + 1].op = op /\ code[i + 1].reg = reg

Imm(i) == code[i + 1].imm

Abort == pc' = "aborted" /\ UNCHANGED <<code, compiled, found, idx>>

(* The function is taken for hand-written assembly and left alone. *)
Suspect == /\ asm' = TRUE
           /\ pc' = "done"
           /\ UNCHANGED <<code, compiled, blocks, prologue, prologueEnd, epilogueStart,
                          epilogueEnd, idx>>

Goto(step, i) == pc' = step /\ idx' = i

(* A step of the prologue found something out. *)
Learn(p) ==
  /\ prologue' = p
  /\ UNCHANGED <<code, compiled, blocks, asm, prologueEnd, epilogueStart, epilogueEnd>>

-----------------------------------------------------------------------------
(* Basic blocks *)

Branches == {i \in 0 .. size - 1 : code[i + 1].op = "branch"}

(* Where the label of a branch is, relative to the function. *)
Target(i) == Imm(i)

(* Mutant: a block ends after the branch. *)
DividersBeforeSlots == {0, size} \cup {i + 1 : i \in Branches} \cup {Target(i) : i \in Branches}

(* The ends of the function, after each delay slot, and each target. *)
Dividers == {0, size} \cup {i + 2 : i \in Branches} \cup {Target(i) : i \in Branches}

(* The element of S that n others are below. *)
Nth(S, n) == CHOOSE x \in S : Cardinality({y \in S : y < x}) = n

BlocksBetween(dividers) ==
  [k \in 1 .. Cardinality(dividers) - 1 |->
     [start |-> Nth(dividers, k - 1), end |-> Nth(dividers, k)]]

(* A branch has its delay slot, and its target, inside the function. *)
BranchInside(i) == i < size - 1 /\ 0 < Target(i) /\ Target(i) < size - 1

FindBlocks ==
  /\ pc = "blocks"
  /\ IF \E i \in Branches : ~BranchInside(i)
     THEN Abort
     ELSE /\ blocks' = BlocksBetween(Dividers)
          /\ Goto("stack", 1)
          /\ UNCHANGED <<code, compiled, prologue, asm, prologueEnd, epilogueStart, epilogueEnd>>

-----------------------------------------------------------------------------
(* The prologue *)

ReadsPast == /\ pc \in {"stack", "ra", "fp", "gprs", "fprs"}
             /\ ~InRange(idx)
             /\ Abort

(* daddiu sp, sp, -x.  The prologue of a function without it is empty. *)
ReadStackUse ==
  LET uses == Is(idx, "daddiu", "sp")
      usage == IF uses THEN -Imm(idx) ELSE 0
  IN /\ pc = "stack"
     /\ InRange(idx)
     /\ prologue' = [prologue EXCEPT !.usage = usage]
     /\ prologueEnd' = 1
     /\ Goto(IF usage = 0 THEN "trim" ELSE "ra", IF uses THEN idx + 1 ELSE idx)
     /\ UNCHANGED <<code, compiled, blocks, asm, epilogueStart, epilogueEnd>>

StoresSp == pc = "ra" /\ Is(idx, "sw", "sp") /\ Suspect

BackupRa ==
  /\ pc = "ra"
  /\ Is(idx, "sd", "ra")
  /\ IF Imm(idx) # 0 THEN Abort
     ELSE Learn([prologue EXCEPT !.ra = TRUE]) /\ Goto("fp", idx + 1)

NoRaBackup ==
  /\ pc = "ra"
  /\ InRange(idx)
  /\ ~Is(idx, "sw", "sp")
  /\ ~Is(idx, "sd", "ra")
  /\ Goto("fp", idx)
  /\ UNCHANGED <<code, compiled, found>>

StoresS7 == pc = "fp" /\ Is(idx, "sd", "s7") /\ Suspect

(* A function that saves fp sets it to its own address, t9, at once. *)
BackupFp ==
  /\ pc = "fp"
  /\ Is(idx, "sd", "fp")
  /\ IF Imm(idx) # 8 \/ ~Is(idx + 1, "or_t9", "fp") THEN Abort
     ELSE Learn([prologue EXCEPT !.fp = TRUE]) /\ Goto("gprs", idx + 2)

NoFpBackup ==
  /\ pc = "fp"
  /\ InRange(idx)
  /\ ~Is(idx, "sd", "s7")
  /\ ~Is(idx, "sd", "fp")
  /\ Goto("gprs", idx)
  /\ UNCHANGED <<code, compiled, found>>

(***************************************************************************)
(* The n stores from instruction idx, each width bytes after the one       *)
(* before, should save the first n registers in reverse.  The one that     *)
(* fails first decides: a wrong offset is a failed assert, a wrong         *)
(* register gives the function away as assembly.                           *)
(***************************************************************************)
Misplaced(k, width) == Imm(idx + k) # Imm(idx) + width * k

(* Mutant: the registers are expected first to last. *)
WrongRegisterForward(k, n, backups) == code[idx + k + 1].reg # backups[k + 1]

WrongRegister(k, n, backups) == code[idx + k + 1].reg # backups[n - k]

Fails(n, width, backups) ==
  \/ n > Len(backups)
  \/ \E k \in 0 .. n - 1 : /\ Misplaced(k, width)
                           /\ \A j \in 0 .. k - 1 : ~WrongRegister(j, n, backups)

OutOfOrder(n, width, backups) ==
  ~Fails(n, width, backups) /\ \E k \in 0 .. n - 1 : WrongRegister(k, n, backups)

(* The run of stores a loop finds ends with the first that is not one. *)
IsRun(n, stores) == idx + n \notin stores /\ idx .. idx + n - 1 \subseteq stores

GprStores == {i \in 0 .. size - 1 : /\ code[i + 1].op = "sq"
                                   /\ code[i + 1].reg \notin {"a0", "r0"}}

BackupGprs(n) ==
  /\ pc = "gprs"
  /\ IsRun(n, GprStores)
  /\ IF Is(idx + n, "sq", "a0")
     THEN Suspect
     ELSE IF ~InRange(idx + n) \/ Fails(n, 16, GprBackups)
     THEN Abort
     ELSE IF OutOfOrder(n, 16, GprBackups)
     THEN Suspect
     ELSE /\ Learn([prologue EXCEPT !.nGpr = n,
                                    !.gprOffset = IF n = 0 THEN @ ELSE Imm(idx)])
          /\ Goto(IF Is(idx + n, "sq", "r0") THEN "layout" ELSE "fprs", idx + n)

FprStores == {i \in 0 .. size - 1 : code[i + 1].op = "swc1"}

BackupFprs(n) ==
  /\ pc = "fprs"
  /\ IsRun(n, FprStores)
  /\ IF ~InRange(idx + n) \/ Fails(n, 4, FprBackups)
     THEN Abort
     ELSE IF OutOfOrder(n, 4, FprBackups)
     THEN Suspect
     ELSE /\ Learn([prologue EXCEPT !.nFpr = n,
                                    !.fprOffset = IF n = 0 THEN @ ELSE Imm(idx)])
          /\ Goto("layout", idx + n)

Align(n, m) == ((n + m - 1) \div m) * m

(* Below the stack variables are the slots of ra and fp. *)
VarOffset(p) == IF p.fp THEN 16 ELSE IF p.ra THEN 8 ELSE 0

(* The variables take what is left up to the first saved register. *)
VarBytes(p) ==
  (IF p.nGpr > 0 THEN p.gprOffset ELSE IF p.nFpr > 0 THEN p.fprOffset ELSE p.usage)
    - VarOffset(p)

(* Mutant: nothing is checked but that there is room for the variables. *)
RoomForVariables(p) == VarBytes(p) >= 0

(* The stack in order: ra, fp, variables, gprs, fprs, padding. *)
StackLinesUp(p) ==
  LET vars_end == VarOffset(p) + VarBytes(p)
      gprs_end == IF p.nGpr = 0 THEN vars_end ELSE Align(vars_end, 16) + 16 * p.nGpr
      fprs_end == IF p.nFpr = 0 THEN gprs_end ELSE Align(gprs_end, 4) + 4 * p.nFpr
  IN /\ VarBytes(p) >= 0
     /\ p.nGpr > 0 => p.gprOffset = Align(vars_end, 16)
     /\ p.nFpr > 0 => p.fprOffset = Align(gprs_end, 4)
     /\ p.usage = Align(fprs_end, 16)

CheckLayout ==
  /\ pc = "layout"
  /\ IF ~StackLinesUp(prologue)
     THEN Abort
     ELSE /\ prologue' = [prologue EXCEPT !.varOffset = VarOffset(prologue),
                                          !.nVars = VarBytes(prologue)]
          /\ prologueEnd' = idx
          /\ Goto("trim", idx)
          /\ UNCHANGED <<code, compiled, blocks, asm, epilogueStart, epilogueEnd>>

(* Mutant: the end of the first block is not looked at. *)
TrimAnyBlock ==
  /\ pc = "trim"
  /\ blocks' = [blocks EXCEPT ![1].start = prologueEnd]
  /\ prologue' = [prologue EXCEPT !.decoded = TRUE]
  /\ Goto("padding", size - 1)
  /\ UNCHANGED <<code, compiled, asm, prologueEnd, epilogueStart, epilogueEnd>>

(* The first block may be the prologue and nothing else. *)
TrimFirstBlock ==
  /\ pc = "trim"
  /\ IF blocks[1].end < prologueEnd
     THEN Abort
     ELSE /\ blocks' = [blocks EXCEPT ![1].start = prologueEnd]
          /\ prologue' = [prologue EXCEPT !.decoded = TRUE]
          /\ Goto("padding", size - 1)
          /\ UNCHANGED <<code, compiled, asm, prologueEnd, epilogueStart, epilogueEnd>>

-----------------------------------------------------------------------------
(* The epilogue, from the last instruction up *)

SkipNop == /\ pc = "padding"
           /\ Is(idx, "nop", "")
           /\ Goto("padding", idx - 1)
           /\ UNCHANGED <<code, compiled, found>>

(***************************************************************************)
(* An assembly function in disguise: its own return is followed by the one *)
(* of a compiled function without a stack.                                 *)
(***************************************************************************)
SkipDoubleReturn ==
  LET doubled == prologue.usage # 0 /\ Is(idx, "daddu_r0", "sp")
  IN /\ pc = "padding"
     /\ ~Is(idx, "nop", "")
     /\ IF ~InRange(idx) \/ (doubled /\ ~Is(idx - 1, "jr", "ra"))
        THEN Abort
        ELSE /\ epilogueEnd' = idx
             /\ Goto("epilogue", IF doubled THEN idx - 2 ELSE idx)
             /\ UNCHANGED <<code, compiled, blocks, prologue, asm, prologueEnd, epilogueStart>>

If(condition, s) == IF condition THEN s ELSE << >>

(* What check_epilogue expects, top to bottom. *)
Restores(p) ==
  If(p.ra, <<Instr("ld", "ra", 0)>>)
    \o If(p.fp, <<Instr("ld", "fp", 8)>>)
    \o [k \in 1 .. p.nFpr |-> Instr("lwc1", FprBackups[k], p.fprOffset + 4 * (p.nFpr - k))]
    \o [k \in 1 .. p.nGpr |-> Instr("lq", GprBackups[k], p.gprOffset + 16 * (p.nGpr - k))]
    \o <<Instr("jr", "ra", 0)>>
    \o IF p.usage # 0 THEN <<Instr("daddiu", "sp", p.usage)>>
                      ELSE <<Instr("daddu_r0", "sp", 0)>>

(* Instructions i .. j - 1. *)
Between(i, j) == SubSeq(code, i + 1, j)

CheckEpilogue ==
  LET start == idx + 1 - Len(Restores(prologue))
      last == Len(blocks)
  IN /\ pc = "epilogue"
     /\ IF \/ start < 0
           \/ Between(start, idx + 1) # Restores(prologue)
           \/ start < blocks[last].start
        THEN Abort
        ELSE /\ blocks' = [blocks EXCEPT ![last].end = start]
             /\ prologue' = [prologue EXCEPT !.epilogueOk = TRUE]
             /\ epilogueStart' = start
             /\ Goto("done", idx)
             /\ UNCHANGED <<code, compiled, asm, prologueEnd, epilogueEnd>>

-----------------------------------------------------------------------------
(* What the compiler writes *)

(***************************************************************************)
(* The prologue of a frame: ra and fp are saved in the first two slots,    *)
(* the variables follow, then as many saved registers of each kind as the  *)
(* function needs, each kind aligned to its size, in reverse.              *)
(***************************************************************************)
GprStart(p) == Align(VarOffset(p) + p.nVars, 16)

FprStart(p) ==
  IF p.nGpr = 0 THEN Align(VarOffset(p) + p.nVars, 4) ELSE GprStart(p) + 16 * p.nGpr

StackOf(p) ==
  Align(IF p.nFpr > 0 THEN FprStart(p) + 4 * p.nFpr
        ELSE IF p.nGpr > 0 THEN GprStart(p) + 16 * p.nGpr
        ELSE VarOffset(p) + p.nVars, 16)

Saves(p) ==
  If(StackOf(p) # 0, <<Instr("daddiu", "sp", -StackOf(p))>>)
    \o If(p.ra, <<Instr("sd", "ra", 0)>>)
    \o If(p.fp, <<Instr("sd", "fp", 8), Instr("or_t9", "fp", 0)>>)
    \o [k \in 1 .. p.nGpr |-> Instr("sq", GprBackups[p.nGpr + 1 - k],
                                    GprStart(p) + 16 * (k - 1))]
    \o [k \in 1 .. p.nFpr |-> Instr("swc1", FprBackups[p.nFpr + 1 - k],
                                    FprStart(p) + 4 * (k - 1))]

(* The frame as its epilogue sees it. *)
Laid(p) == [ra |-> p.ra, fp |-> p.fp, usage |-> StackOf(p), nGpr |-> p.nGpr,
            nFpr |-> p.nFpr, gprOffset |-> GprStart(p), fprOffset |-> FprStart(p)]

(* The branches of a body count from its start. *)
Placed(body, at) ==
  [k \in DOMAIN body |-> IF body[k].op = "branch" THEN [body[k] EXCEPT !.imm = @ + at]
                                                 ELSE body[k]]

Compile(x) ==
  LET head == <<Instr("tag", "", 0)>> \o Saves(x.frame)
  IN head \o Placed(x.body, Len(head)) \o Restores(Laid(x.frame))
          \o [k \in 1 .. x.padding |-> Instr("nop", "", 0)]

Compiled == {Compile(x) : x \in Programs}

(***************************************************************************)
(* The analysis counts stores and cannot tell the first instruction of a   *)
(* body from one more save: a body begins with something else.             *)
(***************************************************************************)
LooksLikeSave(i, p) ==
  \/ i.op \in {"sq", "swc1"}
  \/ i.op = "sd" /\ i.reg \in {"ra", "fp", "s7"}
  \/ i.op = "sw" /\ i.reg = "sp"
  \/ i.op = "daddiu" /\ i.reg = "sp" /\ StackOf(p) = 0

IsFrame(p) ==
  /\ p.ra \in BOOLEAN /\ p.fp \in BOOLEAN /\ p.nVars \in Nat
  /\ p.nGpr \in 0 .. Len(GprBackups)
  /\ p.nFpr \in 0 .. Len(FprBackups)

(* Control stays in the body, delay slots included, or goes to its end. *)
IsProgram(x) ==
  /\ IsFrame(x.frame)
  /\ IsCode(x.body)
  /\ x.body # << >> => ~LooksLikeSave(x.body[1], x.frame)
  /\ \A i \in DOMAIN x.body :
       x.body[i].op = "branch" => i < Len(x.body) /\ x.body[i].imm \in 0 .. Len(x.body)
  /\ x.padding \in Nat

ASSUME ProgramsAssumption == \A x \in Programs : IsProgram(x)

-----------------------------------------------------------------------------
Init ==
  /\ \/ compiled = TRUE /\ code \in Compiled
     \/ compiled = FALSE /\ code \in Others
  /\ blocks = << >>
  /\ prologue = [usage |-> -1, ra |-> FALSE, fp |-> FALSE,
                 nGpr |-> 0, gprOffset |-> -1, nFpr |-> 0, fprOffset |-> -1,
                 nVars |-> 0, varOffset |-> -1, decoded |-> FALSE, epilogueOk |-> FALSE]
  /\ asm = FALSE
  /\ prologueEnd = -1
  /\ epilogueStart = -1
  /\ epilogueEnd = -1
  /\ pc = "blocks"
  /\ idx = 0

Finished == pc \in {"done", "aborted"} /\ UNCHANGED vars

Next ==
  \/ FindBlocks
  \/ ReadsPast \/ ReadStackUse
  \/ StoresSp \/ BackupRa \/ NoRaBackup
  \/ StoresS7 \/ BackupFp \/ NoFpBackup
  \/ \E n \in 0 .. size : BackupGprs(n) \/ BackupFprs(n)
  \/ CheckLayout \/ TrimFirstBlock
  \/ SkipNop \/ SkipDoubleReturn \/ CheckEpilogue
  \/ Finished

(* One thread; nothing waits. *)
Spec == Init /\ [][Next]_vars /\ WF_vars(Next)

-----------------------------------------------------------------------------
(* Properties *)

(* How far the analysis is and what it has found. *)
TypeOK ==
  /\ compiled \in BOOLEAN
  /\ blocks \in Seq([start : 0 .. size, end : 0 .. size])
  /\ asm \in BOOLEAN
  /\ {prologueEnd, epilogueStart, epilogueEnd} \subseteq -1 .. size
  /\ idx \in -1 .. size + 1
  /\ prologue.nGpr \in 0 .. Len(GprBackups)
  /\ prologue.nFpr \in 0 .. Len(FprBackups)

(***************************************************************************)
(* The prologue and the epilogue taken off the blocks save and restore     *)
(* just the registers of the recorded frame, each at the place the frame   *)
(* gives it: written down again, the frame is the code.                    *)
(***************************************************************************)
FrameReadsBack ==
  prologue.epilogueOk =>
    /\ prologue.usage # 0 => Between(1, prologueEnd) = Saves(prologue)
    /\ \A k \in 0 .. prologue.nGpr + prologue.nFpr - 1 :
         LET load(i) == code[epilogueStart + i + 1]
             regs == If(prologue.ra, <<"ra">>) \o If(prologue.fp, <<"fp">>)
             n == Len(regs)
             save == code[prologueEnd - k]
         IN load(n + k).reg = save.reg /\ load(n + k).imm = save.imm

(***************************************************************************)
(* Tag and prologue, the blocks in order, and the epilogue make up the     *)
(* function: each instruction that is not padding is in one of them.       *)
(***************************************************************************)
BlocksTile ==
  prologue.epilogueOk =>
    /\ blocks[1].start = prologueEnd
    /\ blocks[Len(blocks)].end = epilogueStart
    /\ \A k \in 1 .. Len(blocks) - 1 : blocks[k].end = blocks[k + 1].start
    /\ \A k \in DOMAIN blocks : blocks[k].start <= blocks[k].end
    /\ prologueEnd <= epilogueStart
    /\ epilogueStart <= epilogueEnd
    /\ \A i \in epilogueEnd + 1 .. size - 1 : Is(i, "nop", "")

(***************************************************************************)
(* Control enters a block of a decoded function at its start, also after   *)
(* the first and the last block were cut: every branch goes to the start   *)
(* of a block, and none is left outside the blocks.                        *)
(***************************************************************************)
BranchesEnterBlocks ==
  prologue.epilogueOk =>
    \A i \in Branches :
      /\ prologueEnd <= i /\ i < epilogueStart
      /\ \E k \in DOMAIN blocks : blocks[k].start = Target(i)

(* The blocks of a decoded function divide it as control flow does: they   *)
(* leave no instruction out, and nothing jumps into the middle of one.     *)
BlocksDivideCode == BlocksTile /\ BranchesEnterBlocks

(* The analysis of a function comes to an end. *)
Termination == <>(pc \in {"done", "aborted"})

(***************************************************************************)
(* What the compiler writes is decoded: it fails no assert and is not      *)
(* taken for assembly.                                                     *)
(***************************************************************************)
CompiledIsDecoded ==
  compiled =>
    /\ pc # "aborted"
    /\ ~asm
    /\ pc = "done" => prologue.epilogueOk

(***************************************************************************)
(* "All delay slot instructions are grouped with the branch instruction":  *)
(* just when no branch targets the slot, and the branch is not itself in   *)
(* the slot of another.                                                    *)
(***************************************************************************)
DelaySlotsGrouped ==
  pc = "stack" =>
    \A i \in Branches :
      (\E k \in DOMAIN blocks : blocks[k].start <= i /\ i + 1 < blocks[k].end)
        <=> \A j \in Branches : Target(j) # i + 1 /\ j # i - 1
=============================================================================
