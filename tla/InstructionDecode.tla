-------------------------- MODULE InstructionDecode --------------------------
(***************************************************************************)
(* decode_instruction (Disasm/InstructionDecode.cpp) and                   *)
(* Instruction::to_string (Disasm/Instruction.cpp): a word of code becomes *)
(* an opcode, its atoms are read by the steps that OpcodeInfo.cpp lists    *)
(* for the opcode, an immediate may give way to what the word is linked    *)
(* to, and the instruction is printed.                                     *)
(*                                                                         *)
(* A word is its six fields; opcodes are the names of InstructionKind in   *)
(* small letters, and "" stands for UNKNOWN.  A failed assert ends the     *)
(* program: pc = "aborted".  The names of registers are pairs of kind and  *)
(* number: within a kind they all differ (Register.cpp:13-40).             *)
(***************************************************************************)
EXTENDS Integers, Sequences, FiniteSets, SequencesExt

CONSTANTS
  Words,       \* records [op, rs, rt, rd, sa, fn]
  WordId       \* the position of the word in its segment

Width == [op |-> 6, rs |-> 5, rt |-> 5, rd |-> 5, sa |-> 5, fn |-> 6]

ASSUME WordsAssumption ==
  /\ WordId \in Nat
  /\ \A w \in Words : /\ DOMAIN w = DOMAIN Width
                      /\ \A f \in DOMAIN Width : w[f] \in 0 .. 2^Width[f] - 1

Links == {"plain", "sym_offset", "hi_ptr", "lo_ptr"}

VARIABLES
  word,        \* the word's bits
  link,        \* and its LinkedWord::Kind
  pc, step,    \* where decode_instruction stands; the steps done
  insn,        \* the Instruction: [kind, src, dst, il, bc, dest], -1 for 0xff
  text         \* what to_string returns

vars == <<word, link, pc, step, insn, text>>

-----------------------------------------------------------------------------
(* The opcodes, as the tables of the processor's manual: eight to a row.   *)

opcode_table ==
  <<"SPECIAL", "REGIMM", "",     "",     "beq",  "bne",  "blez", "bgtz",
    "",        "addiu",  "slti", "sltiu", "andi", "ori", "xori", "lui",
    "COP0",    "COP1",   "COP2", "",     "beql", "bnel", "",     "bgtzl",
    "",        "daddiu", "ldl",  "ldr",  "MMI",  "",     "lq",   "sq",
    "lb",      "lh",     "lwl",  "lw",   "lbu",  "lhu",  "lwr",  "lwu",
    "sb",      "sh",     "",     "sw",   "",     "",     "",     "CACHE",
    "",        "lwc1",   "",     "pref", "",     "",     "lqc2", "ld",
    "",        "swc1",   "",     "",     "",     "",     "sqc2", "sd">>

special_table ==
  <<"sll",   "",       "srl",  "sra",  "sllv",    "",      "",      "",
    "jr",    "jalr",   "movz", "movn", "syscall", "",      "",      "SYNC",
    "mfhi",  "",       "mflo", "",     "dsllv",   "",      "dsrlv", "dsrav",
    "mult3", "multu3", "div",  "divu", "",        "",      "",      "",
    "",      "addu",   "",     "subu", "and",     "or",    "xor",   "nor",
    "",      "",       "slt",  "sltu", "",        "daddu", "",      "dsubu",
    "",      "",       "",     "",     "",        "",      "",      "",
    "dsll",  "",       "dsrl", "dsra", "dsll32",  "",      "dsrl32", "dsra32">>

mmi_table ==
  [n \in 0 .. 63 |->
     CASE n = 4 -> "plzcw"  [] n = 8 -> "MMI0"   [] n = 9 -> "MMI2"
       [] n = 18 -> "mflo1" [] n = 19 -> "mtlo1" [] n = 40 -> "MMI1"
       [] n = 41 -> "MMI3"  [] n = 48 -> "PMFHL" [] n = 52 -> "psllh"
       [] n = 54 -> "psrlh" [] n = 55 -> "psrah" [] n = 60 -> "psllw"
       [] n = 63 -> "psraw" [] OTHER -> ""]

mmi0_table ==
  <<"paddw", "psubw", "pcgtw",  "pmaxw", "paddh", "", "",       "pmaxh",
    "",      "",      "",       "",      "",      "", "",       "",
    "",      "",      "pextlw", "ppacw", "",      "", "pextlh", "ppach",
    "",      "",      "pextlb", "ppacb", "",      "", "",       "">>

mmi1_table ==
  <<"", "pabsw", "pceqw",  "pminw", "", "", "",       "pminh",
    "", "",      "pceqb",  "",      "", "", "",       "",
    "", "",      "pextuw", "",      "", "", "pextuh", "",
    "", "",      "pextub", "",      "", "", "",       "">>

mmi2_table ==
  <<"",       "", "",     "", "",       "", "",       "",
    "",       "", "",     "", "",       "", "pcpyld", "",
    "pmaddh", "", "pand", "", "",       "", "",       "",
    "",       "", "",     "", "pmulth", "", "pexew",  "prot3w">>

mmi3_table ==
  <<"", "", "",       "",      "", "", "",       "",
    "", "", "pinteh", "",      "", "", "pcpyud", "",
    "", "", "por",    "pnor",  "", "", "",       "",
    "", "", "",       "pcpyh", "", "", "",       "">>

S_table ==
  <<"add.s",  "sub.s", "mul.s",  "div.s", "sqrt.s",  "abs.s",  "mov.s",   "neg.s",
    "",       "",      "",       "",      "",        "",       "",        "",
    "",       "",      "",       "",      "",        "",       "rsqrt.s", "",
    "adda.s", "",      "mula.s", "",      "madd.s",  "msub.s", "madda.s", "msuba.s",
    "",       "",      "",       "",      "cvt.w.s", "",       "",        "",
    "max.s",  "min.s", "",       "",      "",        "",       "",        "",
    "",       "",      "c.eq.s", "",      "c.lt.s",  "",       "c.le.s",  "",
    "",       "",      "",       "",      "",        "",       "",        "">>

(* COP2 by the function.  Where four opcodes in a row differ by the        *)
(* component they broadcast, they are one kind.                            *)
vu_rows == <<"vadd_bc", "vsub_bc", "vmadd_bc", "vmsub_bc", "vmax_bc", "vmini_bc", "vmul_bc">>

vu_table ==
  [n \in 0 .. 59 |->
     CASE n < 28 -> vu_rows[n \div 4 + 1]
       [] n = 28 -> "vmulq" [] n = 32 -> "vaddq"   [] n = 36 -> "vsubq"
       [] n = 37 -> "vmsubq" [] n = 40 -> "vadd"   [] n = 41 -> "vmadd"
       [] n = 42 -> "vmul"  [] n = 43 -> "vmax"    [] n = 44 -> "vsub"
       [] n = 45 -> "vmsub" [] n = 46 -> "vopmsub" [] n = 47 -> "vmini"
       [] n = 50 -> "viaddi" [] n = 52 -> "viand"  [] n = 56 -> "vcallms"
       [] OTHER -> ""]

(* Functions 60 to 63 go by sa; four to a row. *)
vu_sa_table ==
  <<"vadda_bc",  "vadda_bc",  "vadda_bc",  "vadda_bc",
    "",          "",          "",          "",
    "vmadda_bc", "vmadda_bc", "vmadda_bc", "vmadda_bc",
    "vmsuba_bc", "vmsuba_bc", "vmsuba_bc", "vmsuba_bc",
    "vitof0",    "",          "vitof12",   "vitof15",
    "vftoi0",    "vftoi4",    "vftoi12",   "",
    "vmula_bc",  "vmula_bc",  "vmula_bc",  "vmula_bc",
    "vmulaq",    "vabs",      "",          "vclip",
    "",          "",          "",          "",
    "",          "",          "",          "",
    "vadda",     "vmadda",    "vmula",     "",
    "",          "",          "vopmula",   "vnop",
    "vmove",     "",          "",          "",
    "vlqi",      "vsqi",      "",          "",
    "vdiv",      "vsqrt",     "vrsqrt",    "vwaitq",
    "vmtir",     "",          "",          "",
    "vrnext",    "vrget",     "",          "vrxor">>

Entry(table, n) == IF n < Len(table) THEN table[n + 1] ELSE ""

-----------------------------------------------------------------------------
(* decode_opcode *)

Low11(w) == 64 * w.sa + w.fn

(* rd names the register that mtpc and mfpc share with the opcode. *)
NamesPerf(w) == w.rd = 25 /\ w.sa = 0 /\ w.fn % 2 = 1

decode_cop0(w) ==
  CASE w.rs = 0 /\ Low11(w) = 0 -> "mfc0"
    [] w.rs = 0 /\ Low11(w) # 0 /\ NamesPerf(w) -> "mfpc"
    [] w.rs = 4 /\ Low11(w) = 0 -> "mtc0"
    [] w.rs = 4 /\ Low11(w) = 4 -> "mtdab"
    [] w.rs = 4 /\ Low11(w) = 5 -> "mtdabm"
    [] w.rs = 4 /\ Low11(w) \notin {0, 4, 5} /\ NamesPerf(w) -> "mtpc"
    [] w.rs = 16 /\ w.fn = 24 -> "eret"
    [] w.rs = 16 /\ w.fn = 56 -> "ei"
    [] OTHER -> ""

decode_cop1(w) ==
  CASE w.rs = 0 -> "mfc1"
    [] w.rs = 4 -> "mtc1"
    [] w.rs = 8 -> Entry(<<"bc1f", "bc1t", "bc1fl", "bc1tl">>, w.rt)
    [] w.rs = 16 -> Entry(S_table, w.fn)
    [] w.rs = 20 /\ w.fn = 32 -> "cvt.s.w"
    [] OTHER -> ""

decode_cop2(w) ==
  CASE Low11(w) \in {0, 1} -> Entry(<<"", "qmfc2", "cfc2", "", "", "qmtc2", "ctc2">>, w.rs)
    [] Low11(w) > 1 /\ w.fn >= 60 -> Entry(vu_sa_table, 4 * w.sa + w.fn - 60)
    [] OTHER -> vu_table[w.fn]

decode_mmi(w) ==
  LET kind == mmi_table[w.fn]
  IN CASE kind = "MMI0" -> Entry(mmi0_table, w.sa)
       [] kind = "MMI1" -> Entry(mmi1_table, w.sa)
       [] kind = "MMI2" -> Entry(mmi2_table, w.sa)
       [] kind = "MMI3" -> Entry(mmi3_table, w.sa)
       [] kind = "PMFHL" -> Entry(<<"pmfhl.lw", "pmfhl.uw", "", "pmfhl.lh">>, w.sa)
       [] OTHER -> kind

decode_special(w) ==
  LET kind == Entry(special_table, w.fn)
  IN IF kind # "SYNC" THEN kind
     ELSE CASE w.sa = 0 -> "sync.l" [] w.sa = 16 -> "sync.p" [] OTHER -> ""

decode_regimm(w) ==
  IF w.rt = 17 THEN "bgezal" ELSE Entry(<<"bltz", "bgez", "bltzl", "bgezl">>, w.rt)

decode_opcode(w) ==
  LET kind == Entry(opcode_table, w.op)
  IN CASE kind = "SPECIAL" -> decode_special(w)
       [] kind = "REGIMM" -> decode_regimm(w)
       [] kind = "COP0" -> decode_cop0(w)
       [] kind = "COP1" -> decode_cop1(w)
       [] kind = "COP2" -> decode_cop2(w)
       [] kind = "MMI" -> decode_mmi(w)
       [] kind = "CACHE" -> IF w.rt = 20 THEN "cache_dxwbin" ELSE ""
       [] OTHER -> kind

(* The asserts of decode_opcode: fields that have to be zero,              *)
MustBeZero(kind) ==
  CASE kind \in {"sll", "srl", "sra", "dsll", "dsrl", "dsra", "dsll32", "dsrl32",
                 "dsra32", "lui", "pcpyh"} -> {"rs"}
    [] kind \in {"sllv", "movz", "movn", "dsllv", "dsrlv", "dsrav", "mult3", "multu3",
                 "addu", "subu", "and", "or", "xor", "nor", "slt", "sltu"} -> {"sa"}
    [] kind \in {"jr", "mtlo1"} -> {"rt", "rd", "sa"}
    [] kind \in {"jalr", "plzcw"} -> {"rt", "sa"}
    [] kind \in {"mfhi", "mflo", "mflo1"} -> {"rs", "rt", "sa"}
    [] kind \in {"div", "divu"} -> {"rd", "sa"}
    [] kind = "ei" -> {"rt", "rd", "sa"}
    [] kind \in {"mfc1", "mtc1"} -> {"sa", "fn"}
    [] kind \in {"pmfhl.lw", "pmfhl.uw", "pmfhl.lh"} -> {"rs", "rt"}
    [] kind \in {"bgtzl", "mov.s", "neg.s", "cvt.w.s", "cvt.s.w", "vmulaq", "vmulq",
                 "vmsubq", "vrxor"} -> {"rt"}
    [] kind \in {"sqrt.s", "vsqrt", "vrnext", "vrget"} -> {"rd"}
    [] kind \in {"adda.s", "mula.s", "madda.s", "msuba.s", "c.eq.s", "c.lt.s", "c.le.s"}
         -> {"sa"}
    [] kind \in {"vnop", "vwaitq"} -> {"rt", "rd"}
    [] OTHER -> {}

(* Mutant: DEST with the bit that tells VU opcodes from moves. *)
destWithBit25(w) == w.rs

dest(w) == w.rs % 16
bit25(w) == w.rs >= 16

VuKinds == ({vu_table[n] : n \in DOMAIN vu_table} \cup Range(vu_sa_table)) \ {""}

(* and those with another value.  sync is looked at before its kind is known. *)
OpcodeAsserts(w) ==
  LET kind == decode_opcode(w)
  IN /\ \A f \in MustBeZero(kind) : w[f] = 0
     /\ w.op = 0 /\ w.fn = 15 => w.rs = 0 /\ w.rt = 0 /\ w.rd = 0
     /\ kind \in {"mtdab", "mtdabm"} => w.rd = 24
     /\ kind \in VuKinds \ {"vnop", "vwaitq"} => bit25(w)
     /\ kind \in {"vclip", "vopmula", "vopmsub"} => dest(w) = 14
     /\ kind \in {"vnop", "vwaitq", "viaddi", "viand", "vcallms"} => dest(w) = 0
     /\ kind = "vsqrt" => w.rs % 4 = 0
     /\ kind \in {"vmtir", "vrxor"} => (w.rs \div 4) % 4 = 0

-----------------------------------------------------------------------------
(* gOpcodeInfo: the steps that read the operands, and their classes.       *)

src(field, decode) == [is_src |-> TRUE, field |-> field, decode |-> decode]
dst(field, decode) == [is_src |-> FALSE, field |-> field, decode |-> decode]

drt_srs_ssimm16 == <<dst("rt", "gpr"), src("rs", "gpr"), src("simm16", "imm")>>
drt_srs_szimm16 == <<dst("rt", "gpr"), src("rs", "gpr"), src("zimm16", "imm")>>
srt_ssimm16_srs == <<src("rt", "gpr"), src("simm16", "imm"), src("rs", "gpr")>>
(* Mutant: a load takes its destination for a source, as stores do. *)
srt_ssimm16_srs_of_load == srt_ssimm16_srs
drt_ssimm16_srs == <<dst("rt", "gpr"), src("simm16", "imm"), src("rs", "gpr")>>
drd_srs_srt == <<dst("rd", "gpr"), src("rs", "gpr"), src("rt", "gpr")>>
(* Mutant: the shift amount of a variable shift is in the wrong register. *)
drd_srt_srt == <<dst("rd", "gpr"), src("rt", "gpr"), src("rt", "gpr")>>

drd_srt_srs == <<dst("rd", "gpr"), src("rt", "gpr"), src("rs", "gpr")>>
drd_srt_ssa == <<dst("rd", "gpr"), src("rt", "gpr"), src("sa", "imm")>>
bt == <<src("simm16", "branch_target")>>
srs_bt == <<src("rs", "gpr")>> \o bt
srs_srt_bt == <<src("rs", "gpr"), src("rt", "gpr")>> \o bt
sfs_sft == <<src("fs", "fpr"), src("ft", "fpr")>>
dfd_sfs_sft == <<dst("fd", "fpr")>> \o sfs_sft
dfd_sfs == <<dst("fd", "fpr"), src("fs", "fpr")>>
cd == <<src("dest", "dest")>>
cb == <<src("bc", "bc")>>
il == <<src("il", "il")>>
sq == <<src("zero", "vu_q")>>
dq == <<dst("zero", "vu_q")>>
dacc == <<dst("zero", "vu_acc")>>
svfs_svft == <<src("fs", "vf"), src("ft", "vf")>>
cd_dvft_svfs == cd \o <<dst("ft", "vf"), src("fs", "vf")>>
cd_dvfd_svfs_svft == cd \o <<dst("fd", "vf")>> \o svfs_svft
cd_dvfd_svfs_sq == cd \o <<dst("fd", "vf"), src("fs", "vf")>> \o sq
cd_dacc_svfs_svft == cd \o dacc \o svfs_svft

IntegerSteps(kind) ==
  CASE kind \in {"daddiu", "addiu", "slti", "sltiu"} -> drt_srs_ssimm16
    [] kind \in {"ori", "xori", "andi"} -> drt_srs_szimm16
    [] kind \in {"sb", "sh", "sw", "sd", "sq", "pref"} -> srt_ssimm16_srs
    [] kind \in {"lb", "lbu", "lh", "lhu", "lw", "lwu", "ld", "lq", "ldr", "ldl", "lwl",
                 "lwr"} -> drt_ssimm16_srs
    [] kind \in {"sll", "sra", "srl", "dsll", "dsll32", "dsra", "dsra32", "dsrl", "dsrl32",
                 "psllw", "psllh", "psraw", "psrah", "psrlh"} -> drd_srt_ssa
    [] kind \in {"dsrav", "sllv", "dsllv", "dsrlv"} -> drd_srt_srs
    [] kind \in {"beq", "bne", "beql", "bnel"} -> srs_srt_bt
    [] kind \in {"bltz", "bgez", "blez", "bgtz", "bgezal", "bltzl", "bgtzl", "bgezl"} -> srs_bt
    [] kind \in {"div", "divu"} -> <<src("rs", "gpr"), src("rt", "gpr")>>
    [] kind = "lui" -> <<dst("rt", "gpr"), src("simm16", "imm")>>
    [] kind \in {"jalr", "plzcw"} -> <<dst("rd", "gpr"), src("rs", "gpr")>>
    [] kind \in {"jr", "mtlo1"} -> <<src("rs", "gpr")>>
    [] kind \in {"mtdab", "mtdabm"} -> <<src("rt", "gpr")>>
    [] kind = "mtc0" -> <<src("rt", "gpr"), dst("rd", "cop0")>>
    [] kind = "mfc0" -> <<dst("rt", "gpr"), src("rd", "cop0")>>
    [] kind = "mtpc" -> <<src("rt", "gpr"), dst("pcr", "pcr")>>
    [] kind = "mfpc" -> <<dst("rt", "gpr"), src("pcr", "pcr")>>
    [] kind \in {"mfhi", "mflo", "mflo1", "pmfhl.uw", "pmfhl.lw", "pmfhl.lh"}
         -> <<dst("rd", "gpr")>>
    [] kind = "syscall" -> <<src("syscall", "imm")>>
    [] kind = "cache_dxwbin" -> <<src("rs", "gpr"), src("simm16", "imm")>>
    [] kind \in {"sync.p", "sync.l", "eret", "ei"} -> << >>
    [] kind \in {"pabsw", "prot3w", "pcpyh"} -> <<dst("rd", "gpr"), src("rt", "gpr")>>
    [] OTHER -> drd_srs_srt

FloatSteps(kind) ==
  CASE kind = "lwc1" -> <<dst("ft", "fpr"), src("simm16", "imm"), src("rs", "gpr")>>
    [] kind = "swc1" -> <<src("ft", "fpr"), src("simm16", "imm"), src("rs", "gpr")>>
    [] kind = "mfc1" -> <<dst("rt", "gpr"), src("fs", "fpr")>>
    [] kind = "mtc1" -> <<src("rt", "gpr"), dst("fs", "fpr")>>
    [] kind \in {"bc1f", "bc1t", "bc1fl", "bc1tl"} -> bt
    [] kind \in {"abs.s", "neg.s", "cvt.s.w", "cvt.w.s", "mov.s", "sqrt.s"} -> dfd_sfs
    [] kind \in {"c.lt.s", "c.le.s", "c.eq.s", "mula.s", "madda.s", "adda.s", "msuba.s"}
         -> sfs_sft
    [] OTHER -> dfd_sfs_sft

VuSteps(kind) ==
  CASE kind = "sqc2" -> <<src("ft", "vf"), src("simm16", "imm"), src("rs", "gpr")>>
    [] kind = "lqc2" -> <<dst("ft", "vf"), src("simm16", "imm"), src("rs", "gpr")>>
    [] kind \in {"vmove", "vftoi0", "vftoi4", "vftoi12", "vitof0", "vitof12", "vitof15",
                 "vabs"} -> cd_dvft_svfs
    [] kind \in Range(vu_rows) -> cb \o cd_dvfd_svfs_svft
    [] kind \in {"vadda_bc", "vmadda_bc", "vmula_bc", "vmsuba_bc"} -> cb \o cd_dacc_svfs_svft
    [] kind \in {"vaddq", "vsubq", "vmulq", "vmsubq"} -> cd_dvfd_svfs_sq
    [] kind \in {"vmula", "vadda", "vmadda", "vopmula"} -> cd_dacc_svfs_svft
    [] kind \in {"vdiv", "vrsqrt"} -> dq \o svfs_svft \o cb
    [] kind = "vclip" -> cd \o svfs_svft
    [] kind = "vmulaq" -> cd \o dacc \o <<src("fs", "vf")>> \o sq
    [] kind \in {"vrget", "vrnext"} -> cd \o <<dst("ft", "vf")>>
    [] kind = "vmtir" -> <<dst("rt", "vi"), src("fs", "vf")>> \o cb
    [] kind = "viand" -> <<dst("fd", "vi"), src("fs", "vi"), src("ft", "vi")>>
    [] kind = "vlqi" -> cd \o <<dst("ft", "vf"), src("fs", "vi")>>
    [] kind = "vsqi" -> cd \o <<src("fs", "vf"), src("ft", "vi")>>
    [] kind = "viaddi" -> <<dst("ft", "vi"), src("fs", "vi"), src("imm5", "imm")>>
    [] kind = "qmfc2" -> il \o <<dst("rt", "gpr"), src("fs", "vf")>>
    [] kind = "qmtc2" -> il \o <<src("rt", "gpr"), dst("fs", "vf")>>
    [] kind = "ctc2" -> il \o <<src("rt", "gpr"), dst("rd", "vi")>>
    [] kind = "cfc2" -> il \o <<dst("rt", "gpr"), src("rd", "vi")>>
    [] kind = "vsqrt" -> cb \o dq \o <<src("ft", "vf")>>
    [] kind = "vrxor" -> cb \o <<src("fs", "vf")>>
    [] kind = "vcallms" -> <<src("imm15", "vcallms_target")>>
    [] kind \in {"vnop", "vwaitq"} -> << >>
    [] OTHER -> cd_dvfd_svfs_svft

FloatKinds ==
  (Range(S_table) \cup {"lwc1", "swc1", "mfc1", "mtc1", "bc1f", "bc1t", "bc1fl", "bc1tl",
                        "cvt.s.w"}) \ {""}

steps(kind) ==
  CASE kind \in VuKinds \cup {"sqc2", "lqc2", "qmfc2", "qmtc2", "ctc2", "cfc2"} -> VuSteps(kind)
    [] kind \in FloatKinds -> FloatSteps(kind)
    [] OTHER -> IntegerSteps(kind)

is_branch ==
  {"beq", "bne", "beql", "bnel", "bltz", "bgez", "blez", "bgtz", "bgezal", "bltzl",
   "bgtzl", "bgezl", "bc1f", "bc1t", "bc1fl", "bc1tl"}
is_store == {"sb", "sh", "sw", "sd", "sq", "swc1", "sqc2"}
is_load == {"lb", "lbu", "lh", "lhu", "lw", "lwu", "ld", "lq", "ldr", "ldl", "lwl", "lwr",
            "lwc1", "lqc2"}

(* The broadcasting opcodes have the names of those that do not. *)
name(kind) ==
  LET plain == CASE kind = "vadd_bc" -> "vadd"     [] kind = "vsub_bc" -> "vsub"
                 [] kind = "vmadd_bc" -> "vmadd"   [] kind = "vmsub_bc" -> "vmsub"
                 [] kind = "vmax_bc" -> "vmax"     [] kind = "vmini_bc" -> "vmini"
                 [] kind = "vmul_bc" -> "vmul"     [] kind = "vadda_bc" -> "vadda"
                 [] kind = "vmadda_bc" -> "vmadda" [] kind = "vmula_bc" -> "vmula"
                 [] kind = "vmsuba_bc" -> "vmsuba" [] OTHER -> kind
  IN IF kind = "" THEN ";; ??????" ELSE plain

-----------------------------------------------------------------------------
(* decode_instruction *)

imm16(w) == 2048 * w.rd + 64 * w.sa + w.fn

(* OpcodeFields: what a step reads. *)
value(w, field) ==
  CASE field = "rs" -> w.rs
    [] field \in {"rt", "ft"} -> w.rt
    [] field \in {"rd", "fs"} -> w.rd
    [] field \in {"sa", "fd", "imm5"} -> w.sa
    [] field = "simm16" -> IF w.rd >= 16 THEN imm16(w) - 65536 ELSE imm16(w)
    [] field = "zimm16" -> imm16(w)
    [] field = "syscall" -> 32768 * w.rs + 1024 * w.rt + 32 * w.rd + w.sa
    [] field = "pcr" -> w.fn \div 2
    [] field = "dest" -> dest(w)
    [] field = "bc" -> w.fn % 4
    [] field = "il" -> w.fn % 2
    [] field = "imm15" -> 1024 * w.rt + 32 * w.rd + w.sa
    [] field = "zero" -> 0

atom(w, s) ==
  LET v == value(w, s.field)
  IN CASE s.decode = "branch_target" -> <<"label", 4 * (WordId + v + 1)>>
       [] s.decode = "vcallms_target" -> <<"imm", 8 * v>>
       [] OTHER -> <<s.decode, v>>

(* What is in a word of each kind of link. *)
Linked == [sym_offset |-> <<"sym", 0>>, hi_ptr |-> <<"label", 0>>, lo_ptr |-> <<"label", 0>>]

Init ==
  /\ word \in Words
  /\ link \in Links
  /\ pc = "opcode"
  /\ step = 0
  /\ insn = [kind |-> "", src |-> << >>, dst |-> << >>, il |-> -1, bc |-> -1, dest |-> -1]
  /\ text = << >>

Abort ==
  /\ pc' = "aborted"
  /\ UNCHANGED <<word, link, step, insn, text>>

(* An unknown opcode returns early: its link is not looked at. *)
DecodeOpcode ==
  /\ pc = "opcode"
  /\ OpcodeAsserts(word)
  /\ insn' = [insn EXCEPT !.kind = decode_opcode(word)]
  /\ pc' = IF decode_opcode(word) = "" THEN "print" ELSE "steps"
  /\ UNCHANGED <<word, link, step, text>>

OpcodeAborts == pc = "opcode" /\ ~OpcodeAsserts(word) /\ Abort

Todo == SubSeq(steps(insn.kind), step + 1, Len(steps(insn.kind)))

(* A step that sets a property of the instruction adds no atom. *)
SetProperty ==
  /\ pc = "steps"
  /\ Todo # << >>
  /\ LET s == Head(Todo)
     IN /\ s.decode \in {"il", "bc", "dest"}
        /\ insn' = [insn EXCEPT ![s.decode] = value(word, s.field)]
  /\ step' = step + 1
  /\ UNCHANGED <<word, link, pc, text>>

(* There are two performance counters (Register.cpp:104), and add_src and  *)
(* add_dst take up to three sources and one destination.                   *)
CanAdd(s) ==
  /\ s.decode = "pcr" => value(word, s.field) < 2
  /\ IF s.is_src THEN Len(insn.src) < 3 ELSE Len(insn.dst) < 1

AddAtom ==
  /\ pc = "steps"
  /\ Todo # << >>
  /\ LET s == Head(Todo)
     IN /\ s.decode \notin {"il", "bc", "dest"}
        /\ CanAdd(s)
        /\ insn' = IF s.is_src THEN [insn EXCEPT !.src = Append(@, atom(word, s))]
                   ELSE [insn EXCEPT !.dst = Append(@, atom(word, s))]
  /\ step' = step + 1
  /\ UNCHANGED <<word, link, pc, text>>

AtomAborts ==
  /\ pc = "steps"
  /\ Todo # << >>
  /\ Head(Todo).decode \notin {"il", "bc", "dest"}
  /\ ~CanAdd(Head(Todo))
  /\ Abort

Imms == {i \in DOMAIN insn.src : insn.src[i][1] = "imm"}

(* Mutant: links that no operand takes are passed over. *)
LinkFitsAnywhere ==
  /\ link = "hi_ptr" => insn.kind = "lui"
  /\ link = "lo_ptr" => insn.kind = "ori"

(* The halves of a pointer belong to lui and ori; and there has to be an   *)
(* immediate.                                                              *)
LinkFits ==
  /\ link = "hi_ptr" => insn.kind = "lui"
  /\ link = "lo_ptr" => insn.kind = "ori"
  /\ link # "plain" => Imms # {}

LinkImmediates ==
  /\ pc = "steps"
  /\ Todo = << >>
  /\ LinkFits
  /\ insn' = IF link = "plain" THEN insn
             ELSE [insn EXCEPT !.src = [i \in DOMAIN @ |-> IF i \in Imms THEN Linked[link]
                                                           ELSE @[i]]]
  /\ pc' = "print"
  /\ UNCHANGED <<word, link, step, text>>

LinkAborts == pc = "steps" /\ Todo = << >> /\ ~LinkFits /\ Abort

(* to_string.  Stores and loads have a syntax of their own.                *)
Printable ==
  /\ insn.kind \in is_store => Len(insn.dst) = 0 /\ Len(insn.src) = 3
  /\ insn.kind \in is_load => Len(insn.dst) = 1 /\ Len(insn.src) = 2

to_string ==
  /\ pc = "print"
  /\ pc' = IF Printable THEN "done" ELSE "aborted"
  /\ text' = <<name(insn.kind), insn.il, insn.bc, insn.dest>> \o insn.dst \o insn.src
  /\ UNCHANGED <<word, link, step, insn>>

Done == pc \in {"done", "aborted"} /\ UNCHANGED vars

Next ==
  \/ DecodeOpcode \/ OpcodeAborts
  \/ SetProperty \/ AddAtom \/ AtomAborts
  \/ LinkImmediates \/ LinkAborts
  \/ to_string
  \/ Done

Spec == Init /\ [][Next]_vars

-----------------------------------------------------------------------------
(* Properties                                                              *)

Registers == {"gpr", "fpr", "vf", "vi", "cop0"} \X (0 .. 31) \cup {"pcr"} \X (0 .. 1)
Immediates == {"imm"} \X (-32768 .. 2^20 - 1)
Labels == {"label"} \X (4 * (WordId - 32767) .. 4 * (WordId + 32768))
Atoms == Registers \cup Immediates \cup Labels \cup {<<"vu_q", 0>>, <<"vu_acc", 0>>, <<"sym", 0>>}

(* The parts of an Instruction and its text stay within their types: the   *)
(* arrays of three sources and one destination are never overrun, and the  *)
(* fields for COP2 hold what to_string has a letter for.                   *)
TypeOK ==
  /\ \A f \in DOMAIN Width : word[f] \in 0 .. 2^Width[f] - 1
  /\ link \in Links
  /\ pc \in {"opcode", "steps", "print", "done", "aborted"}
  /\ step \in 0 .. 5
  /\ Len(insn.src) <= 3 /\ \A i \in DOMAIN insn.src : insn.src[i] \in Atoms \cup {Linked["hi_ptr"]}
  /\ Len(insn.dst) <= 1 /\ \A i \in DOMAIN insn.dst : insn.dst[i] \in Atoms
  /\ insn.il \in -1 .. 1 /\ insn.bc \in -1 .. 3 /\ insn.dest \in -1 .. 15
  /\ pc = "done" => text # << >>

(* Once the asserts on the opcode have passed, a word that is not linked   *)
(* is decoded and printed without a failed assert: the steps of every      *)
(* opcode fit add_src, add_dst and the syntax to_string has for stores and *)
(* loads.  The one exception is a performance counter that does not exist. *)
AcceptedIsPrinted ==
  pc = "aborted" /\ link = "plain" /\ OpcodeAsserts(word) =>
    insn.kind \in {"mtpc", "mfpc"} /\ word.fn \div 2 >= 2

LabelsOf(atoms) == {i \in DOMAIN atoms : atoms[i][1] = "label"}

(* find_blocks_in_function asserts that what is_branch says is a branch    *)
(* has a label, and get_label_target that it has one only; the other       *)
(* instructions get labels from the halves of pointers alone.              *)
BranchesHaveTargets ==
  pc = "done" =>
    /\ Cardinality(LabelsOf(insn.src)) <= 1
    /\ LabelsOf(insn.src) # {} <=>
         insn.kind \in is_branch \/ (link \in {"hi_ptr", "lo_ptr"} /\ insn.kind # "")

(* The text of a decoded instruction whose word is linked shows what it is *)
(* linked to, once, and no number that the link replaces.                  *)
LinksAreShown ==
  pc = "done" /\ insn.kind # "" /\ link # "plain" =>
    /\ Cardinality({i \in DOMAIN insn.src : insn.src[i] = Linked[link]}) = 1
    /\ Imms = {}

(* What an instruction refers to is an operand of it: the target of a      *)
(* branch and what its word is linked to.                                  *)
ReferencesAreOperands == BranchesHaveTargets /\ LinksAreShown

(* The text of a word, without the steps that lead to it. *)
Listing(w) ==
  LET all == steps(decode_opcode(w))
      set(d) == IF \E i \in DOMAIN all : all[i].decode = d
                THEN value(w, (CHOOSE s \in Range(all) : s.decode = d).field) ELSE -1
      atoms(side) == LET own == SelectSeq(all, LAMBDA s : /\ s.is_src = side
                                                          /\ s.decode \notin {"il", "bc", "dest"})
                     IN [i \in DOMAIN own |-> atom(w, own[i])]
  IN <<name(decode_opcode(w)), set("il"), set("bc"), set("dest")>> \o atoms(FALSE) \o atoms(TRUE)

Flip(w, f, b) ==
  [w EXCEPT ![f] = IF (@ \div 2^b) % 2 = 1 THEN @ - 2^b ELSE @ + 2^b]

(* Fields that neither mean anything nor are looked at. *)
Ignored(kind) ==
  CASE kind \in {"daddu", "dsubu"} -> {"sa"}
    [] kind \in {"blez", "bgtz", "abs.s", "vaddq", "vsubq"} -> {"rt"}
    [] kind \in {"pabsw", "prot3w", "psllh", "psrlh", "psrah", "psllw", "psraw", "vnop",
                 "vwaitq"} -> {"rs"}
    [] kind = "eret" -> {"rt", "rd", "sa"}
    [] OTHER -> {}

(* Fields that hold an operand the text does not show: the source of       *)
(* sqrt.s, whose format reads the field the decoder asserts to be zero,    *)
(* and the components of VU operands, for which BC reads bits of the       *)
(* function.                                                               *)
NotShown(kind) ==
  CASE kind = "sqrt.s" -> {"rt"}
    [] kind \in {"vdiv", "vrsqrt", "vsqrt", "vmtir", "vrxor"} -> {"rs"}
    [] OTHER -> {}

(* A word that differs from this one in one bit, outside the given fields, *)
(* has another text or fails an assert.                                    *)
DiffersFromNeighbours(fields) ==
  \A f \in DOMAIN Width \ fields : \A b \in 0 .. Width[f] - 1 :
     LET other == Flip(word, f, b)
     IN OpcodeAsserts(other) => Listing(other) # text

(* The text is what the opcode's steps say of the word, and it tells the   *)
(* word: no two steps of an opcode read the same bits, no bits of an       *)
(* operand are forgotten, and opcodes that look alike are told apart.      *)
TextTellsWord ==
  pc = "done" /\ link = "plain" /\ insn.kind # "" =>
    /\ text = Listing(word)
    /\ DiffersFromNeighbours(Ignored(insn.kind) \cup NotShown(insn.kind))

(* "An "Instruction", consisting of a "kind" (the opcode), and the         *)
(* source/destination atoms it operates on" (Instruction.h:54): the text   *)
(* tells all that the instruction operates on.                             *)
OperandsAreShown ==
  pc = "done" /\ link = "plain" /\ insn.kind # "" =>
    DiffersFromNeighbours(Ignored(insn.kind))
=============================================================================
