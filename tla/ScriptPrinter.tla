--------------------------- MODULE ScriptPrinter ---------------------------
(***************************************************************************)
(* print_scripts as a whole: each list that Scripts reads is made a form,  *)
(* whose tokens PrettyPrinter lays out, before the next list is sought.    *)
(***************************************************************************)
EXTENDS Scripts, PrettyPrinter

CONSTANTS
  Spelling   \* the number of characters of each symbol

ASSUME SpellingAssumption == Spelling \in [DOMAIN Spelling -> Nat]

VARIABLES
  printed    \* the part of text that has been laid out

allVars == <<vars, printer, printed>>

ScriptInit ==
  /\ Init
  /\ Idle
  /\ printed = 0

-----------------------------------------------------------------------------
(* Forms *)

(* What a number, a string or a label is printed with. *)
OtherLength == 1

(* The token of the object in word w; the symbol deftype has its own kind. *)
AtomToken(w) ==
  CASE words[w].kind = "EMPTY_PTR" -> Token("EMPTY_PAIR", 2)
    [] words[w].kind = "SYM_PTR" ->
         Token(IF words[w].value = "deftype" THEN "DEFTYPE" ELSE "SYMBOL",
               Spelling[words[w].value])
    [] OTHER -> Token("SYMBOL", OtherLength)

TokenOf(x) ==
  CASE x[1] = "(" -> Open
    [] x[1] = ")" -> Close
    [] x[1] = "." -> Token("DOT", 1)
    [] x[1] = "atom" -> AtomToken(x[2])

(* toTokenList: white space between what is in a list. *)
Tokens(row) ==
  FlattenSeq([i \in DOMAIN row |->
                IF i = 1 \/ row[i][1] = ")" \/ row[i - 1][1] = "("
                THEN <<TokenOf(row[i])>>
                ELSE <<Space, TokenOf(row[i])>>])

-----------------------------------------------------------------------------

(* A list has been read and not yet printed. *)
Pending == stack = << >> /\ printed < Len(text)

ReadScripts ==
  /\ layout = "idle"
  /\ ~Pending
  /\ PrintScripts
  /\ UNCHANGED <<printer, printed>>

PrintForm ==
  /\ pc = "printing"
  /\ Pending
  /\ Begin(Tokens(SubSeq(text, printed + 1, Len(text))))
  /\ UNCHANGED <<vars, printed>>

LayOutForm ==
  /\ pc = "printing"
  /\ LayOut
  /\ UNCHANGED <<vars, printed>>

FormPrinted ==
  /\ End
  /\ printed' = Len(text)
  /\ UNCHANGED vars

(* The printer takes the program with it. *)
Crash ==
  /\ layout = "crashed"
  /\ pc = "printing"
  /\ Abort
  /\ UNCHANGED <<printer, printed>>

ScriptsFinished == pc \in {"done", "aborted"} /\ UNCHANGED allVars

ScriptNext ==
  \/ ReadScripts \/ PrintForm \/ LayOutForm \/ FormPrinted \/ Crash
  \/ ScriptsFinished

(* One thread; nothing waits. *)
ScriptSpec == ScriptInit /\ [][ScriptNext]_allVars /\ WF_allVars(ScriptNext)

-----------------------------------------------------------------------------
(* Properties *)

(* All is printed or the program ends with a failure, if no pairs are in a cycle. *)
Termination == <>(pc \in {"done", "aborted"})
=============================================================================
