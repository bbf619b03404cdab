------------------------------ MODULE MCLuaLanguage ------------------------------
(***************************************************************************)
(* Programs, tables, metatables and patterns, side by side: they share no  *)
(* state here, so Init picks one of them and the others stay as they are.  *)
(*                                                                         *)
(* Tables have four integers for keys and two strings that collide with    *)
(* them.  Of two tables either may be its own or the other's metatable and *)
(* tag method, with chains of up to two turns.                             *)
(***************************************************************************)
EXTENDS MCLuaVM, MCStrMatch, LuaTable, MetaTables

CONSTANTS t1, t2, sa, sb

ASSUME LuaTableAssumption /\ MetaTablesAssumption

VARIABLES
  part,
  str, pat, repl, op, src, n, max_s, out, result

MCStrings == {sa, sb}
MCHash == [k \in (1 .. 4) \cup {sa, sb} |-> CASE k \in {sa, 4} -> 1 [] k = sb -> 5 [] OTHER -> k]
MCTables == {t1, t2}
MCOrdinary == {"field"}
Matched == INSTANCE StrMatch WITH
  Subjects <- MCSubjects, Patterns <- MCPatterns, Replacements <- MCReplacements, Keep <- MCKeep,
  Letters <- MCLetters, Class <- MCClass, Digits <- MCDigits, LUA_MAXCAPTURES <- 2

Symmetry == Permutations({t1, t2})

patterns == << str, pat, repl, op, src, n, max_s, out, result >>

--------------------------------------------------------------------------------

NoProgram == /\ program = << >> /\ stack = << >> /\ ci = << >> /\ top = 0 /\ upval = << >>
             /\ closure = << >> /\ table = << >> /\ trace = << >> /\ outcome = Running
NoPattern == /\ str = << >> /\ pat = << >> /\ repl = << >> /\ op = "none" /\ src = 1 /\ n = 0
             /\ max_s = 0 /\ out = << >> /\ result = << >>
NoTable == hashed = Empty /\ content = [k \in Keys |-> nil] /\ next = NoTraversal

MCInit ==
  /\ \/ part = "programs" /\ Init /\ NoTable /\ NoPattern
     \/ part = "tables" /\ TableInit /\ NoProgram /\ NoPattern
     \/ part = "metatables" /\ NoProgram /\ NoTable /\ NoPattern
     \/ part = "patterns" /\ Matched!Init /\ NoProgram /\ NoTable
  /\ MetaInit

MCNext ==
  \/ part = "programs" /\ Next /\ UNCHANGED << part, tableVars, metaVars, patterns >>
  \/ part = "tables" /\ TableNext /\ UNCHANGED << part, vars, metaVars, patterns >>
  \/ part = "metatables" /\ MetaNext /\ UNCHANGED << part, vars, tableVars, patterns >>
  \/ part = "patterns" /\ Matched!Next /\ UNCHANGED << part, vars, tableVars, metaVars >>

MCSpec == MCInit /\ [][MCNext]_<< part, vars, tableVars, metaVars, patterns >>

--------------------------------------------------------------------------------
(* Properties *)

\* What the compiler makes of a program does what the program means (lparser.c,
\* lcode.c, lvm.c).
ProgramsDoWhatTheyMean == DoesWhatItMeans

\* The assertions of the compiler hold, its code passes luaG_checkcode, and the
\* frames and open upvalues of the functions that run are in the stack.
ProgramsSound == part = "programs" => CompilerSound /\ UpvaluesLive

\* A match is the first way to match the pattern, and gsub writes what it does
\* not match once and in its place (lstrlib.c).
PatternsMatchFirst == part = "patterns" => Matched!MatchIsTheFirstWay /\ Matched!WritesTheRest

\* gmatch and gsub pass over no match, and every turn of theirs moves on.
EveryMatchTaken == Matched!NoMatchPassedOver /\ Matched!EveryTurnMovesOn
================================================================================
