------------------------------ MODULE MCStrMatch ------------------------------
(***************************************************************************)
(* Every pattern of two parts: characters, classes, repetitions,           *)
(* captures, balances and frontiers, well formed and not; and every part   *)
(* captured, with another between it and the reference to it.              *)
(***************************************************************************)

EXTENDS Sequences

Parts == {<< "a" >>, << ".", "*" >>, << "a", "-" >>, << "[", "^", "a", "]", "?" >>, << "[", "a", "-", "b", "]", "+" >>,
          << "%", "d" >>, << "(" >>, << ")" >>, << "%", "1" >>}
Once == {<< "%", "b", "a", "b" >>, << "%", "f", "[", "b", "]" >>, << "$" >>, << "^" >>, << "[", "%", "]" >>, << "%" >>, << "(", ")" >>}
Refers == {<< "%", "1" >>, << ".", "*" >>, << "$" >>}
MCPatterns ==
  {<< >>} \cup {x \o y : x \in Parts \cup Once, y \in Parts \cup Once}
  \cup {<< "(" >> \o x \o << ")" >> \o y \o z : x \in Parts, y \in Parts, z \in Refers}
  \cup {<< "(", "a", "*", "(", "." , ")", "%", "1", ")", x >> : x \in {"b", "$"}}
MCSubjects == {<< >>, << "a" >>, << "a", "b" >>, << "a", "a", "b" >>, << "b", "a", "1", "a" >>}
MCLetters == << "$", "%", "(", ")", "*", "+", "-", ".", "0", "1", "?", "[", "]", "^", "a", "b", "d", "f" >>
MCClass == [d |-> {"1"}]
MCDigits == [x \in {"0", "1"} |-> IF x = "0" THEN 0 ELSE 1]
MCReplacements == {<< "keep" >>, << "%", "0" >>, << "b", "%", "1", "%" >>}
MCKeep == << "keep" >>
================================================================================
