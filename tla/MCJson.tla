-------------------------------- MODULE MCJson ---------------------------------
(***************************************************************************)
(* Strings of every kind of character, tables of them in tables: arrays,   *)
(* objects, what is both or neither; and texts of others, with spaces and  *)
(* comments.                                                               *)
(***************************************************************************)
EXTENDS Json

MCDigits == << "0", "1", "2", "3" >>
Chars == {"a", "n", QUOTE, APOSTROPHE, BACKSLASH, NEWLINE, RETURN, TAB}
Strings == {<< >>} \cup {<< x >> : x \in Chars} \cup {<< x, y >> : x, y \in Chars}
Atoms == {Nil, null, Bool("true"), Num(0), Num(1), Atom("number", << "1", "2" >>), Atom("function", << >>)} \cup {Str(s) : s \in Strings}
Few == {Bool("false"), Num(0), Num(1), Str(<< QUOTE, "a" >>), null, Atom("function", << >>)}
Keys == << Num(1), Num(2), Num(3), Str(<< "a" >>), Str(<< "n" >>), Str(<< BACKSLASH >>), Bool("true") >>
Tables(S) == {Table(<< >>)} \cup {Table([k \in {x, y} |-> IF k = x THEN a ELSE b]) : x, y \in ToSet(Keys), a, b \in S}
Flat == Tables(Few)
Nested == Tables({Num(1), Table(<< >>), Array(<< Str(<< BACKSLASH >>), Num(1) >>), Table([k \in {Str(<< "a" >>)} |-> Array(<< Num(1) >>)])})
MCValues == Atoms \cup Flat \cup Nested
MCOrders == {Keys, Reverse(Keys)}

MCSpelled ==
  {<< Num(1), a \o << "1" >> \o b >> : a, b \in {<< >>, << " " >>, << "/", "*", "*", "a", "*", "/", " " >>, << TAB, "/", "*", "*", "/" >>}}
  \cup {<< Array(<< Num(1), Array(<< >>), Num(2) >>), << "[", "1" >> \o a \o << ",", "[" >> \o a \o << "]", "," >> \o a \o << "2", "]" >> >>
          : a \in {<< >>, << " " >>, << NEWLINE, " " >>}}
  \cup {<< Table([k \in {Str(<< "a" >>)} |-> Num(2)]), << "{" >> \o a \o << q, "a", q >> \o a \o << ":", "1", ",", q, "a", q, ":", "2" >> \o a \o << "}" >> >>
          : a \in {<< >>, << " " >>}, q \in {QUOTE, APOSTROPHE}}
================================================================================
