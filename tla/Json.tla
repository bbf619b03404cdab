--------------------------------- MODULE Json ----------------------------------
(***************************************************************************)
(* JSON4Lua (json.lua): a Lua value is written as text and text is read as *)
(* a value. Strings and numbers are left to Lua itself, which reads them   *)
(* as an expression. A text is a sequence of characters; a constant, true, *)
(* false or null, counts as one.                                           *)
(***************************************************************************)
EXTENDS Integers, SequencesExt

CONSTANTS
  Values,  \* what is encoded
  Spelled, \* pairs of a value and a text that means it
  Orders,  \* the orders in which pairs may find keys: sequences of all keys
  Digits   \* the digits, the first for 0

VARIABLES
  stage,  \* "value", "text", "decoded" or "raised"
  value,  \* what the text is to mean
  text,
  result

vars == << stage, value, text, result >>

QUOTE == "\""
APOSTROPHE == "'"
BACKSLASH == "\\"
NEWLINE == "newline"
RETURN == "return"
TAB == "tab"

\* A Lua value: the text of a number or a string, or the function of a table.
Atom(t, v) == [t |-> t, v |-> v, f |-> << >>]
Str(v) == Atom("string", v)
Num(i) == Atom("number", << Digits[i + 1] >>)
Nil == Atom("nil", << >>)
null == Atom("null", << >>)
Bool(b) == Atom("boolean", << b >>)
Table(f) == [t |-> "table", v |-> << >>, f |-> f]
Array(s) == Table([k \in {Num(i) : i \in DOMAIN s} |-> s[CHOOSE i \in DOMAIN s : k = Num(i)]])

\* An error, or a text, or a value and where the scan goes on.
Raised == [ok |-> FALSE, v |-> << >>, p |-> 0]
Text(v) == [ok |-> TRUE, v |-> v, p |-> 0]
Scanned(v, p) == [ok |-> TRUE, v |-> v, p |-> p]

--------------------------------------------------------------------------------
(* Encoding *)

isEncodable(o) == o.t # "function"

\* Indices from 1 with values that can be encoded, and nothing else but n and what is left out.
Index(k) == IF k.t = "number" THEN CHOOSE i \in 0 .. 9 : k = Num(i) ELSE 0
Indices(f) == {Index(k) : k \in DOMAIN f} \ {0}
getn(f) == CHOOSE n \in 0 .. 9 : (n = 0 \/ Num(n) \in DOMAIN f) /\ Num(n + 1) \notin DOMAIN f
isArray(f) ==
  \A k \in DOMAIN f : IF Index(k) > 0 THEN isEncodable(f[k])
                      ELSE IF k = Str(<< "n" >>) THEN f[k] = Num(getn(f)) ELSE ~isEncodable(f[k])
maxIndex(f) == Max(Indices(f) \cup {0})

\* The calls of gsub, one after the other.
Replaced(s, c, by) == FoldLeft(LAMBDA t, d : t \o (IF d = c THEN by ELSE << d >>), << >>, s)
Escapes ==
  << << BACKSLASH, << BACKSLASH, BACKSLASH >> >>, << QUOTE, << BACKSLASH, QUOTE >> >>,
     << APOSTROPHE, << BACKSLASH, APOSTROPHE >> >>, << NEWLINE, << BACKSLASH, "n" >> >>, << TAB, << BACKSLASH, "t" >> >> >>
\* Mutant: the last call first, so that the backslash is replaced with those of the others.
Mutant_encodeString(s) == FoldLeft(LAMBDA t, e : Replaced(t, e[1], e[2]), s, Reverse(Escapes))
encodeString(s) == FoldLeft(LAMBDA t, e : Replaced(t, e[1], e[2]), s, Escapes)
Quoted(s) == << QUOTE >> \o encodeString(s) \o << QUOTE >>

concat(parts) == FoldLeft(LAMBDA s, part : IF s = << >> THEN part ELSE s \o << "," >> \o part, << >>, parts)
Enclosed(open, parts, close) ==
  IF \E i \in DOMAIN parts : ~parts[i].ok THEN Raised
  ELSE Text(<< open >> \o concat([i \in DOMAIN parts |-> parts[i].v]) \o << close >>)

\* A key has to be a string or a number: the others make gsub raise an error.
RECURSIVE encode(_, _)
Field(k, j, order) ==
  LET e == encode(j, order) IN
    IF k.t \notin {"string", "number"} \/ ~e.ok THEN Raised ELSE Text(Quoted(k.v) \o << ":" >> \o e.v)
encode(v, order) ==
  LET shown == SelectSeq(order, LAMBDA k : k \in DOMAIN v.f /\ isEncodable(k) /\ isEncodable(v.f[k]))
      element(i) == IF Num(i) \in DOMAIN v.f THEN v.f[Num(i)] ELSE Nil
  IN CASE v.t \in {"nil", "null"} -> Text(<< "null" >>)
       [] v.t = "string" -> Text(Quoted(v.v))
       [] v.t \in {"number", "boolean"} -> Text(v.v)
       [] v.t = "function" -> Raised
       [] v.t = "table" /\ isArray(v.f) -> Enclosed("[", [i \in 1 .. maxIndex(v.f) |-> encode(element(i), order)], "]")
       [] OTHER -> Enclosed("{", [i \in DOMAIN shown |-> Field(shown[i], v.f[shown[i]], order)], "}")

--------------------------------------------------------------------------------
(* Decoding *)

\* string.sub(s, p, p): nothing behind the end.
At(s, p) == IF p \in DOMAIN s THEN s[p] ELSE "nothing"
Space == {" ", NEWLINE, TAB, RETURN}

RECURSIVE decode_scanWhitespace(_, _)
decode_scanWhitespace(s, p) == IF At(s, p) \in Space THEN decode_scanWhitespace(s, p + 1) ELSE p

\* Where */ begins behind the start of a comment.
decode_scanComment(s, p) ==
  LET ends == {q \in p + 2 .. Len(s) : s[q] = "*" /\ At(s, q + 1) = "/"} IN
    IF ends = {} THEN 0 ELSE Min(ends) + 2

decode_scanConstant(s, p) ==
  CASE At(s, p) \in {"true", "false"} -> Scanned(Bool(s[p]), p + 1)
    [] At(s, p) = "null" -> Scanned(Nil, p + 1)
    [] OTHER -> Raised

RECURSIVE digits(_, _)
digits(s, p) == IF At(s, p) \in ToSet(Digits) THEN digits(s, p + 1) ELSE p
\* Digits only: what Lua makes of signs and exponents is left to it.
decode_scanNumber(s, p) == Scanned(Atom("number", SubSeq(s, p, digits(s, p) - 1)), digits(s, p))

\* The string that Lua reads from p up to q - 1: no line may end in it, but after a backslash.
RECURSIVE loadstring(_, _, _)
loadstring(s, p, q) ==
  LET d == At(s, p + 1)
      c == IF d = "n" THEN NEWLINE ELSE IF d = "t" THEN TAB ELSE IF d = RETURN THEN NEWLINE ELSE d
      rest == loadstring(s, IF s[p] = BACKSLASH THEN p + 2 ELSE p + 1, q)
  IN IF p >= q THEN Text(<< >>)
     ELSE IF s[p] \in {NEWLINE, RETURN} THEN Raised
     ELSE [rest EXCEPT !.v = << IF s[p] = BACKSLASH THEN c ELSE s[p] >> \o @]

\* The quote that ends the string, of the kind that begins it.
RECURSIVE closing(_, _, _)
closing(s, p, quote) ==
  IF p > Len(s) THEN 0
  ELSE IF s[p] = BACKSLASH THEN closing(s, p + 2, quote)
  ELSE IF s[p] = quote THEN p ELSE closing(s, p + 1, quote)
decode_scanString(s, p) ==
  LET q == closing(s, p + 1, s[p])
      r == loadstring(s, p + 1, q)
  IN IF q = 0 \/ ~r.ok THEN Raised ELSE Scanned(Str(r.v), q + 1)

RECURSIVE decode(_, _)

\* table.insert of nil leaves the array as it is.
Inserted(array, v) == IF v = Nil THEN array ELSE Append(array, v)

\* Behind the comma, when there is one.
Behind(s, p) == LET q == decode_scanWhitespace(s, p) IN IF At(s, q) = "," THEN decode_scanWhitespace(s, q + 1) ELSE q

RECURSIVE decode_scanArray(_, _, _)
decode_scanArray(s, p, array) ==
  LET q == decode_scanWhitespace(s, p)
      r == decode(s, Behind(s, p))
  IN IF At(s, q) = "]" THEN Scanned(Array(array), q + 1)
     ELSE IF ~r.ok THEN Raised ELSE decode_scanArray(s, r.p, Inserted(array, r.v))

\* object[key] = value: a key that is no string or number cannot be put in the
\* message of the assertion, a value of nil takes the field away.
Set(f, k, v) ==
  IF v = Nil THEN [x \in DOMAIN f \ {k} |-> f[x]]
  ELSE [x \in DOMAIN f \cup {k} |-> IF x = k THEN v ELSE f[x]]

RECURSIVE decode_scanObject(_, _, _)
decode_scanObject(s, p, object) ==
  LET q == decode_scanWhitespace(s, p)
      key == decode(s, Behind(s, p))
      colon == decode_scanWhitespace(s, key.p)
      v == decode(s, decode_scanWhitespace(s, colon + 1))
  IN IF At(s, q) = "}" THEN Scanned(Table(object), q + 1)
     ELSE IF ~key.ok \/ key.v.t \notin {"string", "number"} \/ At(s, colon) # ":" \/ ~v.ok THEN Raised
     ELSE decode_scanObject(s, v.p, Set(object, key.v, v.v))

decode(s, p) ==
  LET q == decode_scanWhitespace(s, p)
      c == At(s, q)
      comment == decode_scanComment(s, q)
  IN CASE q > Len(s) -> Raised
       [] c = "{" -> decode_scanObject(s, q + 1, << >>)
       [] c = "[" -> decode_scanArray(s, q + 1, << >>)
       [] c \in ToSet(Digits) -> decode_scanNumber(s, q)
       [] c \in {QUOTE, APOSTROPHE} -> decode_scanString(s, q)
       [] c = "/" /\ At(s, q + 1) = "*" -> IF comment = 0 THEN Raised ELSE decode(s, comment)
       [] OTHER -> decode_scanConstant(s, q)

--------------------------------------------------------------------------------

Init ==
  /\ result = Nil
  /\ \/ stage = "value" /\ value \in Values /\ text = << >>
     \/ stage = "text" /\ \E w \in Spelled : value = w[1] /\ text = w[2]

Encode(order) ==
  LET e == encode(value, order) IN
    /\ stage = "value"
    /\ stage' = IF e.ok THEN "text" ELSE "raised"
    /\ text' = e.v
    /\ UNCHANGED << value, result >>

Decode ==
  LET r == decode(text, 1) IN
    /\ stage = "text"
    /\ stage' = IF r.ok THEN "decoded" ELSE "raised"
    /\ result' = IF r.ok THEN r.v ELSE Nil
    /\ UNCHANGED << value, text >>

Next == Decode \/ \E order \in Orders : Encode(order)

Spec == Init /\ [][Next]_vars

--------------------------------------------------------------------------------
(* Properties *)

\* Values that JSON has words for: tables that are arrays without holes or have names
\* for keys; and what the two functions make a difference of is left out: strings
\* with a carriage return, functions, and { n = 0 }, which is taken for an array.
RECURSIVE Plain(_)
Plain(v) ==
  CASE v.t = "string" -> RETURN \notin ToSet(v.v)
    [] v.t = "table" ->
         /\ v.f # [k \in {Str(<< "n" >>)} |-> Num(0)]
         /\ DOMAIN v.f = {Num(i) : i \in 1 .. Cardinality(DOMAIN v.f)} \/ \A k \in DOMAIN v.f : k.t = "string" /\ Plain(k)
         /\ \A k \in DOMAIN v.f : Plain(v.f[k]) /\ v.f[k].t # "nil"
    [] OTHER -> v.t \notin {"function", "null"}

\* A plain value comes back from its text, whatever it is made of and in whatever order
\* its keys are written, and so does a value that someone else has spelled.
ComesBack == Plain(value) => stage # "raised" /\ (stage = "decoded" => result = value)
================================================================================
