------------------------------- MODULE StrMatch --------------------------------
(***************************************************************************)
(* Pattern matching of the string library (lstrlib.c): the backtracking    *)
(* matcher with one set of captures that is changed and restored, and what *)
(* find, gmatch and gsub do with it. A subject and a pattern are sequences *)
(* of characters; a pattern ends with a NUL, and a character that is read  *)
(* behind it has no value, which stops the run.                            *)
(***************************************************************************)
EXTENDS Integers, SequencesExt

CONSTANTS
  Subjects, Patterns,   \* the strings
  Replacements,         \* the strings gsub puts in, or Keep
  Keep,                 \* a function that returns false: what was matched stays
  Letters,              \* the characters in the order of their codes
  Class,                \* for each letter of a class the characters in it
  Digits,               \* the digits with their value
  LUA_MAXCAPTURES

VARIABLES
  str, pat, repl,  \* what the call was given
  op,              \* "none", "gmatch", "gsub", "done" or "error"
  src,             \* how far gmatch or gsub is
  n, max_s,        \* substitutions, and how many there may be
  out,             \* what gsub has written
  result           \* the last match: [s, e, caps]

vars == << str, pat, repl, op, src, n, max_s, out, result >>

NULL == 0
Raised == -1
CAP_UNFINISHED == -1
CAP_POSITION == -2
NUL == "nul"
L_ESC == "%"
SPECIALS == {"^", "$", "*", "+", "?", ".", "(", "[", "%", "-"}

At(p) == Append(pat, NUL)[p]
Subject(s) == Append(str, NUL)[s]
Code(c) == IF c = NUL THEN 0 ELSE CHOOSE i \in DOMAIN Letters : Letters[i] = c
src_end == Len(str) + 1

\* Where a match ends, NULL or Raised, and the captures then: a sequence of [init, len].
Outcome(e, ms) == [e |-> e, ms |-> ms]

--------------------------------------------------------------------------------
(* Classes of characters *)

RECURSIVE bracketend(_)
bracketend(p) ==
  LET q == IF At(p) = L_ESC /\ At(p + 1) # NUL THEN p + 2 ELSE p + 1 IN
    IF At(p) = NUL THEN Raised ELSE IF At(q) = "]" THEN q + 1 ELSE bracketend(q)

classend(p) ==
  CASE At(p) = L_ESC -> IF At(p + 1) = NUL THEN Raised ELSE p + 2
    [] At(p) = "[" -> bracketend(IF At(p + 1) = "^" THEN p + 2 ELSE p + 1)
    [] OTHER -> p + 1

match_class(c, cl) == IF cl \in DOMAIN Class THEN c \in Class[cl] ELSE c = cl

RECURSIVE listed(_, _, _)
listed(c, p, ec) ==
  /\ p < ec
  /\ IF At(p) = L_ESC THEN match_class(c, At(p + 1)) \/ listed(c, p + 2, ec)
     ELSE IF At(p + 1) = "-" /\ p + 2 < ec
     THEN Code(c) \in Code(At(p)) .. Code(At(p + 2)) \/ listed(c, p + 3, ec)
     ELSE At(p) = c \/ listed(c, p + 1, ec)

matchbracketclass(c, p, ec) ==
  IF At(p + 1) = "^" THEN ~listed(c, p + 2, ec) ELSE listed(c, p + 1, ec)

singlematch(c, p, ep) ==
  CASE At(p) = "." -> TRUE
    [] At(p) = L_ESC -> match_class(c, At(p + 1))
    [] At(p) = "[" -> matchbracketclass(c, p, ep - 1)
    [] OTHER -> At(p) = c

--------------------------------------------------------------------------------
(* The matcher *)

RECURSIVE balanced(_, _, _, _)
balanced(s, b, e, cont) ==
  IF s >= src_end THEN NULL
  ELSE IF str[s] = e THEN (IF cont = 1 THEN s + 1 ELSE balanced(s + 1, b, e, cont - 1))
  ELSE balanced(s + 1, b, e, IF str[s] = b THEN cont + 1 ELSE cont)

matchbalance(s, p) ==
  IF At(p) = NUL \/ At(p + 1) = NUL THEN Raised
  ELSE IF Subject(s) # At(p) THEN NULL ELSE balanced(s + 1, At(p), At(p + 1), 1)

Unfinished(ms) == {l \in DOMAIN ms : ms[l].len = CAP_UNFINISHED}
capture_to_close(ms) == IF Unfinished(ms) = {} THEN Raised ELSE CHOOSE l \in Unfinished(ms) : \A k \in Unfinished(ms) : k <= l
check_capture(ms, l) == IF l \in DOMAIN ms /\ ms[l].len # CAP_UNFINISHED THEN l ELSE Raised

\* The length of a position capture, an unsigned number, is longer than any subject.
match_capture(ms, s, l) ==
  LET len == ms[l].len IN
    IF check_capture(ms, l) = Raised THEN Raised
    ELSE IF len = CAP_POSITION \/ src_end - s < len THEN NULL
    ELSE IF SubSeq(str, ms[l].init, ms[l].init + len - 1) = SubSeq(str, s, s + len - 1) THEN s + len ELSE NULL

RECURSIVE match(_, _, _)

\* The captures that match leaves, or what it leaves when it fails, undone.
start_capture(ms, s, p, what) ==
  LET r == match(Append(ms, [init |-> s, len |-> what]), s, p) IN
    IF Len(ms) >= LUA_MAXCAPTURES THEN Outcome(Raised, ms)
    ELSE IF r.e = NULL THEN Outcome(NULL, Front(r.ms)) ELSE r

\* Mutant: a capture stays closed when what follows it does not match.
Mutant_end_capture(ms, s, p) ==
  LET l == capture_to_close(ms) IN
    IF l = Raised THEN Outcome(Raised, ms) ELSE match([ms EXCEPT ![l].len = s - ms[l].init], s, p)

end_capture(ms, s, p) ==
  LET l == capture_to_close(ms)
      r == match([ms EXCEPT ![l].len = s - ms[l].init], s, p)
  IN IF l = Raised THEN Outcome(Raised, ms)
     ELSE IF r.e = NULL THEN Outcome(NULL, [r.ms EXCEPT ![l].len = CAP_UNFINISHED]) ELSE r

RECURSIVE run(_, _, _)
run(s, p, ep) == IF s < src_end /\ singlematch(Subject(s), p, ep) THEN 1 + run(s + 1, p, ep) ELSE 0

RECURSIVE longest(_, _, _, _)
longest(ms, s, i, ep) ==
  LET r == match(ms, s + i, ep + 1) IN
    IF i < 0 THEN Outcome(NULL, ms) ELSE IF r.e # NULL THEN r ELSE longest(r.ms, s, i - 1, ep)
max_expand(ms, s, p, ep) == longest(ms, s, run(s, p, ep), ep)

RECURSIVE min_expand(_, _, _, _)
min_expand(ms, s, p, ep) ==
  LET r == match(ms, s, ep + 1) IN
    IF r.e # NULL THEN r
    ELSE IF s < src_end /\ singlematch(Subject(s), p, ep) THEN min_expand(r.ms, s + 1, p, ep)
    ELSE Outcome(NULL, r.ms)

item(ms, s, p) ==
  LET ep == classend(p)
      m == s < src_end /\ singlematch(Subject(s), p, ep)
      one == match(ms, s + 1, ep + 1)
  IN IF ep = Raised THEN Outcome(Raised, ms)
     ELSE CASE At(ep) = "?" -> IF m /\ one.e # NULL THEN one ELSE match(IF m THEN one.ms ELSE ms, s, ep + 1)
            [] At(ep) = "*" -> max_expand(ms, s, p, ep)
            [] At(ep) = "+" -> IF m THEN max_expand(ms, s + 1, p, ep) ELSE Outcome(NULL, ms)
            [] At(ep) = "-" -> min_expand(ms, s, p, ep)
            [] OTHER -> IF m THEN match(ms, s + 1, ep) ELSE Outcome(NULL, ms)

\* Goes on behind a part that matched up to s.
Then(ms, s, p) == IF s \in {NULL, Raised} THEN Outcome(s, ms) ELSE match(ms, s, p)

frontier(s, p, ep) ==
  LET previous == IF s = 1 THEN NUL ELSE str[s - 1] IN
    ~matchbracketclass(previous, p, ep - 1) /\ matchbracketclass(Subject(s), p, ep - 1)

match(ms, s, p) ==
  LET escaped == IF At(p) = L_ESC THEN At(p + 1) ELSE NUL
      set == IF At(p + 2) = "[" THEN classend(p + 2) ELSE Raised
  IN CASE At(p) = "(" -> IF At(p + 1) = ")" THEN start_capture(ms, s, p + 2, CAP_POSITION)
                         ELSE start_capture(ms, s, p + 1, CAP_UNFINISHED)
       [] At(p) = ")" -> end_capture(ms, s, p + 1)
       [] escaped = "b" -> Then(ms, matchbalance(s, p + 2), p + 4)
       [] escaped = "f" -> IF set = Raised THEN Outcome(Raised, ms)
                           ELSE Then(ms, IF frontier(s, p + 2, set) THEN s ELSE NULL, set)
       [] escaped \in DOMAIN Digits -> Then(ms, match_capture(ms, s, Digits[escaped]), p + 2)
       [] At(p) = NUL -> Outcome(s, ms)
       [] At(p) = "$" /\ At(p + 1) = NUL -> Outcome(IF s = src_end THEN s ELSE NULL, ms)
       [] OTHER -> item(ms, s, p)

--------------------------------------------------------------------------------
(* find, gmatch and gsub *)

\* push_captures: an unfinished capture is an error.
push_captures(s, r) == [s |-> s, e |-> IF Unfinished(r.ms) = {} THEN r.e ELSE Raised, caps |-> r.ms]
NotFound == [s |-> 0, e |-> NULL, caps |-> << >>]

RECURSIVE search(_, _, _)
search(s, p, anchor) ==
  LET r == match(<< >>, s, p) IN
    IF s > src_end THEN NotFound
    ELSE IF r.e # NULL THEN push_captures(s, r)
    ELSE IF anchor THEN NotFound ELSE search(s + 1, p, anchor)

Anchored == At(1) = "^"
First == IF Anchored THEN 2 ELSE 1

posrelat(pos) == LET r == IF pos < 0 THEN pos + Len(str) + 1 ELSE pos IN IF r >= 0 THEN r ELSE 0
startpos(pos) == LET r == posrelat(pos) IN IF r < 1 THEN 1 ELSE IF r > Len(str) THEN src_end ELSE r

\* lmemfind
Occurs(s) == s + Len(pat) <= src_end /\ SubSeq(str, s, s + Len(pat) - 1) = pat
lmemfind(s) ==
  LET found == {t \in s .. src_end : Occurs(t)} IN
    IF found = {} THEN NotFound
    ELSE LET t == CHOOSE t \in found : \A u \in found : t <= u IN [s |-> t, e |-> t + Len(pat), caps |-> << >>]

Ended(r) == op' = IF r.e = Raised THEN "error" ELSE "done"

str_find_aux(pos, plain) ==
  LET r == IF plain \/ SPECIALS \cap ToSet(pat) = {} THEN lmemfind(startpos(pos))
           ELSE search(startpos(pos), First, Anchored)
  IN op = "none" /\ result' = r /\ Ended(r) /\ UNCHANGED << str, pat, repl, src, n, max_s, out >>

gmatch == op = "none" /\ op' = "gmatch" /\ UNCHANGED << str, pat, repl, src, n, max_s, out, result >>

Mutant_gmatch_skips ==
  LET r == search(src + 1, 1, FALSE) IN
    /\ op = "gmatch" /\ result' = r
    /\ IF r.e \in {NULL, Raised} THEN Ended(r) /\ UNCHANGED src ELSE src' = r.e + 1 /\ UNCHANGED op
    /\ UNCHANGED << str, pat, repl, n, max_s, out >>

\* The iterator: the next match, one position further after an empty one.
gmatch_aux ==
  LET r == search(src, 1, FALSE) IN
    /\ op = "gmatch"
    /\ result' = r
    /\ IF r.e \in {NULL, Raised} THEN Ended(r) /\ UNCHANGED src
       ELSE src' = (IF r.e = r.s THEN r.e + 1 ELSE r.e) /\ UNCHANGED op
    /\ UNCHANGED << str, pat, repl, n, max_s, out >>

gsub(max) ==
  /\ op = "none" /\ op' = "gsub" /\ max_s' = max
  /\ UNCHANGED << str, pat, repl, src, n, out, result >>

\* One capture, or the whole match for the first of none: text, or the number of a position.
Text(r, i) ==
  IF Len(r.caps) = 0 THEN SubSeq(str, r.s, r.e - 1)
  ELSE LET cap == r.caps[i] IN
    IF cap.len = CAP_POSITION THEN << cap.init >> ELSE SubSeq(str, cap.init, cap.init + cap.len - 1)

\* add_s, add_value: what is written for a match; a table or function gets every capture.
RECURSIVE add_s(_, _)
add_s(r, i) ==
  LET c == repl[i]
      d == IF i < Len(repl) THEN repl[i + 1] ELSE NUL
      l == Digits[d]
      piece == IF d \notin DOMAIN Digits THEN << d >>
               ELSE IF l = 0 THEN SubSeq(str, r.s, r.e - 1) ELSE Text(r, l)
      fails == d \in DOMAIN Digits /\ l > 0
               /\ IF Len(r.caps) = 0 THEN l # 1 ELSE l > Len(r.caps) \/ l \in Unfinished(r.caps)
      rest == add_s(r, IF c = L_ESC THEN i + 2 ELSE i + 1)
  IN IF i > Len(repl) THEN [ok |-> TRUE, text |-> << >>]
     ELSE IF c # L_ESC THEN [rest EXCEPT !.text = << c >> \o @]
     ELSE IF fails THEN [ok |-> FALSE, text |-> << >>] ELSE [rest EXCEPT !.text = piece \o @]
add_value(r) ==
  IF repl = Keep THEN [ok |-> Unfinished(r.caps) = {}, text |-> SubSeq(str, r.s, r.e - 1)] ELSE add_s(r, 1)

\* The end of gsub copies what is left.
Rest(text, s) == text \o SubSeq(str, s, Len(str))

\* The loop of str_gsub.
gsub_step ==
  LET r == match(<< >>, src, First)
      found == [s |-> src, e |-> r.e, caps |-> r.ms]
      v == IF r.e = NULL THEN [ok |-> TRUE, text |-> << >>] ELSE add_value(found)
      s == IF r.e > src THEN r.e ELSE IF src < src_end THEN src + 1 ELSE src
      text == out \o v.text \o (IF r.e > src \/ src = src_end THEN << >> ELSE << str[src] >>)
      more == n < max_s
      stop == Anchored \/ (r.e <= src /\ src = src_end)
  IN /\ op = "gsub"
     /\ IF more /\ (r.e = Raised \/ ~v.ok) THEN op' = "error" /\ UNCHANGED << src, n, out, result >>
        ELSE IF more
        THEN /\ n' = IF r.e = NULL THEN n ELSE n + 1
             /\ result' = IF r.e = NULL THEN NotFound ELSE found
             /\ src' = s
             /\ IF stop THEN op' = "done" /\ out' = Rest(text, s) ELSE out' = text /\ UNCHANGED op
        ELSE op' = "done" /\ out' = Rest(out, src) /\ UNCHANGED << src, n, result >>
     /\ UNCHANGED << str, pat, repl, max_s >>

Init ==
  /\ str \in Subjects /\ pat \in Patterns /\ repl \in Replacements
  /\ op = "none" /\ src = 1 /\ n = 0 /\ max_s = 0 /\ out = << >> /\ result = NotFound

Next ==
  \/ \E pos \in {1, -1}, plain \in BOOLEAN : str_find_aux(pos, plain)
  \/ gmatch
  \/ gmatch_aux
  \/ \E max \in {1, src_end} : gsub(max)
  \/ gsub_step

Spec == Init /\ [][Next]_vars

--------------------------------------------------------------------------------
(* What a pattern means: the ways to match it from s, the preferred one first, *)
(* each with captures of its own; a mistake in it is the way that ends there.  *)

Error == << Outcome(Raised, << >>) >>
Flat(ways) == FoldLeft(LAMBDA a, w : a \o w, << >>, ways)

\* How often a single character may be repeated when it can be up to k times.
Counts(rep, k) ==
  CASE rep = "*" -> [i \in 1 .. k + 1 |-> k + 1 - i]
    [] rep = "+" -> [i \in 1 .. k |-> k + 1 - i]
    [] rep = "-" -> [i \in 1 .. k + 1 |-> i - 1]
    [] rep = "?" -> IF k > 0 THEN << 1, 0 >> ELSE << 0 >>
    [] OTHER -> IF k > 0 THEN << 1 >> ELSE << >>

\* The shortest balanced piece from s: it closes as often as it opens, and first at its end.
Depth(s, t, b, e) ==
  1 + Cardinality({i \in s + 1 .. t : str[i] = b /\ b # e}) - Cardinality({i \in s + 1 .. t : str[i] = e})
Pieces(s, b, e) == {t \in s + 1 .. Len(str) : Depth(s, t, b, e) = 0 /\ \A u \in s + 1 .. t - 1 : Depth(s, u, b, e) > 0}

Previous(s) == IF s = 1 THEN NUL ELSE str[s - 1]

RECURSIVE Ways(_, _, _)
Ways(s, p, caps) ==
  LET esc == IF At(p) = L_ESC THEN At(p + 1) ELSE NUL
      ep == classend(p)
      rep == At(ep)
      counts == Counts(rep, run(s, p, ep))
      last == capture_to_close(caps)
      cap == caps[Digits[esc]]
      copy == SubSeq(str, cap.init, cap.init + cap.len - 1)
  IN CASE At(p) = NUL -> << Outcome(s, caps) >>
       [] At(p) = "$" /\ At(p + 1) = NUL -> IF s = src_end THEN << Outcome(s, caps) >> ELSE << >>
       [] At(p) = "(" ->
            IF Len(caps) = LUA_MAXCAPTURES THEN Error
            ELSE IF At(p + 1) = ")" THEN Ways(s, p + 2, Append(caps, [init |-> s, len |-> CAP_POSITION]))
            ELSE Ways(s, p + 1, Append(caps, [init |-> s, len |-> CAP_UNFINISHED]))
       [] At(p) = ")" -> IF last = Raised THEN Error ELSE Ways(s, p + 1, [caps EXCEPT ![last].len = s - caps[last].init])
       [] esc = "b" ->
            IF At(p + 2) = NUL \/ At(p + 3) = NUL THEN Error
            ELSE IF Subject(s) # At(p + 2) THEN << >>
            ELSE Flat([i \in 1 .. Cardinality(Pieces(s, At(p + 2), At(p + 3))) |->
                         Ways((CHOOSE t \in Pieces(s, At(p + 2), At(p + 3)) : TRUE) + 1, p + 4, caps)])
       [] esc = "f" ->
            IF At(p + 2) # "[" \/ classend(p + 2) = Raised THEN Error
            ELSE IF singlematch(Previous(s), p + 2, classend(p + 2)) \/ ~singlematch(Subject(s), p + 2, classend(p + 2))
            THEN << >> ELSE Ways(s, classend(p + 2), caps)
       [] esc \in DOMAIN Digits ->
            IF Digits[esc] \notin DOMAIN caps \/ Digits[esc] \in Unfinished(caps) THEN Error
            ELSE IF cap.len # CAP_POSITION /\ IsPrefix(copy, SubSeq(str, s, Len(str))) THEN Ways(s + cap.len, p + 2, caps) ELSE << >>
       [] OTHER -> IF ep = Raised THEN Error
                   ELSE Flat([i \in DOMAIN counts |-> Ways(s + counts[i], IF rep \in {"*", "+", "-", "?"} THEN ep + 1 ELSE ep, caps)])

\* A match is the first way from where it begins, with the captures of that way and
\* nothing of the ways that were tried before it; so is what find gives.
Meant(s, p) == LET w == Ways(s, p, << >>) IN IF w = << >> THEN Outcome(NULL, << >>) ELSE w[1]
MatchIsTheFirstWay ==
  op = "none" => \A s \in 1 .. src_end :
    LET r == match(<< >>, s, First) IN
      r.e = Meant(s, First).e /\ (r.e # Raised => r.ms = Meant(s, First).ms)

\* gmatch passes over no place where the pattern matches and matches no character twice.
NoMatchPassedOver ==
  [][(op = "gmatch" /\ op' = "gmatch") =>
       /\ \A s \in src .. result'.s - 1 : Meant(s, 1).e = NULL
       /\ result'.s >= src /\ src' >= result'.e]_vars

\* gsub writes every character that it does not match once and in its place: when it
\* puts in what it matched, it has written the subject up to where it is.
WritesTheRest ==
  repl \in {Keep, << "%", "0" >>} /\ op \in {"gsub", "done"} /\ max_s > 0 =>
    out = SubSeq(str, 1, IF op = "done" THEN Len(str) ELSE src - 1)

\* Every turn of gmatch and of gsub is the last or moves on in the subject, whatever the
\* pattern, the empty one among them: every call comes to an end.
EveryTurnMovesOn == [][op' = op /\ op \in {"gmatch", "gsub"} => src' \in src + 1 .. src_end + 1]_vars
================================================================================
