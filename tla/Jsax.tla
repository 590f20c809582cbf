--------------------------------- MODULE Jsax ---------------------------------
(***************************************************************************)
(* The parser of js.cc, a descent over the letters of a line that calls    *)
(* New, Set and Fin of a node as it goes, and the loop of its main that    *)
(* reads the texts that stand one after the other on a line.  A position   *)
(* is a pointer into the line; what is read at its end is the "nul" of the *)
(* string.  "rue" and "alse" are one letter each, one digit and one other  *)
(* letter stand for all of them.                                           *)
(***************************************************************************)
EXTENDS Naturals, Sequences, SequencesExt

CONSTANTS
    Alphabet,   \* letters of the short lines (model bound)
    MaxText,    \* their length (model bound)
    Documents   \* longer texts, read as they are, twice, and with a slip (model bound)

VARIABLES
    line,       \* the line that is read, <<>> between two of them
    beg         \* where its next text begins

jsaxVars == <<line, beg>>

Space == " "
Quotes == {"dq", "sq"}          \* " and '
Signs == {"+", "-"}
Digits == {"1"}
Closing == [c \in {"[", "{"} |-> IF c = "[" THEN "]" ELSE "}"]      \* *sbeg + 2

Letter(s, i) == IF i <= Len(s) THEN s[i] ELSE "nul"

\* What a function of the parser returns: the position, with ok FALSE that of the
\* jsax_fail it throws, and the calls made so far.
Good(i, calls) == [ok |-> TRUE, pos |-> i, calls |-> calls]
Bad(i) == [ok |-> FALSE, pos |-> i, calls |-> <<>>]

FirstFrom(i, n, Test(_)) ==
    CHOOSE j \in i .. n : (j = n \/ Test(j)) /\ \A k \in i .. j - 1 : ~Test(k)

skipss(s, i) == FirstFrom(i, IF i > Len(s) THEN i ELSE Len(s) + 1, LAMBDA j : s[j] # Space)

-----------------------------------------------------------------------------
(* Strings, numbers and words; their one call is the letters of the value *)

\* A string ends at the quote that opened it.
jsax_string(s, i) ==
    LET sbeg == skipss(s, i)
        close == FirstFrom(sbeg + 1, Len(s) + 1, LAMBDA j : s[j] = s[sbeg])
    IN  IF Letter(s, sbeg) \notin Quotes \/ sbeg + 1 > Len(s) THEN Bad(sbeg)
        ELSE IF close > Len(s) THEN Bad(sbeg)
        ELSE Good(close + 1, <<SubSeq(s, sbeg + 1, close - 1)>>)

jsax_digital(s, i) ==
    LET sbeg == skipss(s, i)
        first == IF Letter(s, sbeg) \in Signs THEN sbeg + 1 ELSE sbeg
        end == FirstFrom(first + 1, Len(s) + 1, LAMBDA j : s[j] \notin Digits \union {"."})
        dots == {j \in sbeg .. end - 1 : s[j] = "."}
    IN  IF Letter(s, first) \notin Digits THEN Bad(sbeg)
        ELSE IF \E j, k \in dots : j # k THEN Bad(sbeg)
        ELSE Good(end, <<SubSeq(s, sbeg, end - 1)>>)

jsax_boolean(s, i) ==
    LET sbeg == skipss(s, i)
    IN  IF <<Letter(s, sbeg), Letter(s, sbeg + 1)>> \in {<<"t", "rue">>, <<"f", "alse">>}
        THEN Good(sbeg + 2, <<SubSeq(s, sbeg, sbeg + 1)>>)
        ELSE Bad(sbeg)

-----------------------------------------------------------------------------
(* Arrays, objects and what is in them.  A key is a number in an array,    *)
(* the letters of a string in an object.                                   *)

jsax_new(k) == <<"New", k>>
jsax_done(k) == <<"Fin", k>>
jsax_set(k, v) == <<"Set", k, v>>

Preceded(calls, r) == [r EXCEPT !.calls = calls \o @]

RECURSIVE jsax_array(_, _), jsax_items(_, _, _, _)

\* The cases of jsax_walk: r is what was read as an array or object, or as a plain value.
Inner(k, r) ==
    Preceded(<<jsax_new(k)>>, IF r.ok THEN Good(r.pos, Append(r.calls, jsax_done(k))) ELSE r)
Plainly(k, r) == IF r.ok THEN Good(r.pos, <<jsax_set(k, r.calls[1])>>) ELSE r

\* A value that begins at b and is called k; nothing at the end of the line.
WalkAt(s, b, k) ==
    CASE Letter(s, b) \in DOMAIN Closing -> Inner(k, jsax_array(s, b))
      [] Letter(s, b) \in Quotes -> Plainly(k, jsax_string(s, b))
      [] Letter(s, b) \in Signs \union Digits -> Plainly(k, jsax_digital(s, b))
      [] Letter(s, b) \in {"t", "f"} -> Plainly(k, jsax_boolean(s, b))
      [] Letter(s, b) = "nul" -> Good(b, <<>>)
      [] OTHER -> Bad(b)

jsax_walk(s, i, k) == WalkAt(s, skipss(s, i), k)

\* What follows a key, and what follows an item.
BehindKey(s, key, colon) ==
    IF ~key.ok THEN key
    ELSE IF Letter(s, colon) # ":" THEN Bad(colon)
    ELSE jsax_walk(s, colon + 1, key.calls[1])

BehindItem(s, c, n, item, next) ==
    IF ~item.ok THEN item
    ELSE Preceded(item.calls,
             IF Letter(s, next) = "," THEN jsax_items(s, next, c, n)
             ELSE IF Letter(s, next) = Closing[c] THEN Good(next + 1, <<>>)
             ELSE Bad(next))

Keyed(s, key) == BehindKey(s, key, skipss(s, key.pos))
Item(s, c, n, item) == BehindItem(s, c, n, item, skipss(s, item.pos))

\* The do loop: the text is of kind c, b is its bracket or the comma before the next item,
\* n items are read.
jsax_items(s, b, c, n) ==
    Item(s, c, n + 1, IF c = "[" THEN jsax_walk(s, b + 1, n + 1) ELSE Keyed(s, jsax_string(s, b + 1)))

ArrayAt(s, sbeg, p) ==
    IF Letter(s, sbeg) \notin DOMAIN Closing \/ p > Len(s) THEN Bad(sbeg)
    ELSE IF s[p] = Closing[s[sbeg]] THEN Good(p + 1, <<>>)
    ELSE jsax_items(s, sbeg, s[sbeg], 0)

jsax_array(s, i) == ArrayAt(s, skipss(s, i), skipss(s, skipss(s, i) + 1))

jsax_parse(s, i) == jsax_array(s, i)

-----------------------------------------------------------------------------
JsaxInit == line = <<>> /\ beg = 1

\* A document with one letter missing or another one in its place.
Slips(d) ==
    {RemoveAt(d, i) : i \in DOMAIN d}
        \union {[d EXCEPT ![i] = c] : i \in DOMAIN d, c \in {"]", ",", "dq"}}

\* main reads a line.
getline ==
    /\ line = <<>> /\ beg' = 1
    /\ \/ \E n \in 1 .. MaxText : line' \in [1 .. n -> Alphabet]
       \/ \E d \in Documents : line' \in {d, d \o d} \union Slips(d)

\* One turn of main's inner loop: it stops at a text that is none, or with the line.
ReadText ==
    LET r == jsax_parse(line, beg)
    IN  /\ line # <<>>
        /\ IF r.ok /\ r.pos <= Len(line)
           THEN beg' = r.pos /\ UNCHANGED line
           ELSE line' = <<>> /\ beg' = 1

JsaxNext == getline \/ ReadText

-----------------------------------------------------------------------------
(* Properties                                                              *)

\* What a text means, by its grammar: the sets of the sequences of calls that are right
\* for it, with no notion of where a value ends but that the whole can be divided so.
Trim(s) ==
    LET other == {i \in DOMAIN s : s[i] # Space}
    IN  IF other = {} THEN <<>>
        ELSE SubSeq(s, CHOOSE i \in other : \A j \in other : i <= j,
                       CHOOSE i \in other : \A j \in other : j <= i)

IsString(t) ==
    /\ Len(t) >= 2 /\ t[1] \in Quotes /\ t[Len(t)] = t[1]
    /\ \A i \in 2 .. Len(t) - 1 : t[i] # t[1]

IsNumber(t) ==
    LET n == IF t # <<>> /\ t[1] \in Signs THEN Tail(t) ELSE t
    IN  /\ n # <<>> /\ n[1] \in Digits
        /\ \A i \in DOMAIN n : n[i] \in Digits \union {"."}
        /\ \A i, j \in DOMAIN n : n[i] = "." /\ n[j] = "." => i = j

RECURSIVE Content(_), Members(_, _, _)

Meaning(s, k) ==
    LET t == Trim(s)
    IN  IF IsString(t) THEN {<<<<"Set", k, SubSeq(t, 2, Len(t) - 1)>>>>}
        ELSE IF IsNumber(t) \/ t \in {<<"t", "rue">>, <<"f", "alse">>} THEN {<<<<"Set", k, t>>>>}
        ELSE {<<<<"New", k>>>> \o m \o <<<<"Fin", k>>>> : m \in Content(t)}

Named(s, c, n) ==
    IF c = "[" THEN Meaning(s, n)
    ELSE UNION {Meaning(SubSeq(s, i + 1, Len(s)), Front(Tail(Trim(SubSeq(s, 1, i - 1))))) :
                    i \in {j \in DOMAIN s : s[j] = ":" /\ IsString(Trim(SubSeq(s, 1, j - 1)))}}

Members(s, c, n) ==
    Named(s, c, n) \union
        UNION {{a \o b : a \in Named(SubSeq(s, 1, i - 1), c, n),
                         b \in Members(SubSeq(s, i + 1, Len(s)), c, n + 1)} :
                   i \in {j \in DOMAIN s : s[j] = ","}}

Content(t) ==
    IF Len(t) < 2 \/ t[1] \notin DOMAIN Closing THEN {}
    ELSE IF t[Len(t)] # Closing[t[1]] THEN {}
    ELSE IF Trim(Front(Tail(t))) = <<>> THEN {<<>>}
    ELSE Members(Front(Tail(t)), t[1], 1)

\* The descent of js.cc, which looks one letter ahead and never goes back, reads what the
\* grammar says: if an array or object begins where it stands it is taken to its end, no
\* further, with one New and Fin for each array or object in it and one Set for each
\* value, each with its own key; if none does, it fails.
ReadAsMeant ==
    LET r == jsax_parse(line, beg)
        texts == {n \in beg .. Len(line) :
                      /\ line[n] \in {"]", "}"}
                      /\ Content(Trim(SubSeq(line, beg, n))) # {}}
    IN  line # <<>> =>
            IF r.ok THEN texts = {r.pos - 1} /\ Content(Trim(SubSeq(line, beg, r.pos - 1))) = {r.calls}
            ELSE texts = {}
=============================================================================
