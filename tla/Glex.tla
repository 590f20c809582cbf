--------------------------------- MODULE Glex ---------------------------------
(***************************************************************************)
(* The pattern search of glex.hpp, with which the steps of chs.cc cut      *)
(* values out of pages.  A pattern is <start>$<stop>, both with stars; the *)
(* value lies between the two.  A string is a sequence of letters.  A      *)
(* range [b, e) is given by the two positions, as the iterators do.        *)
(***************************************************************************)
EXTENDS Naturals, Sequences, SequencesExt

CONSTANTS
    Letters,    \* letters of contents (model bound)
    MaxStart,   \* length of the part before the $ (model bound)
    MaxStop,    \* length of the part after it (model bound)
    MaxContent, \* length of contents (model bound)
    MaxItems    \* items of a text with variables (model bound)

Star == "*"
Dollar == "$"
Fail == <<>>

VARIABLES
    start, stop, content,   \* the arguments of glex
    text                    \* the argument of subst, as items: see Written

glexVars == <<start, stop, content, text>>

Strings(chars, n) == UNION {[1 .. k -> chars] : k \in 0 .. n}

-----------------------------------------------------------------------------
(* The search                                                              *)

\* std::search of a string that is not empty: its first position in [b, e), else e.
Search(s, b, e, p) ==
    LET at == {i \in b .. e - 1 : i + Len(p) <= e /\ SubSeq(s, i, i + Len(p) - 1) = p}
    IN  IF at = {} THEN e ELSE CHOOSE i \in at : \A j \in at : i <= j

\* std::find of a star: its position, else one past the end.
StarAt(p) == Search(p, 1, Len(p) + 1, <<Star>>)

\* _matchres: the pieces of p one after the other; where the last one ends, or 0.
RECURSIVE matchres(_, _, _, _)
matchres(s, b, e, p) ==
    IF p = <<>> THEN b
    ELSE IF p[1] = Star THEN matchres(s, b, e, Tail(p))
    ELSE LET i == Search(s, b, e, SubSeq(p, 1, StarAt(p) - 1))
         IN  IF i >= e THEN 0
             ELSE matchres(s, i + StarAt(p) - 1, e, SubSeq(p, StarAt(p) + 1, Len(p)))

\* psearch: the range of a match of p, which is not empty, in [b, e), or Fail.
psearch(s, b, e, p) ==
    LET first == IF p[1] = Star THEN b ELSE Search(s, b, e, SubSeq(p, 1, StarAt(p) - 1))
    IN  IF first >= e /\ p[1] # Star THEN Fail
        ELSE LET end == matchres(s, IF p[1] = Star THEN b ELSE first + StarAt(p) - 1, e,
                                  SubSeq(p, StarAt(p) + 1, Len(p)))
             IN  IF end = 0 THEN Fail ELSE <<first, end>>

\* The last match of the start before position e, found from there backwards with
\* reverse iterators: where it ends, or 0, which is the assert(0).
Backwards(s, b, e, p) ==
    LET n == Len(s)
        found == psearch(Reverse(s), n + 2 - e, n + 2 - b, Reverse(p))
    IN  IF found = Fail THEN 0 ELSE n + 2 - found[1]

\* globex: where the value begins and ends, or Fail.
globex(from, to, s) ==
    LET e == Len(s) + 1
        res0 == IF from = <<>> THEN <<1, 1>> ELSE psearch(s, 1, e, from)
        res1 == IF to = <<>> THEN <<e, e>> ELSE psearch(s, res0[2], e, to)
    IN  IF res0 = Fail THEN Fail
        ELSE IF res1 = Fail THEN Fail
        ELSE IF from = <<>> THEN <<res0[2], res1[1]>>
        ELSE <<Backwards(s, res0[1], res1[1], from), res1[1]>>

\* glex: the value; Fail is the exception "Ex null".
glex(from, to, s) == globex(from, to, s)

-----------------------------------------------------------------------------
(* The variables                                                           *)

\* What the texts are made of: a letter, a known variable, an unknown one.  The value
\* of the known one looks like the beginning of another.
Items == {"letter", "known", "unknown"}
Key(item) == IF item = "known" THEN <<"k">> ELSE <<"u">>
Written(item) ==
    IF item = "letter" THEN <<"a">> ELSE <<Dollar, Dollar>> \o Key(item) \o <<Dollar, Dollar>>
Value == <<Dollar, Dollar>>

\* subst from position h on: every $$key$$ is replaced, an unknown key or a $$ without
\* its partner is an error, Fail.
RECURSIVE subst(_, _)
subst(s, h) ==
    LET e == Len(s) + 1
        p == Search(s, h, e, <<Dollar, Dollar>>)
        q == IF p + 2 <= e THEN Search(s, p + 2, e, <<Dollar, Dollar>>) ELSE e
        rest == subst(s, q + 2)
    IN  IF p >= e THEN <<SubSeq(s, h, Len(s))>>
        ELSE IF q >= e THEN Fail
        ELSE IF SubSeq(s, p + 2, q - 1) # Key("known") THEN Fail
        ELSE IF rest = Fail THEN Fail
        ELSE <<SubSeq(s, h, p - 1) \o Value \o rest[1]>>

-----------------------------------------------------------------------------
GlexInit == start = <<>> /\ stop = <<>> /\ content = <<>> /\ text = <<>>

\* A step of a script with a pattern for a page.
Extract ==
    /\ start' \in Strings(Letters \union {Star}, MaxStart)
    /\ stop' \in Strings(Letters \union {Star}, MaxStop)
    /\ content' \in Strings(Letters, MaxContent)
    /\ UNCHANGED text

\* A request with variables.
Substitute ==
    /\ text' \in Strings(Items, MaxItems)
    /\ UNCHANGED <<start, stop, content>>

GlexNext == start = <<>> /\ stop = <<>> /\ content = <<>> /\ text = <<>> /\ (Extract \/ Substitute)

-----------------------------------------------------------------------------
(* Properties                                                              *)

\* What a pattern means: a star stands for any string.
RECURSIVE Matches(_, _, _, _)
Matches(s, b, e, p) ==
    IF p = <<>> THEN b = e
    ELSE IF p[1] = Star THEN \E i \in b .. e : Matches(s, i, e, Tail(p))
    ELSE b < e /\ s[b] = p[1] /\ Matches(s, b + 1, e, Tail(p))

Least(S) == CHOOSE i \in S : \A j \in S : i <= j
Greatest(S) == CHOOSE i \in S : \A j \in S : i >= j

\* The searches never go back to try another place for a piece, forwards or, for the
\* start, backwards.  Still the value is found whenever there is one: it ends at the
\* first match of the stop behind the first match of the start, and begins behind the
\* last match of the start before that; in particular the assert(0) is not reached.
\* (A start that ends in a star leaves nothing for the value.)
ValueFound ==
    LET e == Len(content) + 1
        starts == {j \in 1 .. e : \E i \in 1 .. j : Matches(content, i, j, start)}
        first == IF start = <<>> THEN 1 ELSE Least(starts)
        stops == {i \in first .. e : \E j \in i .. e : Matches(content, i, j, stop)}
        last == IF stop = <<>> THEN e ELSE Least(stops)
    IN  glex(start, stop, content) =
            IF starts = {} THEN Fail
            ELSE IF stops = {} THEN Fail
            ELSE <<IF start = <<>> THEN 1 ELSE Greatest({j \in starts : j <= last}), last>>

\* subst replaces every known variable once and looks at no value again, even if there
\* is a $$ in it; an unknown variable anywhere is refused.
SubstitutedOnce ==
    subst(FlattenSeq([i \in DOMAIN text |-> Written(text[i])]), 1) =
        IF \E i \in DOMAIN text : text[i] = "unknown" THEN Fail
        ELSE <<FlattenSeq([i \in DOMAIN text |->
                    IF text[i] = "known" THEN Value ELSE Written(text[i])])>>

\* Both searches: the value of a pattern and the variables of a request.
PatternsRight == ValueFound /\ SubstitutedOnce
=============================================================================
