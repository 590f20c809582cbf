------------------------------- MODULE ChsText -------------------------------
(***************************************************************************)
(* The texts that chs.cc takes apart and puts together again between the   *)
(* pages that a phone brings and the requests that it is sent with: header *)
(* lines, cookies and escaped addresses.  Strings are sequences of         *)
(* letters, "r" is the carriage return and "amp;" one letter.              *)
(***************************************************************************)
EXTENDS Glex

CONSTANTS
    MaxLine,        \* length of a header line (model bound)
    MaxCookie,      \* length of the value of a Set-Cookie (model bound)
    MaxPages,       \* pages with a cookie (model bound)
    MaxPath         \* length of an address (model bound)

VARIABLES
    wide,       \* size_t is wider than unsigned int: npos does not fit into pos
    lines,      \* the header of a step as it is uploaded, without the line feeds
    path,       \* an address as its author means it
    jar,        \* wcstat::cookies, name -> value
    kept,       \* history: the cookies as their servers mean them
    spoilt,     \* history: the names whose cookie the code is known to misread
    pages       \* pages so far

textVars == <<wide, lines, path, jar, kept, spoilt, pages>>

Cr == "r"
Spaces == {" ", Cr}

Before(s, c) == SubSeq(s, 1, Search(s, 1, Len(s) + 1, <<c>>) - 1)
Behind(s, c) == SubSeq(s, Search(s, 1, Len(s) + 1, <<c>>) + 1, Len(s))
Has(s, c) == c \in Range(s)

\* s without the leading letters in S: isspace, find_first_not_of.
Stripped(s, S) ==
    LET other == {i \in DOMAIN s : s[i] \notin S}
    IN  IF other = {} THEN <<>> ELSE SubSeq(s, Least(other), Len(s))

-----------------------------------------------------------------------------
(* Header lines                                                            *)

\* head_line_parse: the name and the value, or Fail when there is no colon or no value.
head_line_parse(l) ==
    LET v == Behind(l, ":")
        value == Stripped(IF v # <<>> /\ v[Len(v)] = Cr THEN Front(v) ELSE v, Spaces)
    IN  IF ~Has(l, ":") \/ value = <<>> THEN Fail ELSE <<Before(l, ":"), value>>

\* request::init: the lines that can be read.
init(ls) ==
    SelectSeq([i \in DOMAIN ls |-> head_line_parse(ls[i])], LAMBDA h : h # Fail)

\* headline, without its line feed
headline(h) == h[1] \o <<":", " ">> \o h[2] \o <<Cr>>

-----------------------------------------------------------------------------
(* Cookies                                                                 *)

\* split1's second part: what is behind the separators, in the set of what it may be.
\* When there is nothing the code takes it from one byte before the string.
Split1(s, c) ==
    LET v == Stripped(Behind(s, c), {c})
    IN  IF v = <<>> THEN {<<byte>> \o s : byte \in {"a", "b"}} ELSE {v}

Put(map, k, v) == [n \in DOMAIN map \union {k} |-> IF n = k THEN v ELSE map[n]]

\* set_cookies for one Set-Cookie: the jars that may come of it.  Without a semicolon
\* or without an equals sign before it, it is an empty name that is set.
\* SetCookiesTwice splits the whole value at the equals sign.
SetCookiesTwice(map, s) ==
    IF Has(s, ";") /\ Has(s, "=")
    THEN {Put(map, Before(s, "="), v) : v \in Split1(s, "=")} ELSE {Put(map, <<>>, <<>>)}

set_cookies(map, s) ==
    LET tmp == Before(s, ";")
    IN  CASE ~Has(s, ";") -> {Put(map, <<>>, <<>>)}
          [] Has(s, ";") /\ ~Has(tmp, "=") -> {Put(map, <<>>, v) : v \in Split1(s, ";")}
          [] Has(s, ";") /\ Has(tmp, "=") ->
                 {Put(map, Before(tmp, "="), v) : v \in Split1(tmp, "=")}

\* step_go: the line of the cookies, one "; " between two of them.
Cookies(map) ==
    LET names == SetToSeq(DOMAIN map)
    IN  FlattenSeq([i \in DOMAIN names |->
            (IF i = 1 THEN <<>> ELSE <<";", " ">>) \o names[i] \o <<"=">> \o map[names[i]]])

\* cookie_parse: a name up to the equals sign, its value up to the semicolon.
RECURSIVE cookie_parse(_)
cookie_parse(s) ==
    IF ~Has(s, "=") THEN [n \in {} |-> <<>>]
    ELSE LET value == Before(Behind(s, "="), ";")
             later == cookie_parse(Stripped(Behind(Behind(s, "="), ";"), Spaces))
         IN  IF Before(s, "=") \in DOMAIN later THEN later
             ELSE Put(later, Before(s, "="), value)

\* What the server meant: the text before the first semicolon, name and value.
Meant(s) == LET pair == Before(s, ";") IN <<Before(pair, "="), Behind(pair, "=")>>

\* Where the code is known to read something else.
Misread(s) ==
    \/ ~Has(s, ";") \/ ~Has(Before(s, ";"), "=")
    \/ Meant(s)[2] = <<>> \/ Meant(s)[2][1] = "="

-----------------------------------------------------------------------------
(* Addresses                                                               *)

\* unescape from position pos on.
RECURSIVE unescape(_, _)
unescape(s, pos) ==
    LET p == Search(s, pos, Len(s) + 1, <<"&", "amp;">>)
    IN  IF p > Len(s) THEN s ELSE unescape(RemoveAt(s, p + 1), p + 1)

Escaped(s) == FlattenSeq([i \in DOMAIN s |-> IF s[i] = "&" THEN <<"&", "amp;">> ELSE <<s[i]>>])

LooksEscaped(s) == \E i \in 1 .. Len(s) - 1 : s[i] = "&" /\ s[i + 1] = "amp;"

\* What a call of unescape may return.  Where npos does not fit into pos nothing equals
\* npos: the loop goes on erasing at position 0 and never ends.
Unescaped(s) == IF wide THEN {} ELSE {unescape(s, 1)}

\* step_go: the addresses a request may be sent with.
step_go(s) == Unescaped(s)

\* _3xx_fwd with a Location, auto_fwd with an address found in a page: step_go unescapes
\* what they have already unescaped.
_3xx_fwd(location) == UNION {step_go(s) : s \in Unescaped(location)}

auto_fwd(url) == UNION {step_go(s) : s \in Unescaped(url)}

-----------------------------------------------------------------------------
TextInit ==
    /\ wide \in BOOLEAN
    /\ lines = <<>> /\ path = <<>>
    /\ jar = [n \in {} |-> <<>>] /\ kept = jar /\ spoilt = {} /\ pages = 0

\* A step is uploaded: two header lines and an address.
Upload ==
    /\ pages = 0 /\ lines = <<>>
    /\ \/ /\ lines' \in [1 .. 2 -> Strings({"k", ":", " ", Cr}, MaxLine)]
          /\ UNCHANGED path
       \/ /\ lines' = <<<<>>>>
          /\ path' \in Strings({"&", "amp;", "x"}, MaxPath)
    /\ UNCHANGED <<wide, jar, kept, spoilt, pages>>

\* response::request_line_parse
request_line_parse(code) == code \in 100 .. 800

\* makersp and set_cookies: a page with a Set-Cookie.  One whose status is refused
\* changes nothing.
makersp(code, s) ==
    /\ lines = <<>> /\ pages < MaxPages
    /\ pages' = pages + 1
    /\ IF request_line_parse(code)
       THEN /\ jar' \in set_cookies(jar, s)
            /\ kept' = Put(kept, Meant(s)[1], Meant(s)[2])
            /\ spoilt' = IF Misread(s) THEN spoilt \union {<<>>, Meant(s)[1]}
                         ELSE spoilt \ {Meant(s)[1]}
       ELSE UNCHANGED <<jar, kept, spoilt>>
    /\ UNCHANGED <<wide, lines, path>>

TextNext ==
    \/ Upload
    \/ \E s \in Strings({"a", "b", "=", ";"}, MaxCookie), code \in {99, 200} : makersp(code, s)

-----------------------------------------------------------------------------
(* Properties                                                              *)

\* A header that was uploaded is sent with every step and would be read the same
\* again: neither the spaces before a value nor the carriage returns pile up.
HeadersKept ==
    LET heads == init(lines)
    IN  init([i \in DOMAIN heads |-> headline(heads[i])]) = heads

\* The cookies that are sent back are those that were set, each with its last value,
\* whatever other cookies came in between and however malformed they were: only the
\* empty name and the name of the malformed one may have a wrong value or none.  And
\* as long as there was none of these, the line that is sent is read by chs itself as
\* the same cookies.
CookiesKept ==
    /\ \A n \in (DOMAIN jar \union DOMAIN kept) \ spoilt :
           n \in DOMAIN jar \intersect DOMAIN kept /\ jar[n] = kept[n]
    /\ spoilt = {} => cookie_parse(Cookies(jar)) = jar

\* A request is sent to the address that was meant: the one of a step that was uploaded
\* or found in a page, where addresses are escaped, and the one of a Location, where they
\* are not.  What is forwarded is unescaped twice, so the last two may not look escaped
\* themselves.  All of that where unescape() ends; elsewhere nothing is ever sent.
AddressesKept ==
    IF wide
    THEN step_go(Escaped(path)) \union _3xx_fwd(path) \union auto_fwd(Escaped(path)) = {}
    ELSE /\ step_go(Escaped(path)) = {path}
         /\ LooksEscaped(path) \/ (_3xx_fwd(path) = {path} /\ auto_fwd(Escaped(path)) = {path})

\* The texts of the step server: values and variables of Glex, header lines, cookies
\* and addresses.
StepTextsRight == PatternsRight /\ HeadersKept /\ CookiesKept /\ AddressesKept
=============================================================================
