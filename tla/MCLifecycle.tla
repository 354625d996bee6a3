----------------------------- MODULE MCLifecycle -----------------------------
(* One daemon with every option alone, after -s or -j and before one of    *)
(* the same letter, and with every three modules; another with the pid     *)
(* file, with names or without.  A long goes to 15 and an int to 3, so that *)
(* every limit is met: 9 and 10 lose their high bits, 8 becomes 0 and 40   *)
(* is too large.                                                           *)
EXTENDS Lifecycle

CONSTANTS p1, p2

Opt(x)          == [opt |-> x, text |-> <<>>, num |-> 0]
Word(x, t)      == [opt |-> x, text |-> t, num |-> 0]
Num(x, n)       == [opt |-> x, text |-> <<"#">>, num |-> n]
NamesOpt(ns, c) == [opt |-> "n", text |-> <<>>, num |-> 0, names |-> ns, comma |-> c]

a  == <<"a">>
ab == <<"a", "b">>
b  == <<"b">>

Modules == {Word("m", a), Word("m", ab), Word("m", b)}

MCOptions ==
    Modules \cup {Opt(x) : x \in {"s", "o", "d", "f", "j", "l", "b", "?"}}
    \cup {Word("h", t) : t \in {<<>>, <<"s">>, Ignore, <<"e", "x", "s">>}}
    \cup {Word("p", t) : t \in {Off, <<"o">>}} \cup {Num("p", n) : n \in {-1, 0, 3, 40}}
    \cup {Num("c", n) : n \in {0, 4, 31}} \cup {Num("i", n) : n \in {1, 9, 31}}
    \cup {Num("t", n) : n \in {-7, 3, 8, 10}}
    \cup {NamesOpt(<<a, ab>>, FALSE), NamesOpt(<<b>>, FALSE), NamesOpt(<<ab>>, TRUE), NamesOpt(<<>>, TRUE)}

MCLines == [p \in {p1, p2} |->
    IF p = p1
    THEN {<<>>} \cup [1..1 -> MCOptions] \cup [1..3 -> Modules]
         \cup {l \in [1..2 -> MCOptions] : l[1].opt \in {"s", "j", l[2].opt}}
    ELSE {<<Opt("s")>>, <<Opt("s"), NamesOpt(<<a, ab>>, FALSE)>>}]

MCEnvironments == {[oneshot |-> FALSE, debug |-> FALSE], [oneshot |-> TRUE, debug |-> FALSE],
                   [oneshot |-> FALSE, debug |-> TRUE]}
MCNames == {a, b, ab, <<"b", "a">>, <<"c", "a", "b">>, <<"c">>}
=============================================================================
