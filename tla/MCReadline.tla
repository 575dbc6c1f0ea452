----------------------------- MODULE MCReadline -----------------------------
(* Readline for TLC: an empty value, a value with an equals sign, a key    *)
(* that is cut, a key that occurs twice, and a line that exactly fills the *)
(* caller's buffer of eight characters.                                    *)
EXTENDS Readline

Pair(k, v) == [key |-> k, value |-> v]
ShortMessages == {<<Pair(<<"a">>, <<>>)>>,
                  <<Pair(<<"a">>, <<"b", "=">>)>>,
                  <<Pair(<<"a">>, <<"b">>), Pair(<<"a">>, <<>>)>>,
                  <<Pair(<<"a", "b", "c">>, <<"d">>)>>}
LongMessage == <<Pair(<<"a">>, <<"b", "c", "d">>), Pair(<<"b">>, <<"c">>)>>
AllMessages == ShortMessages \cup {LongMessage}
=============================================================================
