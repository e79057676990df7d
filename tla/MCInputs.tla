-------------------------------- MODULE MCInputs --------------------------------
(***************************************************************************)
(* Every input of bounded size.                                            *)
(***************************************************************************)
EXTENDS Inputs

(* A value that does not parse, then prices that stand, rise and jump. *)
Row(low, close, high) == [low |-> low, close |-> close, high |-> high]

SomeRows == {Row(0, 0, 0), Row(1, 2, 2), Row(2, 3, 4), Row(3, 6, 7)}

ValueOfNumeral(n) == CASE n = "30" -> 30 [] n = "inf" -> 1000 [] n = "nan" -> NaN

(* Signals around the threshold, or none, for one interval or two. *)
Answers == {[rsi |-> v] : v \in {29, 30, 31}} \cup {<<>>}

SomeServices == {[i \in {<<"1m">>} |-> a] : a \in Answers}
                  \cup {[i \in {<<"1m">>, <<"5m">>} |->
                           IF i = <<"1m">> THEN a ELSE b] : a, b \in Answers}
===============================================================================
