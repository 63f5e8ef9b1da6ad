---------------------------- MODULE MCExpression ----------------------------
EXTENDS Expression

(* 0.125 is written with two digits: "0.13".                               *)
MCAmount ==
  [l \in Literals |-> CASE l = "2" -> <<2, 1>> [] l = "0.125" -> <<1, 8>> [] l = "NaN" -> NaN]
MCShown == [l \in Literals |-> IF l = "0.125" THEN <<"0.13">> ELSE <<l>>]
MCSetting == [v \in Variables |-> <<-2, 1>>]
=============================================================================
