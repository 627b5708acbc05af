------------------------- MODULE MCSignalForwarder -------------------------
(* A game over two lives of the daemon: with one session behind it and two *)
(* to come, with two games that started together behind it, and with three *)
(* of two games at every gap that matters.                                 *)
EXTENDS SignalForwarder

Row(i, a, from) == [id |-> i, app |-> a, start |-> from, end |-> from + 1, full |-> 1]

OneSession == {Row(1, "a", 0)}
ThreeSessions(a, b, c, gap1, gap2) ==
  {Row(1, a, 0), Row(2, b, 1 + gap1), Row(3, c, 2 + gap1 + gap2)}

Together == {Row(1, "a", 0), Row(2, "b", 0)}

MCTables == {OneSession, Together} \cup
  {ThreeSessions("a", b, c, gap1, gap2) :
     b \in {"a", "b"}, c \in {"a", "b"}, gap1 \in 1..2, gap2 \in 1..2}
=============================================================================
