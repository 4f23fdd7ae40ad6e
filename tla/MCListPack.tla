------------------------------ MODULE MCListPack ------------------------------
EXTENDS ListPack

Repeated(n) == [i \in 1 .. n |-> 120]

\* "0", "-0", "007", "x", "-": what is a number and what only looks like one;
\* numbers on both sides of the encodings' bounds; lengths on both sides of the
\* bounds of the string encodings (63, 64) and of the length behind them (125, 126).
MCStrings ==
  {<<48>>, <<45, 48>>, <<48, 48, 55>>, <<45>>}
  \cup {Decimal(n) : n \in {128, -4097, -32768, 40000}}
  \cup {Repeated(n) : n \in {0, 63, 64, 125, 126}}

MCNumbers == {127, -1, 4096, -70000}
===============================================================================
