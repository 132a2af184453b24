-------------------------------- MODULE Tally --------------------------------
(***************************************************************************)
(* The sum of a function with natural values, counted as a set of units:   *)
(* the unit <<x, i>> exists when i <= f[x].  A sum written this way has     *)
(* its laws from the cardinality of finite sets alone.  Cap bounds every   *)
(* value of the function.                                                  *)
(***************************************************************************)
EXTENDS Integers, FiniteSets

\* The functions that can be summed: naturals up to Cap over S.
Tallies(S, Cap) == [S -> 0 .. Cap]

Units(f, Cap) == {unit \in (DOMAIN f) \X (1 .. Cap) : unit[2] <= f[unit[1]]}

Total(f, Cap) == Cardinality(Units(f, Cap))

\* The sum over a part of the domain.
TotalOver(S, f, Cap) == Total([x \in S |-> f[x]], Cap)

=============================================================================
