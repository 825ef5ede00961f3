---------------------------- MODULE MCRandomChoices ----------------------------
(* Small builders: a first draw of two values and at most two draws more.  *)
EXTENDS RandomChoices

D(bound, invalid, need) == [bound |-> bound, invalid |-> invalid, need |-> need, error |-> "SUCCESS"]

\* A draw at depth MaxDepth is one too many; below it the bounds and filters
\* leave no value, one, or two with or without a gap; guards ask for more
\* depth than is left.
MCDraws(n) ==
  CASE n = 0 -> {D(2, {}, 0), D(3, {1}, 0), D(2, {0}, 0)}
    [] n = 1 -> {D(1, {}, 0), D(2, {}, 0), D(2, {1}, 0), D(1, {0}, 0)}
    [] n = 2 -> {D(2, {}, 0), D(3, {0, 2}, 0), D(1, {}, 2), D(1, {}, 3)}
    [] n = 3 -> {D(1, {}, 0)}
    [] OTHER -> {}

\* The longest programs are finished, the shorter ones may also be given up.
MCEnds(n) == IF n < MaxDepth THEN {"SUCCESS", "FAILED"} ELSE {"SUCCESS"}

=============================================================================
