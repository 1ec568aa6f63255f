----------------------------- MODULE MCCANFilters -----------------------------
(* Identifiers of two bits, in fields of three, the upper bit for the 8 upper *)
(* bits that may not all be set.                                              *)
EXTENDS CANFilters

F(ext, id, mask) == [ext |-> ext, id |-> id, mask |-> mask]

\* Every kind of filter: all bits, some, none; the special mask; identifiers
\* outside the mask or the field, and one with all upper bits set.
MCGood ==
  { F(FALSE, {0}, {0}), F(FALSE, {}, {0}), F(FALSE, {0}, {0, 1, 15}),
    F(TRUE, {0}, {0}), F(TRUE, {}, {1, 31}) }
MCWrong ==
  { F(FALSE, {0}, {}), F(FALSE, {}, {15}), F(TRUE, {1}, {0, 1}), F(TRUE, {31}, {0, 31}) }
MCFilters == MCGood \cup MCWrong

MCLists ==
  {<<f>> : f \in MCWrong} \cup {<<>>, <<F(TRUE, {}, {1, 31}), F(FALSE, {}, {15})>>}
  \cup {<<f, g>> : f, g \in MCGood}
===============================================================================
