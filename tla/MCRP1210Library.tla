--------------------------- MODULE MCRP1210Library ---------------------------
EXTENDS RP1210Library

MCClients == 0 .. 1
MCMsgIds == 1 .. 2

\* Sends, reads and both, each with what can interfere.
Allowance(connects, disconnects, sends, reads, statuses, forwards, faults) ==
  [connect |-> connects, disconnect |-> disconnects, send |-> sends, read |-> reads,
   status |-> statuses, forward |-> forwards, fault |-> faults]
MCBounds == {
  Allowance(2, 1, 2, 0, 0, 0, 0), Allowance(1, 1, 2, 0, 0, 0, 1), Allowance(2, 0, 2, 0, 0, 0, 1),
  Allowance(1, 0, 2, 1, 0, 1, 0), Allowance(2, 1, 1, 0, 0, 0, 2), Allowance(1, 0, 0, 3, 0, 2, 1),
  Allowance(2, 1, 0, 2, 0, 1, 1), Allowance(1, 1, 1, 1, 0, 1, 1),
  Allowance(2, 1, 0, 0, 2, 0, 1), Allowance(1, 0, 1, 0, 1, 0, 1)}
===============================================================================
