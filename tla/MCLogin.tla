------------------------------ MODULE MCLogin ------------------------------
(* Instances of Login for TLC. *)
EXTENDS Login

\* The levels that select DES, those that do not, and a server that is silent.
AllLevels == {Absent, 0, 1, 2, 3}

\* Both sides of each limit: ten characters fit, eleven do not, and a number
\* of ten digits has eleven once it has its Q.
EdgeAccounts ==
  {[user |-> 10, password |-> 10, numeric |-> FALSE],
   [user |-> 11, password |-> 1, numeric |-> FALSE],
   [user |-> 1, password |-> 11, numeric |-> FALSE],
   [user |-> 1, password |-> 9, numeric |-> TRUE],
   [user |-> 1, password |-> 10, numeric |-> TRUE]}
=============================================================================
