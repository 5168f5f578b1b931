--------------------------- MODULE MCTransactions ---------------------------
(* Transactions on a small instance. *)
EXTENDS Transactions, TLC

NodeSymmetry == Permutations(Node)

\* Of the changes of the replicas and the times unseen, one at most: a bound.
OneDisturbance == scales + lates <= 1
=============================================================================
