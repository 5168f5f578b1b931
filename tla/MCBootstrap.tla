---- MODULE MCBootstrap ----
EXTENDS Enrollment
CONSTANTS p, q, a, b, x, y, t1
\* q is of the newer release.
MCKnows == [s \in Proc |-> IF s = q THEN 2 ELSE 1]

Joins(n, t) == [name |-> n, cred |-> None, join |-> t, api |-> FALSE]
Asks(n) == [name |-> n, cred |-> None, join |-> None, api |-> TRUE]
\* The same join token; the same name by mistake; neither.
MCSetup == {[m \in Agent |-> IF m = a THEN e[1] ELSE e[2]] :
               e \in {<<Joins(x, t1), Joins(y, t1)>>, <<Joins(x, t1), Asks(x)>>, <<Joins(x, t1), Asks(y)>>}}
====
