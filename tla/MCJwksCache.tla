---------------------------- MODULE MCJwksCache ----------------------------
(* One key that is published and retired, and tokens signed with it: one of *)
(* an issuer that is not configured, one that expires early.  What is       *)
(* stated of a key does not depend on the other keys.                       *)
EXTENDS JwksCache, TLC

CONSTANT k1

MCToken == {[key |-> k1, trusted |-> TRUE, exp |-> MaxNow],
            [key |-> k1, trusted |-> TRUE, exp |-> 1],
            [key |-> k1, trusted |-> FALSE, exp |-> MaxNow]}

\* Requests are interchangeable.
WorkerSymmetry == Permutations(Worker)
=============================================================================
