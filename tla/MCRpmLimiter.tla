---------------------------- MODULE MCRpmLimiter ----------------------------
(* Instances of RpmLimiter: who calls it, and what an operator posts. *)
EXTENDS RpmLimiter, TLC

CONSTANTS l1, l2, b1, e1, p1, p2, u1, u2, u3, u4

CapsOf(x, y, z) ==
    [b \in Buckets |-> CASE b = "live" -> x [] b = "backfill" -> y [] b = "eval" -> z]

MCBucketOf ==
    [c \in Callers |-> CASE c \in {l1, l2} -> "live" [] c = b1 -> "backfill" [] c = e1 -> "eval"]

MCDefaultCaps == CapsOf(2, 1, 1)

MCNone  == {}
\* The first lowers the live cap; the second does not fit its quota and is refused.
MCBodies == {[caps |-> CapsOf(1, 2, 1), quota |-> 4], [caps |-> CapsOf(2, 2, 2), quota |-> 5]}

Symmetry == Permutations(Uuids)
=============================================================================
