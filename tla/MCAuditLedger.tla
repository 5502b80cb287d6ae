---------------------------- MODULE MCAuditLedger ----------------------------
(***************************************************************************)
(* TLC instances of AuditLedger and of the loop it shares, ConsumerGroup.  *)
(***************************************************************************)
EXTENDS AuditLedger, TLC

CONSTANTS p1, p2, w1, w2

OnePartition == {p1}
TwoPartitions == {p1, p2}
OneWorker == {w1}
TwoWorkers == {w1, w2}

Symmetry == Permutations(Workers)
=============================================================================
