---------------------------- MODULE MCRemoteLeg ----------------------------
(* Small instances of RemoteLeg: any three transfers, in any order. *)
EXTENDS RemoteLeg, TLC

CONSTANTS t1, t2, t3

MCTransferIds == {t1, t2, t3}

MCSymmetry == Permutations(MCTransferIds)
=============================================================================
