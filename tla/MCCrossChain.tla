---------------------------- MODULE MCCrossChain ----------------------------
(* Instance of CrossChain for TLC.                                         *)
EXTENDS CrossChain, TLC

CONSTANTS t1, t2, vault

MCTwoTransfers == {t1, t2}

MCSymmetryTwo == Permutations(MCTwoTransfers)
=============================================================================
