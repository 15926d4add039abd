------------------------ MODULE MCRemoteAccounting ------------------------
(* Instance of RemoteAccounting for TLC.                                   *)
EXTENDS RemoteAccounting, TLC

CONSTANTS t1, t2, alice, vault

MCTransferIds == {t1, t2}

MCSymmetry == Permutations(MCTransferIds)
=============================================================================
