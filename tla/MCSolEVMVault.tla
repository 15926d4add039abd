--------------------------- MODULE MCSolEVMVault ---------------------------
(* Instance of SolEVMVault for TLC.                                        *)
EXTENDS SolEVMVault, TLC

CONSTANTS alice, bob, vault

MCControllers == {alice, bob}

MCSymmetry == Permutations(MCControllers)
=============================================================================
