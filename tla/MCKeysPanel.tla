------------------------------ MODULE MCKeysPanel ------------------------------
(* Instances of KeysPanel for TLC.                                         *)
EXTENDS KeysPanel, TLC

CONSTANTS phone, tablet, original

MCNames == {original, phone, tablet}
MCImports == { << phone, tablet >> }
ClientSymmetry == Permutations(Clients)
================================================================================
