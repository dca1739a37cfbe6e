------------------------------- MODULE MCMnld -------------------------------
(* Small instances of Mnld for TLC: the users are model values, and the sets *)
(* of records a .cfg cannot write are named here.                            *)
EXTENDS MnldInv

CONSTANTS hal, agps, flp, test    \* model values

MCNone     == {}
MCNetworks == [connected : BOOLEAN, wifi : BOOLEAN]

=============================================================================
