---------------------------- MODULE MCReloadGate -----------------------------
(* One group name more than the map holds, so that the hard cap evicts.    *)
EXTENDS ReloadGate

CONSTANTS g1, g2, g3

ThreeGroups == {g1, g2, g3}
=============================================================================
