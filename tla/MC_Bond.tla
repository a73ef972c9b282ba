------------------------------ MODULE MC_Bond ------------------------------
(* Two ports and two bond ids: enough for a port to be claimed by two     *)
(* bonds, for a bond id to be given as a member (EMEDIUMTYPE), and for a   *)
(* member list that does not fit.                                          *)
EXTENDS Bond, TLC

CONSTANTS p1, p2, b1, b2, x1, m1, m2

MC_Ports == {p1, p2}
MC_Bonds == {b1, b2}
MC_UserMacs == {m1}
MC_NoMacs == {}
MC_TwoMacs == {m1, m2}
MC_OnePort == {p1}
MC_OneBond == {b1}
MC_Others == {x1}
MC_NoOthers == {}

Symmetry == Permutations(MC_Ports) \cup Permutations(MC_Bonds)
MacSymmetry == Permutations(MC_TwoMacs)

\* Bounds the reference counts leaked into the port filters.
MaxRefcnt == 2
StateBound == \A p \in Ports : \A m \in DOMAIN filter[p] : filter[p][m] <= MaxRefcnt
=============================================================================
