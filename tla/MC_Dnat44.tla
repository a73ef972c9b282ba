----------------------------- MODULE MC_Dnat44 -----------------------------
EXTENDS Dnat44, TLC

CONSTANTS i1, i2, v1, a1, a2, a3, a4

MC_OneIface == {i1}
MC_TwoIfaces == {i1, i2}
MC_Vrf == [i \in {i1, i2} |-> v1]
MC_Addrs == {a1, a2, a3, a4}
\* Every replace address belongs to one match: no two rules share an SNAT key.
MC_DistinctReplace == {<<a1, a2>>, <<a1, a3>>, <<a2, a4>>, <<a4, a1>>}
\* Two matches translated to the same replace address.
MC_SharedReplace == {<<a1, a3>>, <<a2, a3>>}
MC_OtherNh == {<<v1, a4>>}
MC_NoOtherNh == {}
====
