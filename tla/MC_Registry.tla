---------------------------- MODULE MC_Registry ----------------------------
(* Model values and bounds for checking Registry with TLC.                 *)
EXTENDS Registry, TLC

CONSTANTS m1, m2, m3, h1, h2, h3, t1, t2, t3

MC_Mods == {m1, m2, m3}
\* m1 and m2 share an init priority; fini priorities run the other way.
MC_InitPrio == (m1 :> 0) @@ (m2 :> 0) @@ (m3 :> -100)
MC_FiniPrio == (m1 :> 1000) @@ (m2 :> 0) @@ (m3 :> 10)
\* Priorities half the int range apart: their difference overflows.
MC_FarPrio == (m1 :> 0) @@ (m2 :> 20000) @@ (m3 :> -20000)
MC_WithInit == {m1, m2, m3}
MC_WithFini == {m1, m3}
MC_Handlers == {h1, h2, h3}
\* Distinct request types.
MC_ReqType == (h1 :> t1) @@ (h2 :> t2) @@ (h3 :> t3)
\* h1 and h2 claim the same request type.
MC_DupType == (h1 :> t1) @@ (h2 :> t1) @@ (h3 :> t2)
=============================================================================
