----------------------------- MODULE MC_Daemon -----------------------------
(* Model values and bounds for checking Daemon with TLC.                   *)
EXTENDS Daemon, TLC

CONSTANTS m1, m2, m3, h1, h2, t1, t2

MC_Mods == {m1, m2, m3}
\* m1 and m2 share an init priority; fini priorities run the other way.
MC_InitPrio == (m1 :> 0) @@ (m2 :> 0) @@ (m3 :> -100)
MC_FiniPrio == (m1 :> 1000) @@ (m2 :> 0) @@ (m3 :> 10)
MC_WithInit == {m1, m2, m3}
MC_WithFini == {m1, m3}
MC_Handlers == {h1, h2}
MC_ReqType == (h1 :> t1) @@ (h2 :> t2)
=============================================================================
