---------------------------- MODULE MC_ApiServer ----------------------------
(* Model values and bounds for checking ApiServer with TLC.                *)
EXTENDS ApiServer, TLC

CONSTANTS c1, c2

MC_OneClient == {c1}
MC_TwoClients == {c1, c2}
MC_OneFd == {3}
MC_TwoFds == {3, 4}
=============================================================================
