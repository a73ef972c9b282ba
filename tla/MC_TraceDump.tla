---------------------------- MODULE MC_TraceDump ----------------------------
(* Chains of up to three items of the formatter kinds of trace.c, node     *)
(* names of two lengths, a buffer of 128 bytes.  size_t arithmetic is kept *)
(* modulo 2^24, far above every offset the call reaches.                   *)
EXTENDS TraceDump, SequencesExt

MC_Chains == BoundedSeq(Kinds, 3) \ {<<>>}
MC_NameLens == {9, 14}
MC_SizeMax == 2^24
====
