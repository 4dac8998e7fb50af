------------------------ MODULE MC_AssertionContext ------------------------
(* Three test threads sharing one manager, four add_context calls: enough *)
(* for two adds to interleave between fetch_add and insert while a third   *)
(* thread drops a handle.                                                  *)
EXTENDS AssertionContext, TLC

CONSTANTS t1, t2, t3

MCThreads == {t1, t2, t3}
MCMaxIds == 4
MCSymmetry == Permutations(MCThreads)
=============================================================================
