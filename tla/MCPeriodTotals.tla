--------------------------- MODULE MCPeriodTotals ---------------------------
(* Two threads; the site, or the concepts. *)
EXTENDS PeriodTotals, TLC
CONSTANTS r1, r2, e1

MCRuns == {r1, r2}
MCEntities == {e1}
MCKinds == {"site", "entities"}
MCSymmetry == Permutations(MCRuns)
=============================================================================
