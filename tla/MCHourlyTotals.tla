--------------------------- MODULE MCHourlyTotals ---------------------------
(* Two threads in one instance; its dictionary keeps one entry.             *)
EXTENDS HourlyTotals
CONSTANTS r1, r2, i1, c1, c2

MCRuns == {r1, r2}
MCInsts == {i1}
MCConcepts == {c1, c2}
=============================================================================
