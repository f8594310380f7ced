---------------------------- MODULE MCPublisher ----------------------------
(* Two publish requests; 0 stands for a name that is no number.            *)
EXTENDS Publisher
CONSTANTS j1, j2

MCJobs == {j1, j2}
MCNames == 0..2
MCAnyStep == {"rendering", "stored", "cached", "listed"}
=============================================================================
