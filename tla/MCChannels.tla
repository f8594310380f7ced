----------------------------- MODULE MCChannels -----------------------------
(* Two tabs of one user, two requests for the users of the project.         *)
EXTENDS Channels
CONSTANTS t1, t2, u, n1, n2

MCTabs == {t1, t2}
MCAsks == {n1, n2}
MCUser == [t \in MCTabs |-> u]
MCShaky == {t1}
=============================================================================
