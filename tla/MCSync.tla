------------------------------- MODULE MCSync -------------------------------
EXTENDS Sync, TLC

\* Two panels, so that one may be silent while the other answers.
MCHome == "a" :> "p1" @@ "b" :> "p2" @@ "c" :> "p2"

\* Two of the three phases, so that each is asked for and left out.
MCOptions == {{"new", "del"}, {"del", "fields"}}

Symmetry == Permutations(Jobs)
=============================================================================
