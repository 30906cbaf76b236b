---------------------------- MODULE MCIdentity ----------------------------
EXTENDS Identity, TLC
CONSTANTS u1, u2, s1, s2

MCUsers == {u1, u2}
MCSubjects == {s1, s2}
MCIdents == {<<s1, u1>>, <<s2, u2>>, <<s1, u2>>}

Symmetry == Permutations(Browsers) \cup Permutations(Sessions)
            \cup Permutations(Attempts) \cup Permutations(Invites)
=============================================================================
