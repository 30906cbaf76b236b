---------------------------- MODULE MCAccounts ----------------------------
EXTENDS Accounts, TLC
CONSTANTS ann, bob

MCUsers == {ann, bob}
MCResults == {[u \in MCUsers |-> IF u = ann THEN n ELSE 0] : n \in {-2, 3}}

User(i, e, c, f) == [id |-> i, email |-> e, role |-> "member", cash |-> c, free |-> f]
Txn(i, u, a) == [id |-> i, user |-> u, amount |-> a, type |-> "credit"]
Wager(i, u, s) == [id |-> i, user |-> u, stake |-> s, odds |-> 100, result |-> "win"]
Source(us, ts, ws) == [users |-> us, txns |-> ts, wagers |-> ws]

\* A sound archive, the same one corrected in a balance, one with a second
\* member added, one with two users of one e-mail, and one with a broken row of
\* every kind in turn.
MCSources ==
    {Source({User(1, ann, 3, 1)}, {Txn(1, 1, 2)}, {Wager(1, 1, 1)}),
     Source({User(1, ann, 4, 0)}, {}, {Wager(2, 1, 1)}),
     Source({User(1, ann, 3, 0), User(2, bob, 0, 2)}, {}, {}),
     Source({User(2, bob, -1, 0)}, {Txn(1, 2, 1)}, {}),
     Source({User(1, ann, 3, 0), User(2, ann, 1, 0)}, {}, {}),
     Source({User(1, ann, 3, 0)}, {Txn(1, 2, 2)}, {}),
     Source({User(1, ann, 3, 0)}, {Txn(1, 1, -2)}, {Wager(1, 1, Bad)})}

Symmetry == Permutations(Requests) \cup Permutations(Commands)
=============================================================================
