---------------------------- MODULE MCStakeLimits ----------------------------
(***************************************************************************)
(* OneSide: two wagers of u1 and one of u2 compete for one side.           *)
(* SameForm: u1 sends one form twice, the second time with another stake,  *)
(* on a market without limits.                                             *)
(* ForMember: an administrator places for u1, who places too.              *)
(* Spread: u1 places on both sides of the market (for the reader who wants *)
(* to see MemberStopsAtMarketLimit fail).                                  *)
(***************************************************************************)
EXTENDS StakeLimits, TLC

CONSTANTS u1, u2, a, b, w1, w2, w3, r1, r2, r3

By(w, u, s, n) == [wager |-> w, user |-> u, side |-> s, stake |-> n, byAdmin |-> FALSE]

OneSide ==
  [limit |-> 2, auto |-> 0, may |-> {"limits"},
   asks |-> (r1 :> By(w1, u1, a, 2)) @@ (r2 :> By(w2, u1, a, 1)) @@ (r3 :> By(w3, u2, a, 1))]

SameForm ==
  [limit |-> 0, auto |-> 1, may |-> {"members", "time"},
   asks |-> (r1 :> By(w1, u1, a, 2)) @@ (r2 :> By(w1, u1, a, 1))]

ForMember ==
  [limit |-> 2, auto |-> 1, may |-> {"members", "limits"},
   asks |-> (r1 :> By(w1, u1, a, 1)) @@ (r2 :> [By(w2, u1, a, 2) EXCEPT !.byAdmin = TRUE])]

Spread ==
  {[limit |-> 2, auto |-> 0, may |-> {},
    asks |-> (r1 :> By(w1, u1, a, 2)) @@ (r2 :> By(w2, u1, b, 1))]}

OneMarket == {OneSide, SameForm, ForMember}
=============================================================================
