---------------------------- MODULE MCPerpMarket ----------------------------
EXTENDS PerpMarket

LOCAL INSTANCE TLC

CONSTANTS a, b, c   \* accounts

(* Accounts that start alike are interchangeable. *)
AccountSymmetry == Permutations(Accounts)

(* No account has traded yet. *)
NoPositions == [x \in Accounts |-> 0]

(* A rebate for makers. *)
MakerRebate == -1

(* b is short what the other accounts together are long. *)
OneShort == [x \in Accounts |-> IF x = b THEN 1 - Cardinality(Accounts) ELSE 1]

(* The long accounts are interchangeable. *)
LongSymmetry == Permutations(Accounts \ {b})
=============================================================================
