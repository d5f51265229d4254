---------------------------- MODULE MCOrderEngine ----------------------------
(***************************************************************************)
(* Instances of OrderEngine for TLC: two or three sessions of one or two   *)
(* bars, prices of one and two, lots of two shares.                        *)
(***************************************************************************)
EXTENDS OrderEngine

CONSTANTS A, B

Bar(open, low, high, close, share) ==
  [open |-> open, low |-> low, high |-> high, close |-> close, share |-> share]

\* A quiet bar in which little trades, and one whose price jumps.
MCMarkets == {Bar(1, 1, 1, 1, 1), Bar(2, 1, 2, 2, 4)}

Intent(s, kind, side, n, limit, tif) ==
  [s |-> s, kind |-> kind, side |-> side, n |-> n, limit |-> limit, tif |-> tif]

\* Shares bought and sold, targets of three kinds.
MCIntents ==
  {Intent(A, "quantity", "buy", 2, 2, "day"), Intent(A, "quantity", "sell", 2, 0, "gtc"),
   Intent(A, "worth", "buy", 3, 0, "gtc"), Intent(A, "target", "buy", 0, 0, "day"),
   Intent(B, "target", "buy", 2, 0, "day"), Intent(B, "quantity", "sell", 2, 0, "day")}

\* A strategy that gives targets only.
MCTargets == {Intent(A, "target", "buy", 4, 0, "day"), Intent(B, "target", "buy", 2, 2, "day")}
\* A dividend of A whose shares are sold before, between and after its
\* sessions, a distribution to the same holders, and a split of B.
MCActions ==
  << [s |-> A, kind |-> "dividend", record |-> 1, ex |-> 2, settled |-> FALSE, mark |-> 1, each |-> 2,
      pay |-> <<2, "close">>, rates |-> <<8, 1, 0>>, first |-> 5],
     [s |-> A, kind |-> "shares", record |-> 1, ex |-> 2, settled |-> FALSE, mark |-> 2, num |-> 1, den |-> 2,
      from |-> 3, tax |-> 1, inherit |-> TRUE],
     [s |-> B, kind |-> "split", record |-> 1, ex |-> 2, settled |-> TRUE, mark |-> 0, num |-> 3, den |-> 2,
      from |-> 3, tax |-> 0] >>
MCNone == <<>>

=============================================================================
