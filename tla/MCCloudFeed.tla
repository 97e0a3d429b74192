---------------------------- MODULE MCCloudFeed ----------------------------
(* Instances of CloudFeed for TLC.                                         *)
EXTENDS CloudFeed

CONSTANTS b1, b2, w1, w2

(* Three rows, two of the first model (one page holds one of them).        *)
ThreeRowsModel == [r \in {1, 2, 3} |-> IF r = 3 THEN 2 ELSE 1]
AllToB1 == [r \in {1, 2, 3} |-> {b1}]
TiedLegacy3 == [r \in {1, 2, 3} |-> IF r = 3 THEN 0 ELSE 1]

(* One row, of one terminal.                                               *)
OneRowModel == [r \in {1} |-> 1]
OwnRow == [r \in {1} |-> {b1}]
NoLegacy1 == [r \in {1} |-> 0]
=============================================================================
