---------------------------- MODULE MCAppController ----------------------------
(* Two queries, one of which leaves a transaction out; pages of one row.   *)
EXTENDS AppController

MCMatches == [q \in Queries |-> IF q = Unfiltered THEN Txs ELSE {1, 3}]
================================================================================
