----------------------------- MODULE MCQueries -----------------------------
(* Values for TLC.                                                         *)
EXTENDS Queries, TLC

CONSTANTS c1, c2, l1, k1, k2, none, noConn

MCCaller == {c1, c2, l1}
MCLoader == {l1}
MCMaxCalls == (c1 :> 2) @@ (c2 :> 1) @@ (l1 :> 1)
MCConn == {k1, k2}

=============================================================================
