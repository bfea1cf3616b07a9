----------------------------- MODULE MCTreasury -----------------------------
(***************************************************************************)
(* Two connections of one role, a market and a depot.  The file of a       *)
(* facility lists three levels, of which two can be reached; the queue     *)
(* holds two balances instead of 100.                                      *)
(***************************************************************************)
EXTENDS Treasury, TLC

CONSTANTS c1, c2, market, depot

MCConns    == {c1, c2}
MCOneConn  == {c1}
MCTypes    == {market, depot}
MCOneType  == {market}
MCAdds     == [t \in Types |-> IF t = market THEN "market" ELSE "capacity"]
MCNeedWood == <<1, 1, 2>>
MCBase     == [gold |-> 1, wood |-> 6, capacity |-> 2, market |-> 0]
MCTrades   == {-1, 1}

(* The two connections are treated alike and no property is a liveness.     *)
MCSymmetry == Permutations(MCConns)
==============================================================================
