--------------------------- MODULE MCPinnacleOdds ---------------------------
\* A fixture whose live matchup swaps home and away, and its games shell.
EXTENDS PinnacleOdds, TLC
MCNames == (1 :> [home |-> "ann", away |-> "bea"]) @@ (2 :> [home |-> "bea", away |-> "ann"])
             @@ (3 :> [home |-> "ann", away |-> "bea"])
MCCutoff == (1 :> 2) @@ (2 :> 0) @@ (3 :> 0)
=============================================================================
