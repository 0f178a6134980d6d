-------------------------------- MODULE MCPages --------------------------------
(* Two leagues that share one tab, starting one after the other; two reader tabs    *)
(* beside the board; two sports; one game.                                          *)
EXTENDS Pages
MCStartsAt == [l \in {"a", "b"} |-> IF l = "a" THEN 1 ELSE 2]
MCTargets == <<"s1", "s2">>
================================================================================
