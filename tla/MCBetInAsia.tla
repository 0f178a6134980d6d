---------------------------- MODULE MCBetInAsia -------------------------------
EXTENDS BetInAsia
CONSTANTS x, y
MCEvents == {x, y}
MCCallers == {"first", "second"}
===============================================================================
