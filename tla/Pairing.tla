-------------------------------- MODULE Pairing ---------------------------------
(* The two pairing pipelines of the repository, side by side: the hard-venue one  *)
(* (HardPairs) and the Kalshi-Polymarket one (CrossPairs).  They share no file    *)
(* and no process; a behaviour is one of them at work.                            *)
EXTENDS HardPairs, CrossPairs

VARIABLE pipeline  \* the one that is at work

PairingInit ==
  /\ pipeline \in {"hard", "cross"}
  /\ HardInit /\ CrossInit
  /\ pipeline = "cross" => venue = "pinnacle"
PairingNext ==
  \/ pipeline = "hard" /\ HardNext /\ UNCHANGED <<pipeline, crossVars>>
  \/ pipeline = "cross" /\ CrossNext /\ UNCHANGED <<pipeline, hardVars>>
PairingSpec == PairingInit /\ [][PairingNext]_<<pipeline, hardVars, crossVars>>

\* The Kalshi-Polymarket pipeline loses nothing it was not told to lose: a live market's
\* row, a row before it is archived, a verdict that was paid for.
FilesKept == LiveKept /\ ArchivedFirst /\ JudgedIsOnFile
===============================================================================
