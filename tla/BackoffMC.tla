----------------------------- MODULE BackoffMC -----------------------------
(* Small policies, with multipliers from 1 to 4, for TLC.                  *)
EXTENDS Backoff

SmallBases == {0, 1, 3, 5, 20}
SmallCaps == {1, 7, 30, 60}
DyadicMultipliers == {<<1, 1>>, <<5, 4>>, <<3, 2>>, <<2, 1>>, <<4, 1>>}
=============================================================================
