--------------------------- MODULE MCAutoBlocker ---------------------------
(* Instances of AutoBlocker for TLC.                                       *)
EXTENDS AutoBlocker, TLC

\* No action treats one address differently from another.
AddrSymmetry == Permutations(Addrs)
============================================================================
