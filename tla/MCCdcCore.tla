----------------------------- MODULE MCCdcCore -----------------------------
(* Model values and symmetry for the runs of CdcCore. *)
EXTENDS CdcCore, TLC

CONSTANTS k1, k2, w1, w2

SomeKeys    == {k1, k2}
OneKey      == {k1}
OneWriter   == {w1}
TwoWriters  == {w1, w2}
WriteOrDel  == {"c", "d"}
OneMonth    == {1}
TwoMonths   == {1, 2}

Symmetry == Permutations(SomeKeys) \cup Permutations(TwoWriters)
=============================================================================
