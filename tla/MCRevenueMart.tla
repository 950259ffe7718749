--------------------------- MODULE MCRevenueMart ---------------------------
(* Model values for the runs of RevenueMart. *)
EXTENDS RevenueMart

CONSTANTS o1, o2, g1, g2, b1

TwoOrders == {o1, o2}
OneOrder  == {o1}
TwoGroups == {g1, g2}
OneGroup  == {g1}
OneLine   == {1}
OneBu     == {b1}
SameBu    == [g \in Groups |-> b1]
OneEntry  == {"entry"}
TwoNames  == {"old name", "new name"}
Totals    == {1, 2}
=============================================================================
