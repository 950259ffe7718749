-------------------------- MODULE MCPaymentFunnel --------------------------
(* Model values for the runs of PaymentFunnel. *)
EXTENDS PaymentFunnel

CONSTANTS p1, p2, o1, o2, m1, u1, b1, web, app

TwoPayments == {p1, p2}
TwoOrders   == {o1, o2}
OneOrder    == {o1}
OneMethod   == {m1}
OneUnit     == {u1}
OneBu       == {b1}
SameBu      == [u \in Units |-> b1]
OneEntry    == {"entry"}
OneChannel  == {web}
TwoChannels == {web, app}
PendingOrCaptured == {"pending", "captured"}
=============================================================================
