------------------------------ MODULE MCMockFlow ------------------------------
(* Values for the runs of MockFlow. *)
EXTENDS MockFlow

\* Noon; less than a day later; more than a day later and three minutes before midnight.
ThreeBases == {720, 2159, 2877}
Noon      == {720}
\* The second base also a day too early.
Days      == {<<720, 0>>, <<2159, 0>>, <<2159, 1>>, <<2877, 1>>}
NoonLoads == {<<720, 0>>}
\* The items of a load without its orders, or with a part of them.
HalfLoads == {"order"}
NoBreaks  == {}
Month     == -4 * Day
BeforeMvs == {1, 7}
NoStops   == {}

\* Of the two groups with more than one row that check 12 and check 13 look at, one row.
OneCut    == {[funnel |-> {<<"PAY-RETRY", 1>>}, revenue |-> {"ORD-000129"}]}
NoCuts    == {}
===============================================================================
