----------------------------- MODULE MCPublish -----------------------------
(* Datasets and keys for the runs of Publish. *)
EXTENDS Publish

\* Two entities and an empty dataset; the first one sends two versions of key a
\* around one of key b, which goes to the other partition.
TwoAndEmpty == <<"order", "none", "item">>
FewRecords  == [order |-> <<"a", "b", "a">>, none |-> <<>>, item |-> <<"a", "b">>]
MiddleOne   == {[name |-> "order", n |-> 2]}
ByKey       == [a |-> 0, b |-> 1]
=============================================================================
