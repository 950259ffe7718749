----------------------------- MODULE CurrentState -----------------------------
(***************************************************************************)
(* What the L0 -> L1 path of one entity promises its readers: for every    *)
(* key, v_<e>_current shows the newest version delivered so far, and       *)
(* nothing when that version is a delete.  Batches, retries, duplicates,   *)
(* arrival order, partitions and background merges do not exist here.      *)
(***************************************************************************)
EXTENDS Integers, Sequences

CONSTANTS Keys, Ops, MaxSeq

VARIABLES
    script,   \* the source's versions: script[n] is the n-th change
    cur       \* [Keys -> newest version delivered, and whether it is a row]

vars == <<script, cur>>

Nothing == [ver |-> 0, live |-> FALSE]

Shown(n) == [ver |-> n, live |-> script[n].op # "d"]

Init == script = <<>> /\ cur = [k \in Keys |-> Nothing]

\* The source changes a key.
Change(k, op) ==
    /\ Len(script) < MaxSeq
    /\ script' = Append(script, [key |-> k, op |-> op])
    /\ UNCHANGED cur

\* Some versions reach the reader: a key moves to the newest of its versions
\* among them, if that is newer than what it shows.
Deliver(versions) ==
    LET Newer(k) == {n \in versions : script[n].key = k /\ n > cur[k].ver}
    IN  /\ cur' = [k \in Keys |->
                     IF Newer(k) = {} THEN cur[k]
                     ELSE Shown(CHOOSE n \in Newer(k) : \A m \in Newer(k) : m <= n)]
        /\ UNCHANGED script

Next ==
    \/ \E k \in Keys, op \in Ops : Change(k, op)
    \/ \E versions \in SUBSET (1..Len(script)) : Deliver(versions)

Spec == Init /\ [][Next]_vars
=============================================================================
