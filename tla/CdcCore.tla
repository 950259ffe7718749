------------------------------- MODULE CdcCore -------------------------------
(***************************************************************************)
(* One CDC entity on its way from the source to the current-state view:    *)
(*                                                                         *)
(*   generator (SeqCounter)  ->  INSERT into dh_landing.<e>_raw            *)
(*      -> incremental MV  ->  dh_core.<e>  (ReplacingMergeTree)           *)
(*      -> dh_core.v_<e>_current  (FINAL WHERE _is_deleted = 0)            *)
(*                                                                         *)
(* The eight entities of internal/contexts share this shape: same landing  *)
(* engine, same MV projection, same core engine, same view.  They differ   *)
(* in the key and in the PARTITION BY expression; `part' is chosen freely  *)
(* for every version, which covers the entity whose partition column       *)
(* changes between versions (stock_position, by position_at).              *)
(*                                                                         *)
(* A writer is whoever inserts into the entity: scripts/mock/load.sh, the  *)
(* connector's task, or the operator who rebuilds L1 from L0.  ClickHouse  *)
(* itself is not in the repository: its insert, merge and FINAL are        *)
(* modelled from the way the DDL uses them.                                *)
(***************************************************************************)
EXTENDS Integers, Sequences, FiniteSets

CONSTANTS
    Keys,            \* business keys (ORDER BY of the core table)
    Ops,             \* the CDC operations used
    Parts,           \* values of the core table's PARTITION BY expression
    Writers,         \* concurrent inserters
    MaxSeq,          \* bound: versions the generator emits
    MaxGen,          \* bound: runs of the generator
    MaxBatch,        \* bound: rows of one INSERT
    MaxInserts,      \* bound: INSERTs started
    MaxFails,        \* bound: INSERTs interrupted
    MaxRebuilds,     \* bound: rebuilds of L1 from L0
    LandingExpires   \* whether the TTL of the landing table is reached

ASSUME CdcAssumption ==
    /\ Ops \subseteq {"c", "u", "d", "r"}
    /\ MaxSeq \in Nat \ {0} /\ MaxGen \in Nat \ {0} /\ MaxBatch \in Nat \ {0}
    /\ MaxInserts \in Nat /\ MaxFails \in Nat /\ MaxRebuilds \in Nat
    /\ LandingExpires \in BOOLEAN

VARIABLES
    script,    \* what the generator decided for each _cdc_seq: key and operation
    log,       \* events emitted so far, of every run of the generator
    landing,   \* events in dh_landing.<e>_raw
    core,      \* rows of dh_core.<e>, before FINAL
    job,       \* [Writers -> the INSERT in progress]
    blocks,    \* [Parts -> last block number of the partition]
    rebuild,   \* "idle", or "truncated" between TRUNCATE and INSERT ... SELECT
    inserts, fails, rebuilds    \* counters of the bounds

vars == <<script, log, landing, core, job, blocks, rebuild, inserts, fails, rebuilds>>

\* One message: the business row with its envelope.  The payload is abstracted
\* to the run of the generator that produced it (`gen'): within a run the row
\* is a function of _cdc_seq, across runs it is not, because --base moves.
Event == [seq : 1..MaxSeq, key : Keys, op : Ops, part : Parts, gen : 1..MaxGen]

Row == [key : Keys, ver : 1..MaxSeq, del : {0, 1}, part : Parts,
        gen : 1..MaxGen, pos : Nat]

\* An INSERT holds the rows its client must deliver until it is acknowledged;
\* `todo' are the rows not yet pushed to the core table.  Interrupted: rows are
\* held and nothing is being pushed.
Idle        == [held |-> {}, todo |-> {}]
IsIdle(w)   == job[w].held = {}
Broken(w)   == job[w].held # {} /\ job[w].todo = {}
Held        == UNION {job[w].held : w \in Writers}

\* Somebody still has to push the event: it is on its way, or its INSERT broke
\* and will be sent again.
Pending(e)  == \E w \in Writers : e \in job[w].held /\ (e \in job[w].todo \/ Broken(w))

\* Mutant: the MV forwards the code of the Enum8 _op.
MutEnumCode(op) == IF op = "d" THEN 3 ELSE IF op = "c" THEN 1 ELSE 2
\* Mutant: the MV forgets the delete flag.
MutNeverDeleted(op) == 0

\* The MV's projection: _op is reduced to the delete flag, and _topic,
\* _partition, _offset and _kafka_ts are dropped.
IsDeleted(op)   == IF op = "d" THEN 1 ELSE 0
ToCore(e, pos)  == [key |-> e.key, ver |-> e.seq, del |-> IsDeleted(e.op),
                    part |-> e.part, gen |-> e.gen, pos |-> pos]

\* Mutant: ReplacingMergeTree without a version column, the last row wins.
MutLastInsertedWins(s, r) ==
    s.key = r.key /\ s.part = r.part /\ s.pos > r.pos

\* ReplacingMergeTree(_cdc_seq, _is_deleted): the greater version wins; at equal
\* versions the later row of the partition does (later block, or later line of
\* the same block).  Between partitions nothing orders equal versions.
Beats(s, r) ==
    /\ s.key = r.key
    /\ \/ s.ver > r.ver
       \/ /\ s.ver = r.ver /\ s.part = r.part
          /\ \/ s.pos > r.pos
             \/ s.pos = r.pos /\ s.gen > r.gen

Unbeaten(rows) == {r \in rows : ~ \E s \in rows : Beats(s, r)}

\* SELECT ... FINAL, and the view on top of it.
Final(k)    == {r \in Unbeaten(core) : r.key = k}
Current(k)  == {r \in Final(k) : r.del = 0}

-----------------------------------------------------------------------------
Init ==
    /\ script = <<>> /\ log = {} /\ landing = {} /\ core = {}
    /\ job = [w \in Writers |-> Idle]
    /\ blocks = [p \in Parts |-> 0]
    /\ rebuild = "idle"
    /\ inserts = 0 /\ fails = 0 /\ rebuilds = 0

\* The generator draws the next _cdc_seq for some key and stamps the envelope.
Emit(k, op, p) ==
    /\ Len(script) < MaxSeq
    /\ script' = Append(script, [key |-> k, op |-> op])
    /\ log' = log \cup {[seq |-> Len(script) + 1, key |-> k, op |-> op, part |-> p, gen |-> 1]}
    /\ UNCHANGED <<landing, core, job, blocks, rebuild, inserts, fails, rebuilds>>

\* A later run of the generator starts a new SeqCounter and emits the same
\* sequence for the same keys, around another base time.
EmitAgain(s, g, p) ==
    /\ \A e \in log : ~ (e.seq = s /\ e.gen = g)
    /\ log' = log \cup {[seq |-> s, key |-> script[s].key, op |-> script[s].op,
                         part |-> p, gen |-> g]}
    /\ UNCHANGED <<script, landing, core, job, blocks, rebuild, inserts, fails, rebuilds>>

\* INSERT INTO dh_landing.<e>_raw of a batch: the landing part is written and the
\* MV starts pushing.  The batch may hold any emitted events, in any order and
\* again: a file of load.sh, a poll of the connector, a redelivery.
Insert(w, batch) ==
    /\ inserts < MaxInserts /\ IsIdle(w)
    /\ landing' = landing \cup batch
    /\ job' = [job EXCEPT ![w] = [held |-> batch, todo |-> batch]]
    /\ inserts' = inserts + 1
    /\ UNCHANGED <<script, log, core, blocks, rebuild, fails, rebuilds>>

\* The MV writes the part of one partition of dh_core.<e>; the last one
\* acknowledges the INSERT.
Push(w, p) ==
    LET rows == {e \in job[w].todo : e.part = p}
        rest == job[w].todo \ rows
    IN  /\ rows # {}
        /\ blocks' = [blocks EXCEPT ![p] = @ + 1]
        /\ core' = core \cup {ToCore(e, blocks[p] + 1) : e \in rows}
        /\ job' = [job EXCEPT ![w] = IF rest = {} THEN Idle ELSE [@ EXCEPT !.todo = rest]]
        /\ UNCHANGED <<script, log, landing, rebuild, inserts, fails, rebuilds>>

\* The INSERT breaks after the landing part and before the last core part: the
\* parts already written stay, the client keeps the batch.
Break(w) ==
    /\ fails < MaxFails /\ job[w].todo # {}
    /\ job' = [job EXCEPT ![w].todo = {}]
    /\ fails' = fails + 1
    /\ UNCHANGED <<script, log, landing, core, blocks, rebuild, inserts, rebuilds>>

\* Mutant: the client drops the batch and goes on.
MutRetryGivesUp(w) ==
    /\ Broken(w)
    /\ job' = [job EXCEPT ![w] = Idle]
    /\ UNCHANGED <<script, log, landing, core, blocks, rebuild, inserts, fails, rebuilds>>

\* The client sends the whole batch again (the connector by itself, load.sh when
\* it is run again): landing does not deduplicate, the MV fires for every row.
Retry(w) ==
    /\ Broken(w)
    /\ landing' = landing \cup job[w].held
    /\ job' = [job EXCEPT ![w].todo = job[w].held]
    /\ UNCHANGED <<script, log, core, blocks, rebuild, inserts, fails, rebuilds>>

\* Mutant: of equal versions a merge keeps the first.
MutMergeFirstWins(p, lo, hi) ==
    LET range == {r \in core : r.part = p /\ r.pos \in lo..hi}
        kept  == {r \in range : ~ \E s \in range :
                    s.key = r.key /\ (s.ver > r.ver \/ (s.ver = r.ver /\ s.pos < r.pos))}
    IN  /\ kept # range
        /\ core' = (core \ range) \cup kept
        /\ UNCHANGED <<script, log, landing, job, blocks, rebuild, inserts, fails, rebuilds>>

\* A background merge replaces the parts lo..hi of a partition by one, keeping
\* for each key the row nothing in the range beats.  Tombstones are kept: the
\* DDL enables no cleanup.
Merge(p, lo, hi) ==
    LET range == {r \in core : r.part = p /\ r.pos \in lo..hi}
    IN  /\ Unbeaten(range) # range
        /\ core' = (core \ range) \cup Unbeaten(range)
        /\ UNCHANGED <<script, log, landing, job, blocks, rebuild, inserts, fails, rebuilds>>

\* The landing TTL (90 to 365 days) drops a row.  No INSERT lasts that long.
Expire(e) ==
    /\ LandingExpires /\ e \notin Held
    /\ landing' = landing \ {e}
    /\ UNCHANGED <<script, log, core, job, blocks, rebuild, inserts, fails, rebuilds>>

\* The documented rebuild of L1 from L0: TRUNCATE dh_core.<e>, then
\* INSERT INTO dh_core.<e> SELECT <projection of the MV> FROM dh_landing.<e>_raw.
Truncate ==
    /\ rebuilds < MaxRebuilds /\ rebuild = "idle"
    /\ core' = {}
    /\ rebuild' = "truncated"
    /\ rebuilds' = rebuilds + 1
    /\ UNCHANGED <<script, log, landing, job, blocks, inserts, fails>>

\* Mutant: the rebuild leaves out the deletes.
MutReinsertWithoutDeletes(w) ==
    LET rows == {e \in landing : e.op # "d"}
    IN  /\ rebuild = "truncated" /\ IsIdle(w)
        /\ job' = [job EXCEPT ![w] = [held |-> rows, todo |-> rows]]
        /\ rebuild' = "idle"
        /\ UNCHANGED <<script, log, landing, core, blocks, inserts, fails, rebuilds>>

\* The INSERT ... SELECT takes all that has landed, by the usual way of an INSERT.
Reinsert(w) ==
    /\ rebuild = "truncated" /\ IsIdle(w)
    /\ job' = [job EXCEPT ![w] = [held |-> landing, todo |-> landing]]
    /\ rebuild' = "idle"
    /\ UNCHANGED <<script, log, landing, core, blocks, inserts, fails, rebuilds>>

Batches == {b \in SUBSET log : b # {} /\ Cardinality(b) <= MaxBatch}

Next ==
    \/ \E k \in Keys, op \in Ops, p \in Parts : Emit(k, op, p)
    \/ \E s \in 1..Len(script), g \in 2..MaxGen, p \in Parts : EmitAgain(s, g, p)
    \/ \E w \in Writers : \E b \in Batches : Insert(w, b)
    \/ \E w \in Writers, p \in Parts : Push(w, p)
    \/ \E w \in Writers : Break(w)
    \/ \E w \in Writers : Retry(w)
    \/ \E p \in Parts : \E lo, hi \in 1..blocks[p] : Merge(p, lo, hi)
    \/ \E e \in landing : Expire(e)
    \/ Truncate
    \/ \E w \in Writers : Reinsert(w)

Spec == Init /\ [][Next]_vars

\* The server finishes an INSERT it started; the connector retries a failed
\* batch for ever; a rebuild, once started, is carried to its end.
Fairness ==
    /\ \A w \in Writers, p \in Parts : WF_vars(Push(w, p))
    /\ \A w \in Writers : WF_vars(Retry(w))
    /\ WF_vars(\E w \in Writers : Reinsert(w))

FairSpec == Spec /\ Fairness
-----------------------------------------------------------------------------
(* Properties *)

\* Every variable stays in its type; landing and the INSERTs in progress hold
\* emitted events only, and nobody pushes a row it does not hold.
TypeOK ==
    /\ script \in Seq([key : Keys, op : Ops]) /\ Len(script) <= MaxSeq
    /\ log \subseteq Event
    /\ landing \subseteq log
    /\ core \subseteq Row
    /\ job \in [Writers -> [held : SUBSET log, todo : SUBSET log]]
    /\ \A w \in Writers : job[w].todo \subseteq job[w].held
    /\ blocks \in [Parts -> Nat]
    /\ rebuild \in {"idle", "truncated"}
    /\ inserts \in Nat /\ fails \in Nat /\ rebuilds \in Nat

\* Some row of the core table stands for the event, or for a newer version.
Reflected(e) == \E r \in core : r.key = e.key /\ r.ver >= e.seq

\* L0 <-> L1 reconciliation: a landed version that nobody still has to push is in
\* the core table or was replaced there by a newer version of its key, whatever
\* INSERTs broke half way, rows expired, parts merged and rebuilds ran meanwhile.
LandingReflected ==
    rebuild = "idle" => \A e \in landing : Pending(e) \/ Reflected(e)

\* The reader's view: once no version of the key is pending, the view shows
\* exactly one version of it, at least as new as every landed one, or no row when
\* that version is a delete.  Covers out-of-order arrival, delete, resurrection
\* by a newer version, and redelivery.
CurrentIsLatest ==
    rebuild = "idle" =>
    \A k \in Keys :
        LET mine == {e.seq : e \in {x \in landing : x.key = k}}
        IN  (mine # {} /\ \A e \in landing : e.key = k => ~ Pending(e)) =>
            \E v \in 1..Len(script) :
                /\ script[v].key = k /\ \A n \in mine : n <= v
                /\ {r.ver : r \in Current(k)} = IF script[v].op = "d" THEN {} ELSE {v}

\* A version, once in the core table, is only ever replaced by a newer version of
\* its key: no redelivery, merge, broken INSERT or TTL takes a key back in time.
\* Only the rebuild's TRUNCATE may.
VersionsNeverRegress ==
    [][rebuilds' = rebuilds =>
        \A r \in core : \E s \in core' : s.key = r.key /\ s.ver >= r.ver]_vars

\* Merges are invisible: a background merge never changes what FINAL, and so the
\* view, returns for any key.
MergeInvisible ==
    [][(\E p \in Parts : \E lo, hi \in 1..blocks[p] : Merge(p, lo, hi))
        => \A k \in Keys : Final(k)' = Final(k)]_vars

\* The detailed path implements the register of CurrentState.
CurrentOf(k) ==
    IF Final(k) = {} THEN [ver |-> 0, live |-> FALSE]
    ELSE LET r == CHOOSE x \in Final(k) : TRUE IN [ver |-> r.ver, live |-> r.del = 0]

Abstract == INSTANCE CurrentState WITH cur <- [k \in Keys |-> CurrentOf(k)]
RefinesCurrentState == Abstract!Spec

\* What lands is eventually shown, or overtaken: no broken INSERT or rebuild leaves
\* a landed version out of the core table for good.
Converges ==
    \A n \in 1..MaxSeq :
        (\E e \in landing : e.seq = n) ~> (\E r \in core : r.ver >= n /\ r.key = script[n].key)

\* What the documentation says of equal versions: the one with the greatest
\* _kafka_ts wins, that is, the one of the latest run.
TieBreakByKafkaTs ==
    (rebuild = "idle" /\ Held = {}) =>
    \A k \in Keys : \A r \in Current(k) :
        \A e \in landing : (e.key = k /\ e.seq = r.ver) => e.gen <= r.gen

\* What the documentation says of the rebuild: it is idempotent, so a version the
\* core table holds is there (or overtaken) for good after every rebuild.
RebuildRestores ==
    \A n \in 1..MaxSeq :
        (\E r \in core : r.ver >= n /\ r.key = script[n].key)
            ~> [](\E r \in core : r.ver >= n /\ r.key = script[n].key)
=============================================================================
