------------------------------- MODULE MockFlow -------------------------------
(***************************************************************************)
(* The mock flow from end to end: one operator calls make db-apply         *)
(* (apply-ddl.sh), mock-load (load.sh) and mock-verify (verify.sh), one    *)
(* after the other and in any order, while the server refreshes the marts, *)
(* reloads the dictionaries and the day changes.  Calls may stop half way  *)
(* and be repeated with another base instant.                              *)
(*                                                                         *)
(* Instants are minutes.  A core table is its FINAL content with the       *)
(* tombstones: what CdcCore promises of the versions that went in.  A mart *)
(* is its FINAL view; RevenueMart and PaymentFunnel model the refresh in   *)
(* detail.  Here a query reads L1 in one step, and the names of business   *)
(* units until it ends: a copy of the dictionary that is replaced meanwhile*)
(* splits groups, and FINAL keeps a part of one.                           *)
(***************************************************************************)
EXTENDS MockData, FiniteSets, FiniteSetsExt

CONSTANTS
    Bases,       \* instants at which a load may start (date -u, or MOCK_BASE)
    MonthStart,  \* the instant at which a month (a partition) begins
    Window,      \* days before today that a refresh recomputes (3 in the code)
    MaxTries,    \* polls of verify.sh (20 in the code)
    Stops,       \* statements after which an apply may stop
    Breaks,      \* files at which a load may stop
    Cuts,        \* where a query may be when the dictionary is loaded again: for each
                 \* mart, ids of the rows of which the view keeps the part of a group
    Loads,       \* bound: the bases with the days on which a load of each is started
    MaxDay,      \* bound: last day
    MaxCalls     \* bound: calls of make targets

VARIABLES
    objects,     \* statements of the DDL that have taken effect
    tables,      \* [Datasets -> entries of the core table, one per key]
    dicts,       \* [Dicts -> {copy}, or {} before the first use]
    marts,       \* [Marts -> rows of the view]
    refresh,     \* [Marts -> the refresh: asked for, running, and what it read]
    today,       \* the server's today()
    load,        \* load.sh: the next file and its base, or NoLoad
    loaded,      \* bases of the loads that exited 0 on a complete schema
    early,       \* bases of the loads that were started before the day of their base
    verify,      \* verify.sh: where it is and the numbers of the checks that failed, until
                 \* the next call
    calls        \* counter of the bound

vars == <<objects, tables, dicts, marts, refresh, today, load, loaded, early, verify,
          calls>>

Dicts == {"business_unit", "discount_codes"}
Marts == {"funnel", "revenue"}

\* Order of the statements: the landing tables (1), core table, MV and view per
\* entity (2..9), the dictionaries, the marts.
Statement ==
    [customer |-> 2, stock_position |-> 3, business_unit |-> 4, discount_codes |-> 5,
     prices |-> 6, order |-> 7, order_item |-> 8, order_payment |-> 9]
LastCore      == 9
MartStatement == [revenue |-> 12, funnel |-> 13]
LastStatement == 13

ASSUME MockAssumption ==
    /\ Bases \subseteq Nat /\ MonthStart \in Int /\ Stops \subseteq 0..LastStatement
    /\ Window \in Nat /\ MaxTries \in Nat /\ MaxDay \in Nat /\ MaxCalls \in Nat

Files == <<"business_unit", "discount_codes", "prices", "customer", "stock_position",
           "order_item", "order", "order_payment">>

NoLoad   == [file |-> 0, base |-> 0]
NoVerify == [at |-> "idle", tries |-> 0, failed |-> {}, ready |-> FALSE, asked |-> {},
             waited |-> FALSE]
Waiting  == [asked |-> FALSE, on |-> FALSE, rows |-> {}, parts |-> {}, seen |-> {}]

Free      == load.file = 0 /\ verify.at \in {"idle", "done"} /\ calls < MaxCalls
DayOf(t)  == t \div Day
MonthOf(t) == IF t < MonthStart THEN 0 ELSE 1

-----------------------------------------------------------------------------
(* L1: what the versions of a file do to the FINAL content of a table.     *)

\* The file of a dataset: its rows at their instants, with their sorting key.
Batch(d, base) ==
    {LET row == [e.row EXCEPT !.at = @ + base]
     IN  [key |-> IF d = "prices" THEN <<row.id, row.at>> ELSE row.id,
          ver |-> e.ver, op |-> e.op, row |-> row] :
        e \in {Generated[d][i] : i \in DOMAIN Generated[d]}}

Contents == [f \in Datasets \X Bases |-> Batch(f[1], f[2])]

\* Mutant: the engine compares all columns, equal versions stay side by side.
MutFinalDistinct(old, new, kept) ==
    LET all == old \cup new
    IN  {x \in all : \A y \in all : y.key = x.key => y.ver <= x.ver}

\* FINAL: the highest _cdc_seq of every key; of two rows with the same one the later
\* insert, unless they lie in different partitions and the key is in `kept'.
Final(old, new, kept) ==
    LET all == old \cup new
        beats(y, x) == \/ y.ver > x.ver
                       \/ y.ver = x.ver /\ IF x.key \in kept THEN y \in old ELSE y \in new
    IN  {x \in all : \A y \in all \ {x} : y.key = x.key => ~ beats(y, x)}

\* Keys for which the partitions leave it open.
Open(old, new) ==
    {x.key : x \in {z \in old : \E y \in new :
        y.key = z.key /\ y.ver = z.ver /\ MonthOf(y.row.at) # MonthOf(z.row.at)}}

\* Mutant: the view without WHERE _is_deleted = 0.
MutViewAll(d) == tables[d]

\* v_<entity>_current.
View(d) == {x \in tables[d] : x.op # "d"}

Rows(d) == {x.row : x \in View(d)}

-----------------------------------------------------------------------------
(* Dictionaries and marts: the queries.                                    *)

Source(d) == {<<r.id, r.is>> : r \in Rows(d)}
Seen(d)   == IF dicts[d] = {} THEN Source(d) ELSE UNION dicts[d]
\* The first query that needs a dictionary loads it.
Loaded(ds) == [d \in Dicts |-> IF d \in ds THEN {Seen(d)} ELSE dicts[d]]

Within(rows) == {r \in rows : DayOf(r.at) >= today - Window}

Bucket(n) == CASE n <= 1 -> "1" [] n <= 6 -> "2-6" [] n <= 12 -> "7-12" [] OTHER -> "13+"

\* mv__payment_funnel_day, by the sorting key of its table.
FunnelKey(p, o) == <<DayOf(p.at), p.method, p.acquirer, Bucket(p.installments), o.bu>>

FunnelRow(k, pays, pairs) ==
    LET tries(o) == Cardinality({p \in pays : p.order = o})
        ps == {po[1] : po \in {x \in pairs : FunnelKey(x[1], x[2]) = k}}
        os == {p.order : p \in ps}
    IN  [key       |-> k,
         acquirer  |-> k[3],
         attempts  |-> Cardinality(ps),
         captured  |-> Cardinality({p \in ps : p.status = "captured"}),
         orders    |-> Cardinality(os),
         most      |-> Max({tries(o) : o \in os}),
         retried   |-> Cardinality({o \in os : tries(o) > 1}),
         latencies |-> UNION {p.auth : p \in ps}]

FunnelRowsOf(pays, pairs) ==
    {FunnelRow(k, pays, pairs) : k \in {FunnelKey(x[1], x[2]) : x \in pairs}}

\* The payments of the window with their orders.
Pairs ==
    {po \in Within(Rows("order_payment")) \X Rows("order") : po[1].order = po[2].id}

FunnelRows == FunnelRowsOf(Within(Rows("order_payment")), Pairs)

\* Of every group of which something is in the cut, that part only.
FunnelPart(cut) ==
    LET split == {FunnelKey(x[1], x[2]) : x \in {y \in Pairs : y[1].id \in cut}}
    IN  FunnelRowsOf(Within(Rows("order_payment")),
                     {x \in Pairs : FunnelKey(x[1], x[2]) \in split => x[1].id \in cut})

\* mv__revenue_by_bu_day.
RevenueKey(o) == <<o.bu, DayOf(o.at), o.channel>>

RevenueRow(k, sold) ==
    LET os == {o \in sold : RevenueKey(o) = k}
    IN  [key |-> k, bu |-> k[1], orders |-> Cardinality(os),
         canceled |-> Cardinality({o \in os : o.status = "canceled"})]

RevenueRowsOf(sold) == {RevenueRow(k, sold) : k \in {RevenueKey(o) : o \in sold}}

RevenueRows == RevenueRowsOf(Within(Rows("order")))

RevenuePart(cut) ==
    LET sold  == Within(Rows("order"))
        split == {RevenueKey(o) : o \in {s \in sold : s.id \in cut}}
    IN  RevenueRowsOf({o \in sold : RevenueKey(o) \in split => o.id \in cut})

Query(m) == IF m = "funnel" THEN FunnelRows ELSE RevenueRows

\* bu_name is in the GROUP BY and not in the sorting key: of a group that was read under
\* two names FINAL keeps either part.
Part(m, cut) == IF m = "funnel" THEN FunnelPart(cut["funnel"]) ELSE RevenuePart(cut["revenue"])

\* The business unit of a row is in its sorting key.
BuOf(m, r) == IF m = "funnel" THEN r.key[5] ELSE r.key[1]

\* The business units that two copies do not have alike.
Renamed(copies) == {e[1] : e \in UNION {c \ d : c \in copies, d \in copies}}

\* The rows that the view keeps of a refresh that got these copies.
Kept(m, whole, part, copies) ==
    LET renamed == Renamed(copies)
    IN  {r \in whole : BuOf(m, r) \notin renamed} \cup {r \in part : BuOf(m, r) \in renamed}

\* APPEND, then FINAL: the new row of every key.
Appended(old, new) == new \cup {r \in old : \A s \in new : s.key # r.key}

-----------------------------------------------------------------------------
(* The operator.                                                           *)

Init ==
    /\ objects = 0
    /\ tables = [d \in Datasets |-> {}]
    /\ dicts = [d \in Dicts |-> {}]
    /\ marts = [m \in Marts |-> {}]
    /\ refresh = [m \in Marts |-> Waiting]
    /\ today = 0
    /\ load = NoLoad
    /\ loaded = {}
    /\ early = {}
    /\ verify = NoVerify
    /\ calls = 0

\* --multiquery ends at the first statement that fails; IF NOT EXISTS skips those that
\* are there, and no MV is filled with what landed before it.
ApplyDdl ==
    /\ Free
    /\ \E n \in Stops \cup {LastStatement} : n >= objects /\ objects' = n
    /\ verify' = NoVerify
    /\ calls' = calls + 1
    /\ UNCHANGED <<tables, dicts, marts, refresh, today, load, loaded, early>>

\* producer mock has written all files.  Without landing tables the first INSERT fails.
\* MOCK_BASE may be of any day.
StartLoad ==
    /\ Free /\ objects >= 1
    /\ \E b \in Bases :
          /\ <<b, today>> \in Loads
          /\ load' = [file |-> 1, base |-> b]
          /\ early' = IF DayOf(b) > today THEN early \cup {b} ELSE early
    /\ verify' = NoVerify
    /\ calls' = calls + 1
    /\ UNCHANGED <<objects, tables, dicts, marts, refresh, today, loaded>>

\* INSERT INTO <landing>: the MV, if it exists, passes the rows on to the core table.
Insert(rows) ==
    LET d == Files[load.file]
    IN  \/ objects < Statement[d] /\ UNCHANGED tables
        \/ /\ objects >= Statement[d]
           /\ \E kept \in SUBSET Open(tables[d], rows) :
                 tables' = [tables EXCEPT ![d] = Final(@, rows, kept)]

File == Contents[Files[load.file], load.base]

LoadFile ==
    /\ load.file > 0
    /\ Insert(File)
    /\ IF load.file < Len(Files)
       THEN /\ load' = [load EXCEPT !.file = @ + 1]
            /\ UNCHANGED loaded
       ELSE /\ load' = NoLoad
            /\ loaded' = IF objects >= LastCore THEN loaded \cup {load.base} ELSE loaded
    /\ UNCHANGED <<objects, dicts, marts, refresh, today, early, verify, calls>>

\* set -e: the loop ends at an INSERT that fails, maybe after some of its partitions.
AbortLoad ==
    /\ load.file > 0 /\ Files[load.file] \in Breaks
    /\ \E months \in {{}, {0}, {1}} : Insert({x \in File : MonthOf(x.row.at) \in months})
    /\ load' = NoLoad
    /\ UNCHANGED <<objects, dicts, marts, refresh, today, loaded, early, verify, calls>>

-----------------------------------------------------------------------------
(* The server.                                                             *)

NextDay ==
    /\ today < MaxDay
    /\ today' = today + 1
    /\ UNCHANGED <<objects, tables, dicts, marts, refresh, load, loaded, early, verify, calls>>

\* The scheduler starts a refresh: right after CREATE, because it is time, or because it
\* was asked for.
StartRefresh(m) ==
    /\ objects >= MartStatement[m] /\ ~ refresh[m].on
    /\ dicts' = Loaded({"business_unit"})
    /\ refresh' = [refresh EXCEPT ![m] =
                      [asked |-> FALSE, on |-> TRUE, rows |-> Query(m),
                       parts |-> {Part(m, cut) : cut \in Cuts}, seen |-> dicts'["business_unit"]]]
    /\ UNCHANGED <<objects, tables, marts, today, load, loaded, early, verify, calls>>

FinishRefresh(m) ==
    /\ refresh[m].on
    /\ \E part \in refresh[m].parts \cup {refresh[m].rows} :
          marts' = [marts EXCEPT ![m] =
                       Appended(@, Kept(m, refresh[m].rows, part, refresh[m].seen))]
    /\ refresh' = [refresh EXCEPT ![m] = [Waiting EXCEPT !.asked = refresh[m].asked]]
    /\ UNCHANGED <<objects, tables, dicts, today, load, loaded, early, verify, calls>>

\* Mutant: LIFETIME(0).
MutReloadNever(d) == dicts[d] # {} /\ dicts[d] # {Source(d)} /\ UNCHANGED vars

\* LIFETIME(MIN 300 MAX 600), once a query has loaded the dictionary.  The refreshes in
\* progress get the new names for the blocks that they have not read yet.
ReloadDict(d) ==
    /\ dicts[d] # {} /\ dicts[d] # {Source(d)}
    /\ dicts' = [dicts EXCEPT ![d] = {Source(d)}]
    /\ refresh' = [m \in Marts |->
                     IF d = "business_unit" /\ refresh[m].on
                     THEN [refresh[m] EXCEPT !.seen = @ \cup {Source(d)}] ELSE refresh[m]]
    /\ UNCHANGED <<objects, tables, marts, today, load, loaded, early, verify, calls>>

-----------------------------------------------------------------------------
(* The checks of verify.sh, with the results it or the spike's matrix expects. *)

Named(d, ids) == {x \in View(d) : x.row.id \in ids}

\* Mutant: a price is in force only after valid_from.
MutPricedAfter(i) ==
    LET before == {p \in Rows("prices") : p.id = i.sku /\ p.at < i.at}
    IN  {p \in before : \A q \in before : q.at <= p.at}

\* 7: the price in force when the item was sold.
Priced(i) ==
    LET before == {p \in Rows("prices") : p.id = i.sku /\ p.at <= i.at}
    IN  {p \in before : \A q \in before : q.at <= p.at}

\* The items that are meant to be older than the price change.
BeforeChange == {"ORD-000123", "ORD-000124", "ORD-000125", "ORD-000128"}

\* 8: the stock position of the item's distribution center.
Stock(i) ==
    LET found == {s \in Rows("stock_position") : s.id = <<i.sku, i.dc>>}
    IN  IF found = {} THEN "SEM_POSICAO"
        ELSE IF \E s \in found : s.available < s.safety THEN "ABAIXO" ELSE "OK"

CorePasses(n) ==
    CASE n = 1 -> {<<x.row.status, x.ver>> : x \in Named("order", {"ORD-OOO-1"})} = {<<"canceled", 7>>}
      [] n = 2 -> Named("order", {"ORD-DEL-1"}) = {}
      [] n = 3 -> {x.row.status : x \in Named("order", {"ORD-RES-1"})} = {"delivered"}
      [] n = 4 -> {i.id : i \in Rows("order_item")} \ {o.id : o \in Rows("order")} = {"ORD-ORPHAN"}
      [] n = 5 -> {<<o.id, {c[2] : c \in {s \in Seen("discount_codes") : s[1] = o.code}}>> :
                      o \in {x.row : x \in Named("order", {"ORD-000128", "ORD-000129", "ORD-000130", "ORD-000131"})}}
                  = {<<"ORD-000128", {}>>, <<"ORD-000129", {"percent"}>>,
                     <<"ORD-000130", {}>>, <<"ORD-000131", {}>>}
      [] n = 6 -> <<"BU-01", "Centauro Digital">> \in Seen("business_unit")
      [] n = 7 -> \A i \in Rows("order_item") :
                      {p.age : p \in Priced(i)} = {IF i.id \in BeforeChange THEN "old" ELSE "new"}
      [] n = 8 -> {<<i.id, Stock(i)>> : i \in {x.row : x \in
                      Named("order_item", {"ORD-000123", "ORD-000125", "ORD-000126"})}}
                  = {<<"ORD-000123", "OK">>, <<"ORD-000125", "ABAIXO">>, <<"ORD-000126", "SEM_POSICAO">>}

\* 10..13; every acquirer of 10..12 has one row.
Prints(acquirer, expected(_)) ==
    \E r \in marts["funnel"] :
        {x \in marts["funnel"] : x.acquirer = acquirer} = {r} /\ expected(r)

MartPasses(n) ==
    CASE n = 10 -> Prints("ACQ-TEST", LAMBDA r : r.attempts = 1 /\ r.captured = 1)
      [] n = 11 -> Prints("ACQ-LAT-TEST", LAMBDA r : r.attempts = 10 /\ r.latencies = {10})
      [] n = 12 -> Prints("ACQ-RETRY-TEST", LAMBDA r :
                       <<r.attempts, r.orders, r.captured, r.most, r.retried>> = <<3, 1, 1, 3, 1>>)
      [] n = 13 -> Cardinality(marts["revenue"]) = 4 /\ marts["revenue"] = RevenueRows

\* What one load leaves in an empty schema.
Newest == [f \in Datasets \X Bases |-> Final({}, Contents[f], {})]

CoreNumbers == 1..8
MartNumbers == 10..13

\* Everything in L1 is of one load, whose base lies on this day and not in its last
\* ten minutes, over which the generator spreads the attempts.  The load was not started
\* on an earlier day: a refresh of that day would find ORD-000128 in the window, and its
\* row, which check 13 does not expect, would stay.
Settled ==
    /\ load = NoLoad
    /\ \E b \in loaded \ early :
          /\ DayOf(b) = today /\ DayOf(b + 10) = today
          /\ \A d \in Datasets : tables[d] = Newest[d, b]

\* A refresh that starts now gets one name for every business unit.
Current == dicts["business_unit"] \subseteq {Source("business_unit")}

-----------------------------------------------------------------------------
(* verify.sh *)

\* Checks 1 to 8.  Without the complete schema a query fails and the script ends.
Look ==
    /\ Free /\ objects = LastStatement
    /\ verify' = [NoVerify EXCEPT !.at = "looked", !.ready = Settled /\ Current,
                                  !.failed = {n \in CoreNumbers : ~ CorePasses(n)}]
    /\ dicts' = Loaded(Dicts)
    /\ calls' = calls + 1
    /\ UNCHANGED <<objects, tables, marts, refresh, today, load, loaded, early>>

\* Mutant: only the first of the two views is asked for a refresh.
MutAskFunnel ==
    /\ verify.at = "looked"
    /\ refresh' = [refresh EXCEPT !["funnel"].asked = TRUE]
    /\ verify' = [verify EXCEPT !.at = "polling", !.asked = Marts]
    /\ UNCHANGED <<objects, tables, dicts, marts, today, load, loaded, early, calls>>

\* SYSTEM REFRESH VIEW returns at once; the status stays what it was until the
\* scheduler starts the refresh.  `|| true': a request that fails is passed over.
AskRefresh ==
    /\ verify.at = "looked"
    /\ \E ms \in SUBSET Marts :
          /\ refresh' = [m \in Marts |-> [refresh[m] EXCEPT !.asked = @ \/ m \in ms]]
          /\ verify' = [verify EXCEPT !.at = "polling", !.asked = ms]
    /\ UNCHANGED <<objects, tables, dicts, marts, today, load, loaded, early, calls>>

\* Any status of the funnel's view but Running ends the loop, and so do MaxTries polls.
Poll ==
    /\ verify.at = "polling"
    /\ verify' = IF refresh["funnel"].on /\ verify.tries < MaxTries
                 THEN [verify EXCEPT !.tries = @ + 1]
                 ELSE [verify EXCEPT !.at = "polled"]
    /\ UNCHANGED <<objects, tables, dicts, marts, refresh, today, load, loaded, early, calls>>

\* Checks 10 to 13.
Read ==
    /\ verify.at = "polled"
    /\ verify' = [verify EXCEPT !.at = "done", !.tries = 0, !.asked = {},
                     !.failed = @ \cup {n \in MartNumbers : ~ MartPasses(n)},
                     !.ready  = @ /\ Settled,
                     !.waited = /\ verify.asked = Marts
                                /\ \A m \in Marts : ~ refresh[m].asked /\ ~ refresh[m].on]
    /\ UNCHANGED <<objects, tables, dicts, marts, refresh, today, load, loaded, early, calls>>

Next ==
    \/ ApplyDdl \/ StartLoad \/ LoadFile \/ AbortLoad
    \/ Look \/ AskRefresh \/ Poll \/ Read
    \/ NextDay
    \/ \E m \in Marts : StartRefresh(m) \/ FinishRefresh(m)
    \/ \E d \in Dicts : ReloadDict(d)

Spec == Init /\ [][Next]_vars

\* The scheduler starts a refresh every 5 or 15 minutes once its view exists, and the query
\* ends; a copy is loaded again within its lifetime.  Nothing is assumed of the operator.
Fairness ==
    /\ \A m \in Marts : []<>(objects >= MartStatement[m] => refresh[m].on) /\ []<> ~ refresh[m].on
    /\ \A d \in Dicts : WF_vars(ReloadDict(d))
FairSpec == Spec /\ Fairness

-----------------------------------------------------------------------------
(* Properties *)

OnePerKey(rows) == \A x, y \in rows : x.key = y.key => x = y

\* Types; in particular no core view and no mart ever has two rows of one key, and a
\* dictionary is one copy.
TypeOK ==
    /\ objects \in 0..LastStatement
    /\ \A d \in Datasets : OnePerKey(tables[d])
    /\ \A d \in Dicts : \A c, e \in dicts[d] : c = e
    /\ \A m \in Marts : OnePerKey(marts[m])
    /\ today \in 0..MaxDay /\ loaded \subseteq Bases /\ early \subseteq Bases
    /\ calls \in 0..MaxCalls
    /\ load \in [file : 0..Len(Files), base : Bases \cup {0}]
    /\ verify.at \in {"idle", "looked", "polling", "polled", "done"}
    /\ verify.failed \subseteq CoreNumbers \cup MartNumbers /\ verify.asked \subseteq Marts

\* Once load.sh has run to its end on a complete schema, checks 1 to 4 and 8 pass for
\* good: whatever landed before the MVs was lost, which loads were aborted where, and
\* however many loads with other bases, equal sequence numbers and rows in other
\* partitions follow or are under way.
MatrixOfL1 == loaded # {} => \A n \in {1, 2, 3, 4, 8} : CorePasses(n)

\* Check 7 passes at any time, also while a load is under way or after one that was
\* aborted: the file of the prices comes before that of the items.  But it passes only
\* while all the prices of one age that ever arrived lie within less than a day: those of
\* a load a day or more earlier stay, under their own valid_from, and the ASOF JOIN finds
\* them first.
PricesAsOf ==
    (\A p, q \in Rows("prices") : p.age = q.age => p.at - q.at < Day) => CorePasses(7)

\* If the server has taken both requests of verify.sh for a refresh and these refreshes
\* have ended when it reads the marts, its checks 10 to 13 pass: whatever the marts hold
\* of other loads, days and refreshes that got two copies of the dictionary.  The copy
\* must be that of the registry when verify.sh begins, or it may be loaded again in the
\* middle of a refresh that verify.sh waits for.
WaitedMatrix ==
    (verify.at = "done" /\ verify.ready /\ verify.waited) => verify.failed \cap MartNumbers = {}

\* The same for every call of verify.sh, which polls for the end of the refresh and then
\* prints what it says it expects.
VerifiedMatrix ==
    (verify.at = "done" /\ verify.ready) => verify.failed \cap MartNumbers = {}

\* In the end every check would pass: the dictionaries and the marts catch up with a
\* load by themselves, whatever they held before.
MatrixComes ==
    <>[](Settled /\ objects = LastStatement =>
            /\ \A n \in CoreNumbers : CorePasses(n)
            /\ \A n \in MartNumbers : MartPasses(n))
===============================================================================
