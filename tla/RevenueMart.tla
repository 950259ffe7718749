----------------------------- MODULE RevenueMart -----------------------------
(***************************************************************************)
(* The mart dh_marts.revenue_by_bu_day and what feeds it.                  *)
(*                                                                         *)
(* Readers of L1 see the views v_sales__order_current and                  *)
(* v_sales__order_item_current (module CdcCore says what these views       *)
(* promise); they change under the mart as CDC arrives.  Every 15 minutes  *)
(* the refreshable MV recomputes the groups of the last days and APPENDs   *)
(* them to a ReplacingMergeTree(_refreshed_at), which v_revenue_by_bu_day  *)
(* reads with FINAL: of the rows of one (group, day), the latest refresh's.*)
(*                                                                         *)
(* A group stands for (business_unit_code, order_channel, currency): the   *)
(* sorting key of the table without the day.  Of the measures, `orders',   *)
(* `canceled', `net' and `units' are kept; gross, discount and freight are *)
(* summed like `net', items_count like `units'.                            *)
(*                                                                         *)
(* The columns bu_name, bu_channel, bu_region and _bu_found come from the  *)
(* dictionary (module Dictionary) and are in the GROUP BY, but not in the  *)
(* sorting key: `bu' stands for the four.                                  *)
(***************************************************************************)
EXTENDS Integers, FiniteSets, FiniteSetsExt, Functions, Dictionary

CONSTANTS
    OrderIds,     \* orders
    Lines,        \* item lines of an order
    Groups,       \* (business unit, channel, currency)
    BuOf,         \* [Groups -> Bus]: business_unit_code of a group
    Amounts,      \* values of total_amount
    Window,       \* days before today that a refresh recomputes (3 in the code)
    MaxDay,       \* bound: last day
    MaxChanges,   \* bound: changes that CDC brings
    Deletes,      \* whether CDC may delete an order
    Regroups      \* whether CDC may change an order's group

ASSUME RevenueAssumption ==
    /\ Amounts \subseteq Nat
    /\ BuOf \in [Groups -> Bus]
    /\ Window \in Nat /\ MaxDay \in Nat /\ MaxChanges \in Nat
    /\ Deletes \in BOOLEAN /\ Regroups \in BOOLEAN

VARIABLES
    today,     \* the server's today()
    orders,    \* v_sales__order_current: [OrderIds -> order or NoOrder]
    items,     \* v_sales__order_item_current: [order, line, day] of every item
    mart,      \* v_revenue_by_bu_day: [Groups \X Days -> row or NoRow]
    refresh,   \* the refresh in progress, or Idle
    changes    \* counter of the bound

dictVars == <<registry, dict>>
vars == <<today, orders, items, mart, refresh, changes, registry, dict>>

Days    == 0..MaxDay
Order   == [grp : Groups, day : Days, canceled : BOOLEAN, total : Amounts]
NoOrder == [grp |-> "none"]
Item    == [order : OrderIds, line : Lines, day : Days]
Row     == [orders : Nat, canceled : Nat, net : Nat, units : Nat, bu : Entries \cup {Unknown}]
NoRow   == [orders |-> 0, canceled |-> 0, net |-> 0, units |-> 0, bu |-> Unknown]
Idle    == [on |-> FALSE, from |-> 0, units |-> [o \in OrderIds |-> 0],
            seen |-> [b \in Bus |-> {}]]

Exists(o) == orders[o] # NoOrder

\* The CTE order_items: quantity per order, of the items of the window.
UnitsSince(from) ==
    [o \in OrderIds |-> Cardinality({i \in items : i.order = o /\ i.day >= from})]

\* The orders of a group and day, and the row the SELECT computes for them.
Members(g, d) == {o \in OrderIds : Exists(o) /\ orders[o].grp = g /\ orders[o].day = d}

\* Mutant: the revenue of a canceled order is subtracted instead of left out.
MutMeasuresSubtract(os, units, bu) ==
    [bu       |-> bu,
     orders   |-> Cardinality(os),
     canceled |-> Cardinality({o \in os : orders[o].canceled}),
     net      |-> SumFunction([o \in os |-> IF orders[o].canceled THEN 0 - orders[o].total
                                           ELSE orders[o].total]),
     units    |-> SumFunctionOnSet(units, os)]

Measures(os, units, bu) ==
    LET sold == {o \in os : ~ orders[o].canceled}
    IN  [bu       |-> bu,
         orders   |-> Cardinality(os),
         canceled |-> Cardinality(os \ sold),
         net      |-> SumFunction([o \in sold |-> orders[o].total]),
         units    |-> SumFunctionOnSet(units, os)]

-----------------------------------------------------------------------------
Init ==
    /\ today = 0
    /\ orders = [o \in OrderIds |-> NoOrder]
    /\ items = {}
    /\ mart = [gd \in Groups \X Days |-> NoRow]
    /\ refresh = Idle
    /\ changes = 0
    /\ DictInit

Change ==
    /\ changes < MaxChanges
    /\ changes' = changes + 1
    /\ UNCHANGED <<today, mart, refresh>>

ChangeOfOrders == Change /\ UNCHANGED dictVars

\* An order arrives, maybe days after it was created.
NewOrder(o, row) ==
    /\ ~ Exists(o) /\ row.day <= today
    /\ \A i \in items : i.order = o => i.day >= row.day
    /\ orders' = [orders EXCEPT ![o] = row]
    /\ UNCHANGED items
    /\ ChangeOfOrders

\* A newer version of an order: another total, a cancellation, another group.
\* Its created_at does not change.
UpdateOrder(o, row) ==
    /\ Exists(o) /\ row # orders[o] /\ row.day = orders[o].day
    /\ Regroups \/ row.grp = orders[o].grp
    /\ orders' = [orders EXCEPT ![o] = row]
    /\ UNCHANGED items
    /\ ChangeOfOrders

DeleteOrder(o) ==
    /\ Deletes /\ Exists(o)
    /\ orders' = [orders EXCEPT ![o] = NoOrder]
    /\ UNCHANGED items
    /\ ChangeOfOrders

\* An item arrives, before or after its order; it is not older than the order.
NewItem(i) ==
    /\ i.day <= today
    /\ \A j \in items : ~ (j.order = i.order /\ j.line = i.line)
    /\ Exists(i.order) => i.day >= orders[i.order].day
    /\ items' = items \cup {i}
    /\ UNCHANGED orders
    /\ ChangeOfOrders

\* CDC brings a business unit, maybe long after its orders, or renames it.
ChangeBu(b, e) ==
    /\ Register(b, e)
    /\ UNCHANGED <<orders, items>>
    /\ Change

\* A refresh in progress gets the new entries for the blocks it has not read yet.
ReloadDict ==
    /\ Reload
    /\ refresh' = IF refresh.on
                  THEN [refresh EXCEPT !.seen = [b \in Bus |-> @[b] \cup {registry[b]}]]
                  ELSE refresh
    /\ UNCHANGED <<today, orders, items, mart, changes>>

NextDay ==
    /\ today < MaxDay
    /\ today' = today + 1
    /\ UNCHANGED <<orders, items, mart, refresh, changes, dictVars>>

\* REFRESH EVERY 15 MINUTE, or SYSTEM REFRESH VIEW: the query fixes today() - 3
\* and reads the items, the right-hand side of its join.
StartRefresh ==
    /\ ~ refresh.on
    /\ refresh' = [on |-> TRUE, from |-> today - Window, units |-> UnitsSince(today - Window),
                   seen |-> [b \in Bus |-> {dict[b]}]]
    /\ UNCHANGED <<today, orders, items, mart, changes, dictVars>>

\* Mutant: INNER JOIN with the items, an order without items is left out.
MutWrittenInnerJoin(g, d) ==
    {Measures({o \in Members(g, d) : refresh.units[o] > 0}, refresh.units, bu) :
        bu \in refresh.seen[BuOf[g]]}

\* The rows the query may write for a group and day.  One entry seen: one row.  The
\* copy was replaced meanwhile: the GROUP BY has a row of the orders read before and
\* one of those read after, and FINAL, by the sorting key, keeps either.
Written(g, d) ==
    LET os    == Members(g, d)
        seen  == refresh.seen[BuOf[g]]
        parts == IF Cardinality(seen) = 1 THEN {os} ELSE (SUBSET os) \ {{}}
    IN  {Measures(part, refresh.units, bu) : part \in parts, bu \in seen}

\* Mutant: the orders are read without the window.
MutRecomputedAll == {gd \in Groups \X Days : Members(gd[1], gd[2]) # {}}

\* The groups that a refresh has a row for.
Recomputed == {gd \in Groups \X Days : gd[2] >= refresh.from /\ Members(gd[1], gd[2]) # {}}

\* It reads the orders, groups them and appends one row for every group that has
\* an order.  FINAL then shows these rows; the others stay as they are.
FinishRefresh ==
    /\ refresh.on
    /\ \E rows \in [Recomputed -> UNION {Written(gd[1], gd[2]) : gd \in Recomputed}] :
          /\ \A gd \in Recomputed : rows[gd] \in Written(gd[1], gd[2])
          /\ mart' = [gd \in Groups \X Days |-> IF gd \in Recomputed THEN rows[gd] ELSE mart[gd]]
    /\ refresh' = Idle
    /\ UNCHANGED <<today, orders, items, changes, dictVars>>

Next ==
    \/ \E o \in OrderIds : \E row \in Order : NewOrder(o, row)
    \/ \E o \in OrderIds : \E row \in Order : UpdateOrder(o, row)
    \/ \E o \in OrderIds : DeleteOrder(o)
    \/ \E i \in Item : NewItem(i)
    \/ \E b \in Bus : \E e \in Entries : ChangeBu(b, e)
    \/ ReloadDict
    \/ NextDay
    \/ StartRefresh
    \/ FinishRefresh

Spec == Init /\ [][Next]_vars

\* The server's scheduler starts every refresh and its query ends; the copy is
\* loaded again within its lifetime.
Fairness == WF_vars(StartRefresh) /\ WF_vars(FinishRefresh) /\ WF_vars(ReloadDict)
FairSpec == Spec /\ Fairness
-----------------------------------------------------------------------------
(* Properties *)

InWindow(d) == d >= today - Window

\* Types; in particular the unsigned columns of the mart never get a negative value.
TypeOK ==
    /\ today \in Days
    /\ orders \in [OrderIds -> Order \cup {NoOrder}]
    /\ items \subseteq Item
    /\ mart \in [Groups \X Days -> Row]
    /\ refresh \in [on : BOOLEAN, from : Int, units : [OrderIds -> Nat],
                   seen : [Bus -> SUBSET (Entries \cup {Unknown})]]
    /\ changes \in 0..MaxChanges
    /\ DictTypeOK

NetOf(d)    == MapThenSumSet(LAMBDA g : mart[<<g, d>>].net, Groups)
SourceNet(d) ==
    MapThenSumSet(LAMBDA o : orders[o].total,
                  {o \in OrderIds : Exists(o) /\ orders[o].day = d /\ ~ orders[o].canceled})

\* Every group that has an order in the window ends up, for good, with the row
\* an independent calculation over the current views gives: updates are not
\* counted twice, a cancellation takes the revenue back, orders without items and
\* items that came late are in; no row of a refresh that read two states of the
\* dictionary, and so only some of the orders, stays.
GroupsConverge ==
    <>[](\A g \in Groups, d \in Days :
            (InWindow(d) /\ Members(g, d) # {}) =>
                mart[<<g, d>>] = Measures(Members(g, d), UnitsSince(d), mart[<<g, d>>].bu))

\* Every such row ends up with the business unit as it is registered: nothing in the
\* window stays '(sem cadastro)', or under an old name, although the registry knows.
NamesConverge ==
    <>[](\A g \in Groups, d \in Days :
            (InWindow(d) /\ Members(g, d) # {}) => mart[<<g, d>>].bu = registry[BuOf[g]])

\* The mart's net revenue of every day of the window ends up equal to the sum over
\* the current orders: scenario 002's first acceptance criterion, dq.marts.sum_parity.
WindowParity == <>[](\A d \in Days : InWindow(d) => NetOf(d) = SourceNet(d))

\* The same for every day, as the criterion's query (30 days) asks.
HistoryParity == <>[](\A d \in Days : NetOf(d) = SourceNet(d))

\* Every row of the mart, of whatever day, ends up with the business unit as it is
\* registered: scenario 002 wants a rename to reach the whole history, and its criterion
\* asks for no row with _bu_found = 0 of a registered business unit.
HistoryNamed ==
    <>[](\A g \in Groups, d \in Days :
            mart[<<g, d>>].orders > 0 => mart[<<g, d>>].bu = registry[BuOf[g]])

\* Of what scenario 002 asks of the whole history, one at least: its revenue or its names
\* end up right.  A behaviour that violates this refutes both.
HistoryCriteria == HistoryParity \/ HistoryNamed

\* A day that has left the window is closed: no refresh started since then changes
\* its rows.  So neither a late order or cancellation nor a new name gets there, which
\* is what HistoryCriteria is about.
ClosedDaysStay ==
    [][\A g \in Groups, d \in Days :
        (~ InWindow(d) /\ (refresh.on => d < refresh.from)) => mart'[<<g, d>>] = mart[<<g, d>>]]_vars
=============================================================================
