-------------------------- MODULE RevenueMartProofs --------------------------
(* What holds of the mart revenue_by_bu_day for every value of the constants. *)
EXTENDS RevenueMart, NatFacts, TLAPS

\* The orders that the view os has a row for.
Present(os) == {o \in OrderIds : os[o] # NoOrder}

\* At any time the views have finitely many rows: a step adds one at most.
FiniteViews == IsFiniteSet(Present(orders)) /\ IsFiniteSet(items)

MartInv == TypeOK /\ FiniteViews

\* The row of a set of existing orders has the types of the mart's columns: counts and
\* sums over finitely many orders are natural numbers.
LEMMA MeasuresTyped ==
    ASSUME TypeOK, NEW os, os \subseteq Present(orders), IsFiniteSet(os),
           NEW units \in [OrderIds -> Nat], NEW bu \in Entries \cup {Unknown}
    PROVE  Measures(os, units, bu) \in Row
<1> DEFINE sold   == {o \in os : ~ orders[o].canceled}
           totals == [o \in sold |-> orders[o].total]
<1>1. IsFiniteSet(sold) /\ IsFiniteSet(os \ sold)
  BY FS_Subset
<1>2. Cardinality(os) \in Nat /\ Cardinality(os \ sold) \in Nat
  BY <1>1, FS_CardinalityType
<1>3. \A o \in sold : totals[o] \in Nat
  <2>1. ASSUME NEW o \in sold PROVE orders[o].total \in Nat
    <3>1. o \in OrderIds /\ orders[o] # NoOrder
      BY <2>1 DEF Present
    <3>2. orders[o] \in Order
      BY <3>1 DEF TypeOK
    <3> QED
      BY <3>2, RevenueAssumption DEF Order, RevenueAssumption
  <2> QED
    BY <2>1
<1>4. SumFunction(totals) \in Nat
  <2>1. DOMAIN totals = sold
    OBVIOUS
  <2> HIDE DEF totals, sold
  <2> QED
    BY <2>1, <1>1, <1>3, SumIsNat DEF SumFunction
<1>5. SumFunctionOnSet(units, os) \in Nat
  <2>1. \A o \in os : units[o] \in Nat
    BY DEF Present
  <2> QED
    BY <2>1, SumIsNat
<1>6. Measures(os, units, bu) =
        [bu |-> bu, orders |-> Cardinality(os), canceled |-> Cardinality(os \ sold),
         net |-> SumFunction(totals), units |-> SumFunctionOnSet(units, os)]
  BY DEF Measures
<1> HIDE DEF totals, sold
<1> QED
  BY <1>2, <1>4, <1>5, <1>6 DEF Row

\* Every row that a refresh may write is a row of the mart.
LEMMA WrittenTyped ==
    ASSUME MartInv, NEW g \in Groups, NEW d \in Days
    PROVE  Written(g, d) \subseteq Row
<1>1. Members(g, d) \subseteq Present(orders) /\ IsFiniteSet(Members(g, d))
  <2>1. Members(g, d) \subseteq Present(orders)
    BY DEF Members, Present, Exists
  <2> QED
    BY <2>1, FS_Subset DEF MartInv, FiniteViews
<1>2. refresh.units \in [OrderIds -> Nat]
  BY DEF MartInv, TypeOK
<1>3. refresh.seen[BuOf[g]] \subseteq Entries \cup {Unknown}
  <2>1. BuOf[g] \in Bus
    BY RevenueAssumption DEF RevenueAssumption
  <2> QED
    BY <2>1 DEF MartInv, TypeOK
<1>4. ASSUME NEW part \in SUBSET Members(g, d), NEW bu \in refresh.seen[BuOf[g]]
      PROVE  Measures(part, refresh.units, bu) \in Row
  <2>1. IsFiniteSet(part) /\ part \subseteq Present(orders)
    BY <1>1, <1>4, FS_Subset
  <2> QED
    BY <2>1, <1>2, <1>3, <1>4, MeasuresTyped DEF MartInv
<1> QED
  BY <1>4 DEF Written

\* The orders' view of a step that changes one order.
LEMMA OneOrderChanges ==
    ASSUME FiniteViews, NEW o \in OrderIds, NEW row,
           orders \in [OrderIds -> Order \cup {NoOrder}],
           orders' = [orders EXCEPT ![o] = row]
    PROVE  IsFiniteSet(Present(orders'))
<1>1. Present(orders') \subseteq Present(orders) \cup {o}
  BY DEF Present
<1>2. IsFiniteSet(Present(orders) \cup {o})
  BY FS_AddElement DEF FiniteViews
<1> QED
  BY <1>1, <1>2, FS_Subset

\* Every column of the views, of the mart and of a refresh has its type; in particular
\* no unsigned column of the mart ever gets a negative value.
THEOREM MartTypes == Spec => []TypeOK
<1>1. Init => MartInv
  <2> SUFFICES ASSUME Init PROVE MartInv
    OBVIOUS
  <2> USE DEF Init
  <2>1. TypeOK
    BY RevenueAssumption DEF TypeOK, DictInit, DictTypeOK, Days, NoRow, Row, Idle, RevenueAssumption
  <2>2. Present(orders) = {}
    BY DEF Present
  <2> QED
    BY <2>1, <2>2, FS_EmptySet DEF MartInv, FiniteViews
<1>2. MartInv /\ [Next]_vars => MartInv'
  <2> SUFFICES ASSUME MartInv, [Next]_vars PROVE MartInv'
    OBVIOUS
  <2> USE RevenueAssumption DEF RevenueAssumption
  <2>0. TypeOK /\ FiniteViews
    BY DEF MartInv
  <2>1. ASSUME NEW o \in OrderIds, NEW row \in Order, NewOrder(o, row) \/ UpdateOrder(o, row)
        PROVE  MartInv'
    <3>1. /\ orders' = [orders EXCEPT ![o] = row] /\ changes' = changes + 1 /\ changes < MaxChanges
          /\ UNCHANGED <<items, today, mart, refresh, registry, dict>>
      BY <2>1 DEF NewOrder, UpdateOrder, ChangeOfOrders, Change, dictVars
    <3>2. TypeOK'
      BY <2>0, <3>1 DEF TypeOK, DictTypeOK
    <3> QED
      BY <2>0, <3>1, <3>2, OneOrderChanges DEF MartInv, FiniteViews, TypeOK
  <2>2. ASSUME NEW o \in OrderIds, DeleteOrder(o)
        PROVE  MartInv'
    <3>1. /\ orders' = [orders EXCEPT ![o] = NoOrder] /\ changes' = changes + 1 /\ changes < MaxChanges
          /\ UNCHANGED <<items, today, mart, refresh, registry, dict>>
      BY <2>2 DEF DeleteOrder, ChangeOfOrders, Change, dictVars
    <3>2. TypeOK'
      BY <2>0, <3>1 DEF TypeOK, DictTypeOK
    <3> QED
      BY <2>0, <3>1, <3>2, OneOrderChanges DEF MartInv, FiniteViews, TypeOK
  <2>3. ASSUME NEW i \in Item, NewItem(i)
        PROVE  MartInv'
    <3>1. /\ items' = items \cup {i} /\ changes' = changes + 1 /\ changes < MaxChanges
          /\ UNCHANGED <<orders, today, mart, refresh, registry, dict>>
      BY <2>3 DEF NewItem, ChangeOfOrders, Change, dictVars
    <3>2. TypeOK'
      BY <2>0, <3>1 DEF TypeOK, DictTypeOK
    <3> QED
      BY <2>0, <3>1, <3>2, FS_AddElement DEF MartInv, FiniteViews
  <2>4. ASSUME NEW b \in Bus, NEW e \in Entries, ChangeBu(b, e)
        PROVE  MartInv'
    <3>1. /\ registry' = [registry EXCEPT ![b] = e] /\ changes' = changes + 1 /\ changes < MaxChanges
          /\ UNCHANGED <<orders, items, today, mart, refresh, dict>>
      BY <2>4 DEF ChangeBu, Register, Change
    <3>2. TypeOK'
      BY <2>0, <3>1 DEF TypeOK, DictTypeOK
    <3> QED
      BY <2>0, <3>1, <3>2 DEF MartInv, FiniteViews
  <2>5. CASE ReloadDict
    <3>1. dict' = registry /\ UNCHANGED <<registry, today, orders, items, mart, changes>>
      BY <2>5 DEF ReloadDict, Reload
    <3>2. refresh' \in [on : BOOLEAN, from : Int, units : [OrderIds -> Nat],
                        seen : [Bus -> SUBSET (Entries \cup {Unknown})]]
      BY <2>0, <2>5 DEF ReloadDict, TypeOK, DictTypeOK
    <3>3. TypeOK'
      BY <2>0, <3>1, <3>2 DEF TypeOK, DictTypeOK
    <3> QED
      BY <2>0, <3>1, <3>3 DEF MartInv, FiniteViews
  <2>6. CASE NextDay
    <3>1. today' \in Days /\ UNCHANGED <<orders, items, mart, refresh, changes, registry, dict>>
      BY <2>0, <2>6 DEF NextDay, TypeOK, Days, dictVars
    <3>2. TypeOK'
      BY <2>0, <3>1 DEF TypeOK, DictTypeOK
    <3> QED
      BY <2>0, <3>1, <3>2 DEF MartInv, FiniteViews
  <2>7. CASE StartRefresh
    <3>1. UNCHANGED <<today, orders, items, mart, changes, registry, dict>>
      BY <2>7 DEF StartRefresh, dictVars
    <3>2. today - Window \in Int
      BY <2>0 DEF TypeOK, Days
    <3>3. UnitsSince(today - Window) \in [OrderIds -> Nat]
      <4>1. ASSUME NEW o \in OrderIds, NEW from
            PROVE  Cardinality({i \in items : i.order = o /\ i.day >= from}) \in Nat
        <5>1. IsFiniteSet({i \in items : i.order = o /\ i.day >= from})
          BY <2>0, FS_Subset DEF FiniteViews
        <5> QED
          BY <5>1, FS_CardinalityType
      <4> QED
        BY <4>1 DEF UnitsSince
    <3>4. [b \in Bus |-> {dict[b]}] \in [Bus -> SUBSET (Entries \cup {Unknown})]
      BY <2>0 DEF TypeOK, DictTypeOK
    <3>5. refresh' \in [on : BOOLEAN, from : Int, units : [OrderIds -> Nat],
                        seen : [Bus -> SUBSET (Entries \cup {Unknown})]]
      BY <2>7, <3>2, <3>3, <3>4 DEF StartRefresh
    <3>6. TypeOK'
      BY <2>0, <3>1, <3>5 DEF TypeOK, DictTypeOK
    <3> QED
      BY <2>0, <3>1, <3>6 DEF MartInv, FiniteViews
  <2>8. CASE FinishRefresh
    <3>1. UNCHANGED <<today, orders, items, changes, registry, dict>> /\ refresh' = Idle
      BY <2>8 DEF FinishRefresh, dictVars
    <3>2. mart' \in [Groups \X Days -> Row]
      <4>1. PICK rows \in [Recomputed -> UNION {Written(gd[1], gd[2]) : gd \in Recomputed}] :
              /\ \A gd \in Recomputed : rows[gd] \in Written(gd[1], gd[2])
              /\ mart' = [gd \in Groups \X Days |-> IF gd \in Recomputed THEN rows[gd] ELSE mart[gd]]
        BY <2>8 DEF FinishRefresh
      <4>2. ASSUME NEW gd \in Recomputed PROVE rows[gd] \in Row
        <5>1. gd[1] \in Groups /\ gd[2] \in Days
          BY <4>2 DEF Recomputed
        <5> QED
          BY <5>1, <4>1, <4>2, WrittenTyped
      <4> QED
        BY <2>0, <4>1, <4>2 DEF TypeOK
    <3>3. Idle \in [on : BOOLEAN, from : Int, units : [OrderIds -> Nat],
                    seen : [Bus -> SUBSET (Entries \cup {Unknown})]]
      BY DEF Idle
    <3>4. TypeOK'
      BY <2>0, <3>1, <3>2, <3>3 DEF TypeOK, DictTypeOK
    <3> QED
      BY <2>0, <3>1, <3>4 DEF MartInv, FiniteViews
  <2>9. CASE UNCHANGED vars
    BY <2>0, <2>9 DEF vars, MartInv, FiniteViews, TypeOK, DictTypeOK
  <2> QED
    BY <2>1, <2>2, <2>3, <2>4, <2>5, <2>6, <2>7, <2>8, <2>9 DEF Next
<1>3. MartInv => TypeOK
  BY DEF MartInv
<1> QED
  BY <1>1, <1>2, <1>3, PTL DEF Spec

\* The days that a step compares are integers.
DaysTyped == today \in Int /\ refresh.from \in Int /\ "from" \in DOMAIN refresh

\* Days stay integers: the clock goes up by one, a refresh looks Window days back.
LEMMA DaysTypedInvariant == Spec => []DaysTyped
<1>1. Init => DaysTyped
  BY DEF Init, DaysTyped, Idle
<1>2. DaysTyped /\ [Next]_vars => DaysTyped'
  <2> SUFFICES ASSUME DaysTyped, [Next]_vars
               PROVE  DaysTyped'
    OBVIOUS
  <2>1. CASE NextDay
    BY <2>1 DEF DaysTyped, NextDay
  <2>2. CASE StartRefresh
    <3>1. /\ today' = today /\ refresh'.from = today - Window
          /\ "from" \in DOMAIN refresh'
      BY <2>2 DEF StartRefresh
    <3>2. QED
      BY <3>1, RevenueAssumption DEF DaysTyped, RevenueAssumption
  <2>3. CASE FinishRefresh
    BY <2>3 DEF DaysTyped, FinishRefresh, Idle
  <2>4. CASE ReloadDict
    BY <2>4 DEF DaysTyped, ReloadDict
  <2>5. CASE UNCHANGED <<today, refresh>>
    BY <2>5 DEF DaysTyped
  <2>6. QED
    BY <2>1, <2>2, <2>3, <2>4, <2>5
    DEF Next, vars, NewOrder, UpdateOrder, DeleteOrder, NewItem, ChangeBu, ChangeOfOrders, Change
<1>3. QED
  BY <1>1, <1>2, PTL DEF Spec

\* Only the end of a refresh writes the mart, and only rows of the days from the
\* one the refresh was started for.
LEMMA WritesWindowOnly ==
    ASSUME NEW g \in Groups, NEW d \in Days, DaysTyped, [Next]_vars,
           refresh.on => d < refresh.from
    PROVE  mart'[<<g, d>>] = mart[<<g, d>>]
<1>1. CASE FinishRefresh
  <2>1. ~ (d >= refresh.from)
    BY <1>1, RevenueAssumption DEF FinishRefresh, DaysTyped, Days, RevenueAssumption
  <2>2. <<g, d>> \notin Recomputed
    BY <2>1 DEF Recomputed
  <2>3. QED
    BY <1>1, <2>2 DEF FinishRefresh
<1>2. CASE mart' = mart
  BY <1>2
<1>3. QED
  BY <1>1, <1>2 DEF Next, vars, NewOrder, UpdateOrder, DeleteOrder, NewItem, ChangeBu,
                    ChangeOfOrders, Change, ReloadDict, NextDay, StartRefresh

\* Once a day has left the window, and the refreshes that were started before are
\* over, no row of that day ever changes.
THEOREM DaysClose == Spec => ClosedDaysStay
<1>1. DaysTyped /\ [Next]_vars =>
        [\A g \in Groups, d \in Days :
            (~ InWindow(d) /\ (refresh.on => d < refresh.from)) => mart'[<<g, d>>] = mart[<<g, d>>]]_vars
  BY WritesWindowOnly
<1>2. QED
  BY <1>1, DaysTypedInvariant, PTL DEF Spec, ClosedDaysStay
=============================================================================
