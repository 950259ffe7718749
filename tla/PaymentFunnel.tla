---------------------------- MODULE PaymentFunnel ----------------------------
(***************************************************************************)
(* The mart dh_marts.payment_funnel_day and what feeds it.                 *)
(*                                                                         *)
(* The refreshable MV counts the payment attempts of the last days, joined *)
(* with their orders and with the number of attempts of each order, and    *)
(* APPENDs one row per group to a ReplacingMergeTree(_refreshed_at) that   *)
(* v_payment_funnel_day reads with FINAL.  The GROUP BY has the channel of *)
(* the order and the name that the dictionary gives its business unit      *)
(* (module Dictionary: it may be loaded again in the middle of the query); *)
(* the sorting key of the table, by which FINAL collapses rows, has neither*)
(*                                                                         *)
(* A method stands for (payment_method, acquirer, installment_bucket), a   *)
(* unit for (business_unit_code, currency).  Of the measures, the attempts,*)
(* the captured ones and max_attempts_per_order are kept: the other counts *)
(* and amounts are sums over the same rows, the rates and the latencies    *)
(* functions of one row.  The column bu_name itself is left out: it is the *)
(* one that RevenueMart follows.                                           *)
(***************************************************************************)
EXTENDS Integers, FiniteSets, FiniteSetsExt, Dictionary

CONSTANTS
    PayIds,          \* payment attempts
    OrderIds,        \* orders
    Methods,         \* (payment method, acquirer, installment bucket)
    Units,           \* (business unit, currency)
    BuOf,            \* [Units -> Bus]: business_unit_code of a unit
    Channels,        \* channels of orders
    Statuses,        \* payment statuses used
    Window,          \* days before today that a refresh recomputes (3 in the code)
    MaxDay,          \* bound: last day
    MaxChanges       \* bound: changes that CDC brings

ASSUME FunnelAssumption ==
    /\ Statuses \subseteq {"pending", "authorized", "captured", "denied", "refunded"}
    /\ BuOf \in [Units -> Bus]
    /\ Window \in Nat /\ MaxDay \in Nat /\ MaxChanges \in Nat

VARIABLES
    today,      \* the server's today()
    payments,   \* v_sales__order_payment_current: [PayIds -> attempt or NoPayment]
    orders,     \* v_sales__order_current: [OrderIds -> order or NoOrder]
    mart,       \* v_payment_funnel_day: [Keys -> row or NoRow]
    refresh,    \* the refresh in progress
    changes     \* counter of the bound

dictVars == <<registry, dict>>
vars == <<today, payments, orders, mart, refresh, changes, registry, dict>>

Days      == 0..MaxDay
Payment   == [order : OrderIds, day : Days, method : Methods, status : Statuses]
NoPayment == [order |-> "none"]
Order     == [unit : Units, channel : Channels]
NoOrder   == [unit |-> "none"]

\* ORDER BY of the mart: attempt_date, method, acquirer, bucket, unit, currency.
Keys  == [day : Days, method : Methods, unit : Units]
Row   == [attempts : Nat \ {0}, captured : Nat, tries : Nat]
NoRow == [attempts |-> 0, captured |-> 0, tries |-> 0]

Idle == [on |-> FALSE, from |-> 0, tries |-> [o \in OrderIds |-> 0],
         seen |-> [b \in Bus |-> {}]]

\* Mutant: the CTE reads today's attempts only.
MutTriesToday(from) ==
    [o \in OrderIds |->
        Cardinality({p \in PayIds : payments[p] # NoPayment
                        /\ payments[p].order = o /\ payments[p].day >= today})]

\* The CTE attempts_per_order, over the attempts of the window.
TriesSince(from) ==
    [o \in OrderIds |->
        Cardinality({p \in PayIds : payments[p] # NoPayment
                        /\ payments[p].order = o /\ payments[p].day >= from})]

\* INNER JOIN: an attempt counts when its order is there.
Joined == {p \in PayIds : payments[p] # NoPayment /\ orders[payments[p].order] # NoOrder}

\* The attempts of a key and channel.
Members(k, c) ==
    {p \in Joined : /\ payments[p].day = k.day /\ payments[p].method = k.method
                    /\ orders[payments[p].order] = [unit |-> k.unit, channel |-> c]}

ChannelsOf(k) == {c \in Channels : Members(k, c) # {}}

\* Mutant: the attempts beyond the first, in a column of the same unsigned type.
MutTriesBeyondFirst(tries, o) == tries[o] - 1

\* coalesce(apo.n, 1): join_use_nulls is 0, so an attempt whose order the CTE does not
\* have, because it arrived after the CTE was read, is joined with n = 0 and not with
\* NULL, and coalesce leaves it at that.
Tries(tries, o) == tries[o]

Captured(ps) == {p \in ps : payments[p].status = "captured"}

\* Mutant: the attempts of each order joined without GROUP BY, one row per pair.
MutMeasuresFanOut(ps, tries) ==
    [attempts |-> MapThenSumSet(LAMBDA p : Tries(tries, payments[p].order), ps),
     captured |-> Cardinality(Captured(ps)),
     tries    |-> Max({Tries(tries, payments[p].order) : p \in ps})]
\* Mutant: the attempts that were captured are left out of the attempts.
MutMeasuresOpenOnly(ps, tries) ==
    [attempts |-> Cardinality(ps \ Captured(ps)),
     captured |-> Cardinality(Captured(ps)),
     tries    |-> Max({Tries(tries, payments[p].order) : p \in ps})]

Measures(ps, tries) ==
    [attempts |-> Cardinality(ps),
     captured |-> Cardinality(Captured(ps)),
     tries    |-> Max({Tries(tries, payments[p].order) : p \in ps})]

-----------------------------------------------------------------------------
Init ==
    /\ today = 0
    /\ payments = [p \in PayIds |-> NoPayment]
    /\ orders = [o \in OrderIds |-> NoOrder]
    /\ mart = [k \in Keys |-> NoRow]
    /\ refresh = Idle
    /\ changes = 0
    /\ DictInit

Change ==
    /\ changes < MaxChanges
    /\ changes' = changes + 1
    /\ UNCHANGED <<today, mart, refresh>>

ChangeOfSales == Change /\ UNCHANGED dictVars

\* An attempt arrives, maybe days after it was made, maybe before its order.
NewPayment(p, row) ==
    /\ payments[p] = NoPayment /\ row.day <= today
    /\ payments' = [payments EXCEPT ![p] = row]
    /\ UNCHANGED orders
    /\ ChangeOfSales

\* A newer version of the attempt: the same attempt in another status.
UpdatePayment(p, status) ==
    /\ payments[p] # NoPayment /\ payments[p].status # status
    /\ payments' = [payments EXCEPT ![p].status = status]
    /\ UNCHANGED orders
    /\ ChangeOfSales

NewOrder(o, row) ==
    /\ orders[o] = NoOrder
    /\ orders' = [orders EXCEPT ![o] = row]
    /\ UNCHANGED payments
    /\ ChangeOfSales

\* CDC brings a business unit, maybe long after its orders, or renames it.
ChangeBu(b, e) ==
    /\ Register(b, e)
    /\ UNCHANGED <<payments, orders>>
    /\ Change

\* A refresh in progress gets the new names for the blocks it has not read yet.
ReloadDict ==
    /\ Reload
    /\ refresh' = IF refresh.on
                  THEN [refresh EXCEPT !.seen = [b \in Bus |-> @[b] \cup {registry[b]}]]
                  ELSE refresh
    /\ UNCHANGED <<today, payments, orders, mart, changes>>

NextDay ==
    /\ today < MaxDay
    /\ today' = today + 1
    /\ UNCHANGED <<payments, orders, mart, refresh, changes, dictVars>>

\* REFRESH EVERY 5 MINUTE, or SYSTEM REFRESH VIEW: the query fixes today() - 3 and
\* reads the attempts per order, the right-hand side of its last join.
StartRefresh ==
    /\ ~ refresh.on
    /\ refresh' = [on |-> TRUE, from |-> today - Window, tries |-> TriesSince(today - Window),
                   seen |-> [b \in Bus |-> {dict[b]}]]
    /\ UNCHANGED <<today, payments, orders, mart, changes, dictVars>>

\* The copy was replaced while the query read attempts of this key's business unit, and
\* names it otherwise than before.
TwoNames(k) == Cardinality(refresh.seen[BuOf[k.unit]]) > 1

\* The groups of the GROUP BY that share a key: one per channel, and with two names those
\* read before and those read after, whichever they are.
GroupsOf(k) ==
    LET ofChannels == {Members(k, c) : c \in ChannelsOf(k)}
    IN  IF TwoNames(k) THEN (UNION {SUBSET ps : ps \in ofChannels}) \ {{}} ELSE ofChannels

\* It reads attempts and orders and appends one row per group.  All of them carry
\* the same _refreshed_at: of two groups with the same key FINAL shows one, and the
\* order in which GROUP BY puts them out is not defined.
FinishRefresh ==
    /\ refresh.on
    /\ LET written == {k \in Keys : k.day >= refresh.from /\ ChannelsOf(k) # {}}
       IN  \E shown \in [written -> UNION {GroupsOf(k) : k \in written}] :
              /\ \A k \in written : shown[k] \in GroupsOf(k)
              /\ mart' = [k \in Keys |->
                            IF k \in written THEN Measures(shown[k], refresh.tries) ELSE mart[k]]
    /\ refresh' = Idle
    /\ UNCHANGED <<today, payments, orders, changes, dictVars>>

Next ==
    \/ \E p \in PayIds : \E row \in Payment : NewPayment(p, row)
    \/ \E p \in PayIds : \E status \in Statuses : UpdatePayment(p, status)
    \/ \E o \in OrderIds : \E row \in Order : NewOrder(o, row)
    \/ \E b \in Bus : \E e \in Entries : ChangeBu(b, e)
    \/ ReloadDict
    \/ NextDay
    \/ StartRefresh
    \/ FinishRefresh

Spec == Init /\ [][Next]_vars

\* The server's scheduler starts every refresh and its query ends; the copy is
\* loaded again within its lifetime.
Fairness == WF_vars(StartRefresh) /\ WF_vars(FinishRefresh) /\ WF_vars(ReloadDict)
FairSpec == Spec /\ Fairness
-----------------------------------------------------------------------------
(* Properties *)

InWindow(d) == d >= today - Window

\* Types; a row of the mart has an attempt, and no unsigned column gets a negative value.
TypeOK ==
    /\ today \in Days
    /\ payments \in [PayIds -> Payment \cup {NoPayment}]
    /\ orders \in [OrderIds -> Order \cup {NoOrder}]
    /\ mart \in [Keys -> Row \cup {NoRow}]
    /\ refresh \in [on : BOOLEAN, from : Int, tries : [OrderIds -> Nat],
                   seen : [Bus -> SUBSET (Entries \cup {Unknown})]]
    /\ changes \in 0..MaxChanges
    /\ DictTypeOK

AttemptsOn(d) == MapThenSumSet(LAMBDA k : mart[k].attempts, {k \in Keys : k.day = d})
CapturedOn(d) == MapThenSumSet(LAMBDA k : mart[k].captured, {k \in Keys : k.day = d})
MadeOn(d)     == {p \in PayIds : payments[p] # NoPayment /\ payments[p].day = d}

\* The attempts of every day of the window end up adding up to those of L1 that
\* have an order, and so do the captured ones: scenario 003's first acceptance
\* criterion, dq.marts.sum_parity.
AttemptsClose ==
    <>[](\A d \in Days : InWindow(d) =>
            /\ AttemptsOn(d) = Cardinality(MadeOn(d) \cap Joined)
            /\ CapturedOn(d) = Cardinality(Captured(MadeOn(d) \cap Joined)))

\* The attempts of L1 of a key; an attempt with an order has one key.
AttemptsOf(k) ==
    {p \in Joined : /\ payments[p].day = k.day /\ payments[p].method = k.method
                    /\ orders[payments[p].order].unit = k.unit}

\* No state of the mart counts an attempt twice, however many versions of it CDC
\* brought and however many attempts its order has: a row has no more attempts than
\* L1 has of its key, and no more captured ones than attempts.
NoDoubleCounting ==
    \A k \in Keys : /\ mart[k].attempts <= Cardinality(AttemptsOf(k))
                    /\ mart[k].captured <= mart[k].attempts

\* An order of this row was also tried on a day that the refresh in progress leaves out.
TriedBefore(k) ==
    \E p, q \in PayIds :
        /\ payments[p] # NoPayment /\ payments[q] # NoPayment
        /\ payments[p].order = payments[q].order
        /\ payments[q].day = k.day /\ payments[q].method = k.method
        /\ payments[p].day < refresh.from

\* Retries are not forgotten: attempts never go away, so what a row said of the attempts
\* per order no refresh takes back, however its two reads and the arrivals interleave.
\* There are two exceptions.  An order may have attempts on several days: when the earlier
\* ones leave the window before the later ones do, the later row loses them.  And a refresh
\* that got two names for the business unit writes two groups, of which FINAL may keep the
\* one without the order that was tried most.
RetriesKept ==
    [][\A k \in Keys : mart'[k].tries < mart[k].tries => TriedBefore(k) \/ TwoNames(k)]_vars

\* The attempts of each order, of the days from the given one on.
TriedSince(o, from) ==
    {p \in PayIds : payments[p] # NoPayment /\ payments[p].order = o /\ payments[p].day >= from}

\* Neither of the exceptions lasts, nor the 0 of an attempt that came between the two
\* reads: every row of the window ends up with the attempts of the order that was tried
\* most in the window, and so with 1 at least.
RetriesClose ==
    <>[](\A k \in Keys : InWindow(k.day) /\ AttemptsOf(k) # {} =>
            mart[k].tries = Max({Cardinality(TriedSince(payments[p].order, today - Window)) :
                                    p \in AttemptsOf(k)}))
=============================================================================
