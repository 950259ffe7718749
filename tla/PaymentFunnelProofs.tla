------------------------- MODULE PaymentFunnelProofs -------------------------
(***************************************************************************)
(* The mart payment_funnel_day for any attempts, orders, keys, windows and *)
(* any interleaving of the two reads of a refresh with what CDC brings.    *)
(***************************************************************************)
EXTENDS PaymentFunnel, FiniteSetTheorems, NatFacts, TLAPS

\* The attempts of an order, of whatever day.
AttemptsFor(o) == {p \in PayIds : payments[p] # NoPayment /\ payments[p].order = o}

-----------------------------------------------------------------------------
(* L1 only grows: an attempt keeps its order, day and method, an order stays as it is. *)

LEMMA Growth ==
  ASSUME TypeOK, [Next]_vars
  PROVE  /\ \A p \in PayIds : payments[p] # NoPayment =>
               /\ payments'[p] # NoPayment /\ payments'[p].order = payments[p].order
               /\ payments'[p].day = payments[p].day /\ payments'[p].method = payments[p].method
         /\ \A o \in OrderIds : orders[o] # NoOrder => orders'[o] = orders[o]
<1>1. CASE UNCHANGED <<payments, orders>>
  BY <1>1
<1>2. ASSUME NEW q \in PayIds, NEW row \in Payment, NewPayment(q, row)
      PROVE  /\ \A p \in PayIds : payments[p] # NoPayment => payments'[p] = payments[p]
             /\ orders' = orders
  BY <1>2 DEF NewPayment, TypeOK
<1>3. ASSUME NEW q \in PayIds, NEW status \in Statuses, UpdatePayment(q, status)
      PROVE  /\ \A p \in PayIds : payments[p] # NoPayment =>
                   /\ payments'[p] # NoPayment /\ payments'[p].order = payments[p].order
                   /\ payments'[p].day = payments[p].day /\ payments'[p].method = payments[p].method
             /\ orders' = orders
  <2>1. payments' = [payments EXCEPT ![q] = [payments[q] EXCEPT !.status = status]]
    BY <1>3 DEF UpdatePayment
  <2>2. payments[q] \in Payment
    BY <1>3 DEF UpdatePayment, TypeOK
  <2>3. [payments[q] EXCEPT !.status = status] =
          [order |-> payments[q].order, day |-> payments[q].day, method |-> payments[q].method, status |-> status]
    BY <2>2 DEF Payment
  <2>4. [payments[q] EXCEPT !.status = status] # NoPayment
    BY <2>3 DEF NoPayment
  <2>5. \A p \in PayIds : payments'[p] = IF p = q THEN [payments[q] EXCEPT !.status = status] ELSE payments[p]
    BY <2>1 DEF TypeOK
  <2>6. orders' = orders
    BY <1>3 DEF UpdatePayment
  <2> QED
    BY <2>3, <2>4, <2>5, <2>6
<1>4. ASSUME NEW q \in OrderIds, NEW row \in Order, NewOrder(q, row)
      PROVE  payments' = payments /\ \A o \in OrderIds : orders[o] # NoOrder => orders'[o] = orders[o]
  BY <1>4 DEF NewOrder, TypeOK
<1> QED
  BY <1>1, <1>2, <1>3, <1>4 DEF Next, vars, ChangeBu, ReloadDict, NextDay, StartRefresh, FinishRefresh

\* Attempts are finitely many, and counting more of them never gives less.
LEMMA CountAttempts ==
  ASSUME NEW A, IsFiniteSet(A), NEW B, B \subseteq A
  PROVE  /\ IsFiniteSet(B) /\ Cardinality(A) \in Nat /\ Cardinality(B) \in Nat
         /\ Cardinality(B) <= Cardinality(A) /\ (A # {} => Cardinality(A) > 0)
<1>1. IsFiniteSet(B) /\ Cardinality(B) <= Cardinality(A)
  BY FS_Subset
<1>2. Cardinality(A) \in Nat /\ Cardinality(B) \in Nat
  BY <1>1, FS_CardinalityType
<1>3. A # {} => Cardinality(A) # 0
  BY FS_EmptySet
<1> QED
  BY <1>1, <1>2, <1>3

\* The attempts that the view ps has a row for.
Present(ps) == {p \in PayIds : ps[p] # NoPayment}

\* At any time the view has finitely many attempts: a step adds one at most.
FinitePayments == IsFiniteSet(Present(payments))

\* So have the sets that a row and the CTE count.
LEMMA FiniteAttempts ==
  ASSUME FinitePayments
  PROVE  /\ \A k : IsFiniteSet(AttemptsOf(k))
         /\ \A o : IsFiniteSet(AttemptsFor(o))
<1>1. /\ \A k : AttemptsOf(k) \subseteq Present(payments)
      /\ \A o : AttemptsFor(o) \subseteq Present(payments)
  BY DEF AttemptsOf, AttemptsFor, Joined, Present
<1> QED
  BY <1>1, FS_Subset DEF FinitePayments

LEMMA FinitePaymentsStay ==
  ASSUME TypeOK, FinitePayments, [Next]_vars
  PROVE  /\ FinitePayments'
         /\ \A k : IsFiniteSet(AttemptsOf(k)')
         /\ \A o : IsFiniteSet(AttemptsFor(o)')
<1>1. \E q : Present(payments') \subseteq Present(payments) \cup {q}
  <2>1. ASSUME NEW q \in PayIds, NEW row, payments' = [payments EXCEPT ![q] = row]
        PROVE  Present(payments') \subseteq Present(payments) \cup {q}
    BY <2>1 DEF Present, TypeOK
  <2>2. CASE payments' = payments
    BY <2>2
  <2> QED
    BY <2>1, <2>2 DEF Next, vars, NewPayment, UpdatePayment, NewOrder, ChangeBu, ReloadDict, NextDay,
                         StartRefresh, FinishRefresh
<1>2. FinitePayments'
  BY <1>1, FS_AddElement, FS_Subset DEF FinitePayments
<1>3. /\ \A k : AttemptsOf(k)' \subseteq Present(payments')
      /\ \A o : AttemptsFor(o)' \subseteq Present(payments')
  BY DEF AttemptsOf, AttemptsFor, Joined, Present
<1> QED
  BY <1>2, <1>3, FS_Subset DEF FinitePayments

\* An attempt that is there has an order, a day and a method.
LEMMA AttemptType ==
  ASSUME TypeOK, NEW p \in PayIds, payments[p] # NoPayment
  PROVE  payments[p].order \in OrderIds /\ payments[p].day \in Days /\ payments[p].status \in Statuses
BY DEF TypeOK, Payment

LEMMA MoreAttempts ==
  ASSUME TypeOK, FinitePayments, [Next]_vars
  PROVE  /\ \A k \in Keys : AttemptsOf(k) \subseteq AttemptsOf(k)'
         /\ \A o \in OrderIds : AttemptsFor(o) \subseteq AttemptsFor(o)'
         /\ \A k \in Keys : Cardinality(AttemptsOf(k)) <= Cardinality(AttemptsOf(k)')
         /\ \A o \in OrderIds : Cardinality(AttemptsFor(o)) <= Cardinality(AttemptsFor(o)')
<1>1. ASSUME NEW k \in Keys PROVE AttemptsOf(k) \subseteq AttemptsOf(k)'
  <2> SUFFICES ASSUME NEW p \in AttemptsOf(k) PROVE p \in AttemptsOf(k)'
    OBVIOUS
  <2>1. /\ p \in PayIds /\ payments[p] # NoPayment /\ orders[payments[p].order] # NoOrder
        /\ payments[p].day = k.day /\ payments[p].method = k.method
        /\ orders[payments[p].order].unit = k.unit
    BY DEF AttemptsOf, Joined
  <2>2. /\ payments'[p] # NoPayment /\ payments'[p].order = payments[p].order
        /\ payments'[p].day = payments[p].day /\ payments'[p].method = payments[p].method
        /\ orders'[payments[p].order] = orders[payments[p].order]
    BY <2>1, Growth, AttemptType
  <2> QED
    BY <2>1, <2>2 DEF AttemptsOf, Joined
<1>2. ASSUME NEW o \in OrderIds PROVE AttemptsFor(o) \subseteq AttemptsFor(o)'
  BY Growth DEF AttemptsFor
<1>3. /\ \A k : IsFiniteSet(AttemptsOf(k)')
      /\ \A o : IsFiniteSet(AttemptsFor(o)')
  BY FinitePaymentsStay
<1>4. \A k \in Keys : Cardinality(AttemptsOf(k)) <= Cardinality(AttemptsOf(k)')
  BY <1>1, <1>3, CountAttempts
<1>5. \A o \in OrderIds : Cardinality(AttemptsFor(o)) <= Cardinality(AttemptsFor(o)')
  BY <1>2, <1>3, CountAttempts
<1> QED
  BY <1>1, <1>2, <1>4, <1>5

-----------------------------------------------------------------------------
(* What a refresh computes *)

\* The CTE counts attempts of the order, and all of them when none is too old.
LEMMA TriesOfCte ==
  ASSUME TypeOK, FinitePayments, NEW from \in Int, NEW o \in OrderIds
  PROVE  /\ TriesSince(from) \in [OrderIds -> Nat]
         /\ TriesSince(from)[o] <= Cardinality(AttemptsFor(o))
         /\ (\A p \in AttemptsFor(o) : payments[p].day >= from) =>
               TriesSince(from)[o] = Cardinality(AttemptsFor(o))
<1> DEFINE Recent(x) == {p \in PayIds : payments[p] # NoPayment
                           /\ payments[p].order = x /\ payments[p].day >= from}
<1>1. TriesSince(from) = [x \in OrderIds |-> Cardinality(Recent(x))]
  BY DEF TriesSince
<1>2. \A x \in OrderIds : Recent(x) \subseteq AttemptsFor(x) /\ IsFiniteSet(AttemptsFor(x))
  BY FiniteAttempts DEF AttemptsFor
<1>3. (\A p \in AttemptsFor(o) : payments[p].day >= from) => Recent(o) = AttemptsFor(o)
  BY DEF AttemptsFor
<1> HIDE DEF Recent
<1>4. \A x \in OrderIds : Cardinality(Recent(x)) \in Nat /\ Cardinality(Recent(x)) <= Cardinality(AttemptsFor(x))
  BY <1>2, CountAttempts
<1> QED
  BY <1>1, <1>3, <1>4

\* The measures of a group: its attempts, and the most attempts of one of its orders.
LEMMA MeasuresOfGroup ==
  ASSUME TypeOK, FinitePayments, NEW ps, ps \subseteq Present(payments), ps # {},
         NEW tries \in [OrderIds -> Nat], \A o \in OrderIds : tries[o] <= Cardinality(AttemptsFor(o))
  PROVE  LET row == Measures(ps, tries)
         IN  /\ row \in Row /\ row.attempts = Cardinality(ps) /\ row.captured <= row.attempts
             /\ \E p \in ps : row.tries = Tries(tries, payments[p].order)
             /\ \A p \in ps : row.tries >= Tries(tries, payments[p].order)
<1> DEFINE Ts == {Tries(tries, payments[p].order) : p \in ps}
           top == Max(Ts)
           b == Cardinality(Present(payments)) + 1
<1>1. \A p \in ps : /\ Tries(tries, payments[p].order) \in Nat
                    /\ Tries(tries, payments[p].order) <= b
  <2> SUFFICES ASSUME NEW p \in ps
               PROVE  /\ Tries(tries, payments[p].order) \in Nat
                      /\ Tries(tries, payments[p].order) <= b
    OBVIOUS
  <2> DEFINE o == payments[p].order
  <2>1. o \in OrderIds /\ tries[o] \in Nat
    BY AttemptType DEF Present
  <2>2. AttemptsFor(o) \subseteq Present(payments)
    BY DEF AttemptsFor, Present
  <2>3. Cardinality(AttemptsFor(o)) <= Cardinality(Present(payments))
        /\ Cardinality(Present(payments)) \in Nat /\ Cardinality(AttemptsFor(o)) \in Nat
    BY <2>2, CountAttempts DEF FinitePayments
  <2> QED
    BY <2>1, <2>3 DEF Tries
<1>2. b \in Nat
  BY FS_CardinalityType DEF FinitePayments
<1>3. Ts \subseteq Nat /\ Ts # {} /\ \A t \in Ts : t <= b
  BY <1>1
<1>4. top \in Ts /\ \A t \in Ts : top >= t
  <2> HIDE DEF Ts, b
  <2>1. \E x \in Ts : \A y \in Ts : x >= y
    BY <1>2, <1>3, GreatestExists
  <2> QED
    BY <2>1 DEF Max
<1>5. Measures(ps, tries) = [attempts |-> Cardinality(ps), captured |-> Cardinality(Captured(ps)), tries |-> top]
  BY DEF Measures
<1> HIDE DEF top
<1>6. \A p \in ps : top >= Tries(tries, payments[p].order)
  BY <1>4
<1>7. \E p \in ps : top = Tries(tries, payments[p].order)
  BY <1>4
<1>8. Captured(ps) \subseteq ps /\ IsFiniteSet(ps)
  BY FS_Subset DEF Captured, FinitePayments
<1>9. /\ Cardinality(ps) \in Nat \ {0} /\ Cardinality(Captured(ps)) \in Nat
      /\ Cardinality(Captured(ps)) <= Cardinality(ps)
  BY <1>8, CountAttempts
<1> QED
  BY <1>1, <1>5, <1>6, <1>7, <1>9 DEF Row

\* The set that a refresh aggregates for a row.
LEMMA GroupOfRow ==
  ASSUME TypeOK, NEW k \in Keys, NEW c \in Channels
  PROVE  /\ Members(k, c) \subseteq AttemptsOf(k) /\ AttemptsOf(k) \subseteq PayIds
         /\ \A p \in AttemptsOf(k) : payments[p] # NoPayment /\ payments[p].order \in OrderIds
         /\ (\A d, e \in Channels : d = e) => Members(k, c) = AttemptsOf(k)
<1>1. Members(k, c) \subseteq AttemptsOf(k)
  BY DEF Members, AttemptsOf
<1>2. AttemptsOf(k) \subseteq PayIds /\ \A p \in AttemptsOf(k) : payments[p] # NoPayment
  BY DEF AttemptsOf, Joined
<1>3. \A p \in AttemptsOf(k) : payments[p].order \in OrderIds
  BY <1>2, AttemptType
<1>4. ASSUME \A d, e \in Channels : d = e, NEW p \in AttemptsOf(k) PROVE p \in Members(k, c)
  <2> DEFINE o == orders[payments[p].order]
  <2>1. o \in Order /\ o.unit = k.unit
    BY <1>3 DEF AttemptsOf, Joined, TypeOK
  <2>2. o.channel = c
    BY <1>4, <2>1 DEF Order
  <2>3. o = [unit |-> k.unit, channel |-> c]
    BY <2>1, <2>2 DEF Order
  <2> QED
    BY <2>3 DEF AttemptsOf, Members
<1> QED
  BY <1>1, <1>2, <1>3, <1>4

\* A group is a part of the attempts of one channel, and all of them when the refresh
\* got one name.
LEMMA OneGroup ==
  ASSUME NEW k \in Keys, NEW ps \in GroupsOf(k)
  PROVE  \E c \in Channels : ps # {} /\ ps \subseteq Members(k, c) /\ (~ TwoNames(k) => ps = Members(k, c))
<1>1. CASE TwoNames(k)
  BY <1>1 DEF GroupsOf, ChannelsOf
<1>2. CASE ~ TwoNames(k)
  BY <1>2 DEF GroupsOf, ChannelsOf
<1> QED
  BY <1>1, <1>2

-----------------------------------------------------------------------------
(* The inductive invariant *)

\* What the CTE of the refresh in progress counted is there.
CteBacked == \A o \in OrderIds : refresh.tries[o] <= Cardinality(AttemptsFor(o))

\* What a row says of the attempts per order is so of the order of one of its attempts.
RowsBacked ==
    \A k \in Keys : mart[k].tries > 0 =>
        \E o \in OrderIds : /\ \E q \in AttemptsOf(k) : payments[q].order = o
                            /\ mart[k].tries <= Cardinality(AttemptsFor(o))

\* The refresh in progress knows these attempts as well, or leaves one out.
RefreshKnows ==
    refresh.on =>
        \A k \in Keys : mart[k].tries > 0 =>
            \E o \in OrderIds :
                /\ \E q \in AttemptsOf(k) : payments[q].order = o
                /\ \/ mart[k].tries <= refresh.tries[o]
                   \/ \E p \in AttemptsFor(o) : payments[p].day < refresh.from

FunnelInv == TypeOK /\ FinitePayments /\ CteBacked /\ RowsBacked /\ RefreshKnows /\ NoDoubleCounting

LEMMA InitFunnel == Init => FunnelInv
<1> SUFFICES ASSUME Init PROVE FunnelInv
  OBVIOUS
<1> USE FunnelAssumption
<1>1. TypeOK
  BY DEF Init, TypeOK, Idle, Days, DictInit, DictTypeOK
<1>2. FinitePayments
  <2>1. Present(payments) = {}
    BY DEF Init, Present
  <2> QED
    BY <2>1, FS_EmptySet DEF FinitePayments
<1>3. CteBacked
  <2>1. \A o \in OrderIds : refresh.tries[o] = 0
    BY DEF Init, Idle
  <2> QED
    BY <1>2, <2>1, FiniteAttempts, CountAttempts DEF CteBacked
<1>4. RowsBacked /\ RefreshKnows
  BY DEF Init, Idle, RowsBacked, RefreshKnows, NoRow
<1>6. NoDoubleCounting
  BY <1>2, FiniteAttempts, CountAttempts DEF Init, NoRow, NoDoubleCounting
<1> QED
  BY <1>1, <1>2, <1>3, <1>4, <1>6 DEF FunnelInv

\* What a refresh has read of the attempts stays.
CteStays == refresh'.on = refresh.on /\ refresh'.from = refresh.from /\ refresh'.tries = refresh.tries

\* A step that leaves the mart and the refresh alone, or gives the refresh new names.
LEMMA ArrivalKeeps ==
  ASSUME FunnelInv, [Next]_vars, mart' = mart, CteStays
  PROVE  CteBacked' /\ RowsBacked' /\ RefreshKnows' /\ NoDoubleCounting'
<1>1. TypeOK /\ FinitePayments /\ CteBacked /\ RowsBacked /\ RefreshKnows /\ NoDoubleCounting
  BY DEF FunnelInv
<1>2. /\ \A k \in Keys : AttemptsOf(k) \subseteq AttemptsOf(k)'
      /\ \A o \in OrderIds : AttemptsFor(o) \subseteq AttemptsFor(o)'
      /\ \A k \in Keys : Cardinality(AttemptsOf(k)) <= Cardinality(AttemptsOf(k)')
      /\ \A o \in OrderIds : Cardinality(AttemptsFor(o)) <= Cardinality(AttemptsFor(o)')
  BY <1>1, MoreAttempts
<1>3. /\ \A k \in Keys : IsFiniteSet(AttemptsOf(k)) /\ IsFiniteSet(AttemptsOf(k)')
      /\ \A o \in OrderIds : IsFiniteSet(AttemptsFor(o)) /\ IsFiniteSet(AttemptsFor(o)')
  BY <1>1, FiniteAttempts, FinitePaymentsStay
<1>4. /\ \A k \in Keys : Cardinality(AttemptsOf(k)) \in Nat /\ Cardinality(AttemptsOf(k)') \in Nat
      /\ \A o \in OrderIds : Cardinality(AttemptsFor(o)) \in Nat /\ Cardinality(AttemptsFor(o)') \in Nat
  BY <1>3, CountAttempts
<1>5. /\ \A k \in Keys : mart[k].attempts \in Nat /\ mart[k].tries \in Nat
      /\ \A o \in OrderIds : refresh.tries[o] \in Nat
  BY <1>1 DEF TypeOK, Row, NoRow
<1>6. \A k \in Keys : \A q \in AttemptsOf(k) :
        /\ payments[q].order \in OrderIds /\ payments'[q].order = payments[q].order
  BY <1>1, Growth, AttemptType DEF AttemptsOf, Joined
<1>7. CteBacked'
  BY <1>1, <1>2, <1>4, <1>5 DEF CteBacked, CteStays
<1>8. NoDoubleCounting'
  BY <1>1, <1>2, <1>4, <1>5 DEF NoDoubleCounting
<1>9. ASSUME NEW k \in Keys, NEW o \in OrderIds, \E q \in AttemptsOf(k) : payments[q].order = o
      PROVE  \E q \in AttemptsOf(k)' : payments'[q].order = o
  BY <1>2, <1>6, <1>9
<1>10. RowsBacked'
  <2> SUFFICES ASSUME NEW k \in Keys, mart[k].tries > 0
               PROVE  \E o \in OrderIds : /\ \E q \in AttemptsOf(k)' : payments'[q].order = o
                                          /\ mart[k].tries <= Cardinality(AttemptsFor(o)')
    BY DEF RowsBacked
  <2>1. PICK o \in OrderIds : /\ \E q \in AttemptsOf(k) : payments[q].order = o
                             /\ mart[k].tries <= Cardinality(AttemptsFor(o))
    BY <1>1 DEF RowsBacked
  <2>2. mart[k].tries <= Cardinality(AttemptsFor(o)')
    BY <1>2, <1>4, <1>5, <2>1
  <2> QED
    BY <1>9, <2>1, <2>2
<1>11. RefreshKnows'
  <2> SUFFICES ASSUME refresh.on, NEW k \in Keys, mart[k].tries > 0
               PROVE  \E o \in OrderIds :
                        /\ \E q \in AttemptsOf(k)' : payments'[q].order = o
                        /\ \/ mart[k].tries <= refresh.tries[o]
                           \/ \E p \in AttemptsFor(o)' : payments'[p].day < refresh.from
    BY DEF RefreshKnows, CteStays
  <2>1. PICK o \in OrderIds :
            /\ \E q \in AttemptsOf(k) : payments[q].order = o
            /\ \/ mart[k].tries <= refresh.tries[o]
               \/ \E p \in AttemptsFor(o) : payments[p].day < refresh.from
    BY <1>1 DEF RefreshKnows
  <2>2. ASSUME NEW p \in AttemptsFor(o), payments[p].day < refresh.from
        PROVE  p \in AttemptsFor(o)' /\ payments'[p].day < refresh.from
    <3>1. p \in PayIds /\ payments[p] # NoPayment
      BY DEF AttemptsFor
    <3>2. payments'[p].day = payments[p].day
      BY <1>1, <3>1, Growth
    <3> QED
      BY <1>2, <2>2, <3>2
  <2> QED
    BY <1>9, <2>1, <2>2
<1> QED
  BY <1>7, <1>8, <1>10, <1>11

\* The CTE is read: it knows every order that a row speaks of, up to attempts that are
\* too old for it.
LEMMA StartKeeps ==
  ASSUME FunnelInv, StartRefresh
  PROVE  FunnelInv'
<1>1. TypeOK /\ FinitePayments /\ CteBacked /\ RowsBacked /\ NoDoubleCounting
  BY DEF FunnelInv
<1> DEFINE from == today - Window
       names == [b \in Bus |-> {dict[b]}]
<1>2. /\ refresh' = [on |-> TRUE, from |-> from, tries |-> TriesSince(from), seen |-> names]
      /\ today' = today /\ payments' = payments /\ orders' = orders /\ mart' = mart /\ changes' = changes
      /\ registry' = registry /\ dict' = dict
  BY DEF StartRefresh, dictVars
<1>3. from \in Int
  BY <1>1, FunnelAssumption DEF TypeOK, Days
<1>11. names \in [Bus -> SUBSET (Entries \cup {Unknown})]
  BY <1>1 DEF TypeOK, DictTypeOK
<1> HIDE DEF from, names
<1>4. /\ \A k : AttemptsOf(k)' = AttemptsOf(k)
      /\ \A o : AttemptsFor(o)' = AttemptsFor(o)
  BY <1>2 DEF AttemptsOf, AttemptsFor, Joined
<1>5. /\ TriesSince(from) \in [OrderIds -> Nat]
      /\ \A o \in OrderIds : TriesSince(from)[o] <= Cardinality(AttemptsFor(o))
  <2>1. \A o \in OrderIds : /\ TriesSince(from) \in [OrderIds -> Nat]
                            /\ TriesSince(from)[o] <= Cardinality(AttemptsFor(o))
    BY <1>1, <1>3, TriesOfCte
  <2>2. TriesSince(from) \in [OrderIds -> Nat]
    <3>1. \A o \in OrderIds : IsFiniteSet({p \in PayIds : payments[p] # NoPayment /\ payments[p].order = o
                                             /\ payments[p].day >= from})
      <4>1. \A o \in OrderIds : {p \in PayIds : payments[p] # NoPayment /\ payments[p].order = o
                                   /\ payments[p].day >= from} \subseteq Present(payments)
        BY DEF Present
      <4> QED
        BY <1>1, <4>1, FS_Subset DEF FinitePayments
    <3>2. \A o \in OrderIds : Cardinality({p \in PayIds : payments[p] # NoPayment /\ payments[p].order = o
                                 /\ payments[p].day >= from}) \in Nat
      BY <3>1, CountAttempts
    <3> QED
      BY <3>2 DEF TriesSince
  <2> QED
    BY <2>1, <2>2
<1>6. refresh' \in [on : BOOLEAN, from : Int, tries : [OrderIds -> Nat],
                   seen : [Bus -> SUBSET (Entries \cup {Unknown})]]
  BY <1>2, <1>3, <1>5, <1>11
<1>7. TypeOK'
  BY <1>1, <1>2, <1>6 DEF TypeOK, DictTypeOK
<1>8. CteBacked'
  BY <1>2, <1>4, <1>5 DEF CteBacked
<1>9. RowsBacked' /\ NoDoubleCounting'
  BY <1>1, <1>2, <1>4 DEF RowsBacked, NoDoubleCounting
<1>10. RefreshKnows'
  <2>1. refresh'.from = from /\ refresh'.tries = TriesSince(from)
    BY <1>2
  <2> SUFFICES ASSUME NEW k \in Keys, mart[k].tries > 0
               PROVE  \E o \in OrderIds :
                        /\ \E q \in AttemptsOf(k) : payments[q].order = o
                        /\ \/ mart[k].tries <= TriesSince(from)[o]
                           \/ \E p \in AttemptsFor(o) : payments[p].day < from
    BY <1>2, <1>4, <2>1 DEF RefreshKnows
  <2>2. PICK o \in OrderIds : /\ \E q \in AttemptsOf(k) : payments[q].order = o
                             /\ mart[k].tries <= Cardinality(AttemptsFor(o))
    BY <1>1 DEF RowsBacked
  <2>3. \A p \in AttemptsFor(o) : payments[p].day \in Int
    BY <1>1, AttemptType DEF AttemptsFor, Days
  <2>4. CASE \A p \in AttemptsFor(o) : payments[p].day >= from
    <3>1. TriesSince(from)[o] = Cardinality(AttemptsFor(o))
      BY <1>1, <1>3, <2>4, TriesOfCte
    <3> QED
      BY <2>2, <3>1
  <2>5. CASE ~ (\A p \in AttemptsFor(o) : payments[p].day >= from)
    BY <1>3, <2>2, <2>3, <2>5
  <2> QED
    BY <2>4, <2>5
<1> QED
  BY <1>1, <1>2, <1>7, <1>8, <1>9, <1>10 DEF FunnelInv, FinitePayments

\* What the end of a refresh does to one row.
LEMMA RowWritten ==
  ASSUME FunnelInv, FinishRefresh, NEW k \in Keys
  PROVE  \/ mart'[k] = mart[k]
         \/ /\ mart'[k] \in Row
            /\ mart'[k].attempts <= Cardinality(AttemptsOf(k)) /\ mart'[k].captured <= mart'[k].attempts
            /\ \E p \in AttemptsOf(k) : mart'[k].tries = Tries(refresh.tries, payments[p].order)
            /\ (\A d, e \in Channels : d = e) /\ ~ TwoNames(k) =>
                 \A p \in AttemptsOf(k) : mart'[k].tries >= Tries(refresh.tries, payments[p].order)
<1>1. TypeOK /\ FinitePayments /\ CteBacked
  BY DEF FunnelInv
<1> DEFINE written == {x \in Keys : x.day >= refresh.from /\ ChannelsOf(x) # {}}
<1>2. PICK shown \in [written -> UNION {GroupsOf(x) : x \in written}] :
        /\ \A x \in written : shown[x] \in GroupsOf(x)
        /\ mart' = [x \in Keys |-> IF x \in written THEN Measures(shown[x], refresh.tries) ELSE mart[x]]
  BY DEF FinishRefresh
<1> HIDE DEF written
<1>3. CASE k \notin written
  BY <1>2, <1>3
<1>4. CASE k \in written
  <2> DEFINE ps == shown[k]
  <2>1. ps \in GroupsOf(k) /\ mart'[k] = Measures(ps, refresh.tries)
    BY <1>2, <1>4
  <2> HIDE DEF ps
  <2>6. PICK c \in Channels : ps # {} /\ ps \subseteq Members(k, c) /\ (~ TwoNames(k) => ps = Members(k, c))
    BY <2>1, OneGroup
  <2>2. /\ ps \subseteq AttemptsOf(k) /\ AttemptsOf(k) \subseteq PayIds
        /\ \A p \in AttemptsOf(k) : payments[p] # NoPayment
        /\ (\A d, e \in Channels : d = e) /\ ~ TwoNames(k) => ps = AttemptsOf(k)
    BY <1>1, <2>6, GroupOfRow
  <2>3. refresh.tries \in [OrderIds -> Nat] /\ \A o \in OrderIds : refresh.tries[o] <= Cardinality(AttemptsFor(o))
    BY <1>1 DEF TypeOK, CteBacked
  <2>4. /\ mart'[k] \in Row /\ mart'[k].attempts = Cardinality(ps) /\ mart'[k].captured <= mart'[k].attempts
        /\ \E p \in ps : mart'[k].tries = Tries(refresh.tries, payments[p].order)
        /\ \A p \in ps : mart'[k].tries >= Tries(refresh.tries, payments[p].order)
    <3>1. ps \subseteq Present(payments)
      BY <2>2 DEF Present
    <3> DEFINE row == Measures(ps, refresh.tries)
    <3>2. /\ row \in Row /\ row.attempts = Cardinality(ps) /\ row.captured <= row.attempts
          /\ \E p \in ps : row.tries = Tries(refresh.tries, payments[p].order)
          /\ \A p \in ps : row.tries >= Tries(refresh.tries, payments[p].order)
      BY <1>1, <2>6, <2>3, <3>1, MeasuresOfGroup
    <3> QED
      BY <2>1, <3>2
  <2>5. Cardinality(ps) <= Cardinality(AttemptsOf(k))
    BY <1>1, <2>2, FiniteAttempts, CountAttempts
  <2> QED
    BY <2>2, <2>4, <2>5
<1> QED
  BY <1>3, <1>4

LEMMA FinishKeeps ==
  ASSUME FunnelInv, FinishRefresh
  PROVE  FunnelInv'
<1>1. TypeOK /\ FinitePayments /\ CteBacked /\ RowsBacked /\ NoDoubleCounting
  BY DEF FunnelInv
<1>2. /\ refresh' = Idle /\ today' = today /\ payments' = payments /\ orders' = orders /\ changes' = changes
      /\ registry' = registry /\ dict' = dict
  BY DEF FinishRefresh, dictVars
<1>3. /\ \A k : AttemptsOf(k)' = AttemptsOf(k)
      /\ \A o : AttemptsFor(o)' = AttemptsFor(o)
  BY <1>2 DEF AttemptsOf, AttemptsFor, Joined
<1>4. \A o \in OrderIds : refresh.tries[o] \in Nat /\ Cardinality(AttemptsFor(o)) \in Nat
  BY <1>1, FiniteAttempts, CountAttempts DEF TypeOK
<1>5. mart' \in [Keys -> Row \cup {NoRow}]
  <2>1. \A k \in Keys : mart[k] \in Row \cup {NoRow}
    BY <1>1 DEF TypeOK
  <2>2. \A k \in Keys : mart'[k] \in Row \cup {NoRow}
    BY <2>1, RowWritten
  <2>3. mart' = [k \in Keys |-> mart'[k]]
    BY DEF FinishRefresh
  <2> QED
    BY <2>2, <2>3
<1>6. TypeOK'
  BY <1>1, <1>2, <1>5 DEF TypeOK, DictTypeOK, Idle
<1>7. CteBacked' /\ RefreshKnows'
  BY <1>2, <1>3, <1>4 DEF Idle, CteBacked, RefreshKnows
<1>8. NoDoubleCounting'
  BY <1>1, <1>3, RowWritten DEF NoDoubleCounting
<1>9. RowsBacked'
  <2> SUFFICES ASSUME NEW k \in Keys, mart'[k].tries > 0
               PROVE  \E o \in OrderIds : /\ \E q \in AttemptsOf(k) : payments[q].order = o
                                          /\ mart'[k].tries <= Cardinality(AttemptsFor(o))
    BY <1>2, <1>3 DEF RowsBacked
  <2>1. CASE mart'[k] = mart[k]
    BY <1>1, <2>1 DEF RowsBacked
  <2>2. ASSUME NEW p \in AttemptsOf(k), mart'[k].tries = Tries(refresh.tries, payments[p].order)
        PROVE  \E o \in OrderIds : /\ \E q \in AttemptsOf(k) : payments[q].order = o
                                   /\ mart'[k].tries <= Cardinality(AttemptsFor(o))
    <3>1. payments[p].order \in OrderIds
      BY <1>1, AttemptType DEF AttemptsOf, Joined
    <3>2. mart'[k].tries <= Cardinality(AttemptsFor(payments[p].order))
      BY <1>1, <1>4, <2>2, <3>1 DEF Tries, CteBacked
    <3> QED
      BY <3>1, <3>2
  <2> QED
    BY <2>1, <2>2, RowWritten
<1> QED
  BY <1>1, <1>2, <1>6, <1>7, <1>8, <1>9 DEF FunnelInv, FinitePayments

LEMMA ArrivalTypes ==
  ASSUME TypeOK, mart' = mart,
         \/ \E p \in PayIds : \E row \in Payment : NewPayment(p, row)
         \/ \E p \in PayIds : \E status \in Statuses : UpdatePayment(p, status)
         \/ \E o \in OrderIds : \E row \in Order : NewOrder(o, row)
         \/ \E b \in Bus : \E e \in Entries : ChangeBu(b, e)
         \/ ReloadDict
         \/ NextDay
         \/ UNCHANGED vars
  PROVE  TypeOK'
<1> USE FunnelAssumption
<1>1. Change => changes' \in 0..MaxChanges /\ UNCHANGED <<today, refresh>>
  BY DEF Change, TypeOK
<1>10. ChangeOfSales => changes' \in 0..MaxChanges /\ UNCHANGED <<today, refresh, registry, dict>>
  BY <1>1 DEF ChangeOfSales, dictVars
<1>2. ASSUME NEW p \in PayIds, NEW row \in Payment, NewPayment(p, row) PROVE TypeOK'
  BY <1>10, <1>2 DEF NewPayment, TypeOK, DictTypeOK
<1>3. ASSUME NEW p \in PayIds, NEW status \in Statuses, UpdatePayment(p, status) PROVE TypeOK'
  <2>1. payments[p] \in Payment
    BY <1>3 DEF UpdatePayment, TypeOK
  <2> DEFINE row == [payments[p] EXCEPT !.status = status]
  <2>2. row \in Payment
    BY <2>1 DEF Payment
  <2>3. payments' = [payments EXCEPT ![p] = row]
    BY <1>3 DEF UpdatePayment
  <2> HIDE DEF row
  <2> QED
    BY <1>10, <1>3, <2>2, <2>3 DEF UpdatePayment, TypeOK, DictTypeOK
<1>4. ASSUME NEW o \in OrderIds, NEW row \in Order, NewOrder(o, row) PROVE TypeOK'
  BY <1>10, <1>4 DEF NewOrder, TypeOK, DictTypeOK
<1>5. CASE NextDay
  BY <1>5 DEF NextDay, TypeOK, DictTypeOK, Days, dictVars
<1>6. CASE UNCHANGED vars
  BY <1>6 DEF vars, TypeOK, DictTypeOK
<1>7. ASSUME NEW b \in Bus, NEW e \in Entries, ChangeBu(b, e) PROVE TypeOK'
  BY <1>1, <1>7 DEF ChangeBu, Register, TypeOK, DictTypeOK
<1>8. CASE ReloadDict
  <2>1. dict' = registry /\ UNCHANGED <<registry, today, payments, orders, mart, changes>>
    BY <1>8 DEF ReloadDict, Reload
  <2>2. refresh' \in [on : BOOLEAN, from : Int, tries : [OrderIds -> Nat],
                      seen : [Bus -> SUBSET (Entries \cup {Unknown})]]
    BY <1>8 DEF ReloadDict, TypeOK, DictTypeOK
  <2> QED
    BY <2>1, <2>2 DEF TypeOK, DictTypeOK
<1> QED
  BY <1>2, <1>3, <1>4, <1>5, <1>6, <1>7, <1>8

LEMMA FunnelInvariance == Spec => []FunnelInv
<1>1. FunnelInv /\ [Next]_vars => FunnelInv'
  <2> SUFFICES ASSUME FunnelInv, [Next]_vars PROVE FunnelInv'
    OBVIOUS
  <2>1. ASSUME mart' = mart, CteStays, ~ StartRefresh, ~ FinishRefresh PROVE FunnelInv'
    BY <2>1, ArrivalKeeps, ArrivalTypes, FinitePaymentsStay DEF FunnelInv, Next
  <2>2. StartRefresh \/ FinishRefresh \/ (mart' = mart /\ CteStays)
    <3>1. ReloadDict => mart' = mart /\ CteStays
      BY DEF ReloadDict, CteStays, FunnelInv, TypeOK
    <3>2. StartRefresh \/ FinishRefresh \/ ReloadDict \/ (mart' = mart /\ refresh' = refresh)
      BY DEF Next, vars, NewPayment, UpdatePayment, NewOrder, ChangeBu, NextDay, ChangeOfSales, Change
    <3> QED
      BY <3>1, <3>2 DEF CteStays
  <2> QED
    BY <2>1, <2>2, StartKeeps, FinishKeeps
<1> QED
  BY <1>1, InitFunnel, PTL DEF Spec

-----------------------------------------------------------------------------
(* The theorems *)

\* The mart has rows of its type only: no row without an attempt, and no column gets a
\* negative value.  The attempts per order may be 0: those of attempts that came between
\* the two reads of a refresh.
THEOREM FunnelTypes == Spec => []TypeOK
<1>1. FunnelInv => TypeOK
  BY DEF FunnelInv
<1> QED
  BY <1>1, FunnelInvariance, PTL

\* The joins and the collapsing by FINAL never make one attempt count as two.
THEOREM NothingCountedTwice == Spec => []NoDoubleCounting
<1>1. FunnelInv => NoDoubleCounting
  BY DEF FunnelInv
<1> QED
  BY <1>1, FunnelInvariance, PTL

\* With one channel, the case in which the mart's sorting key tells its groups apart, no
\* refresh takes back what a row said of the attempts per order, unless an order's attempts
\* straddle the start of the window or the refresh got two names for the business unit.
THEOREM RetriesStay ==
  ASSUME \A d, e \in Channels : d = e
  PROVE  Spec => RetriesKept
<1>1. ASSUME FunnelInv, [Next]_vars, NEW k \in Keys, mart'[k].tries < mart[k].tries
      PROVE  TriedBefore(k) \/ TwoNames(k)
  <2> SUFFICES ASSUME ~ TwoNames(k) PROVE TriedBefore(k)
    OBVIOUS
  <2>1. TypeOK /\ RefreshKnows
    BY <1>1 DEF FunnelInv
  <2>2. FinishRefresh /\ mart'[k] # mart[k]
    <3>1. FinishRefresh \/ mart' = mart
      BY <1>1 DEF Next, vars, NewPayment, UpdatePayment, NewOrder, ChangeBu, ReloadDict, NextDay,
                  StartRefresh, ChangeOfSales, Change
    <3>2. mart[k].tries \in Nat
      BY <2>1 DEF TypeOK, Row, NoRow
    <3> QED
      BY <1>1, <3>1, <3>2
  <2>3. /\ mart'[k] \in Row
        /\ \A p \in AttemptsOf(k) : mart'[k].tries >= Tries(refresh.tries, payments[p].order)
    BY <1>1, <2>2, RowWritten
  <2>4. mart[k].tries \in Nat /\ mart'[k].tries \in Nat /\ mart[k].tries > 0
    BY <1>1, <2>1, <2>3 DEF TypeOK, Row, NoRow
  <2>5. PICK o \in OrderIds :
            /\ \E q \in AttemptsOf(k) : payments[q].order = o
            /\ \/ mart[k].tries <= refresh.tries[o]
               \/ \E p \in AttemptsFor(o) : payments[p].day < refresh.from
    BY <2>1, <2>2, <2>4 DEF RefreshKnows, FinishRefresh
  <2>6. PICK q \in AttemptsOf(k) : payments[q].order = o
    BY <2>5
  <2>7. ~ (mart[k].tries <= refresh.tries[o])
    <3>1. refresh.tries[o] \in Nat
      BY <2>1 DEF TypeOK
    <3>2. mart'[k].tries >= Tries(refresh.tries, o)
      BY <2>3, <2>6
    <3> QED
      BY <1>1, <2>4, <3>1, <3>2 DEF Tries
  <2>8. PICK p \in AttemptsFor(o) : payments[p].day < refresh.from
    BY <2>5, <2>7
  <2> QED
    BY <2>6, <2>8 DEF TriedBefore, AttemptsFor, AttemptsOf, Joined
<1>2. FunnelInv /\ [Next]_vars =>
        [\A k \in Keys : mart'[k].tries < mart[k].tries => TriedBefore(k) \/ TwoNames(k)]_vars
  BY <1>1
<1> QED
  BY <1>2, FunnelInvariance, PTL DEF Spec, RetriesKept

=============================================================================
