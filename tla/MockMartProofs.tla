--------------------------- MODULE MockMartProofs ---------------------------
(***************************************************************************)
(* Why checks 10 to 13 of verify.sh pass once the refreshes that it asked  *)
(* for have ended, although the marts keep the rows of earlier loads and   *)
(* refresh whenever the scheduler likes: for any bases and bounds, with    *)
(* the code's window of three days.                                        *)
(***************************************************************************)
EXTENDS MockMatrixProofs

-----------------------------------------------------------------------------
(* The payments and the orders that a load sends *)

\* Payment attempt v, `minutes' after the instant `days' before the base.
Pays(v, id, order, method, parts, acquirer, auth, days, minutes) ==
    LET row == PaymentChanges[v].row
    IN  /\ row.id = id /\ row.order = order /\ row.method = method
        /\ row.installments = parts /\ row.acquirer = acquirer /\ row.auth = auth
        /\ row.at = minutes - days * Day

\* Checks 10 to 12 are about one attempt of ACQ-TEST, captured,
LEMMA TestPayments ==
    \A v \in 1..3 :
        Pays(v, <<"PAY-ACQTEST", 1>>, "ORD-000123", "credit_card", 3, "ACQ-TEST",
             IF v = 1 THEN {} ELSE {30}, 1, 0)
<1>1. Pays(1, <<"PAY-ACQTEST", 1>>, "ORD-000123", "credit_card", 3, "ACQ-TEST", {}, 1, 0)
  BY DEF PaymentChanges, Create, Update, Pays, Day
<1>2. Pays(2, <<"PAY-ACQTEST", 1>>, "ORD-000123", "credit_card", 3, "ACQ-TEST", {30}, 1, 0)
  BY DEF PaymentChanges, Create, Update, Pays, Day
<1>3. Pays(3, <<"PAY-ACQTEST", 1>>, "ORD-000123", "credit_card", 3, "ACQ-TEST", {30}, 1, 0)
  BY DEF PaymentChanges, Create, Update, Pays, Day
<1> QED
  BY <1>1, <1>2, <1>3

\* ten attempts of ACQ-LAT-TEST, each authorized after 10 seconds,
LEMMA LatencyPayments ==
    \A v \in 4..13 :
        Pays(v, <<"PAY-LATTEST", v - 3>>, "ORD-000124", "pix", 1, "ACQ-LAT-TEST",
             IF v = 13 THEN {} ELSE {10}, 1, v - 3)
<1>1. \A n \in 1..9 :
          Pays(3 + n, <<"PAY-LATTEST", n>>, "ORD-000124", "pix", 1, "ACQ-LAT-TEST", {10}, 1, n)
  BY DEF PaymentChanges, Create, Update, Pays, Day
<1>2. Pays(13, <<"PAY-LATTEST", 10>>, "ORD-000124", "pix", 1, "ACQ-LAT-TEST", {}, 1, 10)
  BY DEF PaymentChanges, Create, Update, Pays, Day
<1>3. ASSUME NEW v \in 4..12
      PROVE  Pays(v, <<"PAY-LATTEST", v - 3>>, "ORD-000124", "pix", 1, "ACQ-LAT-TEST", {10}, 1, v - 3)
  <2>1. v - 3 \in 1..9 /\ 3 + (v - 3) = v
    OBVIOUS
  <2> QED
    BY <1>1, <2>1
<1> QED
  BY <1>2, <1>3

\* and three of ACQ-RETRY-TEST for one order, the last one captured.
LEMMA RetryPayments ==
    \A v \in 14..16 :
        Pays(v, <<"PAY-RETRY", v - 13>>, "ORD-000125", "credit_card", 1, "ACQ-RETRY-TEST",
             {5}, 3, 2 * (v - 14))
<1>1. Pays(14, <<"PAY-RETRY", 1>>, "ORD-000125", "credit_card", 1, "ACQ-RETRY-TEST", {5}, 3, 0)
  BY DEF PaymentChanges, Create, Update, Pays, Day
<1>2. Pays(15, <<"PAY-RETRY", 2>>, "ORD-000125", "credit_card", 1, "ACQ-RETRY-TEST", {5}, 3, 2)
  BY DEF PaymentChanges, Create, Update, Pays, Day
<1>3. Pays(16, <<"PAY-RETRY", 3>>, "ORD-000125", "credit_card", 1, "ACQ-RETRY-TEST", {5}, 3, 4)
  BY DEF PaymentChanges, Create, Update, Pays, Day
<1> QED
  BY <1>1, <1>2, <1>3

\* The other attempts: one per order, of an acquirer that no check looks at.
Standard(v, order) ==
    LET row == PaymentChanges[v].row
    IN  row.id = <<"PAY-STD", order>> /\ row.order = order /\ row.acquirer = "ACQ-STD"

LEMMA StandardPayments ==
    /\ Standard(17, "ORD-000126") /\ Standard(18, "ORD-000127") /\ Standard(19, "ORD-000128")
    /\ Standard(20, "ORD-000129") /\ Standard(21, "ORD-000130") /\ Standard(22, "ORD-000131")
BY DEF PaymentChanges, Create, Update, Standard, Day

\* The columns of a payment that the funnel looks at.
PaymentFields == {"id", "at", "order", "method", "installments", "status", "acquirer", "auth"}

LEMMA PaymentShapes ==
    /\ DOMAIN PaymentChanges = 1..22
    /\ \A v \in 1..22 : PaymentFields \subseteq DOMAIN PaymentChanges[v].row /\ PaymentChanges[v].op # "d"
<1> DEFINE columns(v) == PaymentFields \subseteq DOMAIN PaymentChanges[v].row
           there(v) == PaymentChanges[v].op # "d"
<1>1. DOMAIN PaymentChanges = 1..22
  BY DEF PaymentChanges
<1>2. \A v \in 1..3 : columns(v)
  BY DEF PaymentChanges, Create, Update, PaymentFields
<1>3. \A v \in 4..12 : columns(v)
  BY DEF PaymentChanges, Create, Update, PaymentFields
<1>4. \A v \in 13..22 : columns(v)
  BY DEF PaymentChanges, Create, Update, PaymentFields
<1>5. \A v \in 1..3 : there(v)
  BY DEF PaymentChanges, Create, Update
<1>6. \A v \in 4..12 : there(v)
  BY DEF PaymentChanges, Create, Update
<1>7. \A v \in 13..22 : there(v)
  BY DEF PaymentChanges, Create, Update
<1> HIDE DEF columns, there
<1>8. \A v \in 1..22 : columns(v) /\ there(v)
  BY <1>2, <1>3, <1>4, <1>5, <1>6, <1>7
<1> QED
  BY <1>1, <1>8 DEF columns, there

\* The outcomes of the attempts, and the seconds they took.
LEMMA Statuses ==
    /\ PaymentChanges[3].row.status = "captured" /\ PaymentChanges[14].row.status = "denied"
    /\ PaymentChanges[15].row.status = "denied" /\ PaymentChanges[16].row.status = "captured"
BY DEF PaymentChanges, Create, Update

\* Version v of the payments.
Payment(v) == [ver |-> v, op |-> PaymentChanges[v].op, row |-> PaymentChanges[v].row]

LEMMA PaymentsSent ==
    /\ "order_payment" \in Datasets /\ Sent("order_payment") = {Payment(v) : v \in 1..22}
    /\ Keyed("order_payment")
<1>1. \A v \in 1..22 : OrderPayments[v] = Payment(v)
  BY PaymentShapes DEF OrderPayments, Emitted, Payment
<1>2. DOMAIN OrderPayments = 1..22
  BY PaymentShapes DEF OrderPayments, Emitted
<1>3. "order_payment" \in Datasets /\ Sent("order_payment") = {OrderPayments[v] : v \in 1..22}
  BY <1>2 DEF Sent, Datasets, Generated
<1>4. \A v \in 1..22 : HasKey(Payment(v).row)
  BY PaymentShapes DEF Payment, HasKey, PaymentFields
<1>5. Sent("order_payment") = {Payment(v) : v \in 1..22}
  BY <1>1, <1>3
<1> QED
  BY <1>3, <1>4, <1>5 DEF Keyed

\* Only the first attempt has more than one version: 1 to 3.
LEMMA PaymentIds ==
    \A v, w \in 1..22 : PaymentChanges[v].row.id = PaymentChanges[w].row.id /\ v < w => v \in 1..2
<1> DEFINE id(v) == PaymentChanges[v].row.id
<1>1. \A v \in 1..3 : id(v) = <<"PAY-ACQTEST", 1>>
  BY TestPayments DEF Pays
<1>2. \A v \in 4..13 : id(v) = <<"PAY-LATTEST", v - 3>>
  BY LatencyPayments DEF Pays
<1>3. \A v \in 14..16 : id(v) = <<"PAY-RETRY", v - 13>>
  BY RetryPayments DEF Pays
<1>4. \A v \in 17..22 : id(v)[1] = "PAY-STD"
  BY StandardPayments DEF Standard
<1>5. \A v, w \in 17..22 : id(v) = id(w) => v = w
  BY StandardPayments, SMTT(60) DEF Standard
<1> HIDE DEF id
<1>6. \A v, w \in 1..16 : id(v) = id(w) /\ v < w => v \in 1..2
  BY <1>1, <1>2, <1>3
<1>7. \A v \in 1..16, w \in 17..22 : id(v) # id(w)
  BY <1>1, <1>2, <1>3, <1>4
<1>8. \A v, w \in 1..22 : id(v) = id(w) /\ v < w => v \in 1..2
  BY <1>5, <1>6, <1>7
<1> QED
  BY <1>8 DEF id

\* So the view shows versions 3 to 22.
LEMMA LastPayments ==
    \A v \in 1..22 : LastOf("order_payment", Payment(v)) <=> v \in 3..22
<1>1. \A v \in 1..22 : /\ Payment(v).ver = v /\ Payment(v).row.id = PaymentChanges[v].row.id
                       /\ Payment(v) \in Sent("order_payment")
  BY PaymentsSent DEF Payment
<1>2. \A v \in 1..2 : PaymentChanges[v].row.id = PaymentChanges[3].row.id
  BY TestPayments DEF Pays
<1>3. ASSUME NEW v \in 1..2 PROVE ~ LastOf("order_payment", Payment(v))
  <2>1. Payment(3) \in Sent("order_payment") /\ Payment(3).row.id = Payment(v).row.id
    BY <1>1, <1>2
  <2>2. ~ (Payment(3).ver <= Payment(v).ver)
    BY <1>1
  <2> QED
    BY <2>1, <2>2 DEF LastOf
<1>4. ASSUME NEW v \in 3..22 PROVE LastOf("order_payment", Payment(v))
  <2>1. ASSUME NEW f \in Sent("order_payment"), f.row.id = Payment(v).row.id PROVE f.ver <= Payment(v).ver
    <3>1. PICK w \in 1..22 : f = Payment(w)
      BY PaymentsSent
    <3>2. v \in 1..22 /\ v \notin 1..2
      BY <1>4
    <3>3. PaymentChanges[v].row.id = PaymentChanges[w].row.id
      BY <1>1, <2>1, <3>1, <3>2
    <3>4. ~ (v < w)
      BY PaymentIds, <3>2, <3>3
    <3>5. f.ver = w /\ Payment(v).ver = v
      BY <1>1, <3>1, <3>2
    <3> QED
      BY <3>2, <3>4, <3>5
  <2> QED
    BY <1>1, <2>1 DEF LastOf
<1> QED
  BY <1>3, <1>4

\* Version v of the orders is sold by business unit bu `days' before the base.
Sale(v, bu, channel, days) ==
    LET row == OrderChanges[v].row
    IN  row.bu = bu /\ row.channel = channel /\ row.at = -days * Day

LEMMA Sales ==
    /\ Sale(1, "BU-01", "web", 10) /\ Sale(2, "BU-01", "app", 5) /\ Sale(3, "BU-02", "web", 3)
    /\ Sale(4, "BU-02", "store", 2) /\ Sale(5, "BU-TEST", "web", 1)
    /\ Sale(6, "BU-01", "web", 1) /\ Sale(7, "BU-01", "web", 1)
    /\ Sale(8, "BU-01", "web", 6) /\ Sale(9, "BU-01", "web", 6)
    /\ Sale(10, "BU-02", "app", 7) /\ Sale(11, "BU-02", "app", 7) /\ Sale(12, "BU-02", "app", 7)
    /\ Sale(13, "BU-01", "web", 1) /\ Sale(14, "BU-01", "web", 1) /\ Sale(15, "BU-01", "web", 4)
    /\ Sale(16, "BU-01", "web", 1) /\ Sale(17, "BU-01", "web", 1) /\ Sale(18, "BU-01", "web", 1)
BY DEF OrderChanges, Create, Update, Delete, Sale

\* The columns of an order that the marts and the checks look at.
OrderFields == {"id", "bu", "channel", "status", "code", "at"}

LEMMA OrderShapes == \A v \in 1..18 : OrderFields \subseteq DOMAIN OrderChanges[v].row
<1> DEFINE columns(v) == OrderFields \subseteq DOMAIN OrderChanges[v].row
<1>1. /\ columns(1) /\ columns(2) /\ columns(3) /\ columns(4) /\ columns(5) /\ columns(6)
      /\ columns(7) /\ columns(8) /\ columns(9)
  BY DEF OrderChanges, Create, Update, Delete, OrderFields
<1>2. /\ columns(10) /\ columns(11) /\ columns(12) /\ columns(13) /\ columns(14) /\ columns(15)
      /\ columns(16) /\ columns(17) /\ columns(18)
  BY DEF OrderChanges, Create, Update, Delete, OrderFields
<1> HIDE DEF columns
<1>3. \A v \in 1..18 : columns(v)
  BY <1>1, <1>2
<1> QED
  BY <1>3 DEF columns

-----------------------------------------------------------------------------
(* The views when everything in L1 is of one load *)

\* What one load leaves in an empty table.
Leaves(d, b) == Final({}, Batch(d, b), {})

\* Everything in L1 is of one load with base b, which was not started before the day of
\* its base, and its attempts lie on one day.
SettledAt(b) ==
    /\ b \in loaded \ early /\ DayOf(b) = today /\ DayOf(b + 10) = today
    /\ \A d \in Datasets : tables[d] = Leaves(d, b)

\* The model's table of what a load leaves says the same.
LEMMA NewestLeaves ==
    ASSUME NEW d \in Datasets, NEW b \in Bases
    PROVE  Newest[d, b] = Leaves(d, b)
<1>1. Newest[d, b] = Final({}, Contents[d, b], {})
  BY Zenon DEF Newest
<1>2. Contents[d, b] = Batch(d, b)
  BY Zenon DEF Contents
<1> QED
  BY <1>1, <1>2, Zenon DEF Leaves

LEMMA SettledSomewhere ==
    ASSUME L1Inv, Settled
    PROVE  load.file = 0 /\ \E b : SettledAt(b)
<1>1. load = NoLoad
  BY Zenon DEF Settled
<1>2. PICK b \in loaded \ early :
        /\ DayOf(b) = today /\ DayOf(b + 10) = today
        /\ \A d \in Datasets : tables[d] = Newest[d, b]
  BY Zenon DEF Settled
<1>3. loaded \subseteq Bases
  BY DEF L1Inv, FlowInv, TypeOK
<1>4. b \in Bases
  BY <1>2, <1>3, Zenon
<1>5. \A d \in Datasets : tables[d] = Leaves(d, b)
  BY <1>2, <1>4, NewestLeaves, Zenon
<1>6. b \in loaded \ early /\ DayOf(b) = today /\ DayOf(b + 10) = today
  BY <1>2, Zenon
<1>7. SettledAt(b)
  BY <1>5, <1>6 DEF SettledAt
<1> QED
  BY <1>1, <1>7 DEF NoLoad

LEMMA LeavesOwn ==
    ASSUME NEW d, NEW b
    PROVE  Leaves(d, b) \subseteq Batch(d, b)
BY DEF Leaves, Final

\* The prices tell the load: they lie at fixed distances before its base.
LEMMA OneBase ==
    ASSUME NEW b \in Bases, tables["prices"] = Leaves("prices", b),
           NEW c \in Bases, Covers(tables["prices"], Batch("prices", c))
    PROVE  c = b
<1>1. b \in Nat /\ c \in Nat
  BY MockAssumption DEF MockAssumption
<1>2. ASSUME NEW n \in 1..2 PROVE \E m \in 1..4 : Prices[m].row.at + b = Prices[n].row.at + c
  <2>1. PICK x \in tables["prices"] : x.key = <<Prices[n].row.id, Prices[n].row.at + c>>
    <3>1. Entry("prices", Prices[n], c) \in Batch("prices", c)
      BY BatchEntries, PriceSent
    <3>2. Entry("prices", Prices[n], c).key = <<Prices[n].row.id, Prices[n].row.at + c>>
      BY PriceColumns
    <3> QED
      BY <3>1, <3>2 DEF Covers
  <2>2. x \in Batch("prices", b)
    BY LeavesOwn, PriceSent
  <2>3. PICK m \in 1..4 : x = Entry("prices", Prices[m], b)
    BY <2>2, BatchEntries, PriceSent
  <2>4. x.key = <<Prices[m].row.id, Prices[m].row.at + b>>
    BY <2>3, PriceColumns
  <2> QED
    BY <2>1, <2>4
<1>3. \A m \in 1..4 : Prices[m].row.at \in {-90 * Day, -2 * Day}
  BY PriceList DEF Price
<1>4. Prices[1].row.at = -90 * Day /\ Prices[2].row.at = -2 * Day
  BY PriceList DEF Price
<1>5. c - 90 * Day \in {b - 90 * Day, b - 2 * Day} /\ c - 2 * Day \in {b - 90 * Day, b - 2 * Day}
  BY <1>1, <1>2, <1>3, <1>4 DEF Day
<1> QED
  BY <1>1, <1>5 DEF Day

\* Then the views show the last version of every key, at its instant for base b.
LEMMA SettledView ==
    ASSUME L1Inv, NEW b, SettledAt(b), NEW d \in Datasets, d # "prices", Keyed(d)
    PROVE  /\ \A x \in View(d) : \E e : LastOf(d, e) /\ e.op # "d" /\ x = Entry(d, e, b)
           /\ \A e : LastOf(d, e) /\ e.op # "d" => Entry(d, e, b) \in View(d)
<1>1. b \in Bases /\ loaded # {} /\ tables[d] = Leaves(d, b)
  BY DEF SettledAt, L1Inv, FlowInv, TypeOK
<1>2. \A x \in View(d) : \E e \in Sent(d) : x = Entry(d, e, b)
  BY <1>1, LeavesOwn, BatchEntries DEF View
<1>3. \A e, f \in Sent(d) : \A c : Entry(d, e, b) = Entry(d, f, c) => e = f
  BY EntryIs, SentVersions
<1>4. /\ \A x \in View(d) : \E e \in Sent(d), c \in Bases :
             LastOf(d, e) /\ e.op # "d" /\ x = Entry(d, e, c)
      /\ \A e : LastOf(d, e) /\ e.op # "d" => \E c \in Bases : Entry(d, e, c) \in View(d)
  BY <1>1, RowsAreLast
<1>5. ASSUME NEW x \in View(d)
      PROVE  \E e : LastOf(d, e) /\ e.op # "d" /\ x = Entry(d, e, b)
  BY <1>2, <1>3, <1>4, <1>5
<1>6. ASSUME NEW e, LastOf(d, e), e.op # "d"
      PROVE  Entry(d, e, b) \in View(d)
  <2>1. PICK c \in Bases : Entry(d, e, c) \in View(d)
    BY <1>4, <1>6
  <2>2. PICK f \in Sent(d) : Entry(d, e, c) = Entry(d, f, b)
    BY <1>2, <2>1
  <2>3. e \in Sent(d)
    BY <1>6 DEF LastOf
  <2> QED
    BY <1>3, <2>1, <2>2, <2>3
<1> QED
  BY <1>5, <1>6

\* The rows of version v in a load with base b.
Paid(v, b) == Entry("order_payment", Payment(v), b).row
Sold(v, b) == Entry("order", Version(v), b).row

\* The base moves the instant of a row, and nothing else.
LEMMA PaidColumns ==
    ASSUME NEW v \in 1..22, NEW b
    PROVE  LET row == PaymentChanges[v].row
           IN  /\ Paid(v, b).id = row.id /\ Paid(v, b).order = row.order
               /\ Paid(v, b).method = row.method /\ Paid(v, b).installments = row.installments
               /\ Paid(v, b).status = row.status /\ Paid(v, b).acquirer = row.acquirer
               /\ Paid(v, b).auth = row.auth /\ Paid(v, b).at = row.at + b
<1>1. PaymentFields \subseteq DOMAIN Payment(v).row /\ Payment(v).row = PaymentChanges[v].row
  BY PaymentShapes DEF Payment
<1>2. HasKey(Payment(v).row)
  BY <1>1 DEF HasKey, PaymentFields
<1>3. \A f \in PaymentFields \ {"at"} : Paid(v, b)[f] = PaymentChanges[v].row[f]
  BY <1>1, EntryField DEF Paid
<1>4. Paid(v, b).at = PaymentChanges[v].row.at + b
  BY <1>1, <1>2, EntryAt DEF Paid
<1> QED
  BY <1>3, <1>4 DEF PaymentFields

LEMMA SoldColumns ==
    ASSUME NEW v \in 1..18, NEW b
    PROVE  LET row == OrderChanges[v].row
           IN  /\ Sold(v, b).id = row.id /\ Sold(v, b).bu = row.bu
               /\ Sold(v, b).channel = row.channel /\ Sold(v, b).at = row.at + b
<1>1. OrderFields \subseteq DOMAIN Version(v).row /\ Version(v).row = OrderChanges[v].row
  BY OrderShapes DEF Version
<1>2. HasKey(Version(v).row)
  BY <1>1 DEF HasKey, OrderFields
<1>3. \A f \in OrderFields \ {"at"} : Sold(v, b)[f] = OrderChanges[v].row[f]
  BY <1>1, EntryField DEF Sold
<1>4. Sold(v, b).at = OrderChanges[v].row.at + b
  BY <1>1, <1>2, EntryAt DEF Sold
<1> QED
  BY <1>3, <1>4 DEF OrderFields

\* The rows of the two views that the marts read.
LEMMA SettledPayments ==
    ASSUME L1Inv, NEW b, SettledAt(b)
    PROVE  Rows("order_payment") = {Paid(v, b) : v \in 3..22}
<1>1. \A v \in 1..22 : LastOf("order_payment", Payment(v)) /\ Payment(v).op # "d" <=> v \in 3..22
  BY LastPayments, PaymentShapes DEF Payment
<1>2. /\ \A x \in View("order_payment") :
             \E e : LastOf("order_payment", e) /\ e.op # "d" /\ x = Entry("order_payment", e, b)
      /\ \A e : LastOf("order_payment", e) /\ e.op # "d" =>
             Entry("order_payment", e, b) \in View("order_payment")
  BY PaymentsSent, SettledView
<1>3. \A e : LastOf("order_payment", e) => \E v \in 1..22 : e = Payment(v)
  BY PaymentsSent DEF LastOf
<1>4. \A x \in View("order_payment") : \E v \in 3..22 : x = Entry("order_payment", Payment(v), b)
  BY <1>1, <1>2, <1>3
<1>5. \A v \in 3..22 : Entry("order_payment", Payment(v), b) \in View("order_payment")
  BY <1>1, <1>2
<1> QED
  BY <1>4, <1>5 DEF Rows, Paid

LEMMA SettledOrders ==
    ASSUME L1Inv, NEW b, SettledAt(b)
    PROVE  Rows("order") = {Sold(v, b) : v \in Shown}
<1>1. \A v \in 1..18 : LastOf("order", Version(v)) /\ Version(v).op # "d" <=> v \in Shown
  <2>1. \A v \in 1..18 : Version(v).op = OrderChanges[v].op
    BY DEF Version
  <2> QED
    BY <2>1, OrderIds, LastOrders DEF Change, Shown
<1>2. /\ \A x \in View("order") : \E e : LastOf("order", e) /\ e.op # "d" /\ x = Entry("order", e, b)
      /\ \A e : LastOf("order", e) /\ e.op # "d" => Entry("order", e, b) \in View("order")
  BY OrderKeys, SettledView
<1>3. \A e : LastOf("order", e) => \E v \in 1..18 : e = Version(v)
  BY OrdersSent DEF LastOf
<1>4. \A x \in View("order") : \E v \in Shown : x = Entry("order", Version(v), b)
  BY <1>1, <1>2, <1>3
<1>5. \A v \in Shown : Entry("order", Version(v), b) \in View("order")
  BY <1>1, <1>2 DEF Shown
<1> QED
  BY <1>4, <1>5 DEF Rows, Sold

-----------------------------------------------------------------------------
(* Checks 10 to 12: the funnel's row of an acquirer *)

\* An instant that lies whole days and up to ten minutes before the base is on the day
\* that many days before, unless the ten minutes pass midnight.
LEMMA DaysBack ==
    ASSUME NEW b \in Nat, DayOf(b + 10) = DayOf(b), NEW days \in Nat, NEW minutes \in 0..10
    PROVE  DayOf(minutes - days * Day + b) = DayOf(b) - days
BY DEF DayOf, Day

LEMMA DayBack ==
    ASSUME NEW b \in Nat, NEW days \in Nat
    PROVE  DayOf(-days * Day + b) = DayOf(b) - days
BY DEF DayOf, Day

\* The row r of key k when ps are the attempts of the key, and all there is for one order.
RowOf(r, k, ps) ==
    /\ r.key = k /\ r.acquirer = k[3] /\ r.attempts = Cardinality(ps)
    /\ r.captured = Cardinality({p \in ps : p.status = "captured"})
    /\ r.orders = 1 /\ r.most = Max({Cardinality(ps)})
    /\ Cardinality(ps) > 1 => r.retried = 1
    /\ r.latencies = UNION {p.auth : p \in ps}

\* The funnel's row of a key whose attempts are all for one order.
LEMMA OneOrderRow ==
    ASSUME NEW k, NEW pays, NEW pairs, NEW ps, NEW o, ps # {},
           \A p : p \in ps <=> \E x \in pairs : FunnelKey(x[1], x[2]) = k /\ p = x[1],
           \A p \in ps : p.order = o, \A p : p \in ps <=> p \in pays /\ p.order = o
    PROVE  RowOf(FunnelRow(k, pays, pairs), k, ps)
<1> DEFINE tries(x) == Cardinality({p \in pays : p.order = x})
           own == {po[1] : po \in {x \in pairs : FunnelKey(x[1], x[2]) = k}}
           os(s) == {p.order : p \in s}
           row(s) == [key |-> k, acquirer |-> k[3], attempts |-> Cardinality(s),
                      captured |-> Cardinality({p \in s : p.status = "captured"}),
                      orders |-> Cardinality(os(s)), most |-> Max({tries(x) : x \in os(s)}),
                      retried |-> Cardinality({x \in os(s) : tries(x) > 1}),
                      latencies |-> UNION {p.auth : p \in s}]
<1>1. FunnelRow(k, pays, pairs) = row(own)
  BY DEF FunnelRow
<1>2. own = ps
  OBVIOUS
<1>3. os(ps) = {o}
  OBVIOUS
<1>4. {p \in pays : p.order = o} = ps
  OBVIOUS
<1>5. tries(o) = Cardinality(ps)
  BY <1>4
<1> HIDE DEF tries
<1>6. {tries(x) : x \in {o}} = {Cardinality(ps)}
  BY <1>5
<1>7. Cardinality(ps) > 1 => {x \in {o} : tries(x) > 1} = {o}
  BY <1>5
<1>8. Cardinality({o}) = 1
  BY FS_Singleton
<1> HIDE DEF os, own
<1>9. row(own) = row(ps)
  BY <1>2
<1>10. RowOf(row(ps), k, ps)
  BY <1>3, <1>6, <1>7, <1>8 DEF RowOf
<1> HIDE DEF row
<1> QED
  BY <1>1, <1>9, <1>10

\* The attempts G of one acquirer are for one order, and have one key.
Grouped(G, w, k, b) ==
    /\ G \subseteq 3..16 /\ G # {} /\ w \in Shown
    /\ \A v \in 3..22 : PaymentChanges[v].row.acquirer = k[3] <=> v \in G
    /\ \A v \in 3..22 : PaymentChanges[v].row.order = OrderChanges[w].row.id <=> v \in G
    /\ \A v \in 1..22, u \in 1..18 :
           PaymentChanges[v].row.acquirer = k[3] /\ PaymentChanges[v].row.order = OrderChanges[u].row.id =>
               FunnelKey(Paid(v, b), Sold(u, b)) = k

\* The window of three days holds the attempts that checks 10 to 12 are about.
LEMMA InWindow ==
    ASSUME L1Inv, NEW b, SettledAt(b), Window = 3
    PROVE  /\ \A v \in 3..16 : Paid(v, b) \in Within(Rows("order_payment"))
           /\ \A p \in Within(Rows("order_payment")) : \E v \in 3..22 : p = Paid(v, b)
<1>1. b \in Nat /\ today \in Nat /\ DayOf(b) = today /\ DayOf(b + 10) = today
  <2>1. loaded \subseteq Bases /\ today \in 0..MaxDay
    BY DEF L1Inv, FlowInv, TypeOK
  <2> QED
    BY <2>1, MockAssumption DEF MockAssumption, SettledAt
<1>2. \A v \in 3..16 : \E days \in 0..3, minutes \in 0..10 :
          PaymentChanges[v].row.at = minutes - days * Day
  BY TestPayments, LatencyPayments, RetryPayments DEF Pays
<1>3. ASSUME NEW v \in 3..16 PROVE DayOf(Paid(v, b).at) >= today - Window
  <2>1. PICK days \in 0..3, minutes \in 0..10 : PaymentChanges[v].row.at = minutes - days * Day
    BY <1>2
  <2>2. Paid(v, b).at = minutes - days * Day + b
    BY <2>1, PaidColumns
  <2>3. DayOf(Paid(v, b).at) = today - days
    BY <1>1, <2>2, DaysBack
  <2> QED
    BY <1>1, <2>3
<1> QED
  BY <1>3, SettledPayments DEF Within

\* The row that a refresh computes for such a group.
LEMMA GroupRow ==
    ASSUME L1Inv, NEW b, SettledAt(b), Window = 3, NEW G, NEW w, NEW k, Grouped(G, w, k, b)
    PROVE  \E r \in FunnelRows : RowOf(r, k, {Paid(v, b) : v \in G})
<1> DEFINE pays  == Within(Rows("order_payment"))
           pairs == Pairs
           ps    == {Paid(v, b) : v \in G}
           o     == OrderChanges[w].row.id
<1>1. \A v \in 3..22 : Paid(v, b).order = o <=> v \in G
  BY PaidColumns DEF Grouped
<1>2. G \subseteq 3..16 /\ G # {} /\ w \in Shown /\ w \in 1..18
  BY DEF Grouped, Shown
<1>3. ps # {} /\ \A p \in ps : p.order = o
  <2>1. \A v \in G : Paid(v, b).order = o /\ Paid(v, b) \in ps
    BY <1>1, <1>2
  <2> QED
    BY <1>2, <2>1
<1>4. \A p : p \in ps <=> p \in pays /\ p.order = o
  BY <1>1, <1>2, InWindow
<1>5. \A q \in Rows("order") : \E u \in Shown : q = Sold(u, b)
  BY SettledOrders
<1>6. Sold(w, b) \in Rows("order") /\ Sold(w, b).id = o
  BY <1>2, SettledOrders, SoldColumns
<1>7. \A x \in pairs : FunnelKey(x[1], x[2]) = k => x[1] \in ps
  <2> SUFFICES ASSUME NEW x \in pairs, FunnelKey(x[1], x[2]) = k PROVE x[1] \in ps
    OBVIOUS
  <2>1. PICK v \in 3..22 : x[1] = Paid(v, b)
    BY InWindow DEF Pairs
  <2>2. FunnelKey(x[1], x[2])[3] = x[1].acquirer
    BY DEF FunnelKey
  <2>3. PaymentChanges[v].row.acquirer = k[3]
    BY <2>1, <2>2, PaidColumns
  <2> QED
    BY <2>1, <2>3 DEF Grouped
<1>8. \A v \in G : <<Paid(v, b), Sold(w, b)>> \in pairs
  BY <1>1, <1>2, <1>6, InWindow DEF Pairs
<1>9. \A v \in G : FunnelKey(Paid(v, b), Sold(w, b)) = k
  <2> SUFFICES ASSUME NEW v \in G PROVE FunnelKey(Paid(v, b), Sold(w, b)) = k
    OBVIOUS
  <2>1. v \in 3..22 /\ v \in 1..22
    BY <1>2
  <2>2. PaymentChanges[v].row.acquirer = k[3] /\ PaymentChanges[v].row.order = o
    BY <2>1 DEF Grouped
  <2> QED
    BY <1>2, <2>1, <2>2 DEF Grouped
<1> HIDE DEF pays, pairs
<1>10. \A p : p \in ps <=> \E x \in pairs : FunnelKey(x[1], x[2]) = k /\ p = x[1]
  <2> SUFFICES ASSUME NEW v \in G
               PROVE  \E x \in pairs : FunnelKey(x[1], x[2]) = k /\ Paid(v, b) = x[1]
    BY <1>7
  <2> DEFINE po == <<Paid(v, b), Sold(w, b)>>
  <2>1. po \in pairs /\ po[1] = Paid(v, b) /\ po[2] = Sold(w, b)
    BY <1>8
  <2> HIDE DEF po
  <2> QED
    BY <1>9, <2>1
<1>11. k \in {FunnelKey(x[1], x[2]) : x \in pairs}
  <2>1. PICK v \in G : TRUE
    BY DEF Grouped
  <2> DEFINE po == <<Paid(v, b), Sold(w, b)>>
  <2>2. po \in pairs /\ po[1] = Paid(v, b) /\ po[2] = Sold(w, b)
    BY <1>8
  <2> HIDE DEF po
  <2> QED
    BY <1>9, <2>2
<1>12. FunnelRow(k, pays, pairs) \in FunnelRows
  <2>1. FunnelRows = {FunnelRow(j, pays, pairs) : j \in {FunnelKey(x[1], x[2]) : x \in pairs}}
    BY DEF FunnelRows, FunnelRowsOf, pays, pairs
  <2> QED
    BY <1>11, <2>1
<1> HIDE DEF ps, o
<1>13. RowOf(FunnelRow(k, pays, pairs), k, ps)
  BY <1>3, <1>4, <1>10, OneOrderRow
<1> QED
  BY <1>12, <1>13 DEF ps

\* The three checks, and what each looks at.
LEMMA ChecksOfFunnel ==
    /\ MartPasses(10) <=> \E r \in marts["funnel"] :
           {x \in marts["funnel"] : x.acquirer = "ACQ-TEST"} = {r} /\ r.attempts = 1 /\ r.captured = 1
    /\ MartPasses(11) <=> \E r \in marts["funnel"] :
           {x \in marts["funnel"] : x.acquirer = "ACQ-LAT-TEST"} = {r} /\ r.attempts = 10 /\ r.latencies = {10}
    /\ MartPasses(12) <=> \E r \in marts["funnel"] :
           /\ {x \in marts["funnel"] : x.acquirer = "ACQ-RETRY-TEST"} = {r}
           /\ <<r.attempts, r.orders, r.captured, r.most, r.retried>> = <<3, 1, 1, 3, 1>>
    /\ MartPasses(13) <=> Cardinality(marts["revenue"]) = 4 /\ marts["revenue"] = RevenueRows
BY DEF MartPasses, Prints

\* Attempts are told apart by their ids, so that counting rows counts attempts.
LEMMA PaidApart ==
    ASSUME NEW G \in SUBSET (3..22), NEW b
    PROVE  IsFiniteSet(G) /\ Cardinality({Paid(v, b) : v \in G}) = Cardinality(G)
<1> DEFINE ps == {Paid(v, b) : v \in G}
           f == [v \in G |-> Paid(v, b)]
<1>1. \A v, w \in G : Paid(v, b) = Paid(w, b) => v = w
  <2> SUFFICES ASSUME NEW v \in G, NEW w \in G, Paid(v, b) = Paid(w, b) PROVE v = w
    OBVIOUS
  <2>1. v \in 1..22 /\ w \in 1..22 /\ v \notin 1..2 /\ w \notin 1..2
    OBVIOUS
  <2>2. PaymentChanges[v].row.id = PaymentChanges[w].row.id
    <3>1. Paid(v, b).id = PaymentChanges[v].row.id /\ Paid(w, b).id = PaymentChanges[w].row.id
      BY <2>1, PaidColumns
    <3> QED
      BY <3>1
  <2>3. ~ (v < w)
    BY <2>1, <2>2, PaymentIds
  <2>4. ~ (w < v)
    BY <2>1, <2>2, PaymentIds
  <2> QED
    BY <2>1, <2>3, <2>4
<1>2. f \in Bijection(G, ps)
  BY <1>1 DEF Bijection, Injection, IsInjective, Surjection
<1>3. IsFiniteSet(G)
  <2>1. G \in SUBSET Nat /\ \A v \in G : v <= 22
    OBVIOUS
  <2> QED
    BY <2>1, FS_BoundedSetOfNaturals
<1> HIDE DEF f, ps
<1>4. Cardinality(ps) = Cardinality(G)
  BY <1>2, <1>3, FS_Bijection DEF ExistsBijection
<1> QED
  BY <1>3, <1>4 DEF ps

LEMMA MaxOfOne == \A n \in Nat : Max({n}) = n
BY DEF Max

-----------------------------------------------------------------------------
(* Where the rows of the marts come from *)

\* The base of a load whose prices are in L1; its day has come, or it was started early.
Known(b) ==
    /\ b \in Bases /\ (b \in early \/ DayOf(b) <= today)
    /\ Covers(tables["prices"], Batch("prices", b))

\* A row of the funnel has the key of an attempt and its order, and names its acquirer.
FunnelOf(x, b) ==
    /\ x.acquirer = x.key[3]
    /\ \E v \in 1..22, w \in 1..18 :
           /\ PaymentChanges[v].row.order = OrderChanges[w].row.id
           /\ x.key = FunnelKey(Paid(v, b), Sold(w, b))

\* A row of the revenue has the key of an order, which was in the window on the day of
\* the base or later, unless the load was started early.
RevenueOf(x, b) ==
    \E v \in 1..18 : /\ x.key = RevenueKey(Sold(v, b))
                     /\ b \in early \/ DayOf(Sold(v, b).at) >= DayOf(b) - Window

\* Row x of mart m counts payments or orders of a load with base b.
Counts(m, x, b) == IF m = "funnel" THEN FunnelOf(x, b) ELSE RevenueOf(x, b)

\* The rows of a mart and those that its refresh has read, whole or in part.
Carried(m) == marts[m] \cup refresh[m].rows \cup UNION refresh[m].parts

\* Each has such an origin.
MartRows == \A m \in Marts : \A x \in Carried(m) : \E b : Known(b) /\ Counts(m, x, b)

\* When everything in L1 is of one load, that load is the origin of every row.
LEMMA SettledBase ==
    ASSUME L1Inv, MartRows, NEW b, SettledAt(b), NEW m \in Marts, NEW x \in marts[m]
    PROVE  Counts(m, x, b)
<1>1. PICK c : Known(c) /\ Counts(m, x, c)
  BY DEF MartRows, Carried
<1>2. b \in Bases /\ tables["prices"] = Leaves("prices", b)
  BY PriceSent DEF SettledAt, L1Inv, FlowInv, TypeOK
<1>3. c = b
  BY <1>1, <1>2, OneBase DEF Known
<1> QED
  BY <1>1, <1>3

\* The sorting key of the funnel, for an attempt and its order.
LEMMA PaidKey ==
    ASSUME NEW v \in 1..22, NEW w \in 1..18, NEW b
    PROVE  FunnelKey(Paid(v, b), Sold(w, b)) =
               <<DayOf(PaymentChanges[v].row.at + b), PaymentChanges[v].row.method,
                 PaymentChanges[v].row.acquirer, Bucket(PaymentChanges[v].row.installments),
                 OrderChanges[w].row.bu>>
BY PaidColumns, SoldColumns DEF FunnelKey

\* The attempts H of acquirer a are all there is for order o, on one day and of one kind.
OneKind(H, w, a, o, days, method, parts) ==
    /\ H \subseteq 1..16 /\ H \cap 3..16 # {} /\ w \in Shown /\ days \in Nat
    /\ \A v \in 1..22 : PaymentChanges[v].row.acquirer = a <=> v \in H
    /\ \A v \in 1..22 : PaymentChanges[v].row.order = o <=> v \in H
    /\ \A u \in 1..18 : OrderChanges[u].row.id = o <=> u = w
    /\ \A v \in H : \E minutes \in 0..10 : PaymentChanges[v].row.at = minutes - days * Day
    /\ \A v \in H : PaymentChanges[v].row.method = method /\ PaymentChanges[v].row.installments = parts

\* The attempts of such an acquirer make one group.
LEMMA AcquirerGroup ==
    ASSUME NEW b \in Nat, DayOf(b + 10) = DayOf(b),
           NEW H, NEW w, NEW a, NEW o, NEW days, NEW method, NEW parts,
           OneKind(H, w, a, o, days, method, parts)
    PROVE  Grouped(H \cap 3..16, w,
                   <<DayOf(b) - days, method, a, Bucket(parts), OrderChanges[w].row.bu>>, b)
<1> DEFINE k == <<DayOf(b) - days, method, a, Bucket(parts), OrderChanges[w].row.bu>>
           G == H \cap 3..16
<1>1. w \in Shown /\ w \in 1..18 /\ days \in Nat /\ H \subseteq 1..16
  BY DEF OneKind, Shown
<1>2. ASSUME NEW v \in H PROVE FunnelKey(Paid(v, b), Sold(w, b)) = k
  <2>1. DayOf(PaymentChanges[v].row.at + b) = DayOf(b) - days
    <3>1. PICK minutes \in 0..10 : PaymentChanges[v].row.at = minutes - days * Day
      BY <1>2 DEF OneKind
    <3>2. DayOf(minutes - days * Day + b) = DayOf(b) - days
      BY <1>1, DaysBack
    <3> QED
      BY <3>1, <3>2
  <2>2. /\ PaymentChanges[v].row.method = method /\ PaymentChanges[v].row.acquirer = a
        /\ PaymentChanges[v].row.installments = parts /\ v \in 1..22
    BY <1>1, <1>2 DEF OneKind
  <2>3. FunnelKey(Paid(v, b), Sold(w, b)) =
               <<DayOf(PaymentChanges[v].row.at + b), PaymentChanges[v].row.method,
                 PaymentChanges[v].row.acquirer, Bucket(PaymentChanges[v].row.installments),
                 OrderChanges[w].row.bu>>
    BY <1>1, <2>2, PaidKey
  <2> QED
    BY <2>1, <2>2, <2>3
<1>3. k[3] = a
  OBVIOUS
<1> HIDE DEF k
<1>4. G \subseteq 3..16 /\ G # {} /\ \A v \in 3..22 : v \in H <=> v \in G
  BY <1>1 DEF OneKind
<1>5. \A v \in 3..22 : PaymentChanges[v].row.acquirer = k[3] <=> v \in G
  BY <1>3, <1>4 DEF OneKind
<1>6. \A v \in 3..22 : PaymentChanges[v].row.order = OrderChanges[w].row.id <=> v \in G
  <2>1. OrderChanges[w].row.id = o
    BY <1>1 DEF OneKind
  <2> QED
    BY <1>4, <2>1 DEF OneKind
<1>7. \A v \in 1..22, u \in 1..18 :
         PaymentChanges[v].row.acquirer = k[3] /\ PaymentChanges[v].row.order = OrderChanges[u].row.id =>
             FunnelKey(Paid(v, b), Sold(u, b)) = k
  <2> SUFFICES ASSUME NEW v \in 1..22, NEW u \in 1..18, PaymentChanges[v].row.acquirer = k[3],
                      PaymentChanges[v].row.order = OrderChanges[u].row.id
               PROVE  FunnelKey(Paid(v, b), Sold(u, b)) = k
    OBVIOUS
  <2>1. v \in H
    BY <1>3 DEF OneKind
  <2>2. u = w
    BY <2>1 DEF OneKind
  <2> QED
    BY <1>2, <2>1, <2>2
<1> HIDE DEF G
<1>8. Grouped(G, w, k, b)
  BY <1>1, <1>4, <1>5, <1>6, <1>7 DEF Grouped
<1> QED
  BY <1>8 DEF G, k

\* Which attempts are of the three acquirers of the checks,
LEMMA Acquirers ==
    \A v \in 1..22 :
        /\ PaymentChanges[v].row.acquirer = "ACQ-TEST" <=> v \in 1..3
        /\ PaymentChanges[v].row.order = "ORD-000123" <=> v \in 1..3
        /\ PaymentChanges[v].row.acquirer = "ACQ-LAT-TEST" <=> v \in 4..13
        /\ PaymentChanges[v].row.order = "ORD-000124" <=> v \in 4..13
        /\ PaymentChanges[v].row.acquirer = "ACQ-RETRY-TEST" <=> v \in 14..16
        /\ PaymentChanges[v].row.order = "ORD-000125" <=> v \in 14..16
BY TestPayments, LatencyPayments, RetryPayments, StandardPayments DEF Pays, Standard

\* and which orders they are for.
LEMMA PaidOrders ==
    /\ \A u \in 1..18 : /\ OrderChanges[u].row.id = "ORD-000123" <=> u = 1
                        /\ OrderChanges[u].row.id = "ORD-000124" <=> u = 2
                        /\ OrderChanges[u].row.id = "ORD-000125" <=> u = 3
    /\ OrderChanges[1].row.bu = "BU-01" /\ OrderChanges[2].row.bu = "BU-01"
    /\ OrderChanges[3].row.bu = "BU-02"
BY OrderIds, Sales DEF Change, Sale

\* The three groups.
LEMMA AcquirerGroups ==
    ASSUME NEW b \in Nat, DayOf(b + 10) = DayOf(b)
    PROVE  /\ Grouped({3}, 1, <<DayOf(b) - 1, "credit_card", "ACQ-TEST", Bucket(3), "BU-01">>, b)
           /\ Grouped(4..13, 2, <<DayOf(b) - 1, "pix", "ACQ-LAT-TEST", Bucket(1), "BU-01">>, b)
           /\ Grouped(14..16, 3, <<DayOf(b) - 3, "credit_card", "ACQ-RETRY-TEST", Bucket(1), "BU-02">>, b)
<1>1. Grouped({3}, 1, <<DayOf(b) - 1, "credit_card", "ACQ-TEST", Bucket(3), "BU-01">>, b)
  <2>1. \A v \in 1..3 : /\ PaymentChanges[v].row.at = 0 - 1 * Day
                        /\ PaymentChanges[v].row.method = "credit_card"
                        /\ PaymentChanges[v].row.installments = 3
    BY TestPayments DEF Pays
  <2>2. (1..3) \cap 3..16 = {3} /\ 1..3 \subseteq 1..16 /\ 1 \in Shown
    BY DEF Shown
  <2>3. OneKind(1..3, 1, "ACQ-TEST", "ORD-000123", 1, "credit_card", 3)
    BY <2>1, <2>2, Acquirers, PaidOrders DEF OneKind
  <2>4. Grouped((1..3) \cap 3..16, 1,
                <<DayOf(b) - 1, "credit_card", "ACQ-TEST", Bucket(3), OrderChanges[1].row.bu>>, b)
    BY <2>3, AcquirerGroup
  <2> QED
    BY <2>2, <2>4, PaidOrders
<1>2. Grouped(4..13, 2, <<DayOf(b) - 1, "pix", "ACQ-LAT-TEST", Bucket(1), "BU-01">>, b)
  <2>1. \A v \in 4..13 : /\ PaymentChanges[v].row.at = (v - 3) - 1 * Day /\ v - 3 \in 0..10
                         /\ PaymentChanges[v].row.method = "pix"
                         /\ PaymentChanges[v].row.installments = 1
    BY LatencyPayments DEF Pays
  <2>2. (4..13) \cap 3..16 = 4..13 /\ 4..13 \subseteq 1..16 /\ 2 \in Shown
    BY DEF Shown
  <2>3. OneKind(4..13, 2, "ACQ-LAT-TEST", "ORD-000124", 1, "pix", 1)
    BY <2>1, <2>2, Acquirers, PaidOrders DEF OneKind
  <2>4. Grouped((4..13) \cap 3..16, 2,
                <<DayOf(b) - 1, "pix", "ACQ-LAT-TEST", Bucket(1), OrderChanges[2].row.bu>>, b)
    BY <2>3, AcquirerGroup
  <2> QED
    BY <2>2, <2>4, PaidOrders
<1>3. Grouped(14..16, 3, <<DayOf(b) - 3, "credit_card", "ACQ-RETRY-TEST", Bucket(1), "BU-02">>, b)
  <2>1. \A v \in 14..16 : /\ PaymentChanges[v].row.at = 2 * (v - 14) - 3 * Day /\ 2 * (v - 14) \in 0..10
                          /\ PaymentChanges[v].row.method = "credit_card"
                          /\ PaymentChanges[v].row.installments = 1
    BY RetryPayments DEF Pays
  <2>2. (14..16) \cap 3..16 = 14..16 /\ 14..16 \subseteq 1..16 /\ 3 \in Shown
    BY DEF Shown
  <2>3. OneKind(14..16, 3, "ACQ-RETRY-TEST", "ORD-000125", 3, "credit_card", 1)
    BY <2>1, <2>2, Acquirers, PaidOrders DEF OneKind
  <2>4. Grouped((14..16) \cap 3..16, 3,
                <<DayOf(b) - 3, "credit_card", "ACQ-RETRY-TEST", Bucket(1), OrderChanges[3].row.bu>>, b)
    BY <2>3, AcquirerGroup
  <2> QED
    BY <2>2, <2>4, PaidOrders
<1> QED
  BY <1>1, <1>2, <1>3

\* In the mart, one row of an acquirer: the row of its key.
LEMMA OneRow ==
    ASSUME L1Inv, MartRows, NEW b, SettledAt(b), Window = 3, FunnelRows \subseteq marts["funnel"],
           NEW G, NEW w, NEW k, Grouped(G, w, k, b)
    PROVE  \E r \in marts["funnel"] :
               {x \in marts["funnel"] : x.acquirer = k[3]} = {r} /\ RowOf(r, k, {Paid(v, b) : v \in G})
<1>1. PICK r \in FunnelRows : RowOf(r, k, {Paid(v, b) : v \in G})
  BY GroupRow
<1>2. r \in marts["funnel"] /\ r.key = k /\ r.acquirer = k[3]
  BY <1>1 DEF RowOf
<1>3. ASSUME NEW x \in marts["funnel"], x.acquirer = k[3] PROVE x = r
  <2>1. FunnelOf(x, b)
    <3>1. Counts("funnel", x, b)
      BY SettledBase DEF Marts
    <3> QED
      BY <3>1 DEF Counts
  <2>2. PICK v \in 1..22, u \in 1..18 : /\ PaymentChanges[v].row.order = OrderChanges[u].row.id
                                        /\ x.key = FunnelKey(Paid(v, b), Sold(u, b))
    BY <2>1 DEF FunnelOf
  <2>3. PaymentChanges[v].row.acquirer = k[3]
    <3>1. x.key[3] = PaymentChanges[v].row.acquirer
      <4>1. FunnelKey(Paid(v, b), Sold(u, b))[3] = Paid(v, b).acquirer
        BY DEF FunnelKey
      <4>2. Paid(v, b).acquirer = PaymentChanges[v].row.acquirer
        BY PaidColumns
      <4> QED
        BY <2>2, <4>1, <4>2
    <3> QED
      BY <1>3, <2>1, <3>1 DEF FunnelOf
  <2>4. x.key = k
    BY <2>2, <2>3 DEF Grouped
  <2>5. OnePerKey(marts["funnel"])
    BY DEF L1Inv, FlowInv, TypeOK, Marts
  <2> QED
    BY <1>2, <2>4, <2>5 DEF OnePerKey
<1>4. {x \in marts["funnel"] : x.acquirer = k[3]} = {r}
  BY <1>2, <1>3
<1> QED
  BY <1>1, <1>2, <1>4

LEMMA Span ==
    ASSUME NEW lo \in Int, NEW hi \in Int, lo <= hi
    PROVE  Cardinality(lo..hi) = hi - lo + 1
BY FS_Interval

\* How many attempts each of them has.
LEMMA Attempts ==
    ASSUME NEW b
    PROVE  /\ Cardinality({Paid(v, b) : v \in 4..13}) = 10
           /\ Cardinality({Paid(v, b) : v \in 14..16}) = 3
<1>1. (4..13) \in SUBSET (3..22) /\ (14..16) \in SUBSET (3..22)
  OBVIOUS
<1>2. Cardinality({Paid(v, b) : v \in 4..13}) = Cardinality(4..13)
  <2> DEFINE G == 4..13
  <2>1. G \in SUBSET (3..22)
    BY <1>1
  <2> HIDE DEF G
  <2>2. Cardinality({Paid(v, b) : v \in G}) = Cardinality(G)
    BY <2>1, PaidApart
  <2> QED
    BY <2>2 DEF G
<1>3. Cardinality({Paid(v, b) : v \in 14..16}) = Cardinality(14..16)
  <2> DEFINE G == 14..16
  <2>1. G \in SUBSET (3..22)
    BY <1>1
  <2> HIDE DEF G
  <2>2. Cardinality({Paid(v, b) : v \in G}) = Cardinality(G)
    BY <2>1, PaidApart
  <2> QED
    BY <2>2 DEF G
<1>4. Cardinality(4..13) = 10
  <2> DEFINE lo == 4
             hi == 13
  <2>1. lo \in Int /\ hi \in Int /\ lo <= hi /\ hi - lo + 1 = 10
    OBVIOUS
  <2> HIDE DEF lo, hi
  <2>2. Cardinality(lo..hi) = 10
    BY <2>1, Span
  <2> QED
    BY <2>2 DEF lo, hi
<1>5. Cardinality(14..16) = 3
  <2> DEFINE lo == 14
             hi == 16
  <2>1. lo \in Int /\ hi \in Int /\ lo <= hi /\ hi - lo + 1 = 3
    OBVIOUS
  <2> HIDE DEF lo, hi
  <2>2. Cardinality(lo..hi) = 3
    BY <2>1, Span
  <2> QED
    BY <2>2 DEF lo, hi
<1> QED
  BY <1>2, <1>3, <1>4, <1>5

\* Once the mart has the rows of the query, checks 10 to 12 pass: rows of earlier loads
\* would have another base, so none is in the way.
LEMMA FunnelChecks ==
    ASSUME L1Inv, MartRows, NEW b, SettledAt(b), Window = 3, FunnelRows \subseteq marts["funnel"]
    PROVE  MartPasses(10) /\ MartPasses(11) /\ MartPasses(12)
<1> DEFINE ps(G) == {Paid(v, b) : v \in G}
           captured(G) == {p \in ps(G) : p.status = "captured"}
<1>1. b \in Nat /\ DayOf(b + 10) = DayOf(b)
  <2>1. loaded \subseteq Bases
    BY DEF L1Inv, FlowInv, TypeOK
  <2> QED
    BY <2>1, MockAssumption DEF MockAssumption, SettledAt
<1>2. \A v \in 1..22 : /\ Paid(v, b).status = PaymentChanges[v].row.status
                       /\ Paid(v, b).auth = PaymentChanges[v].row.auth
  BY PaidColumns
<1>3. Cardinality({Paid(3, b)}) = 1 /\ Cardinality({Paid(16, b)}) = 1
  BY FS_Singleton
<1>4. MartPasses(10)
  <2> DEFINE k == <<DayOf(b) - 1, "credit_card", "ACQ-TEST", Bucket(3), "BU-01">>
  <2>1. Grouped({3}, 1, k, b) /\ k[3] = "ACQ-TEST"
    BY <1>1, AcquirerGroups
  <2> HIDE DEF k
  <2>2. PICK r \in marts["funnel"] :
            {x \in marts["funnel"] : x.acquirer = k[3]} = {r} /\ RowOf(r, k, ps({3}))
    BY <2>1, OneRow
  <2>3. ps({3}) = {Paid(3, b)}
    OBVIOUS
  <2>4. captured({3}) = {Paid(3, b)}
    BY <1>2, Statuses
  <2> HIDE DEF captured
  <2>5. r.attempts = 1 /\ r.captured = 1
    <3>1. r.attempts = Cardinality(ps({3})) /\ r.captured = Cardinality(captured({3}))
      BY <2>2 DEF RowOf, captured
    <3> QED
      BY <1>3, <2>3, <2>4, <3>1
  <2> QED
    BY <2>1, <2>2, <2>5, ChecksOfFunnel
<1>5. MartPasses(11)
  <2> DEFINE k == <<DayOf(b) - 1, "pix", "ACQ-LAT-TEST", Bucket(1), "BU-01">>
  <2>1. Grouped(4..13, 2, k, b) /\ k[3] = "ACQ-LAT-TEST"
    BY <1>1, AcquirerGroups
  <2> HIDE DEF k
  <2>2. PICK r \in marts["funnel"] :
            {x \in marts["funnel"] : x.acquirer = k[3]} = {r} /\ RowOf(r, k, ps(4..13))
    BY <2>1, OneRow
  <2>3. Cardinality(ps(4..13)) = 10
    BY Attempts
  <2>4. UNION {p.auth : p \in ps(4..13)} = {10}
    <3>1. \A v \in 4..13 : Paid(v, b).auth = IF v = 13 THEN {} ELSE {10}
      <4> SUFFICES ASSUME NEW v \in 4..13 PROVE Paid(v, b).auth = IF v = 13 THEN {} ELSE {10}
        OBVIOUS
      <4>1. PaymentChanges[v].row.auth = IF v = 13 THEN {} ELSE {10}
        BY LatencyPayments DEF Pays
      <4>2. Paid(v, b).auth = PaymentChanges[v].row.auth
        BY <1>2
      <4> QED
        BY <4>1, <4>2
    <3>2. \A p \in ps(4..13) : p.auth \subseteq {10}
      BY <3>1
    <3>3. Paid(4, b) \in ps(4..13) /\ Paid(4, b).auth = {10}
      BY <3>1
    <3> HIDE DEF ps
    <3>4. 10 \in UNION {p.auth : p \in ps(4..13)}
      BY <3>3
    <3>5. \A t \in UNION {p.auth : p \in ps(4..13)} : t = 10
      BY <3>2
    <3> QED
      BY <3>4, <3>5
  <2>5. r.attempts = 10 /\ r.latencies = {10}
    BY <2>2, <2>3, <2>4 DEF RowOf
  <2> QED
    BY <2>1, <2>2, <2>5, ChecksOfFunnel
<1>6. MartPasses(12)
  <2> DEFINE k == <<DayOf(b) - 3, "credit_card", "ACQ-RETRY-TEST", Bucket(1), "BU-02">>
  <2>1. Grouped(14..16, 3, k, b) /\ k[3] = "ACQ-RETRY-TEST"
    BY <1>1, AcquirerGroups
  <2> HIDE DEF k
  <2>2. PICK r \in marts["funnel"] :
            {x \in marts["funnel"] : x.acquirer = k[3]} = {r} /\ RowOf(r, k, ps(14..16))
    BY <2>1, OneRow
  <2>3. Cardinality(ps(14..16)) = 3
    BY Attempts
  <2>4. captured(14..16) = {Paid(16, b)}
    <3>1. \A v \in 14..16 : Paid(v, b).status = "captured" <=> v = 16
      BY <1>2, Statuses
    <3> QED
      BY <3>1
  <2>5. Max({3}) = 3
    BY MaxOfOne
  <2>6. r.captured = 1
    <3>1. r.captured = Cardinality({p \in ps(14..16) : p.status = "captured"})
      BY <2>2 DEF RowOf
    <3> QED
      BY <1>3, <2>4, <3>1
  <2> HIDE DEF ps
  <2>7. r.attempts = 3 /\ r.orders = 1 /\ r.most = 3 /\ r.retried = 1
    <3> DEFINE n == Cardinality(ps(14..16))
    <3>1. r.attempts = n /\ r.orders = 1 /\ r.most = Max({n}) /\ (n > 1 => r.retried = 1)
      BY <2>2 DEF RowOf
    <3>2. n = 3
      BY <2>3
    <3> HIDE DEF n
    <3> QED
      BY <2>5, <3>1, <3>2
  <2> QED
    BY <2>1, <2>2, <2>6, <2>7, ChecksOfFunnel
<1> QED
  BY <1>4, <1>5, <1>6

-----------------------------------------------------------------------------
(* Check 13: the four groups of the revenue *)

\* Four different things are four.
LEMMA FourAre ==
    ASSUME NEW a, NEW b, NEW c, NEW d, a # b, a # c, a # d, b # c, b # d, c # d
    PROVE  Cardinality({a, b, c, d}) = 4
<1>1. IsFiniteSet({a}) /\ Cardinality({a}) = 1
  BY FS_Singleton
<1>2. IsFiniteSet({a} \cup {b}) /\ Cardinality({a} \cup {b}) = 2
  BY <1>1, FS_AddElement
<1>3. IsFiniteSet({a, b}) /\ Cardinality({a, b}) = 2
  <2>1. {a} \cup {b} = {a, b}
    OBVIOUS
  <2> QED
    BY <1>2, <2>1
<1>4. IsFiniteSet({a, b} \cup {c}) /\ Cardinality({a, b} \cup {c}) = 3
  BY <1>3, FS_AddElement
<1>5. IsFiniteSet({a, b, c}) /\ Cardinality({a, b, c}) = 3
  <2>1. {a, b} \cup {c} = {a, b, c}
    OBVIOUS
  <2> QED
    BY <1>4, <2>1
<1>6. Cardinality({a, b, c} \cup {d}) = 4
  BY <1>5, FS_AddElement
<1> QED
  <2>1. {a, b, c} \cup {d} = {a, b, c, d}
    OBVIOUS
  <2> QED
    BY <1>6, <2>1

\* The versions of orders sold in the last three days.
Recent == {3, 4, 5, 6, 7, 13, 14, 16, 17, 18}

\* Their group.
GroupOf(v, b) ==
    CASE v = 3 -> <<"BU-02", DayOf(b) - 3, "web">>
      [] v = 4 -> <<"BU-02", DayOf(b) - 2, "store">>
      [] v = 5 -> <<"BU-TEST", DayOf(b) - 1, "web">>
      [] OTHER -> <<"BU-01", DayOf(b) - 1, "web">>

\* The orders inside the window, and the group of each.
LEMMA SoldKeys ==
    ASSUME NEW b \in Nat
    PROVE  /\ \A v \in 1..18 : DayOf(Sold(v, b).at) >= DayOf(b) - 3 <=> v \in Recent
           /\ \A v \in Recent : RevenueKey(Sold(v, b)) = GroupOf(v, b)
<1> DEFINE days(v) == CASE v = 1 -> 10 [] v = 2 -> 5 [] v = 3 -> 3 [] v = 4 -> 2
                        [] v \in 8..9 -> 6 [] v \in 10..12 -> 7 [] v = 15 -> 4 [] OTHER -> 1
<1>1. \A v \in 1..18 : OrderChanges[v].row.at = -days(v) * Day
  BY Sales DEF Sale
<1>2. \A v \in 1..18 : days(v) \in Nat /\ (days(v) <= 3 <=> v \in Recent)
  BY DEF Recent
<1>3. \A v \in Recent : days(v) = IF v = 3 THEN 3 ELSE IF v = 4 THEN 2 ELSE 1
  BY DEF Recent
<1> HIDE DEF days
<1>4. \A v \in 1..18 : DayOf(Sold(v, b).at) = DayOf(b) - days(v)
  <2> SUFFICES ASSUME NEW v \in 1..18 PROVE DayOf(Sold(v, b).at) = DayOf(b) - days(v)
    OBVIOUS
  <2>1. Sold(v, b).at = -days(v) * Day + b
    BY <1>1, SoldColumns
  <2> QED
    BY <1>2, <2>1, DayBack
<1>5. DayOf(b) \in Int
  BY DEF DayOf, Day
<1>6. \A v \in 1..18 : DayOf(Sold(v, b).at) >= DayOf(b) - 3 <=> v \in Recent
  BY <1>2, <1>4, <1>5
<1>7. \A v \in Recent : RevenueKey(Sold(v, b)) = GroupOf(v, b)
  <2>1. \A v \in 1..18 : Sold(v, b).bu = OrderChanges[v].row.bu /\ Sold(v, b).channel = OrderChanges[v].row.channel
    BY SoldColumns
  <2>2. \A v \in Recent : v \in 1..18
    BY DEF Recent
  <2>3. \A v \in Recent :
            RevenueKey(Sold(v, b)) = <<OrderChanges[v].row.bu, DayOf(b) - days(v), OrderChanges[v].row.channel>>
    BY <1>4, <2>1, <2>2 DEF RevenueKey
  <2>4. /\ OrderChanges[3].row.bu = "BU-02" /\ OrderChanges[3].row.channel = "web"
        /\ OrderChanges[4].row.bu = "BU-02" /\ OrderChanges[4].row.channel = "store"
        /\ OrderChanges[5].row.bu = "BU-TEST" /\ OrderChanges[5].row.channel = "web"
        /\ \A v \in Recent \ {3, 4, 5} : OrderChanges[v].row.bu = "BU-01" /\ OrderChanges[v].row.channel = "web"
    BY Sales DEF Sale, Recent
  <2> QED
    BY <1>3, <2>3, <2>4 DEF GroupOf
<1> QED
  BY <1>6, <1>7

\* Once the mart has the rows of the query it has those only, and they are four.
LEMMA RevenueCheck ==
    ASSUME L1Inv, MartRows, NEW b, SettledAt(b), Window = 3, RevenueRows \subseteq marts["revenue"]
    PROVE  MartPasses(13)
<1> DEFINE sold == Within(Rows("order"))
           row(k) == RevenueRow(k, sold)
<1>1. b \in Nat /\ DayOf(b) = today
  <2>1. loaded \subseteq Bases
    BY DEF L1Inv, FlowInv, TypeOK
  <2> QED
    BY <2>1, MockAssumption DEF MockAssumption, SettledAt
<1>2. /\ \A o \in sold : \E v \in Recent : o = Sold(v, b)
      /\ \A v \in Recent \ {6} : Sold(v, b) \in sold
  <2>1. \A v \in 1..18 : DayOf(Sold(v, b).at) >= today - Window <=> v \in Recent
    BY <1>1, SoldKeys
  <2>2. \A v \in Recent \ {6} : v \in Shown
    BY DEF Recent, Shown
  <2>3. \A v \in Shown : v \in 1..18
    BY DEF Shown
  <2> QED
    BY <2>1, <2>2, <2>3, SettledOrders DEF Within
<1> HIDE DEF sold
<1> DEFINE keys == {RevenueKey(o) : o \in sold}
           k1 == <<"BU-02", DayOf(b) - 3, "web">>
           k2 == <<"BU-02", DayOf(b) - 2, "store">>
           k3 == <<"BU-TEST", DayOf(b) - 1, "web">>
           k4 == <<"BU-01", DayOf(b) - 1, "web">>
<1>3. \A v \in Recent : RevenueKey(Sold(v, b)) = GroupOf(v, b)
  BY <1>1, SoldKeys
<1>4. /\ GroupOf(3, b) = k1 /\ GroupOf(4, b) = k2 /\ GroupOf(5, b) = k3 /\ GroupOf(7, b) = k4
      /\ \A v \in Recent : GroupOf(v, b) \in {k1, k2, k3, k4}
  BY DEF GroupOf, Recent
<1>5. k1 # k2 /\ k1 # k3 /\ k1 # k4 /\ k2 # k3 /\ k2 # k4 /\ k3 # k4
  OBVIOUS
<1> HIDE DEF k1, k2, k3, k4
<1>6. keys = {k1, k2, k3, k4}
  <2>1. \A k \in keys : k \in {k1, k2, k3, k4}
    BY <1>2, <1>3, <1>4
  <2>2. \A v \in {3, 4, 5, 7} : GroupOf(v, b) \in keys
    BY <1>2, <1>3 DEF Recent
  <2> HIDE DEF keys
  <2> QED
    BY <1>4, <2>1, <2>2
<1>7. RevenueRows = {row(k) : k \in keys}
  BY DEF RevenueRows, RevenueRowsOf, sold
<1>8. \A k : row(k).key = k
  BY DEF RevenueRow
<1> HIDE DEF keys, row
<1>9. RevenueRows = {row(k1), row(k2), row(k3), row(k4)}
  BY <1>6, <1>7
<1>10. Cardinality(RevenueRows) = 4
  <2>1. /\ row(k1) # row(k2) /\ row(k1) # row(k3) /\ row(k1) # row(k4)
        /\ row(k2) # row(k3) /\ row(k2) # row(k4) /\ row(k3) # row(k4)
    BY <1>5, <1>8
  <2>2. Cardinality({row(k1), row(k2), row(k3), row(k4)}) = 4
    BY <2>1, FourAre
  <2> QED
    BY <1>9, <2>2
\* Nothing else is left of an earlier refresh.
<1>11. ASSUME NEW x \in marts["revenue"] PROVE x \in RevenueRows
  <2>1. RevenueOf(x, b)
    <3>1. Counts("revenue", x, b)
      BY SettledBase DEF Marts
    <3> QED
      BY <3>1 DEF Counts
  <2>2. PICK v \in 1..18 : x.key = RevenueKey(Sold(v, b)) /\ DayOf(Sold(v, b).at) >= DayOf(b) - 3
    BY <2>1 DEF RevenueOf, SettledAt
  <2>3. v \in Recent
    BY <1>1, <2>2, SoldKeys
  <2>4. x.key \in keys
    BY <1>3, <1>4, <1>6, <2>2, <2>3
  <2>5. row(x.key) \in RevenueRows /\ row(x.key).key = x.key
    BY <1>7, <1>8, <2>4
  <2>6. OnePerKey(marts["revenue"])
    BY DEF L1Inv, FlowInv, TypeOK, Marts
  <2>7. row(x.key) = x
    BY <2>5, <2>6 DEF OnePerKey
  <2> QED
    BY <2>5, <2>7
<1>12. marts["revenue"] = RevenueRows
  BY <1>11
<1> QED
  BY <1>10, <1>12, ChecksOfFunnel

-----------------------------------------------------------------------------
(* The second inductive invariant: where rows come from, and how fresh the marts are *)

\* A load runs before the day of its base only if it was started early.
DatedLoad == load.file > 0 => load.base \in early \/ DayOf(load.base) <= today

\* Orders and payments are sent after the prices of their load.
PricedRows ==
    \A d \in {"order", "order_payment"} : \A x \in tables[d] : \E b : Known(b) /\ x \in Batch(d, b)

\* Everything in L1 is of the load with base b.
Left(b) == b \in loaded /\ DayOf(b) <= today /\ \A d \in Datasets : tables[d] = Leaves(d, b)

\* The copy of the dictionary that refreshes read is that of the registry.
CopyIsNew == dicts["business_unit"] = {Source("business_unit")}

\* Nothing is loaded while verify.sh runs.
Stages ==
    verify.at \in {"looked", "polling", "polled"} =>
        /\ load.file = 0 /\ verify.failed \cap MartNumbers = {}
        /\ verify.ready => CopyIsNew /\ \E b : Left(b)

\* Mart m has, or will have after the refresh that was asked for, what its query gives now:
\* a refresh in progress has got one name for every business unit.
Fresh(m) ==
    \/ refresh[m].asked
    \/ IF refresh[m].on
       THEN refresh[m].rows = Query(m) /\ refresh[m].seen = {Source("business_unit")}
       ELSE Query(m) \subseteq marts[m]

\* From the requests on, verify.sh finds the marts whose request was taken fresh or about
\* to be.
Reads ==
    verify.at \in {"polling", "polled"} /\ verify.ready /\ (\E b : SettledAt(b)) =>
        \A m \in verify.asked : Fresh(m)

\* The inductive invariant.
MatrixInv == L1Inv /\ DatedLoad /\ PricedRows /\ MartRows /\ Stages /\ Reads /\ WaitedMatrix

\* The days and the bases are numbers.
LEMMA Days ==
    ASSUME FlowInv
    PROVE  today \in Nat /\ loaded \subseteq Bases /\ \A b \in Bases : b \in Nat /\ DayOf(b) \in Int
<1>1. today \in 0..MaxDay /\ loaded \subseteq Bases
  BY DEF FlowInv, TypeOK
<1>2. \A b \in Nat : DayOf(b) \in Int
  BY DEF DayOf, Day
<1> QED
  BY <1>1, <1>2, MockAssumption DEF MockAssumption

\* A base that is known stays so.
LEMMA KnownStays ==
    ASSUME FlowInv, UNCHANGED tables, today' \in {today, today + 1}, early \subseteq early',
           NEW b, Known(b)
    PROVE  Known(b)'
BY Days DEF Known

\* What is early stays early.
LEMMA CountsStays ==
    ASSUME early \subseteq early', NEW m, NEW x, NEW b, Counts(m, x, b)
    PROVE  Counts(m, x, b)'
BY DEF Counts, FunnelOf, RevenueOf

\* An INSERT covers what was covered.
LEMMA KnownAfterInsert ==
    ASSUME L1Inv, load.file > 0, UNCHANGED <<today, early>>,
           NEW rows, rows \subseteq Batch(Files[load.file], load.base), Insert(rows),
           NEW b, Known(b)
    PROVE  Known(b)'
<1>1. Covers(tables'["prices"], Batch("prices", b))
  BY PriceSent, StaysCovered DEF L1Inv, Known
<1> QED
  BY <1>1 DEF Known

\* While nothing is inserted, rows keep their origin.
LEMMA RowsStay ==
    ASSUME MatrixInv, UNCHANGED tables, today' \in {today, today + 1}, early \subseteq early',
           \A m \in Marts : Carried(m)' \subseteq Carried(m)
    PROVE  PricedRows' /\ MartRows'
<1>1. \A b : Known(b) => Known(b)'
  BY KnownStays DEF MatrixInv, L1Inv
<1>2. PricedRows'
  BY <1>1 DEF MatrixInv, PricedRows
<1>3. MartRows'
  <2> SUFFICES ASSUME NEW m \in Marts, NEW x \in Carried(m)'
               PROVE  \E b : Known(b)' /\ Counts(m, x, b)'
    BY DEF MartRows
  <2>1. x \in Carried(m)
    OBVIOUS
  <2>2. PICK b : Known(b) /\ Counts(m, x, b)
    BY <2>1 DEF MatrixInv, MartRows
  <2> QED
    BY <1>1, <2>2, CountsStays
<1> QED
  BY <1>2, <1>3

\* In particular when the marts are left alone.
LEMMA RowsLeft ==
    ASSUME MatrixInv, UNCHANGED <<tables, marts>>, today' \in {today, today + 1},
           early \subseteq early',
           \A m \in Marts : refresh'[m].rows = refresh[m].rows /\ refresh'[m].parts = refresh[m].parts
    PROVE  PricedRows' /\ MartRows'
<1>1. \A m \in Marts : Carried(m)' \subseteq Carried(m)
  BY DEF Carried
<1> QED
  BY <1>1, RowsStay

\* The file of the prices has landed when the orders and the payments do, so the rows
\* that an INSERT brings are of a known base.
LEMMA InsertKeepsRows ==
    ASSUME MatrixInv, load.file > 0, UNCHANGED <<today, marts, refresh, early>>,
           NEW rows, rows \subseteq Batch(Files[load.file], load.base), Insert(rows)
    PROVE  PricedRows' /\ MartRows'
<1>1. \A b : Known(b) => Known(b)'
  BY KnownAfterInsert DEF MatrixInv
<1>2. MartRows'
  BY <1>1, CountsStays DEF MatrixInv, MartRows, Carried
<1>3. load.base \in Bases /\ load.file \in 1..8
  BY FileFacts DEF MatrixInv, L1Inv
<1>4. \A d \in Datasets : \A x \in tables'[d] :
          x \in tables[d] \/ (x \in rows /\ d = Files[load.file] /\ objects >= Statement[d])
  BY InsertCovers DEF MatrixInv, L1Inv
<1>5. ASSUME NEW d \in {"order", "order_payment"}, NEW x \in tables'[d]
      PROVE  \E b : Known(b)' /\ x \in Batch(d, b)
  <2>1. d \in Datasets
    BY OrderKeys, PaymentsSent
  <2>2. CASE x \in tables[d]
    BY <1>1, <1>5, <2>2 DEF MatrixInv, PricedRows
  <2>3. CASE x \in rows /\ d = Files[load.file] /\ objects >= Statement[d]
    <3>1. load.file \in 7..8 /\ Statement[d] \in 7..9
      BY <1>3, <1>5, <2>3 DEF Files, Statement
    <3>2. 3 \in 1..(load.file - 1) /\ Files[3] = "prices" /\ objects >= Statement[Files[3]]
      BY <2>3, <3>1, FileList DEF MatrixInv, L1Inv, FlowInv, TypeOK, LastStatement
    <3>3. Covers(tables["prices"], Batch("prices", load.base))
      BY <3>2 DEF MatrixInv, L1Inv, UnderWay
    <3>4. Known(load.base)
      BY <1>3, <3>3 DEF Known, MatrixInv, DatedLoad
    <3> QED
      BY <1>1, <2>3, <3>4
  <2> QED
    BY <1>4, <1>5, <2>1, <2>2, <2>3
<1> QED
  BY <1>2, <1>5 DEF PricedRows

-----------------------------------------------------------------------------
(* The steps *)

\* Orders have an instant.
LEMMA OrderInstants == \A v \in 1..18 : OrderChanges[v].row.at \in Int
BY Sales DEF Sale, Day

\* Every row of the current view of the payments or the orders is of a known load.
LEMMA RowsKnown ==
    ASSUME PricedRows
    PROVE  /\ \A p \in Rows("order_payment") : \E b, v : Known(b) /\ v \in 1..22 /\ p = Paid(v, b)
           /\ \A o \in Rows("order") : \E b, v : Known(b) /\ v \in 1..18 /\ o = Sold(v, b)
<1>1. ASSUME NEW p \in Rows("order_payment")
      PROVE  \E b, v : Known(b) /\ v \in 1..22 /\ p = Paid(v, b)
  <2>1. PICK x \in tables["order_payment"] : p = x.row
    BY <1>1 DEF Rows, View
  <2>2. PICK b : Known(b) /\ x \in Batch("order_payment", b)
    BY DEF PricedRows
  <2>3. PICK v \in 1..22 : x = Entry("order_payment", Payment(v), b)
    BY <2>2, BatchEntries, PaymentsSent
  <2> QED
    BY <2>1, <2>2, <2>3 DEF Paid
<1>2. ASSUME NEW o \in Rows("order")
      PROVE  \E b, v : Known(b) /\ v \in 1..18 /\ o = Sold(v, b)
  <2>1. PICK x \in tables["order"] : o = x.row
    BY <1>2 DEF Rows, View
  <2>2. PICK b : Known(b) /\ x \in Batch("order", b)
    BY DEF PricedRows
  <2>3. PICK v \in 1..18 : x = Entry("order", Version(v), b)
    BY <2>2, BatchEntries, OrdersSent
  <2> QED
    BY <2>1, <2>2, <2>3 DEF Sold
<1> QED
  BY <1>1, <1>2

\* A row of the funnel, of all the payments or of some, counts payments of a known load.
LEMMA FunnelCounts ==
    ASSUME PricedRows, NEW pays, NEW pairs \in SUBSET Pairs, NEW x \in FunnelRowsOf(pays, pairs)
    PROVE  \E b : Known(b) /\ FunnelOf(x, b)
<1>1. PICK po \in pairs : x = FunnelRow(FunnelKey(po[1], po[2]), pays, pairs)
  BY DEF FunnelRowsOf
<1>2. po[1] \in Rows("order_payment") /\ po[2] \in Rows("order") /\ po[1].order = po[2].id
  BY DEF Pairs, Within
<1>3. PICK b, v : Known(b) /\ v \in 1..22 /\ po[1] = Paid(v, b)
  BY <1>2, RowsKnown
<1>4. PICK c, w : Known(c) /\ w \in 1..18 /\ po[2] = Sold(w, c)
  BY <1>2, RowsKnown
<1>5. /\ w \in 1..18 /\ Sold(w, b).bu = OrderChanges[w].row.bu
      /\ Sold(w, c).bu = OrderChanges[w].row.bu /\ Sold(w, c).id = OrderChanges[w].row.id
  BY <1>4, SoldColumns
<1>6. v \in 1..22 /\ Paid(v, b).order = PaymentChanges[v].row.order
  BY <1>3, PaidColumns
<1>7. PaymentChanges[v].row.order = OrderChanges[w].row.id
  BY <1>2, <1>3, <1>4, <1>5, <1>6
<1>8. FunnelKey(po[1], po[2]) = FunnelKey(Paid(v, b), Sold(w, b))
  BY <1>3, <1>4, <1>5 DEF FunnelKey
<1>9. x.key = FunnelKey(po[1], po[2]) /\ x.acquirer = x.key[3]
  BY <1>1 DEF FunnelRow
<1>10. FunnelOf(x, b)
  BY <1>5, <1>6, <1>7, <1>8, <1>9 DEF FunnelOf
<1> QED
  BY <1>3, <1>10

\* A row of the revenue counts orders of a known load, inside the window.
LEMMA RevenueCounts ==
    ASSUME L1Inv, PricedRows, NEW sold \in SUBSET Within(Rows("order")),
           NEW x \in RevenueRowsOf(sold)
    PROVE  \E b : Known(b) /\ RevenueOf(x, b)
<1>1. PICK o \in sold : x = RevenueRow(RevenueKey(o), sold)
  BY DEF RevenueRowsOf
<1>2. o \in Rows("order") /\ DayOf(o.at) >= today - Window
  BY DEF Within
<1>3. PICK b, v : Known(b) /\ v \in 1..18 /\ o = Sold(v, b)
  BY <1>2, RowsKnown
<1>4. x.key = RevenueKey(o)
  BY <1>1 DEF RevenueRow
<1>5. (b \in early \/ DayOf(b) <= today) /\ b \in Bases
  BY <1>3 DEF Known
<1>6. today \in Nat /\ DayOf(b) \in Int /\ b \in Nat /\ Window \in Nat
  BY <1>5, Days, MockAssumption DEF L1Inv, MockAssumption
<1>7. DayOf(Sold(v, b).at) \in Int
  <2>1. Sold(v, b).at = OrderChanges[v].row.at + b
    BY <1>3, SoldColumns
  <2>2. OrderChanges[v].row.at \in Int
    BY <1>3, OrderInstants
  <2> QED
    BY <1>6, <2>1, <2>2 DEF DayOf, Day
<1>8. b \in early \/ DayOf(Sold(v, b).at) >= DayOf(b) - Window
  BY <1>2, <1>3, <1>5, <1>6, <1>7
<1> QED
  BY <1>3, <1>4, <1>8 DEF RevenueOf

\* So does every row that a refresh reads, whatever part of a group it is.
LEMMA QueryCounts ==
    ASSUME L1Inv, PricedRows, NEW m \in Marts, NEW x,
           x \in Query(m) \/ \E cut : x \in Part(m, cut)
    PROVE  \E b : Known(b) /\ Counts(m, x, b)
<1>1. CASE m = "funnel"
  <2>1. x \in FunnelRows \/ \E cut : x \in FunnelPart(cut)
    BY <1>1 DEF Query, Part
  <2>2. \A cut : \E pairs \in SUBSET Pairs :
           FunnelPart(cut) = FunnelRowsOf(Within(Rows("order_payment")), pairs)
    BY DEF FunnelPart
  <2>3. PICK pairs \in SUBSET Pairs : x \in FunnelRowsOf(Within(Rows("order_payment")), pairs)
    BY <2>1, <2>2 DEF FunnelRows
  <2> QED
    BY <1>1, <2>3, FunnelCounts DEF Counts
<1>2. CASE m # "funnel"
  <2>1. PICK sold \in SUBSET Within(Rows("order")) : x \in RevenueRowsOf(sold)
    BY <1>2 DEF Query, Part, RevenueRows, RevenuePart
  <2> QED
    BY <1>2, <2>1, RevenueCounts DEF Counts
<1> QED
  BY <1>1, <1>2

\* What a query gives depends on the tables and the day.
LEMMA QueryStays ==
    ASSUME UNCHANGED <<tables, today>>, NEW m \in Marts
    PROVE  Query(m)' = Query(m)
<1>1. RevenueRows' = RevenueRows
  BY DEF RevenueRows, Rows, View, Within
<1>2. FunnelRows' = FunnelRows
  BY DEF FunnelRows, Pairs, Rows, View, Within
<1> QED
  BY <1>1, <1>2 DEF Query

\* And what the registry says on the tables alone.
LEMMA SourceStays ==
    ASSUME UNCHANGED tables
    PROVE  Source("business_unit")' = Source("business_unit")
BY DEF Source, Rows, View

\* A query that loads dictionaries leaves a copy that is new.
LEMMA CopyStays ==
    ASSUME L1Inv, NEW ds, dicts["business_unit"] = {} => "business_unit" \in ds,
           dicts["business_unit"] \subseteq {Source("business_unit")}
    PROVE  Loaded(ds)["business_unit"] = {Source("business_unit")}
<1>1. Loaded(ds)["business_unit"] =
        IF "business_unit" \in ds THEN {Seen("business_unit")} ELSE dicts["business_unit"]
  BY DEF Loaded, Dicts
<1>2. Seen("business_unit") = Source("business_unit")
  <2>1. CASE dicts["business_unit"] = {}
    BY <2>1 DEF Seen
  <2>2. CASE dicts["business_unit"] = {Source("business_unit")}
    BY <2>2 DEF Seen
  <2> QED
    BY <2>1, <2>2
<1> QED
  BY <1>1, <1>2

\* One copy does not rename anything: the view keeps the whole refresh.
LEMMA KeptWhole ==
    ASSUME NEW m, NEW whole, NEW part, NEW copies, \A c, d \in copies : c = d
    PROVE  Kept(m, whole, part, copies) = whole
<1>1. Renamed(copies) = {}
  BY DEF Renamed
<1> QED
  BY <1>1 DEF Kept

\* So does the load that everything is of.
LEMMA SettledStays ==
    ASSUME UNCHANGED <<tables, today, loaded, early>>
    PROVE  \A b : SettledAt(b)' <=> SettledAt(b)
BY DEF SettledAt

\* Midnight does not make a load another one.
LEMMA LeftStays ==
    ASSUME FlowInv, UNCHANGED <<tables, loaded>>, today' \in {today, today + 1}, NEW b, Left(b)
    PROVE  Left(b)'
<1>1. b \in Bases
  BY DEF Left, FlowInv, TypeOK
<1>2. DayOf(b) <= today'
  BY <1>1, Days DEF Left
<1> QED
  BY <1>2 DEF Left

\* Initially nothing is there, and nothing runs.
LEMMA InitMatrix == Init => MatrixInv
<1> SUFFICES ASSUME Init PROVE MatrixInv
  OBVIOUS
<1>1. L1Inv
  BY InitL1
<1>2. DatedLoad /\ Stages /\ Reads /\ WaitedMatrix
  BY DEF Init, NoLoad, NoVerify, DatedLoad, Stages, Reads, WaitedMatrix
<1>3. PricedRows
  BY OrderKeys, PaymentsSent DEF Init, PricedRows
<1>4. MartRows
  BY DEF Init, MartRows, Carried, Waiting
<1> QED
  BY <1>1, <1>2, <1>3, <1>4 DEF MatrixInv

\* Fresh marts stay so while neither L1 nor the marts nor their refreshes change.
LEMMA FreshStays ==
    ASSUME MatrixInv, UNCHANGED <<tables, marts, refresh, today, loaded, early>>,
           verify.at \in {"polling", "polled"}, verify'.asked = verify.asked,
           verify'.ready = verify.ready
    PROVE  Reads'
<1> SUFFICES ASSUME verify.ready, NEW b, SettledAt(b)', NEW m \in verify.asked PROVE Fresh(m)'
  BY DEF Reads
<1>1. m \in Marts
  BY DEF MatrixInv, L1Inv, FlowInv, TypeOK
<1>2. Fresh(m)
  BY SettledStays DEF MatrixInv, Reads
<1> QED
  BY <1>1, <1>2, QueryStays, SourceStays DEF Fresh

\* A step outside verify.sh.
LEMMA QuietStep ==
    ASSUME MatrixInv, L1Inv', DatedLoad', PricedRows', MartRows',
           verify' \in {verify, NoVerify}, verify.at \notin {"looked", "polling", "polled"}
    PROVE  MatrixInv'
BY DEF MatrixInv, Stages, Reads, WaitedMatrix, NoVerify

\* Applying the DDL and starting a load: verify.sh does not run.
LEMMA CallsKeepMatrix ==
    ASSUME MatrixInv, L1Inv', ApplyDdl \/ StartLoad
    PROVE  MatrixInv'
<1>1. /\ UNCHANGED <<tables, marts, refresh, today>> /\ verify' = NoVerify
      /\ verify.at \notin {"looked", "polling", "polled"} /\ early \subseteq early'
  BY DEF ApplyDdl, StartLoad, Free
<1>2. PricedRows' /\ MartRows'
  BY <1>1, RowsLeft
<1>3. DatedLoad'
  <2>1. CASE ApplyDdl
    BY <2>1 DEF ApplyDdl, MatrixInv, DatedLoad
  <2>2. CASE StartLoad
    <3>1. PICK b \in Bases : /\ load' = [file |-> 1, base |-> b]
                             /\ early' = IF DayOf(b) > today THEN early \cup {b} ELSE early
      BY <2>2 DEF StartLoad
    <3>2. today \in Nat /\ DayOf(b) \in Int /\ load'.base = b
      BY <3>1, Days DEF MatrixInv, L1Inv
    <3> QED
      BY <1>1, <3>1, <3>2 DEF DatedLoad
  <2> QED
    BY <2>1, <2>2
<1> QED
  BY <1>1, <1>2, <1>3, QuietStep

\* Nor does it run while files are loaded.
LEMMA LoadsKeepMatrix ==
    ASSUME MatrixInv, L1Inv', LoadFile \/ AbortLoad
    PROVE  MatrixInv'
<1>1. load.file > 0 /\ UNCHANGED <<marts, refresh, today, early, verify>>
  BY DEF LoadFile, AbortLoad
<1>2. verify.at \notin {"looked", "polling", "polled"}
  BY <1>1 DEF MatrixInv, Stages
<1>3. load.file \in 1..8 /\ load.base \in Bases /\ Files[load.file] \in Datasets
  BY <1>1, FileFacts DEF MatrixInv, L1Inv
<1>4. File = Batch(Files[load.file], load.base)
  BY <1>3, FileList, Zenon DEF File, Contents
<1>5. PICK rows : rows \subseteq File /\ Insert(rows)
  <2>1. CASE LoadFile
    BY <2>1 DEF LoadFile
  <2>2. CASE AbortLoad
    <3>1. PICK months : Insert({x \in File : MonthOf(x.row.at) \in months})
      BY <2>2 DEF AbortLoad
    <3> QED
      BY <3>1
  <2> QED
    BY <2>1, <2>2
<1>6. PricedRows' /\ MartRows'
  BY <1>1, <1>4, <1>5, InsertKeepsRows
<1>7. DatedLoad'
  <2>1. load' = NoLoad \/ load' = [load EXCEPT !.file = @ + 1]
    BY DEF LoadFile, AbortLoad
  <2>2. load'.base = load.base \/ load'.file = 0
    BY <2>1 DEF NoLoad, MatrixInv, L1Inv, FlowInv, TypeOK
  <2> QED
    BY <1>1, <2>2 DEF MatrixInv, DatedLoad
<1> QED
  BY <1>1, <1>2, <1>6, <1>7, QuietStep

\* Checks 1 to 8 fail or not, 10 to 13 are still to come.
LEMMA LookKeepsMatrix ==
    ASSUME MatrixInv, L1Inv', Look
    PROVE  MatrixInv'
<1>1. /\ verify' = [NoVerify EXCEPT !.at = "looked", !.ready = Settled /\ Current,
                                  !.failed = {n \in CoreNumbers : ~ CorePasses(n)}]
      /\ load.file = 0 /\ dicts' = Loaded(Dicts)
      /\ UNCHANGED <<objects, tables, marts, refresh, today, load, loaded, early>>
  BY DEF Look, Free
<1>2. /\ verify'.at = "looked" /\ verify'.ready = (Settled /\ Current)
      /\ verify'.failed \subseteq CoreNumbers
  BY <1>1 DEF NoVerify
<1>3. PricedRows' /\ MartRows'
  BY <1>1, RowsLeft
<1>4. DatedLoad' /\ Reads' /\ WaitedMatrix'
  BY <1>1, <1>2 DEF MatrixInv, DatedLoad, Reads, WaitedMatrix
<1>5. Stages'
  <2>1. CoreNumbers \cap MartNumbers = {}
    BY DEF CoreNumbers, MartNumbers
  <2>2. ASSUME Settled PROVE \E b : Left(b)'
    <3>1. PICK b : SettledAt(b)
      BY <2>2, SettledSomewhere DEF MatrixInv
    <3>2. today \in Nat
      BY Days DEF MatrixInv, L1Inv
    <3>3. Left(b)
      BY <3>1, <3>2 DEF SettledAt, Left
    <3> QED
      BY <1>1, <3>3, LeftStays DEF MatrixInv, L1Inv
  <2>3. ASSUME Current PROVE CopyIsNew'
    <3>1. dicts'["business_unit"] = {Source("business_unit")}
      BY <1>1, <2>3, CopyStays DEF MatrixInv, Current, Dicts
    <3> QED
      BY <1>1, <3>1, SourceStays DEF CopyIsNew
  <2> QED
    BY <1>1, <1>2, <2>1, <2>2, <2>3 DEF Stages
<1> QED
  BY <1>3, <1>4, <1>5 DEF MatrixInv

\* The requests that are taken make their marts fresh, once the refreshes have run.
LEMMA AskKeepsMatrix ==
    ASSUME MatrixInv, L1Inv', AskRefresh
    PROVE  MatrixInv'
<1>1. /\ verify.at = "looked"
      /\ UNCHANGED <<objects, tables, dicts, marts, today, load, loaded, early, calls>>
  BY DEF AskRefresh
<1>2. PICK ms \in SUBSET Marts :
        /\ refresh' = [m \in Marts |-> [refresh[m] EXCEPT !.asked = @ \/ m \in ms]]
        /\ verify' = [verify EXCEPT !.at = "polling", !.asked = ms]
  BY DEF AskRefresh
<1>3. /\ verify'.at = "polling" /\ verify'.failed = verify.failed
      /\ verify'.ready = verify.ready /\ verify'.asked = ms
  BY <1>2 DEF MatrixInv, L1Inv, FlowInv, Shapes
<1>4. /\ \A m \in Marts : refresh'[m].rows = refresh[m].rows /\ refresh'[m].parts = refresh[m].parts
      /\ \A m \in ms : refresh'[m].asked
  BY <1>2 DEF MatrixInv, L1Inv, FlowInv, Shapes
<1>5. PricedRows' /\ MartRows'
  BY <1>1, <1>4, RowsLeft
<1>6. DatedLoad' /\ WaitedMatrix'
  BY <1>1, <1>3 DEF MatrixInv, DatedLoad, WaitedMatrix
<1>7. Reads'
  BY <1>3, <1>4 DEF Reads, Fresh
<1>8. Stages'
  BY <1>1, <1>3, LeftStays, SourceStays DEF MatrixInv, L1Inv, Stages, CopyIsNew
<1> QED
  BY <1>5, <1>6, <1>7, <1>8 DEF MatrixInv

\* Polling changes nothing.
LEMMA PollKeepsMatrix ==
    ASSUME MatrixInv, L1Inv', Poll
    PROVE  MatrixInv'
<1>1. /\ verify.at = "polling"
      /\ UNCHANGED <<objects, tables, dicts, marts, refresh, today, load, loaded, early, calls>>
  BY DEF Poll
<1>2. /\ verify'.at \in {"polling", "polled"} /\ verify'.asked = verify.asked
      /\ verify'.failed = verify.failed /\ verify'.ready = verify.ready
  BY DEF Poll, MatrixInv, L1Inv, FlowInv, Shapes
<1>3. PricedRows' /\ MartRows'
  BY <1>1, RowsLeft
<1>4. DatedLoad' /\ WaitedMatrix'
  BY <1>1, <1>2 DEF MatrixInv, DatedLoad, WaitedMatrix
<1>5. Reads'
  BY <1>1, <1>2, FreshStays DEF MatrixInv
<1>6. Stages'
  BY <1>1, <1>2, LeftStays, SourceStays DEF MatrixInv, L1Inv, Stages, CopyIsNew
<1> QED
  BY <1>3, <1>4, <1>5, <1>6 DEF MatrixInv

\* Checks 10 to 13 after the two refreshes have ended.
LEMMA ReadPasses ==
    ASSUME MatrixInv, Window = 3, verify.at = "polled", verify.ready, verify.asked = Marts, Settled,
           \A m \in Marts : ~ refresh[m].asked /\ ~ refresh[m].on
    PROVE  \A n \in MartNumbers : MartPasses(n)
<1>1. PICK b : SettledAt(b)
  BY SettledSomewhere DEF MatrixInv
<1>2. \A m \in Marts : Query(m) \subseteq marts[m]
  BY <1>1 DEF MatrixInv, Reads, Fresh
<1>3. FunnelRows \subseteq marts["funnel"] /\ RevenueRows \subseteq marts["revenue"]
  BY <1>2 DEF Marts, Query
<1>4. MartPasses(10) /\ MartPasses(11) /\ MartPasses(12)
  BY <1>1, <1>3, FunnelChecks DEF MatrixInv
<1>5. MartPasses(13)
  BY <1>1, <1>3, RevenueCheck DEF MatrixInv
<1>6. MartNumbers = {10, 11, 12, 13}
  BY DEF MartNumbers
<1> QED
  BY <1>4, <1>5, <1>6

\* The end of verify.sh.
LEMMA ReadKeepsMatrix ==
    ASSUME MatrixInv, L1Inv', Read, Window = 3
    PROVE  MatrixInv'
<1>1. /\ verify.at = "polled"
      /\ UNCHANGED <<objects, tables, dicts, marts, refresh, today, load, loaded, early, calls>>
  BY DEF Read
<1>2. /\ verify'.at = "done"
      /\ verify'.failed = verify.failed \cup {n \in MartNumbers : ~ MartPasses(n)}
      /\ verify'.ready = (verify.ready /\ Settled)
      /\ verify'.waited = (/\ verify.asked = Marts
                           /\ \A m \in Marts : ~ refresh[m].asked /\ ~ refresh[m].on)
  BY DEF Read, MatrixInv, L1Inv, FlowInv, Shapes
<1>3. PricedRows' /\ MartRows'
  BY <1>1, RowsLeft
<1>4. DatedLoad' /\ Reads' /\ Stages'
  BY <1>1, <1>2 DEF MatrixInv, DatedLoad, Reads, Stages
<1>5. WaitedMatrix'
  <2> SUFFICES ASSUME verify'.ready, verify'.waited
               PROVE  verify'.failed \cap MartNumbers = {}
    BY DEF WaitedMatrix
  <2>1. \A n \in MartNumbers : MartPasses(n)
    BY <1>1, <1>2, ReadPasses
  <2>2. verify.failed \cap MartNumbers = {}
    BY <1>1 DEF MatrixInv, Stages
  <2> QED
    BY <1>2, <2>1, <2>2
<1> QED
  BY <1>3, <1>4, <1>5 DEF MatrixInv

\* The window moves on, and what was settled is so no longer.
LEMMA MidnightKeepsMatrix ==
    ASSUME MatrixInv, L1Inv', NextDay
    PROVE  MatrixInv'
<1>1. /\ today' = today + 1
      /\ UNCHANGED <<objects, tables, dicts, marts, refresh, load, loaded, early, verify, calls>>
  BY DEF NextDay
<1>2. PricedRows' /\ MartRows'
  BY <1>1, RowsLeft
<1>3. today \in Nat /\ loaded \subseteq Bases /\ \A b \in Bases : DayOf(b) \in Int
  BY Days DEF MatrixInv, L1Inv
<1>4. DatedLoad'
  <2>1. load.file > 0 => load.base \in Bases
    BY DEF MatrixInv, L1Inv, FlowInv, LoadBase
  <2> QED
    BY <1>1, <1>3, <2>1 DEF MatrixInv, DatedLoad
<1>5. Stages' /\ WaitedMatrix'
  BY <1>1, LeftStays, SourceStays DEF MatrixInv, L1Inv, Stages, CopyIsNew, WaitedMatrix
\* What is settled today is not settled tomorrow, and nothing else can be.
<1>6. Reads'
  <2> SUFFICES ASSUME verify.at \in {"polling", "polled"}, verify.ready, NEW c, SettledAt(c)'
               PROVE  FALSE
    BY <1>1 DEF Reads
  <2>1. PICK b : Left(b)
    BY DEF MatrixInv, Stages
  <2>2. c \in loaded /\ DayOf(c) = today + 1
    BY <1>1 DEF SettledAt
  <2>3. "prices" \in Datasets
    BY PriceSent
  <2>4. Covers(tables["prices"], Batch("prices", c))
    BY <2>2, <2>3 DEF MatrixInv, L1Inv, Landed
  <2>5. b \in Bases /\ c \in Bases /\ tables["prices"] = Leaves("prices", b) /\ DayOf(b) <= today
    BY <1>3, <2>1, <2>2, <2>3 DEF Left
  <2>6. c = b
    BY <2>4, <2>5, OneBase
  <2> QED
    BY <1>3, <2>2, <2>5, <2>6
<1> QED
  BY <1>2, <1>4, <1>5, <1>6 DEF MatrixInv

\* A refresh starts: from now on it holds what the query gives.
LEMMA StartKeepsMatrix ==
    ASSUME MatrixInv, L1Inv', NEW m \in Marts, StartRefresh(m)
    PROVE  MatrixInv'
<1> DEFINE parts == {Part(m, cut) : cut \in Cuts}
<1>1. /\ refresh' = [refresh EXCEPT ![m] = [asked |-> FALSE, on |-> TRUE, rows |-> Query(m),
                                            parts |-> parts, seen |-> dicts'["business_unit"]]]
      /\ dicts' = Loaded({"business_unit"})
      /\ UNCHANGED <<objects, tables, marts, today, load, loaded, early, verify, calls>>
  BY DEF StartRefresh
<1>2. \A x : x \in UNION parts => \E cut : x \in Part(m, cut)
  OBVIOUS
<1> HIDE DEF parts
<1>3. /\ refresh'[m].on = TRUE /\ refresh'[m].asked = FALSE /\ refresh'[m].rows = Query(m)
      /\ refresh'[m].parts = parts /\ refresh'[m].seen = dicts'["business_unit"]
      /\ \A n \in Marts \ {m} : refresh'[n] = refresh[n]
  BY <1>1 DEF MatrixInv, L1Inv, FlowInv, Shapes
<1>4. \A b : Known(b) => Known(b)'
  BY <1>1, KnownStays DEF MatrixInv, L1Inv
<1>5. PricedRows' /\ DatedLoad' /\ WaitedMatrix'
  BY <1>1, <1>4 DEF MatrixInv, PricedRows, DatedLoad, WaitedMatrix
<1>6. MartRows'
  <2> SUFFICES ASSUME NEW n \in Marts, NEW x \in Carried(n)'
               PROVE  \E b : Known(b)' /\ Counts(n, x, b)'
    BY DEF MartRows
  <2>1. PICK b : Known(b) /\ Counts(n, x, b)
    <3>1. CASE x \in Carried(n)
      BY <3>1 DEF MatrixInv, MartRows
    <3>2. CASE x \notin Carried(n)
      <4>1. n = m /\ (x \in Query(n) \/ x \in UNION parts)
        BY <1>1, <1>3, <3>2 DEF Carried
      <4>2. x \in Query(n) \/ \E cut : x \in Part(n, cut)
        BY <1>2, <4>1
      <4> QED
        BY <4>2, QueryCounts DEF MatrixInv
    <3> QED
      BY <3>1, <3>2
  <2> QED
    BY <1>1, <1>4, <2>1, CountsStays
<1>7. CopyIsNew => CopyIsNew'
  <2> SUFFICES ASSUME CopyIsNew PROVE CopyIsNew'
    OBVIOUS
  <2>1. dicts'["business_unit"] = {Source("business_unit")}
    BY <1>1, CopyStays DEF MatrixInv, CopyIsNew
  <2> QED
    BY <1>1, <2>1, SourceStays DEF CopyIsNew
<1>8. Reads'
  <2> SUFFICES ASSUME verify.at \in {"polling", "polled"}, verify.ready, NEW b, SettledAt(b)',
                      NEW n \in verify.asked
               PROVE  Fresh(n)'
    BY <1>1 DEF Reads
  <2>1. n \in Marts /\ Fresh(n)
    BY <1>1, SettledStays DEF MatrixInv, Reads, L1Inv, FlowInv, TypeOK
  <2>2. Query(n)' = Query(n) /\ Source("business_unit")' = Source("business_unit")
    BY <1>1, <2>1, QueryStays, SourceStays
  <2>3. CASE n = m
    <3>1. CopyIsNew'
      BY <1>7 DEF MatrixInv, Stages
    <3> QED
      BY <1>3, <2>2, <2>3, <3>1 DEF Fresh, CopyIsNew
  <2>4. CASE n # m
    BY <1>1, <1>3, <2>1, <2>2, <2>4 DEF Fresh
  <2> QED
    BY <2>3, <2>4
<1>9. Stages'
  BY <1>1, <1>7, LeftStays DEF MatrixInv, L1Inv, Stages
<1> QED
  BY <1>5, <1>6, <1>8, <1>9 DEF MatrixInv

\* A refresh ends: the mart has of all the rows that it read a part at least, and the whole
\* if it got one copy of the dictionary.
LEMMA FinishKeepsMatrix ==
    ASSUME MatrixInv, L1Inv', NEW m \in Marts, FinishRefresh(m)
    PROVE  MatrixInv'
<1>1. PICK part \in refresh[m].parts \cup {refresh[m].rows} :
        marts' = [marts EXCEPT ![m] =
                     Appended(@, Kept(m, refresh[m].rows, part, refresh[m].seen))]
  BY DEF FinishRefresh
<1>2. /\ refresh[m].on
      /\ refresh' = [refresh EXCEPT ![m] = [Waiting EXCEPT !.asked = refresh[m].asked]]
      /\ UNCHANGED <<objects, tables, dicts, today, load, loaded, early, verify, calls>>
  BY DEF FinishRefresh
<1> DEFINE kept == Kept(m, refresh[m].rows, part, refresh[m].seen)
<1>3. kept \subseteq refresh[m].rows \cup UNION refresh[m].parts
  BY <1>1 DEF Kept
<1>4. (\A c, d \in refresh[m].seen : c = d) => kept = refresh[m].rows
  BY KeptWhole
<1> HIDE DEF kept
<1>5. /\ refresh'[m].on = FALSE /\ refresh'[m].rows = {} /\ refresh'[m].parts = {}
      /\ refresh'[m].asked = refresh[m].asked /\ marts'[m] = Appended(marts[m], kept)
      /\ \A n \in Marts \ {m} : refresh'[n] = refresh[n] /\ marts'[n] = marts[n]
  BY <1>1, <1>2 DEF kept, MatrixInv, L1Inv, FlowInv, Shapes, Waiting
<1>6. kept \subseteq marts'[m] /\ marts'[m] \subseteq marts[m] \cup kept
  BY <1>5 DEF Appended
<1>7. \A n \in Marts : Carried(n)' \subseteq Carried(n)
  BY <1>3, <1>5, <1>6 DEF Carried
<1>8. PricedRows' /\ MartRows'
  BY <1>2, <1>7, RowsStay
<1>9. DatedLoad' /\ WaitedMatrix'
  BY <1>2 DEF MatrixInv, DatedLoad, WaitedMatrix
<1>10. Reads'
  <2> SUFFICES ASSUME verify.at \in {"polling", "polled"}, verify.ready, NEW b, SettledAt(b)',
                      NEW n \in verify.asked
               PROVE  Fresh(n)'
    BY <1>2 DEF Reads
  <2>1. n \in Marts /\ Fresh(n)
    BY <1>2, SettledStays DEF MatrixInv, Reads, L1Inv, FlowInv, TypeOK
  <2>2. Query(n)' = Query(n) /\ Source("business_unit")' = Source("business_unit")
    BY <1>2, <2>1, QueryStays, SourceStays
  <2>3. CASE n = m
    BY <1>2, <1>4, <1>5, <1>6, <2>1, <2>2, <2>3 DEF Fresh
  <2>4. CASE n # m
    BY <1>5, <2>1, <2>2, <2>4 DEF Fresh
  <2> QED
    BY <2>3, <2>4
<1>11. Stages'
  BY <1>2, LeftStays, SourceStays DEF MatrixInv, L1Inv, Stages, CopyIsNew
<1> QED
  BY <1>8, <1>9, <1>10, <1>11 DEF MatrixInv

\* A dictionary is loaded again; while verify.sh waits for fresh marts it is another one than
\* that of the business units.
LEMMA ReloadKeepsMatrix ==
    ASSUME MatrixInv, L1Inv', NEW d \in Dicts, ReloadDict(d)
    PROVE  MatrixInv'
<1>1. /\ dicts[d] # {Source(d)} /\ dicts' = [dicts EXCEPT ![d] = {Source(d)}]
      /\ refresh' = [m \in Marts |->
                        IF d = "business_unit" /\ refresh[m].on
                        THEN [refresh[m] EXCEPT !.seen = @ \cup {Source(d)}] ELSE refresh[m]]
      /\ UNCHANGED <<objects, tables, marts, today, load, loaded, early, verify, calls>>
  BY DEF ReloadDict
<1>2. /\ \A m \in Marts : refresh'[m].rows = refresh[m].rows /\ refresh'[m].parts = refresh[m].parts
      /\ d # "business_unit" => \A m \in Marts : refresh'[m] = refresh[m]
  BY <1>1 DEF MatrixInv, L1Inv, FlowInv, Shapes
<1>3. PricedRows' /\ MartRows'
  BY <1>1, <1>2, RowsLeft
<1>4. DatedLoad' /\ WaitedMatrix'
  BY <1>1 DEF MatrixInv, DatedLoad, WaitedMatrix
<1>5. CopyIsNew => d # "business_unit" /\ CopyIsNew'
  BY <1>1, SourceStays DEF CopyIsNew
<1>6. Reads'
  <2> SUFFICES ASSUME verify.at \in {"polling", "polled"}, verify.ready, NEW b, SettledAt(b)',
                      NEW n \in verify.asked
               PROVE  Fresh(n)'
    BY <1>1 DEF Reads
  <2>1. n \in Marts /\ Fresh(n)
    BY <1>1, SettledStays DEF MatrixInv, Reads, L1Inv, FlowInv, TypeOK
  <2>2. refresh'[n] = refresh[n]
    BY <1>2, <1>5, <2>1 DEF MatrixInv, Stages
  <2> QED
    BY <1>1, <2>1, <2>2, QueryStays, SourceStays DEF Fresh
<1>7. Stages'
  BY <1>1, <1>5, LeftStays DEF MatrixInv, L1Inv, Stages
<1> QED
  BY <1>3, <1>4, <1>6, <1>7 DEF MatrixInv

\* Stuttering.
LEMMA NothingKeepsMatrix ==
    ASSUME MatrixInv, L1Inv', UNCHANGED vars
    PROVE  MatrixInv'
<1>1. PricedRows' /\ MartRows'
  BY RowsLeft DEF vars
<1>2. Reads'
  BY FreshStays DEF vars, MatrixInv, Reads
<1>3. Stages'
  BY LeftStays, SourceStays DEF vars, MatrixInv, L1Inv, Stages, CopyIsNew
<1> QED
  BY <1>1, <1>2, <1>3 DEF vars, MatrixInv, DatedLoad, WaitedMatrix

\* The window of three days is what the checks expect.
LEMMA MatrixStep == Window = 3 /\ MatrixInv /\ [Next]_vars => MatrixInv'
<1> SUFFICES ASSUME Window = 3, MatrixInv, [Next]_vars PROVE MatrixInv'
  OBVIOUS
<1>1. L1Inv'
  BY L1Step DEF MatrixInv
<1>2. CASE ApplyDdl \/ StartLoad
  BY <1>1, <1>2, CallsKeepMatrix
<1>3. CASE LoadFile \/ AbortLoad
  BY <1>1, <1>3, LoadsKeepMatrix
<1>4. CASE Look
  BY <1>1, <1>4, LookKeepsMatrix
<1>5. CASE AskRefresh
  BY <1>1, <1>5, AskKeepsMatrix
<1>6. CASE Poll
  BY <1>1, <1>6, PollKeepsMatrix
<1>7. CASE Read
  BY <1>1, <1>7, ReadKeepsMatrix
<1>8. CASE NextDay
  BY <1>1, <1>8, MidnightKeepsMatrix
<1>9. ASSUME NEW m \in Marts, StartRefresh(m) \/ FinishRefresh(m) PROVE MatrixInv'
  BY <1>1, <1>9, StartKeepsMatrix, FinishKeepsMatrix
<1>10. CASE \E d \in Dicts : ReloadDict(d)
  BY <1>1, <1>10, ReloadKeepsMatrix
<1>11. CASE UNCHANGED vars
  BY <1>1, <1>11, NothingKeepsMatrix
<1> QED
  BY <1>2, <1>3, <1>4, <1>5, <1>6, <1>7, <1>8, <1>9, <1>10, <1>11 DEF Next

\* If everything in L1 is of one load when verify.sh begins and when it reads the marts, and
\* the two refreshes that it asked for have ended by then, its checks 10 to 13 pass: whatever
\* the marts held of earlier loads, aborted ones, days gone by or groups split by a reload
\* of the dictionary, whenever the scheduler ran its own refreshes, for any bases and bounds.
\* What Settled and Current ask for is needed: the load was not started before the day of
\* its base, its base is not in the last ten minutes of the day, and the copy of the
\* dictionary was that of the registry when verify.sh began.  Window = 3 is the code's: with
\* a shorter window check 12 misses its retries, with a longer one check 13 finds a fifth group.
THEOREM WaitedMatrixHolds ==
    ASSUME Window = 3
    PROVE  Spec => []WaitedMatrix
<1>1. Init => MatrixInv
  BY InitMatrix
<1>2. MatrixInv /\ [Next]_vars => MatrixInv'
  BY MatrixStep
<1>3. MatrixInv => WaitedMatrix
  BY DEF MatrixInv
<1> QED
  BY <1>1, <1>2, <1>3, PTL DEF Spec
=============================================================================
