------------------------------- MODULE MockData -------------------------------
(***************************************************************************)
(* The synthetic dataset of the producer: what the generators of the       *)
(* contexts emit, relative to the base instant.  Kept of every row are its *)
(* business key `id', the columns that some check of verify.sh reads, and  *)
(* `at', the minutes between the base and the instant that the row's       *)
(* partition, window or ASOF JOIN depends on.  A month is 30 days.         *)
(***************************************************************************)
EXTENDS Integers, Sequences

Day  == 1440
None == "none"

Create(row) == [op |-> "c", row |-> row]
Update(row) == [op |-> "u", row |-> row]
Delete(row) == [op |-> "d", row |-> row]

\* Envelope and SeqCounter: one counter per dataset and run, from 1.
Emitted(changes) ==
    [i \in DOMAIN changes |-> [ver |-> i, op |-> changes[i].op, row |-> changes[i].row]]

Snapshot(rows) == Emitted([i \in DOMAIN rows |-> Create(rows[i])])

BusinessUnits ==
    Snapshot(<<[id |-> "BU-01",   is |-> "Centauro Digital", at |-> 0],
               [id |-> "BU-02",   is |-> "Nike.com.br",      at |-> 0],
               [id |-> "BU-TEST", is |-> "BU de Teste",      at |-> 0]>>)

\* The registry has the canonical code only; the spellings are in the orders.
DiscountCodes ==
    Snapshot(<<[id |-> "PROMO10",        is |-> "percent", at |-> 0],
               [id |-> "FRETEGRATIS",    is |-> "freight", at |-> 0],
               [id |-> "BU01-EXCLUSIVE", is |-> "fixed",   at |-> 0]>>)

\* Two prices per SKU; at is valid_from, which belongs to the key.
PriceChangeAt == -2 * Day

Prices ==
    LET price(sku, age, from) == [id |-> sku, age |-> age, at |-> from]
    IN  Snapshot(<<price("SKU-000001", "old", -90 * Day), price("SKU-000001", "new", PriceChangeAt),
                   price("SKU-000002", "old", -90 * Day), price("SKU-000002", "new", PriceChangeAt)>>)

Customers ==
    Snapshot(<<[id |-> "CUST-000001", at |-> -900 * Day],
               [id |-> "CUST-000002", at |-> -420 * Day],
               [id |-> "CUST-000003", at |-> -180 * Day]>>)

StockPositions ==
    LET stock(sku, dc, onHand, reserved, safety) ==
            [id |-> <<sku, dc>>, available |-> onHand - reserved, safety |-> safety, at |-> 0]
    IN  Snapshot(<<stock("SKU-000001", "DC-01", 500, 50, 100),
                   stock("SKU-000001", "DC-02", 20, 15, 100),
                   stock("SKU-000002", "DC-01", 300, 20, 50),
                   stock("SKU-000003", "DC-01", 1000, 0, 100)>>)

\* The versions of the orders, in the order of their sequence numbers.
OrderChanges ==
    LET order(id, bu, channel, status, code, days) ==
            [id |-> id, bu |-> bu, channel |-> channel, status |-> status, code |-> code,
             at |-> -days * Day]
        ooo(status) == order("ORD-OOO-1", "BU-01", "web", status, None, 1)
        del         == order("ORD-DEL-1", "BU-01", "web", "paid", None, 6)
        res(status) == order("ORD-RES-1", "BU-02", "app", status, None, 7)
        paid(id, code, days) == Create(order(id, "BU-01", "web", "paid", code, days))
    IN  <<
            Create(order("ORD-000123", "BU-01", "web", "delivered", "PROMO10", 10)),
            Create(order("ORD-000124", "BU-01", "app", "paid", None, 5)),
            Create(order("ORD-000125", "BU-02", "web", "shipped", "FRETEGRATIS", 3)),
            Create(order("ORD-000126", "BU-02", "store", "canceled", None, 2)),
            Create(order("ORD-000127", "BU-TEST", "web", "delivered", None, 1)),
            Create(ooo("paid")), Update(ooo("canceled")),
            Create(del), Delete(del),
            Create(res("paid")), Delete(res("paid")), Create(res("delivered")),
            paid("ORD-LATE-1", None, 1), paid("ORD-LATE-2", None, 1),
            paid("ORD-000128", "CUPOM-INEXISTENTE", 4),
            paid("ORD-000129", "PROMO10", 1), paid("ORD-000130", "promo10", 1),
            paid("ORD-000131", " PROMO10 ", 1)>>

\* ORD-OOO-1's second version is emitted before its first.
Orders == LET bySeq == Emitted(OrderChanges)
          IN  [bySeq EXCEPT ![6] = bySeq[7], ![7] = bySeq[6]]

\* One item per order (item_seq 1), and one whose order does not exist.
OrderItems ==
    LET item(order, sku, dc, days) == [id |-> order, sku |-> sku, dc |-> dc, at |-> -days * Day]
        s1 == "SKU-000001"
        s2 == "SKU-000002"
    IN  Snapshot(<<item("ORD-000123", s1, "DC-01", 10), item("ORD-000124", s2, "DC-01", 5),
                   item("ORD-000125", s1, "DC-02", 3),  item("ORD-000126", s2, None, 2),
                   item("ORD-000127", s1, "DC-01", 1),  item("ORD-000128", s1, "DC-01", 4),
                   item("ORD-000129", s2, "DC-01", 1),  item("ORD-000130", s2, "DC-01", 1),
                   item("ORD-000131", s2, "DC-01", 1),  item("ORD-LATE-1", s1, "DC-01", 1),
                   item("ORD-LATE-2", s2, "DC-01", 1),  item("ORD-ORPHAN", s1, "DC-01", 0)>>)

\* auth is authorized_at - created_at in seconds, {} if null; minutes count from the
\* base's time of day.
PaymentChanges ==
    LET pay(id, order, method, parts, status, acquirer, auth, days, minutes) ==
            [id |-> id, order |-> order, method |-> method, installments |-> parts,
             status |-> status, acquirer |-> acquirer, auth |-> auth,
             at |-> -days * Day + minutes]
        test(status, auth) ==
            pay(<<"PAY-ACQTEST", 1>>, "ORD-000123", "credit_card", 3, status, "ACQ-TEST", auth, 1, 0)
        lat(n, status, auth) ==
            Create(pay(<<"PAY-LATTEST", n>>, "ORD-000124", "pix", 1, status, "ACQ-LAT-TEST", auth, 1, n))
        retry(n, status) ==
            Create(pay(<<"PAY-RETRY", n>>, "ORD-000125", "credit_card", 1, status, "ACQ-RETRY-TEST",
                       {5}, 3, 2 * (n - 1)))
        std(order, method, parts, status, auth, days) ==
            Create(pay(<<"PAY-STD", order>>, order, method, parts, status, "ACQ-STD", auth, days, 0))
    IN  <<Create(test("pending", {})), Update(test("authorized", {30})),
          Update(test("captured", {30}))>>
        \o [n \in 1..9 |-> lat(n, "authorized", {10})]
        \o <<lat(10, "pending", {}),
             retry(1, "denied"), retry(2, "denied"), retry(3, "captured"),
             std("ORD-000126", "boleto", 1, "denied", {}, 2),
             std("ORD-000127", "pix", 1, "captured", {20}, 1),
             std("ORD-000128", "credit_card", 2, "captured", {15}, 4),
             std("ORD-000129", "credit_card", 1, "captured", {15}, 1),
             std("ORD-000130", "credit_card", 1, "captured", {15}, 1),
             std("ORD-000131", "credit_card", 1, "captured", {15}, 1)>>

OrderPayments == Emitted(PaymentChanges)

\* allDatasets, by entity.
Generated ==
    [business_unit  |-> BusinessUnits,  discount_codes |-> DiscountCodes,
     prices         |-> Prices,         customer       |-> Customers,
     stock_position |-> StockPositions, order_item     |-> OrderItems,
     order          |-> Orders,         order_payment  |-> OrderPayments]

Datasets == DOMAIN Generated
===============================================================================
