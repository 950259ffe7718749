--------------------------- MODULE MockMatrixProofs ---------------------------
(***************************************************************************)
(* What a load that ran to its end leaves in L1 for good, and why the      *)
(* checks of verify.sh on L1 pass after it: for any bases, stops and       *)
(* numbers of calls, aborted and repeated loads included.                  *)
(***************************************************************************)
EXTENDS MockFlowProofs, NatFacts

-----------------------------------------------------------------------------
(* The rows of a file *)

\* The versions of a dataset, before a load gives them their base.
Sent(d) == {Generated[d][i] : i \in DOMAIN Generated[d]}

\* Version e of dataset d in a load with base b, with its sorting key.
Entry(d, e, b) ==
    LET row == [e.row EXCEPT !.at = @ + b]
    IN  [key |-> IF d = "prices" THEN <<row.id, row.at>> ELSE row.id,
         ver |-> e.ver, op |-> e.op, row |-> row]

\* A row with a key and an instant.
HasKey(row) == "id" \in DOMAIN row /\ "at" \in DOMAIN row

LEMMA BatchEntries ==
    ASSUME NEW d, NEW b
    PROVE  Batch(d, b) = {Entry(d, e, b) : e \in Sent(d)}
BY DEF Batch, Entry, Sent

\* The base moves a row in time and leaves the rest of it as it is.
LEMMA EntryIs ==
    ASSUME NEW d, NEW e, NEW b
    PROVE  Entry(d, e, b).ver = e.ver /\ Entry(d, e, b).op = e.op
BY DEF Entry

LEMMA EntryAt ==
    ASSUME NEW d, NEW e, NEW b, HasKey(e.row)
    PROVE  Entry(d, e, b).row.id = e.row.id /\ Entry(d, e, b).row.at = e.row.at + b
BY DEF Entry, HasKey

LEMMA EntryKey ==
    ASSUME NEW d, d # "prices", NEW e, NEW b, HasKey(e.row)
    PROVE  Entry(d, e, b).key = e.row.id
BY DEF Entry, HasKey

LEMMA PriceKey ==
    ASSUME NEW e, NEW b, HasKey(e.row)
    PROVE  Entry("prices", e, b).key = <<e.row.id, e.row.at + b>>
BY DEF Entry, HasKey

LEMMA EntryField ==
    ASSUME NEW d, NEW e, NEW b, NEW f \in DOMAIN e.row, f # "at"
    PROVE  Entry(d, e, b).row[f] = e.row[f]
BY DEF Entry

\* No file has more than 22 versions, and no two of them have one number.
LEMMA SnapshotSent ==
    ASSUME NEW rows, DOMAIN rows \subseteq 1..22
    PROVE  \A i \in DOMAIN Snapshot(rows) : Snapshot(rows)[i].ver \in 1..22
BY DEF Snapshot, Emitted

LEMMA ThreeSent ==
    ASSUME NEW a, NEW b, NEW c
    PROVE  \A i \in DOMAIN Snapshot(<<a, b, c>>) : Snapshot(<<a, b, c>>)[i].ver \in 1..22
BY SnapshotSent

LEMMA SentVersions ==
    ASSUME NEW d \in Datasets
    PROVE  /\ \A e \in Sent(d) : e.ver \in 1..22
           /\ \A e, f \in Sent(d) : e.ver = f.ver => e = f
<1> DEFINE Short(rows) == \A i \in DOMAIN rows : rows[i].ver \in 1..22
<1>1. Short(BusinessUnits)
  BY ThreeSent DEF BusinessUnits
<1>2. Short(DiscountCodes)
  BY SnapshotSent DEF DiscountCodes
<1>3. Short(Prices)
  BY SnapshotSent DEF Prices
<1>4. Short(Customers)
  BY SnapshotSent DEF Customers
<1>5. Short(StockPositions)
  BY SnapshotSent DEF StockPositions
<1>6. Short(OrderItems)
  BY SnapshotSent DEF OrderItems
<1>7. Short(OrderPayments)
  <2>1. DOMAIN PaymentChanges = 1..22
    BY DEF PaymentChanges
  <2> QED
    BY <2>1 DEF OrderPayments, Emitted
<1>8. Short(Orders)
  <2>1. DOMAIN OrderChanges = 1..18
    BY DEF OrderChanges
  <2> QED
    BY <2>1, OrdersSwapped DEF Emitted
<1>9. Short(Generated[d])
  <2> HIDE DEF Short
  <2> QED
    BY <1>1, <1>2, <1>3, <1>4, <1>5, <1>6, <1>7, <1>8 DEF Datasets, Generated
<1> QED
  BY <1>9, DatasetNumbered DEF Sent, Numbered

\* The versions of the entries of a batch.
LEMMA BatchBounds ==
    ASSUME NEW d \in Datasets, NEW b, NEW x \in Batch(d, b)
    PROVE  x.ver \in 1..22 /\ x.ver \in Nat
<1>1. PICK e \in Sent(d) : x = Entry(d, e, b)
  BY BatchEntries
<1>2. x.ver = e.ver
  BY <1>1 DEF Entry
<1> QED
  BY <1>2, SentVersions

-----------------------------------------------------------------------------
(* FINAL keeps, of every key, a version that is as high as any *)

\* Every entry of the batch is there, or a later version of its key.
Covers(rows, batch) == \A e \in batch : \E x \in rows : x.key = e.key /\ x.ver >= e.ver

Numbers(rows) == \A x \in rows : x.ver \in Nat

LEMMA CoversTransitive ==
    ASSUME NEW a, NEW b, NEW c, Numbers(a), Numbers(b), Numbers(c), Covers(a, b), Covers(b, c)
    PROVE  Covers(a, c)
<1> SUFFICES ASSUME NEW e \in c PROVE \E x \in a : x.key = e.key /\ x.ver >= e.ver
  BY DEF Covers
<1>1. PICK y \in b : y.key = e.key /\ y.ver >= e.ver
  BY DEF Covers
<1>2. PICK x \in a : x.key = y.key /\ x.ver >= y.ver
  BY DEF Covers
<1> QED
  BY <1>1, <1>2 DEF Numbers

LEMMA FinalCovers ==
    ASSUME NEW old, OnePerKey(old), NEW new, Versions(new),
           \A x \in old \cup new : x.ver \in 1..22, NEW kept
    PROVE  Covers(Final(old, new, kept), old \cup new)
<1> DEFINE all == old \cup new
           beats(y, x) == \/ y.ver > x.ver
                          \/ y.ver = x.ver /\ IF x.key \in kept THEN y \in old ELSE y \in new
<1>1. Final(old, new, kept) = {x \in all : \A y \in all \ {x} : y.key = x.key => ~ beats(y, x)}
  BY DEF Final
<1> SUFFICES ASSUME NEW e \in all
             PROVE  \E x \in Final(old, new, kept) : x.key = e.key /\ x.ver >= e.ver
  BY DEF Covers
<1> DEFINE same == {x \in all : x.key = e.key}
           vers == {x.ver : x \in same}
<1>2. PICK top \in vers : \A v \in vers : top >= v
  <2>1. vers \subseteq Nat /\ \A v \in vers : v <= 22
    OBVIOUS
  <2>2. vers # {}
    OBVIOUS
  <2> HIDE DEF vers
  <2> QED
    BY <2>1, <2>2, GreatestExists
<1>3. PICK x \in same : x.ver = top
  OBVIOUS
<1>4. \A y \in same : y.ver <= x.ver
  BY <1>2, <1>3
<1>5. x.ver >= e.ver /\ x.key = e.key
  BY <1>4
\* Two entries share the highest version at most, one of each side.
<1>6. \A y \in same \ {x} : y.ver = x.ver => (x \in old <=> y \notin old) /\ (x \in new <=> y \notin new)
  BY DEF OnePerKey, Versions
<1>7. CASE \A y \in same \ {x} : ~ beats(y, x)
  <2>1. x \in Final(old, new, kept)
    BY <1>1, <1>7
  <2> QED
    BY <1>5, <2>1
<1>8. CASE \E y \in same \ {x} : beats(y, x)
  <2>1. PICK y \in same \ {x} : beats(y, x)
    BY <1>8
  <2>2. y.ver = x.ver /\ IF x.key \in kept THEN y \in old ELSE y \in new
    BY <1>4, <2>1
  <2>3. \A z \in same \ {y} : ~ beats(z, y)
    <3> SUFFICES ASSUME NEW z \in same \ {y}, beats(z, y) PROVE FALSE
      OBVIOUS
    <3>1. z.ver = y.ver /\ IF y.key \in kept THEN z \in old ELSE z \in new
      BY <1>4, <2>2
    <3>2. x.key = y.key
      OBVIOUS
    <3> QED
      BY <2>2, <3>1, <3>2 DEF OnePerKey, Versions
  <2>4. y \in Final(old, new, kept)
    BY <1>1, <2>3
  <2> QED
    BY <1>5, <2>2, <2>4
<1> QED
  BY <1>7, <1>8

-----------------------------------------------------------------------------
(* The inductive invariant: what came from the files, and what must be there *)

\* L1 holds nothing but what some load wrote.
FromFiles == \A d \in Datasets : \A x \in tables[d] : \E b \in Bases : x \in Batch(d, b)

\* What the load under way has passed and an MV took, is in L1.
UnderWay ==
    load.file > 0 =>
        \A n \in 1..(load.file - 1) :
            objects >= Statement[Files[n]] => Covers(tables[Files[n]], Batch(Files[n], load.base))

\* A load that ran to its end on a complete schema is there for good.
Landed == \A b \in loaded : \A d \in Datasets : Covers(tables[d], Batch(d, b))

\* The prices were sent before the items: an item came with the prices of its load.
PricedItems ==
    \A x \in tables["order_item"] :
        \E b \in Bases : x \in Batch("order_item", b) /\ Covers(tables["prices"], Batch("prices", b))

L1Inv == FlowInv /\ FromFiles /\ UnderWay /\ Landed /\ PricedItems

\* The statements and the files.
LEMMA FileList ==
    /\ Len(Files) = 8 /\ \A n \in 1..8 : Files[n] \in Datasets
    /\ \A d \in Datasets : Statement[d] \in 2..9 /\ \E n \in 1..8 : Files[n] = d
    /\ Files[3] = "prices" /\ Files[6] = "order_item" /\ \A n \in 1..8 : Files[n] = "order_item" => n = 6
    /\ Statement["prices"] = 6 /\ Statement["order_item"] = 8
BY DEF Files, Datasets, Generated, Statement

LEMMA TableNumbers ==
    ASSUME FlowInv, FromFiles, NEW d \in Datasets
    PROVE  OnePerKey(tables[d]) /\ Numbers(tables[d]) /\ \A x \in tables[d] : x.ver \in 1..22
BY BatchBounds DEF FlowInv, TypeOK, VersionsAreNumbers, FromFiles, Numbers

LEMMA BatchNumbers ==
    ASSUME NEW d \in Datasets, NEW b
    PROVE  Numbers(Batch(d, b))
BY BatchBounds DEF Numbers

\* What an INSERT of some rows of the file does: every table covers what it held, the
\* file's own table covers the rows too, and nothing else is new.
LEMMA InsertCovers ==
    ASSUME FlowInv, FromFiles, load.file > 0,
           NEW rows, rows \subseteq Batch(Files[load.file], load.base), Insert(rows)
    PROVE  /\ \A d \in Datasets : Covers(tables'[d], tables[d]) /\ Numbers(tables'[d])
           /\ objects >= Statement[Files[load.file]] => Covers(tables'[Files[load.file]], rows)
           /\ \A d \in Datasets : \A x \in tables'[d] :
                  \/ x \in tables[d]
                  \/ x \in rows /\ d = Files[load.file] /\ objects >= Statement[d]
<1> DEFINE f == Files[load.file]
           new(t) == /\ \A d \in Datasets : Covers(t[d], tables[d]) /\ Numbers(t[d])
                     /\ objects >= Statement[f] => Covers(t[f], rows)
                     /\ \A d \in Datasets : \A x \in t[d] :
                            \/ x \in tables[d]
                            \/ x \in rows /\ d = f /\ objects >= Statement[d]
<1>1. f \in Datasets /\ Versions(rows) /\ \A x \in rows : x.ver \in 1..22
  BY FileFacts, BatchVersions, BatchBounds DEF Versions
<1>2. \A d \in Datasets : Covers(tables[d], tables[d]) /\ Numbers(tables[d])
  BY TableNumbers DEF Covers, Numbers
<1>3. Statement[f] \in 2..9 /\ objects \in 0..LastStatement
  BY <1>1, FileList DEF FlowInv, TypeOK
<1>4. CASE objects < Statement[f] /\ UNCHANGED tables
  BY <1>2, <1>3, <1>4 DEF LastStatement
<1>5. ASSUME objects >= Statement[f], NEW kept,
             tables' = [tables EXCEPT ![f] = Final(tables[f], rows, kept)]
      PROVE  new(tables')
  <2> DEFINE final == Final(tables[f], rows, kept)
  <2>1. Covers(final, tables[f] \cup rows)
    BY <1>1, TableNumbers, FinalCovers
  <2>2. final \subseteq tables[f] \cup rows
    BY DEF Final
  <2>3. Numbers(final)
    BY <1>1, <1>2, <2>2 DEF Numbers
  <2>4. DOMAIN tables = Datasets
    BY DEF FlowInv, Shapes
  <2> HIDE DEF final, f
  <2>5. \A d \in Datasets : tables'[d] = IF d = f THEN final ELSE tables[d]
    BY <1>5, <2>4 DEF final
  <2>6. Covers(final, tables[f]) /\ Covers(final, rows)
    BY <2>1 DEF Covers
  <2> QED
    BY <1>1, <1>2, <1>5, <2>2, <2>3, <2>5, <2>6
<1>6. new(tables')
  <2>1. \/ objects < Statement[f] /\ UNCHANGED tables
        \/ /\ objects >= Statement[f]
           /\ \E kept \in SUBSET Open(tables[f], rows) :
                 tables' = [tables EXCEPT ![f] = Final(tables[f], rows, kept)]
    BY DEF Insert
  <2> HIDE DEF f, new
  <2>2. CASE objects < Statement[f] /\ UNCHANGED tables
    BY <1>4, <2>2 DEF f, new
  <2> QED
    BY <1>5, <2>1, <2>2
<1> QED
  BY <1>6

\* Whatever was covered stays covered.
LEMMA StaysCovered ==
    ASSUME FlowInv, FromFiles, load.file > 0,
           NEW rows, rows \subseteq Batch(Files[load.file], load.base), Insert(rows),
           NEW d \in Datasets, NEW b, Covers(tables[d], Batch(d, b))
    PROVE  Covers(tables'[d], Batch(d, b))
<1>1. Covers(tables'[d], tables[d]) /\ Numbers(tables'[d])
  BY InsertCovers
<1>2. Numbers(tables[d]) /\ Numbers(Batch(d, b))
  BY TableNumbers, BatchNumbers
<1> QED
  BY <1>1, <1>2, CoversTransitive

\* The tables after an INSERT: they come from the files, and the items have their prices.
LEMMA InsertKeepsL1 ==
    ASSUME L1Inv, load.file > 0,
           NEW rows, rows \subseteq Batch(Files[load.file], load.base), Insert(rows)
    PROVE  FromFiles' /\ PricedItems'
<1>1. load.base \in Bases /\ load.file \in 1..8
  BY FileFacts DEF L1Inv
<1>2. \A d \in Datasets : \A x \in tables'[d] :
          x \in tables[d] \/ (x \in rows /\ d = Files[load.file] /\ objects >= Statement[d])
  BY InsertCovers DEF L1Inv
<1>3. FromFiles'
  <2>1. ASSUME NEW d \in Datasets, NEW x \in tables'[d]
        PROVE  \E b \in Bases : x \in Batch(d, b)
    BY <1>1, <1>2, <2>1 DEF L1Inv, FromFiles
  <2> QED
    BY <2>1 DEF FromFiles
<1>4. PricedItems'
  <2> DEFINE i == "order_item"
             p == "prices"
  <2>1. i \in Datasets /\ p \in Datasets
    BY DEF Datasets, Generated
  <2>2. ASSUME NEW x \in tables'[i]
        PROVE  \E b \in Bases : x \in Batch(i, b) /\ Covers(tables'[p], Batch(p, b))
    <3>1. CASE x \in tables[i]
      <4>1. PICK b \in Bases : x \in Batch(i, b) /\ Covers(tables[p], Batch(p, b))
        BY <3>1 DEF L1Inv, PricedItems
      <4>2. Covers(tables'[p], Batch(p, b))
        BY <2>1, <4>1, StaysCovered DEF L1Inv
      <4> QED
        BY <4>1, <4>2
    <3>2. CASE x \in rows /\ i = Files[load.file] /\ objects >= Statement[i]
      <4>1. load.file = 6 /\ objects >= 8
        BY <1>1, <3>2, FileList
      <4>2. Covers(tables[p], Batch(p, load.base))
        <5>1. Files[3] = p /\ objects >= Statement[p]
          BY <4>1, FileList DEF L1Inv, FlowInv, TypeOK, LastStatement
        <5>2. 3 \in 1..(load.file - 1)
          BY <4>1
        <5>3. objects >= Statement[Files[3]] => Covers(tables[Files[3]], Batch(Files[3], load.base))
          BY <5>2 DEF L1Inv, UnderWay
        <5> QED
          BY <5>1, <5>3
      <4>3. Covers(tables'[p], Batch(p, load.base))
        BY <2>1, <4>2, StaysCovered DEF L1Inv
      <4> QED
        BY <1>1, <3>2, <4>3
    <3> QED
      BY <1>2, <2>1, <3>1, <3>2
  <2> QED
    BY <2>2 DEF PricedItems
<1> QED
  BY <1>3, <1>4

-----------------------------------------------------------------------------
(* The steps *)

LEMMA InitL1 == Init => L1Inv
<1> SUFFICES ASSUME Init PROVE L1Inv
  OBVIOUS
<1>1. FlowInv
  BY InitFlow
<1>2. FromFiles /\ UnderWay /\ Landed /\ PricedItems
  BY DEF Init, FromFiles, UnderWay, Landed, PricedItems, NoLoad, Datasets, Generated
<1> QED
  BY <1>1, <1>2 DEF L1Inv

LEMMA LoadFileKeepsL1 == L1Inv /\ LoadFile => L1Inv'
<1> SUFFICES ASSUME L1Inv, LoadFile PROVE L1Inv'
  OBVIOUS
<1> DEFINE f == Files[load.file]
           batch == Batch(f, load.base)
<1>1. load.file > 0 /\ UNCHANGED objects
  BY DEF LoadFile
<1>2. /\ load.file \in 1..8 /\ load.base \in Bases /\ f \in Datasets
      /\ objects \in 0..LastStatement
  BY <1>1, FileFacts DEF L1Inv, FlowInv, TypeOK
<1>3. File = batch
  BY <1>1, <1>2, FileList, Zenon DEF File, Contents
<1>4. Insert(batch)
  BY <1>3 DEF LoadFile
<1> HIDE DEF f, batch
<1>5. FromFiles' /\ PricedItems'
  BY <1>1, <1>4, InsertKeepsL1 DEF f, batch
<1>6. objects >= Statement[f] => Covers(tables'[f], batch)
  BY <1>1, <1>4, InsertCovers DEF f, batch, L1Inv
<1>7. \A d \in Datasets : \A b : Covers(tables[d], Batch(d, b)) => Covers(tables'[d], Batch(d, b))
  BY <1>1, <1>4, StaysCovered DEF f, batch, L1Inv
\* The files up to this one have landed.
<1>8. \A n \in 1..load.file :
          objects >= Statement[Files[n]] => Covers(tables'[Files[n]], Batch(Files[n], load.base))
  <2> SUFFICES ASSUME NEW n \in 1..load.file, objects >= Statement[Files[n]]
               PROVE  Covers(tables'[Files[n]], Batch(Files[n], load.base))
    OBVIOUS
  <2>1. CASE n = load.file
    BY <1>6, <2>1 DEF f, batch
  <2>2. CASE n # load.file
    <3>1. n \in 1..(load.file - 1) /\ Files[n] \in Datasets
      BY <1>2, <2>2, FileList
    <3>2. Covers(tables[Files[n]], Batch(Files[n], load.base))
      BY <1>1, <3>1 DEF L1Inv, UnderWay
    <3> QED
      BY <1>7, <3>1, <3>2
  <2> QED
    BY <2>1, <2>2
<1>9. CASE load.file < Len(Files)
  <2>1. load' = [load EXCEPT !.file = @ + 1] /\ loaded' = loaded
    BY <1>9 DEF LoadFile
  <2>2. load'.file = load.file + 1 /\ load'.base = load.base
    BY <2>1 DEF L1Inv, FlowInv, TypeOK
  <2>3. UnderWay'
    <3>1. 1..(load'.file - 1) = 1..load.file
      BY <1>2, <2>2
    <3> QED
      BY <1>1, <1>8, <2>2, <3>1 DEF UnderWay
  <2>4. Landed'
    BY <1>7, <2>1 DEF L1Inv, Landed
  <2> QED
    BY <1>5, <2>3, <2>4, LoadFileKeeps DEF L1Inv
<1>10. CASE ~ (load.file < Len(Files))
  <2>1. /\ load' = NoLoad
        /\ loaded' = IF objects >= LastCore THEN loaded \cup {load.base} ELSE loaded
    BY <1>10 DEF LoadFile
  <2>2. load.file = 8
    BY <1>2, <1>10, FileList
  <2>3. UnderWay'
    BY <2>1 DEF UnderWay, NoLoad
  <2>4. objects >= LastCore => \A d \in Datasets : Covers(tables'[d], Batch(d, load.base))
    <3> SUFFICES ASSUME objects >= LastCore, NEW d \in Datasets
                 PROVE  Covers(tables'[d], Batch(d, load.base))
      OBVIOUS
    <3>1. PICK n \in 1..8 : Files[n] = d
      BY FileList
    <3>2. objects >= Statement[d]
      BY <1>2, FileList DEF LastCore, LastStatement
    <3> QED
      BY <1>8, <2>2, <3>1, <3>2
  <2>5. Landed'
    BY <1>7, <2>1, <2>4 DEF L1Inv, Landed
  <2> QED
    BY <1>5, <2>3, <2>5, LoadFileKeeps DEF L1Inv
<1> QED
  BY <1>9, <1>10

LEMMA AbortLoadKeepsL1 == L1Inv /\ AbortLoad => L1Inv'
<1> SUFFICES ASSUME L1Inv, AbortLoad PROVE L1Inv'
  OBVIOUS
<1>1. load.file > 0 /\ load' = NoLoad /\ loaded' = loaded
  BY DEF AbortLoad
<1>2. PICK months : Insert({x \in File : MonthOf(x.row.at) \in months})
  BY DEF AbortLoad
<1> DEFINE rows == {x \in File : MonthOf(x.row.at) \in months}
<1>3. load.file \in 1..8 /\ load.base \in Bases /\ Files[load.file] \in Datasets
  BY <1>1, FileFacts DEF L1Inv
<1>4. File = Batch(Files[load.file], load.base)
  BY <1>1, <1>3, FileList, Zenon DEF File, Contents
<1>5. rows \subseteq Batch(Files[load.file], load.base) /\ Insert(rows)
  BY <1>2, <1>4
<1> HIDE DEF rows
<1>6. FromFiles' /\ PricedItems'
  BY <1>1, <1>5, InsertKeepsL1
<1>7. Landed'
  BY <1>1, <1>5, StaysCovered DEF L1Inv, Landed
<1>8. UnderWay'
  BY <1>1 DEF UnderWay, NoLoad
<1> QED
  BY <1>6, <1>7, <1>8, AbortLoadKeeps DEF L1Inv

\* Between loads, L1 does not change.
LEMMA OthersKeepL1 ==
    ASSUME L1Inv, FlowInv', UNCHANGED <<tables, loaded>>,
           \/ load.file = 0 /\ (UNCHANGED load \/ load'.file = 1)
           \/ UNCHANGED <<objects, load>>
    PROVE  L1Inv'
<1>1. FromFiles' /\ PricedItems' /\ Landed'
  BY DEF L1Inv, FromFiles, PricedItems, Landed
<1>2. UnderWay'
  <2>1. CASE load.file = 0 /\ UNCHANGED load
    BY <2>1 DEF UnderWay
  <2>2. CASE load'.file = 1
    BY <2>2 DEF UnderWay
  <2>3. CASE UNCHANGED <<objects, load>>
    BY <2>3 DEF L1Inv, UnderWay
  <2> QED
    BY <2>1, <2>2, <2>3
<1> QED
  BY <1>1, <1>2 DEF L1Inv

LEMMA L1Step == L1Inv /\ [Next]_vars => L1Inv'
<1> SUFFICES ASSUME L1Inv, [Next]_vars PROVE L1Inv'
  OBVIOUS
<1>1. FlowInv'
  BY FlowStep DEF L1Inv
<1>2. CASE ApplyDdl
  BY <1>1, <1>2, OthersKeepL1 DEF ApplyDdl, Free
<1>3. CASE StartLoad
  BY <1>1, <1>3, OthersKeepL1 DEF StartLoad, Free
<1>4. CASE Look \/ AskRefresh \/ Poll \/ Read \/ NextDay
  BY <1>1, <1>4, OthersKeepL1 DEF Look, AskRefresh, Poll, Read, NextDay
<1>5. CASE \E m \in Marts : StartRefresh(m) \/ FinishRefresh(m)
  BY <1>1, <1>5, OthersKeepL1 DEF StartRefresh, FinishRefresh
<1>6. CASE \E d \in Dicts : ReloadDict(d)
  BY <1>1, <1>6, OthersKeepL1 DEF ReloadDict
<1>7. CASE UNCHANGED vars
  BY <1>1, <1>7, OthersKeepL1 DEF vars
<1> QED
  BY <1>2, <1>3, <1>4, <1>5, <1>6, <1>7, LoadFileKeepsL1, AbortLoadKeepsL1 DEF Next

\* From every reachable state, what was loaded stays; the rest of the module follows
\* from this invariant.
LEMMA L1Invariant == Spec => []L1Inv
BY InitL1, L1Step, PTL DEF Spec

-----------------------------------------------------------------------------
(* The last version of every key *)

\* The version that wins against all others of its key.
LastOf(d, e) == e \in Sent(d) /\ \A f \in Sent(d) : f.row.id = e.row.id => f.ver <= e.ver

Keyed(d) == \A e \in Sent(d) : HasKey(e.row)

\* After a load that landed, a table keyed by id holds the last version of every key, at
\* some base, and nothing else.
LEMMA TableIsLast ==
    ASSUME L1Inv, loaded # {}, NEW d \in Datasets, d # "prices", Keyed(d)
    PROVE  /\ \A x \in tables[d] : \E e \in Sent(d), b \in Bases : LastOf(d, e) /\ x = Entry(d, e, b)
           /\ \A e : LastOf(d, e) => \E b \in Bases : Entry(d, e, b) \in tables[d]
<1>1. PICK base \in loaded : Covers(tables[d], Batch(d, base))
  BY DEF L1Inv, Landed
<1>2. \A e \in Sent(d) : e.ver \in 1..22 /\ \A b : Entry(d, e, b).key = e.row.id /\ Entry(d, e, b).ver = e.ver
  <2>1. \A e \in Sent(d) : HasKey(e.row)
    BY DEF Keyed
  <2>2. ASSUME NEW e \in Sent(d), NEW b
        PROVE  Entry(d, e, b).key = e.row.id /\ Entry(d, e, b).ver = e.ver
    <3>1. HasKey(e.row)
      BY <2>1
    <3> QED
      BY <3>1, EntryKey, EntryIs
  <2> QED
    BY <2>2, SentVersions
\* Some row of the key is as new as any version that was sent.
<1>3. \A e \in Sent(d) : \E x \in tables[d] : x.key = e.row.id /\ x.ver >= e.ver
  BY <1>1, <1>2, BatchEntries DEF Covers
<1>4. \A x \in tables[d] : \E e \in Sent(d), b \in Bases : x = Entry(d, e, b)
  BY BatchEntries DEF L1Inv, FromFiles
<1>5. OnePerKey(tables[d])
  BY DEF L1Inv, FlowInv, TypeOK
<1>6. ASSUME NEW x \in tables[d]
      PROVE  \E e \in Sent(d), b \in Bases : LastOf(d, e) /\ x = Entry(d, e, b)
  <2>1. PICK e \in Sent(d), b \in Bases : x = Entry(d, e, b)
    BY <1>4
  <2>2. ASSUME NEW f \in Sent(d), f.row.id = e.row.id PROVE f.ver <= e.ver
    <3>1. PICK y \in tables[d] : y.key = f.row.id /\ y.ver >= f.ver
      BY <1>3
    <3>2. y = x
      BY <1>2, <1>5, <2>1, <2>2, <3>1 DEF OnePerKey
    <3> QED
      BY <1>2, <2>1, <3>1, <3>2
  <2> QED
    BY <2>1, <2>2 DEF LastOf
<1>7. ASSUME NEW e, LastOf(d, e)
      PROVE  \E b \in Bases : Entry(d, e, b) \in tables[d]
  <2>1. e \in Sent(d)
    BY <1>7 DEF LastOf
  <2>2. PICK x \in tables[d] : x.key = e.row.id /\ x.ver >= e.ver
    BY <1>3, <2>1
  <2>3. PICK f \in Sent(d), b \in Bases : x = Entry(d, f, b)
    BY <1>4
  <2>4. f.row.id = e.row.id /\ f.ver >= e.ver
    BY <1>2, <2>2, <2>3
  <2>5. f.ver = e.ver
    BY <1>2, <1>7, <2>1, <2>4 DEF LastOf
  <2>6. f = e
    BY <2>1, <2>5, SentVersions
  <2> QED
    BY <2>3, <2>6
<1> QED
  BY <1>6, <1>7

\* The same for the current view: the rows that were not deleted last.
LEMMA RowsAreLast ==
    ASSUME L1Inv, loaded # {}, NEW d \in Datasets, d # "prices", Keyed(d)
    PROVE  /\ \A x \in View(d) : \E e \in Sent(d), b \in Bases :
                  LastOf(d, e) /\ e.op # "d" /\ x = Entry(d, e, b)
           /\ \A e : LastOf(d, e) /\ e.op # "d" => \E b \in Bases : Entry(d, e, b) \in View(d)
<1>1. \A e, b : Entry(d, e, b).op = e.op
  BY DEF Entry
<1> QED
  BY <1>1, TableIsLast DEF View

-----------------------------------------------------------------------------
(* The versions that were sent *)

Change(v, id, op) ==
    HasKey(OrderChanges[v].row) /\ OrderChanges[v].row.id = id /\ OrderChanges[v].op = op

LEMMA OrderIds ==
    /\ Change(1, "ORD-000123", "c") /\ Change(2, "ORD-000124", "c") /\ Change(3, "ORD-000125", "c")
    /\ Change(4, "ORD-000126", "c") /\ Change(5, "ORD-000127", "c")
    /\ Change(6, "ORD-OOO-1", "c") /\ Change(7, "ORD-OOO-1", "u")
    /\ Change(8, "ORD-DEL-1", "c") /\ Change(9, "ORD-DEL-1", "d")
    /\ Change(10, "ORD-RES-1", "c") /\ Change(11, "ORD-RES-1", "d") /\ Change(12, "ORD-RES-1", "c")
    /\ Change(13, "ORD-LATE-1", "c") /\ Change(14, "ORD-LATE-2", "c")
    /\ Change(15, "ORD-000128", "c") /\ Change(16, "ORD-000129", "c")
    /\ Change(17, "ORD-000130", "c") /\ Change(18, "ORD-000131", "c")
BY DEF OrderChanges, Create, Update, Delete, Change, HasKey

\* The statuses that the checks read.
LEMMA OrderOutcomes ==
    /\ OrderChanges[7].row.status = "canceled" /\ "status" \in DOMAIN OrderChanges[7].row
    /\ OrderChanges[12].row.status = "delivered" /\ "status" \in DOMAIN OrderChanges[12].row
BY DEF OrderChanges, Create, Update, Delete

\* Version v of the orders.
Version(v) == [ver |-> v, op |-> OrderChanges[v].op, row |-> OrderChanges[v].row]

LEMMA OrdersSent == Sent("order") = {Version(v) : v \in 1..18}
<1>1. DOMAIN OrderChanges = 1..18
  BY DEF OrderChanges
<1>2. \A v \in 1..18 : Emitted(OrderChanges)[v] = Version(v)
  BY <1>1 DEF Emitted, Version
<1>3. Sent("order") = {Orders[i] : i \in 1..18}
  BY OrdersSwapped DEF Sent, Generated
<1>4. \A i \in 1..18 : Orders[i] = Version(IF i = 6 THEN 7 ELSE IF i = 7 THEN 6 ELSE i)
  BY <1>2, OrdersSwapped
<1>5. ASSUME NEW v \in 1..18 PROVE Version(v) \in {Orders[i] : i \in 1..18}
  <2> DEFINE i == IF v = 6 THEN 7 ELSE IF v = 7 THEN 6 ELSE v
  <2>1. i \in 1..18 /\ Orders[i] = Version(v)
    BY <1>4
  <2> QED
    BY <2>1
<1> QED
  BY <1>3, <1>4, <1>5

LEMMA OrderKeys == Keyed("order") /\ "order" \in Datasets
<1>1. \A v \in 1..18 : HasKey(Version(v).row)
  <2>1. \A v \in 1..18 : HasKey(OrderChanges[v].row)
    BY OrderIds DEF Change
  <2> QED
    BY <2>1 DEF Version
<1>2. "order" \in Datasets
  BY DEF Datasets, Generated
<1> QED
  BY <1>1, <1>2, OrdersSent DEF Keyed

\* Which versions of the orders are the last ones.
LEMMA LastOrders ==
    \A v \in 1..18 : LastOf("order", Version(v)) <=> v \notin {6, 8, 10, 11}
<1>1. \A v \in 1..18 : /\ Version(v).ver = v /\ Version(v).row.id = OrderChanges[v].row.id
                       /\ Version(v) \in Sent("order")
  BY OrdersSent DEF Version
<1>2. \A v, w \in 1..18 : OrderChanges[v].row.id = OrderChanges[w].row.id /\ v < w => v \in {6, 8, 10, 11}
  BY OrderIds, SMTT(60) DEF Change
<1>3. \A v \in {6, 8, 10, 11} : \E w \in 1..18 : OrderChanges[v].row.id = OrderChanges[w].row.id /\ v < w
  BY OrderIds DEF Change
<1>4. ASSUME NEW v \in 1..18, v \in {6, 8, 10, 11} PROVE ~ LastOf("order", Version(v))
  <2>1. PICK w \in 1..18 : OrderChanges[v].row.id = OrderChanges[w].row.id /\ v < w
    BY <1>3, <1>4
  <2>2. Version(w) \in Sent("order") /\ Version(w).row.id = Version(v).row.id
    BY <1>1, <2>1
  <2>3. ~ (Version(w).ver <= Version(v).ver)
    BY <1>1, <2>1
  <2> QED
    BY <2>2, <2>3 DEF LastOf
<1>5. ASSUME NEW v \in 1..18, v \notin {6, 8, 10, 11} PROVE LastOf("order", Version(v))
  <2>1. ASSUME NEW f \in Sent("order"), f.row.id = Version(v).row.id PROVE f.ver <= Version(v).ver
    <3>1. PICK w \in 1..18 : f = Version(w)
      BY OrdersSent
    <3> QED
      <4>1. OrderChanges[v].row.id = OrderChanges[w].row.id
        BY <1>1, <2>1, <3>1
      <4>2. ~ (v < w)
        BY <1>2, <1>5, <4>1
      <4>3. f.ver = w /\ Version(v).ver = v
        BY <1>1, <3>1
      <4> QED
        BY <4>2, <4>3
  <2> QED
    BY <1>1, <2>1 DEF LastOf
<1> QED
  BY <1>4, <1>5

\* What v_order_current shows of the orders after a load that landed.
Shown == 1..18 \ {6, 8, 9, 10, 11}

LEMMA ShownOrders ==
    ASSUME L1Inv, loaded # {}
    PROVE  /\ \A x \in View("order") : \E v \in Shown, b \in Bases : x = Entry("order", Version(v), b)
           /\ \A v \in Shown : \E b \in Bases : Entry("order", Version(v), b) \in View("order")
<1>1. \A v \in 1..18 : Version(v).op = OrderChanges[v].op
  BY DEF Version
<1>2. \A v \in 1..18 : LastOf("order", Version(v)) /\ Version(v).op # "d" <=> v \in Shown
  BY <1>1, OrderIds, LastOrders DEF Change, Shown
<1>3. /\ \A x \in View("order") : \E e \in Sent("order"), b \in Bases :
              LastOf("order", e) /\ e.op # "d" /\ x = Entry("order", e, b)
      /\ \A e : LastOf("order", e) /\ e.op # "d" => \E b \in Bases : Entry("order", e, b) \in View("order")
  BY OrderKeys, RowsAreLast
<1>4. ASSUME NEW x \in View("order")
      PROVE  \E v \in Shown, b \in Bases : x = Entry("order", Version(v), b)
  BY <1>2, <1>3, OrdersSent
<1>5. ASSUME NEW v \in Shown
      PROVE  \E b \in Bases : Entry("order", Version(v), b) \in View("order")
  <2>1. LastOf("order", Version(v)) /\ Version(v).op # "d"
    BY <1>2 DEF Shown
  <2> QED
    BY <1>3, <2>1
<1> QED
  BY <1>4, <1>5

\* The columns of a version of an order.
LEMMA OrderColumns ==
    ASSUME NEW v \in 1..18, NEW b
    PROVE  /\ Entry("order", Version(v), b).row.id = OrderChanges[v].row.id
           /\ Entry("order", Version(v), b).ver = v
           /\ v \in {7, 12} => Entry("order", Version(v), b).row.status = OrderChanges[v].row.status
<1>1. HasKey(Version(v).row) /\ Version(v).row = OrderChanges[v].row /\ Version(v).ver = v
  BY OrderIds DEF Version, Change
<1>2. v \in {7, 12} => "status" \in DOMAIN Version(v).row
  BY <1>1, OrderOutcomes
<1> QED
  BY <1>1, <1>2, EntryAt, EntryIs, EntryField

LEMMA ChecksOfL1 ==
    /\ CorePasses(1) <=>
           {<<x.row.status, x.ver>> : x \in Named("order", {"ORD-OOO-1"})} = {<<"canceled", 7>>}
    /\ CorePasses(2) <=> Named("order", {"ORD-DEL-1"}) = {}
    /\ CorePasses(3) <=> {x.row.status : x \in Named("order", {"ORD-RES-1"})} = {"delivered"}
    /\ CorePasses(4) <=>
           {i.id : i \in Rows("order_item")} \ {o.id : o \in Rows("order")} = {"ORD-ORPHAN"}
    /\ CorePasses(8) <=>
           {<<i.id, Stock(i)>> : i \in {x.row : x \in
               Named("order_item", {"ORD-000123", "ORD-000125", "ORD-000126"})}}
           = {<<"ORD-000123", "OK">>, <<"ORD-000125", "ABAIXO">>, <<"ORD-000126", "SEM_POSICAO">>}
BY DEF CorePasses

LEMMA OutOfOrder == L1Inv /\ loaded # {} => CorePasses(1)
<1> SUFFICES ASSUME L1Inv, loaded # {} PROVE CorePasses(1)
  OBVIOUS
<1>1. ASSUME NEW x \in Named("order", {"ORD-OOO-1"})
      PROVE  x.row.status = "canceled" /\ x.ver = 7
  <2>1. PICK v \in Shown, b \in Bases : x = Entry("order", Version(v), b)
    BY ShownOrders DEF Named
  <2>2. OrderChanges[v].row.id = "ORD-OOO-1"
    BY <2>1, OrderColumns DEF Named, Shown
  <2>3. v = 7
    BY <2>2, OrderIds DEF Change, Shown
  <2> QED
    BY <2>1, <2>3, OrderColumns, OrderOutcomes
<1>2. \E x \in Named("order", {"ORD-OOO-1"}) : TRUE
  <2>1. PICK b \in Bases : Entry("order", Version(7), b) \in View("order")
    BY ShownOrders DEF Shown
  <2>2. Entry("order", Version(7), b).row.id = "ORD-OOO-1"
    BY OrderColumns, OrderIds DEF Change
  <2> QED
    BY <2>1, <2>2 DEF Named
<1> QED
  BY <1>1, <1>2, ChecksOfL1

LEMMA Deleted == L1Inv /\ loaded # {} => CorePasses(2)
<1> SUFFICES ASSUME L1Inv, loaded # {}, NEW x \in Named("order", {"ORD-DEL-1"}) PROVE FALSE
  BY ChecksOfL1
<1>1. PICK v \in Shown, b \in Bases : x = Entry("order", Version(v), b)
  BY ShownOrders DEF Named
<1>2. OrderChanges[v].row.id = "ORD-DEL-1"
  BY <1>1, OrderColumns DEF Named, Shown
<1> QED
  BY <1>2, OrderIds DEF Change, Shown

LEMMA Resurrected == L1Inv /\ loaded # {} => CorePasses(3)
<1> SUFFICES ASSUME L1Inv, loaded # {} PROVE CorePasses(3)
  OBVIOUS
<1>1. ASSUME NEW x \in Named("order", {"ORD-RES-1"})
      PROVE  x.row.status = "delivered"
  <2>1. PICK v \in Shown, b \in Bases : x = Entry("order", Version(v), b)
    BY ShownOrders DEF Named
  <2>2. OrderChanges[v].row.id = "ORD-RES-1"
    BY <2>1, OrderColumns DEF Named, Shown
  <2>3. v = 12
    BY <2>2, OrderIds DEF Change, Shown
  <2> QED
    BY <2>1, <2>3, OrderColumns, OrderOutcomes
<1>2. \E x \in Named("order", {"ORD-RES-1"}) : TRUE
  <2>1. PICK b \in Bases : Entry("order", Version(12), b) \in View("order")
    BY ShownOrders DEF Shown
  <2>2. Entry("order", Version(12), b).row.id = "ORD-RES-1"
    BY OrderColumns, OrderIds DEF Change
  <2> QED
    BY <2>1, <2>2 DEF Named
<1> QED
  BY <1>1, <1>2, ChecksOfL1

-----------------------------------------------------------------------------
(* Items and stock positions *)

\* A snapshot with one row per key is shown as it was sent.
LEMMA SnapshotShown ==
    ASSUME L1Inv, loaded # {}, NEW d \in Datasets, d # "prices",
           NEW n \in Nat, NEW rows, Sent(d) = {rows[i] : i \in 1..n},
           \A i \in 1..n : HasKey(rows[i].row) /\ rows[i].op = "c",
           \A i, j \in 1..n : rows[i].row.id = rows[j].row.id => i = j
    PROVE  /\ \A x \in View(d) : \E i \in 1..n, b \in Bases : x = Entry(d, rows[i], b)
           /\ \A i \in 1..n : \E b \in Bases : Entry(d, rows[i], b) \in View(d)
<1>1. Keyed(d)
  BY DEF Keyed
<1>2. /\ \A x \in View(d) : \E e \in Sent(d), b \in Bases :
              LastOf(d, e) /\ e.op # "d" /\ x = Entry(d, e, b)
      /\ \A e : LastOf(d, e) /\ e.op # "d" => \E b \in Bases : Entry(d, e, b) \in View(d)
  BY <1>1, RowsAreLast
<1>3. ASSUME NEW i \in 1..n
      PROVE  LastOf(d, rows[i]) /\ rows[i].op # "d"
  <2>1. rows[i] \in Sent(d) /\ rows[i].ver \in 1..22
    BY SentVersions
  <2>2. ASSUME NEW f \in Sent(d), f.row.id = rows[i].row.id PROVE f.ver <= rows[i].ver
    BY <2>1, <2>2
  <2> QED
    BY <2>1, <2>2 DEF LastOf
<1> QED
  BY <1>2, <1>3

Item(i, id, sku, dc, days) ==
    OrderItems[i] = [ver |-> i, op |-> "c",
                     row |-> [id |-> id, sku |-> sku, dc |-> dc, at |-> -days * Day]]

LEMMA Items ==
    /\ DOMAIN OrderItems = 1..12
    /\ Item(1, "ORD-000123", "SKU-000001", "DC-01", 10)
    /\ Item(2, "ORD-000124", "SKU-000002", "DC-01", 5)
    /\ Item(3, "ORD-000125", "SKU-000001", "DC-02", 3)
    /\ Item(4, "ORD-000126", "SKU-000002", None, 2)
    /\ Item(5, "ORD-000127", "SKU-000001", "DC-01", 1)
    /\ Item(6, "ORD-000128", "SKU-000001", "DC-01", 4)
    /\ Item(7, "ORD-000129", "SKU-000002", "DC-01", 1)
    /\ Item(8, "ORD-000130", "SKU-000002", "DC-01", 1)
    /\ Item(9, "ORD-000131", "SKU-000002", "DC-01", 1)
    /\ Item(10, "ORD-LATE-1", "SKU-000001", "DC-01", 1)
    /\ Item(11, "ORD-LATE-2", "SKU-000002", "DC-01", 1)
    /\ Item(12, "ORD-ORPHAN", "SKU-000001", "DC-01", 0)
BY DEF OrderItems, Snapshot, Emitted, Create, Item

Position(i, sku, dc, available, safety) ==
    /\ HasKey(StockPositions[i].row) /\ {"available", "safety"} \subseteq DOMAIN StockPositions[i].row
    /\ StockPositions[i].op = "c" /\ StockPositions[i].row.id = <<sku, dc>>
    /\ StockPositions[i].row.available = available /\ StockPositions[i].row.safety = safety

LEMMA Positions ==
    /\ DOMAIN StockPositions = 1..4
    /\ Position(1, "SKU-000001", "DC-01", 450, 100)
    /\ Position(2, "SKU-000001", "DC-02", 5, 100)
    /\ Position(3, "SKU-000002", "DC-01", 280, 50)
    /\ Position(4, "SKU-000003", "DC-01", 1000, 100)
BY DEF StockPositions, Snapshot, Emitted, Create, Position, HasKey

LEMMA ItemKeys ==
    /\ "order_item" \in Datasets /\ Sent("order_item") = {OrderItems[i] : i \in 1..12}
    /\ \A i \in 1..12 : /\ HasKey(OrderItems[i].row) /\ OrderItems[i].op = "c"
                        /\ DOMAIN OrderItems[i].row = {"id", "sku", "dc", "at"}
    /\ \A i, j \in 1..12 : OrderItems[i].row.id = OrderItems[j].row.id => i = j
<1>1. "order_item" \in Datasets /\ Sent("order_item") = {OrderItems[i] : i \in 1..12}
  BY Items DEF Sent, Datasets, Generated
<1>2. \A i \in 1..12 : /\ HasKey(OrderItems[i].row) /\ OrderItems[i].op = "c"
                       /\ DOMAIN OrderItems[i].row = {"id", "sku", "dc", "at"}
  BY Items DEF Item, HasKey
<1>3. \A i, j \in 1..12 : OrderItems[i].row.id = OrderItems[j].row.id => i = j
  BY Items, SMTT(60) DEF Item
<1> QED
  BY <1>1, <1>2, <1>3

LEMMA PositionKeys ==
    /\ "stock_position" \in Datasets /\ Sent("stock_position") = {StockPositions[i] : i \in 1..4}
    /\ \A i \in 1..4 : HasKey(StockPositions[i].row) /\ StockPositions[i].op = "c"
    /\ \A i, j \in 1..4 : StockPositions[i].row.id = StockPositions[j].row.id => i = j
<1>1. "stock_position" \in Datasets /\ Sent("stock_position") = {StockPositions[i] : i \in 1..4}
  BY Positions DEF Sent, Datasets, Generated
<1>2. \A i \in 1..4 : HasKey(StockPositions[i].row) /\ StockPositions[i].op = "c"
  BY Positions DEF Position
<1>3. \A i, j \in 1..4 : StockPositions[i].row.id = StockPositions[j].row.id => i = j
  BY Positions DEF Position
<1> QED
  BY <1>1, <1>2, <1>3

LEMMA ShownItems ==
    ASSUME L1Inv, loaded # {}
    PROVE  /\ \A x \in View("order_item") :
                  \E i \in 1..12, b \in Bases : x = Entry("order_item", OrderItems[i], b)
           /\ \A i \in 1..12 : \E b \in Bases : Entry("order_item", OrderItems[i], b) \in View("order_item")
<1>1. \A i \in 1..12 : HasKey(OrderItems[i].row) /\ OrderItems[i].op = "c"
  BY ItemKeys
<1>2. \A i, j \in 1..12 : OrderItems[i].row.id = OrderItems[j].row.id => i = j
  BY ItemKeys
<1>3. "order_item" \in Datasets /\ Sent("order_item") = {OrderItems[i] : i \in 1..12}
  BY ItemKeys
<1> QED
  BY <1>1, <1>2, <1>3, SnapshotShown

LEMMA ShownPositions ==
    ASSUME L1Inv, loaded # {}
    PROVE  /\ \A x \in View("stock_position") :
                  \E i \in 1..4, b \in Bases : x = Entry("stock_position", StockPositions[i], b)
           /\ \A i \in 1..4 : \E b \in Bases :
                  Entry("stock_position", StockPositions[i], b) \in View("stock_position")
BY PositionKeys, SnapshotShown

LEMMA ItemColumns ==
    ASSUME NEW i \in 1..12, NEW b
    PROVE  LET row == Entry("order_item", OrderItems[i], b).row
           IN  /\ row.id = OrderItems[i].row.id /\ row.sku = OrderItems[i].row.sku
               /\ row.dc = OrderItems[i].row.dc /\ row.at = OrderItems[i].row.at + b
BY ItemKeys, EntryAt, EntryField

\* r is the row of item i in a load with base b.
IsItem(r, i, b) ==
    /\ r.id = OrderItems[i].row.id /\ r.sku = OrderItems[i].row.sku
    /\ r.dc = OrderItems[i].row.dc /\ r.at = OrderItems[i].row.at + b

LEMMA ItemRows ==
    ASSUME L1Inv, loaded # {}
    PROVE  /\ \A r \in Rows("order_item") : \E i \in 1..12, b \in Bases : IsItem(r, i, b)
           /\ \A i \in 1..12 : \E r \in Rows("order_item"), b \in Bases : IsItem(r, i, b)
<1>1. \A i \in 1..12 : \A b : IsItem(Entry("order_item", OrderItems[i], b).row, i, b)
  BY ItemColumns DEF IsItem
<1>2. ASSUME NEW x \in View("order_item")
      PROVE  \E i \in 1..12, b \in Bases : IsItem(x.row, i, b)
  BY <1>1, ShownItems
<1>3. ASSUME NEW i \in 1..12
      PROVE  \E r \in Rows("order_item"), b \in Bases : IsItem(r, i, b)
  <2>1. PICK b \in Bases : Entry("order_item", OrderItems[i], b) \in View("order_item")
    BY ShownItems
  <2>2. Entry("order_item", OrderItems[i], b).row \in Rows("order_item")
    BY <2>1 DEF Rows
  <2> QED
    BY <1>1, <2>2
<1> QED
  BY <1>2, <1>3 DEF Rows

LEMMA PositionColumns ==
    ASSUME NEW i \in 1..4, NEW b
    PROVE  LET row == Entry("stock_position", StockPositions[i], b).row
           IN  /\ row.id = StockPositions[i].row.id
               /\ row.available = StockPositions[i].row.available
               /\ row.safety = StockPositions[i].row.safety
<1>1. \A n \in 1..4 : HasKey(StockPositions[n].row) /\ {"available", "safety"} \subseteq DOMAIN StockPositions[n].row
  BY Positions DEF Position
<1> QED
  BY <1>1, EntryAt, EntryField

\* The one item without an order is the orphan.
LEMMA Orphan == L1Inv /\ loaded # {} => CorePasses(4)
<1> SUFFICES ASSUME L1Inv, loaded # {} PROVE CorePasses(4)
  OBVIOUS
<1> DEFINE items == {i.id : i \in Rows("order_item")}
           orders == {o.id : o \in Rows("order")}
<1>1. \A k \in items : \E i \in 1..12 : k = OrderItems[i].row.id
  BY ItemRows DEF IsItem
<1>2. \A i \in 1..12 : OrderItems[i].row.id \in items
  BY ItemRows DEF IsItem
<1>3. \A k \in orders : \E v \in Shown : k = OrderChanges[v].row.id
  BY ShownOrders, OrderColumns DEF Rows, Shown
<1>4. \A v \in Shown : OrderChanges[v].row.id \in orders
  <2> SUFFICES ASSUME NEW v \in Shown PROVE OrderChanges[v].row.id \in orders
    OBVIOUS
  <2>1. PICK b \in Bases : Entry("order", Version(v), b) \in View("order")
    BY ShownOrders
  <2>2. Entry("order", Version(v), b).row.id = OrderChanges[v].row.id
    BY OrderColumns DEF Shown
  <2> QED
    BY <2>1, <2>2 DEF Rows
<1> HIDE DEF items, orders
<1>5. "ORD-ORPHAN" \notin orders
  BY <1>3, OrderIds DEF Change, Shown
<1>6. "ORD-ORPHAN" \in items
  BY <1>2, Items DEF Item
<1>7. \A i \in 1..11 : OrderItems[i].row.id \in orders
  BY <1>4, Items, OrderIds DEF Item, Change, Shown
<1>8. OrderItems[12].row.id = "ORD-ORPHAN"
  BY Items DEF Item
<1>9. items \ orders = {"ORD-ORPHAN"}
  <2>1. ASSUME NEW k \in items, k \notin orders PROVE k = "ORD-ORPHAN"
    <3>1. PICK i \in 1..12 : k = OrderItems[i].row.id
      BY <1>1
    <3>2. i = 12
      BY <1>7, <2>1, <3>1
    <3> QED
      BY <1>8, <3>1, <3>2
  <2> QED
    BY <1>5, <1>6, <2>1
<1> QED
  BY <1>9, ChecksOfL1 DEF items, orders

\* What the join with the stock positions says of a SKU and a distribution center.
LEMMA StockSays ==
    ASSUME L1Inv, loaded # {}, NEW i
    PROVE  /\ i.sku = "SKU-000001" /\ i.dc = "DC-01" => Stock(i) = "OK"
           /\ i.sku = "SKU-000001" /\ i.dc = "DC-02" => Stock(i) = "ABAIXO"
           /\ i.dc = None => Stock(i) = "SEM_POSICAO"
<1> DEFINE found == {s \in Rows("stock_position") : s.id = <<i.sku, i.dc>>}
<1>1. Stock(i) = IF found = {} THEN "SEM_POSICAO"
                 ELSE IF \E s \in found : s.available < s.safety THEN "ABAIXO" ELSE "OK"
  BY DEF Stock
<1>2. \A s \in Rows("stock_position") :
          \E n \in 1..4 : /\ s.id = StockPositions[n].row.id
                          /\ s.available = StockPositions[n].row.available
                          /\ s.safety = StockPositions[n].row.safety
  BY ShownPositions, PositionColumns DEF Rows
<1>3. \A n \in 1..4 : \E s \in Rows("stock_position") : s.id = StockPositions[n].row.id
  BY ShownPositions, PositionColumns DEF Rows
<1>4. CASE i.sku = "SKU-000001" /\ i.dc = "DC-01"
  <2>1. found # {}
    BY <1>3, <1>4, Positions DEF Position
  <2>2. \A s \in found : s.available = 450 /\ s.safety = 100
    BY <1>2, <1>4, Positions DEF Position
  <2> QED
    BY <1>1, <1>4, <2>1, <2>2 DEF None
<1>5. CASE i.sku = "SKU-000001" /\ i.dc = "DC-02"
  <2>1. found # {}
    BY <1>3, <1>5, Positions DEF Position
  <2>2. \A s \in found : s.available = 5 /\ s.safety = 100
    BY <1>2, <1>5, Positions DEF Position
  <2> QED
    BY <1>1, <1>5, <2>1, <2>2 DEF None
<1>6. CASE i.dc = None
  <2>1. found = {}
    BY <1>2, <1>6, Positions DEF Position, None
  <2> QED
    BY <1>1, <1>6, <2>1 DEF None
<1> QED
  BY <1>4, <1>5, <1>6

LEMMA StockChecks == L1Inv /\ loaded # {} => CorePasses(8)
<1> SUFFICES ASSUME L1Inv, loaded # {} PROVE CorePasses(8)
  OBVIOUS
<1> DEFINE rows == {x.row : x \in Named("order_item", {"ORD-000123", "ORD-000125", "ORD-000126"})}
           says == {<<i.id, Stock(i)>> : i \in rows}
           right == {<<"ORD-000123", "OK">>, <<"ORD-000125", "ABAIXO">>, <<"ORD-000126", "SEM_POSICAO">>}
<1>1. rows = {r \in Rows("order_item") : r.id \in {"ORD-000123", "ORD-000125", "ORD-000126"}}
  BY DEF Named, Rows
<1>2. \A i \in 1..12 : OrderItems[i].row.id \in {"ORD-000123", "ORD-000125", "ORD-000126"} <=> i \in {1, 3, 4}
  BY Items DEF Item
<1>3. \A r \in rows : \E n \in {1, 3, 4}, b \in Bases : IsItem(r, n, b)
  BY <1>1, <1>2, ItemRows DEF IsItem
<1>4. \A n \in {1, 3, 4} : \E r \in rows, b \in Bases : IsItem(r, n, b)
  <2> SUFFICES ASSUME NEW n \in {1, 3, 4} PROVE \E r \in rows, b \in Bases : IsItem(r, n, b)
    OBVIOUS
  <2>1. PICK r \in Rows("order_item"), b \in Bases : IsItem(r, n, b)
    BY ItemRows
  <2>2. r \in rows
    BY <1>1, <1>2, <2>1 DEF IsItem
  <2> QED
    BY <2>1, <2>2
<1>5. \A r, b : /\ IsItem(r, 1, b) => <<r.id, Stock(r)>> = <<"ORD-000123", "OK">>
                /\ IsItem(r, 3, b) => <<r.id, Stock(r)>> = <<"ORD-000125", "ABAIXO">>
                /\ IsItem(r, 4, b) => <<r.id, Stock(r)>> = <<"ORD-000126", "SEM_POSICAO">>
  BY Items, StockSays DEF Item, IsItem
<1> HIDE DEF rows
<1>6. says = right
  BY <1>3, <1>4, <1>5
<1> QED
  BY <1>6, ChecksOfL1 DEF rows

\* After a load that ran to its end on a complete schema, the checks of verify.sh that
\* look at orders, items and stock pass for good: after any stopped apply, any load that
\* followed, aborted or not, in progress or not.
THEOREM MatrixStays == Spec => []MatrixOfL1
<1>1. L1Inv => MatrixOfL1
  BY OutOfOrder, Deleted, Resurrected, Orphan, StockChecks DEF MatrixOfL1
<1> QED
  BY <1>1, L1Invariant, PTL

-----------------------------------------------------------------------------
(* Prices: the ASOF JOIN *)

Price(n, sku, age, at) ==
    Prices[n] = [ver |-> n, op |-> "c", row |-> [id |-> sku, age |-> age, at |-> at]]

LEMMA PriceList ==
    /\ DOMAIN Prices = 1..4
    /\ Price(1, "SKU-000001", "old", -90 * Day) /\ Price(2, "SKU-000001", "new", -2 * Day)
    /\ Price(3, "SKU-000002", "old", -90 * Day) /\ Price(4, "SKU-000002", "new", -2 * Day)
BY DEF Prices, Snapshot, Emitted, Create, Price, PriceChangeAt

LEMMA PriceSent ==
    /\ "prices" \in Datasets /\ Sent("prices") = {Prices[n] : n \in 1..4}
    /\ \A n \in 1..4 : /\ HasKey(Prices[n].row) /\ Prices[n].op = "c" /\ Prices[n].ver = n
                       /\ "age" \in DOMAIN Prices[n].row
<1>1. "prices" \in Datasets /\ Sent("prices") = {Prices[n] : n \in 1..4}
  BY PriceList DEF Sent, Datasets, Generated
<1>2. \A n \in 1..4 : /\ HasKey(Prices[n].row) /\ Prices[n].op = "c" /\ Prices[n].ver = n
                      /\ "age" \in DOMAIN Prices[n].row
  BY PriceList DEF Price, HasKey
<1> QED
  BY <1>1, <1>2

\* p is the row of price n in a load with base b.
IsPrice(p, n, b) ==
    p.id = Prices[n].row.id /\ p.age = Prices[n].row.age /\ p.at = Prices[n].row.at + b

LEMMA PriceColumns ==
    ASSUME NEW n \in 1..4, NEW b
    PROVE  LET x == Entry("prices", Prices[n], b)
           IN  /\ IsPrice(x.row, n, b) /\ x.ver = n /\ x.op = "c"
               /\ x.key = <<Prices[n].row.id, Prices[n].row.at + b>>
<1>1. HasKey(Prices[n].row) /\ "age" \in DOMAIN Prices[n].row /\ Prices[n].ver = n /\ Prices[n].op = "c"
  BY PriceSent
<1>2. Entry("prices", Prices[n], b).row.age = Prices[n].row.age
  BY <1>1, EntryField
<1> QED
  BY <1>1, <1>2, EntryAt, EntryIs, PriceKey DEF IsPrice

LEMMA PriceRows ==
    ASSUME L1Inv
    PROVE  /\ \A x \in tables["prices"] :
                  x.row \in Rows("prices") /\ \E n \in 1..4, b \in Bases : x = Entry("prices", Prices[n], b)
           /\ \A p \in Rows("prices") : \E n \in 1..4, b \in Bases : IsPrice(p, n, b)
<1>1. ASSUME NEW x \in tables["prices"]
      PROVE  \E n \in 1..4, b \in Bases : x = Entry("prices", Prices[n], b)
  <2>1. PICK b \in Bases : x \in Batch("prices", b)
    BY PriceSent DEF L1Inv, FromFiles
  <2> QED
    BY <2>1, BatchEntries, PriceSent
<1>2. \A x \in tables["prices"] : x.op = "c" /\ x.row \in Rows("prices")
  <2> SUFFICES ASSUME NEW x \in tables["prices"] PROVE x.op = "c" /\ x.row \in Rows("prices")
    OBVIOUS
  <2>1. x.op = "c"
    BY <1>1, PriceColumns
  <2> QED
    BY <2>1 DEF Rows, View
<1>3. ASSUME NEW p \in Rows("prices")
      PROVE  \E n \in 1..4, b \in Bases : IsPrice(p, n, b)
  <2>1. PICK x \in tables["prices"] : p = x.row
    BY DEF Rows, View
  <2> QED
    BY <1>1, <2>1, PriceColumns
<1> QED
  BY <1>1, <1>2, <1>3

\* A price that landed is there, or the change of a load at just that instant; a price
\* change is there.
LEMMA PriceThere ==
    ASSUME L1Inv, NEW b \in Bases, Covers(tables["prices"], Batch("prices", b)), NEW n \in 1..4
    PROVE  \E p \in Rows("prices") :
               /\ p.id = Prices[n].row.id /\ p.at = Prices[n].row.at + b
               /\ n \in {2, 4} => p.age = "new"
<1> DEFINE e == Entry("prices", Prices[n], b)
<1>1. e \in Batch("prices", b) /\ e.key = <<Prices[n].row.id, Prices[n].row.at + b>> /\ e.ver = n
  BY BatchEntries, PriceSent, PriceColumns
<1>2. PICK x \in tables["prices"] : x.key = e.key /\ x.ver >= e.ver
  BY <1>1 DEF Covers
<1> HIDE DEF e
<1>3. PICK m \in 1..4, c \in Bases : x = Entry("prices", Prices[m], c)
  BY PriceRows
<1>4. IsPrice(x.row, m, c) /\ x.ver = m /\ x.key = <<Prices[m].row.id, Prices[m].row.at + c>>
  BY <1>3, PriceColumns
<1>5. Prices[m].row.id = Prices[n].row.id /\ Prices[m].row.at + c = Prices[n].row.at + b /\ m >= n
  BY <1>1, <1>2, <1>4
<1>6. n \in {2, 4} => m = n
  BY <1>5, PriceList DEF Price
<1>7. n \in {2, 4} => Prices[n].row.age = "new"
  BY PriceList DEF Price
<1> QED
  BY <1>4, <1>5, <1>6, <1>7, PriceRows DEF IsPrice

\* The instants are integers, not more than 90 days before the epoch of the bases.
LEMMA PriceInstants ==
    ASSUME L1Inv, NEW p \in Rows("prices")
    PROVE  p.at \in Int /\ p.at + 90 * Day \in Nat /\ p.age \in {"old", "new"}
<1>1. PICK n \in 1..4, b \in Bases : IsPrice(p, n, b)
  BY PriceRows
<1>2. b \in Nat
  BY MockAssumption DEF MockAssumption
<1>3. Prices[n].row.at \in {-90 * Day, -2 * Day} /\ Prices[n].row.age \in {"old", "new"}
  BY PriceList DEF Price
<1> QED
  BY <1>1, <1>2, <1>3 DEF IsPrice, Day

\* An item has some price in force as soon as one lies before it.
LEMMA PricedExists ==
    ASSUME L1Inv, NEW i, i.at \in Int, i.at + 90 * Day \in Nat,
           NEW q \in Rows("prices"), q.id = i.sku, q.at <= i.at
    PROVE  \E p \in Priced(i) : TRUE
<1> DEFINE before == {p \in Rows("prices") : p.id = i.sku /\ p.at <= i.at}
           since == {p.at + 90 * Day : p \in before}
<1>1. since \subseteq Nat /\ \A t \in since : t <= i.at + 90 * Day
  BY PriceInstants DEF Day
<1>2. since # {}
  OBVIOUS
<1>3. PICK top \in since : \A t \in since : top >= t
  <2> HIDE DEF since
  <2> QED
    BY <1>1, <1>2, GreatestExists
<1>4. PICK p \in before : top = p.at + 90 * Day
  OBVIOUS
<1>5. \A r \in before : r.at <= p.at
  <2> SUFFICES ASSUME NEW r \in before PROVE r.at <= p.at
    OBVIOUS
  <2>1. r.at + 90 * Day <= p.at + 90 * Day
    BY <1>3, <1>4
  <2>2. r.at \in Int /\ p.at \in Int
    BY PriceInstants
  <2> QED
    BY <2>1, <2>2 DEF Day
<1>6. p \in Priced(i)
  BY <1>5 DEF Priced
<1> QED
  BY <1>6

\* The items with the days between them and their base.
LEMMA ItemDays ==
    ASSUME NEW i \in 1..12
    PROVE  \E days \in 0..10 :
               /\ OrderItems[i].row.at = -days * Day
               /\ OrderItems[i].row.id \in BeforeChange => days >= 3
               /\ OrderItems[i].row.id \notin BeforeChange => days <= 2
               /\ OrderItems[i].row.sku \in {"SKU-000001", "SKU-000002"}
<1>1. \A n \in 1..12 : OrderItems[n].row.sku \in {"SKU-000001", "SKU-000002"}
  BY Items DEF Item
<1>2. \A n \in 1..12 : \E days \in 0..10 :
           /\ OrderItems[n].row.at = -days * Day
           /\ OrderItems[n].row.id \in BeforeChange => days >= 3
           /\ OrderItems[n].row.id \notin BeforeChange => days <= 2
  BY Items, SMTT(60) DEF Item, BeforeChange
<1> QED
  BY <1>1, <1>2

\* The price in force of one item, when the prices of one age lie close together.
LEMMA PricedItem ==
    ASSUME L1Inv, \A p, q \in Rows("prices") : p.age = q.age => p.at - q.at < Day,
           NEW r, NEW i \in 1..12, NEW b \in Bases, IsItem(r, i, b),
           Covers(tables["prices"], Batch("prices", b))
    PROVE  {p.age : p \in Priced(r)} = {IF r.id \in BeforeChange THEN "old" ELSE "new"}
<1>1. b \in Nat
  BY MockAssumption DEF MockAssumption
<1>2. PICK days \in 0..10 :
          /\ OrderItems[i].row.at = -days * Day
          /\ OrderItems[i].row.id \in BeforeChange => days >= 3
          /\ OrderItems[i].row.id \notin BeforeChange => days <= 2
          /\ OrderItems[i].row.sku \in {"SKU-000001", "SKU-000002"}
  BY ItemDays
<1>3. /\ r.at = b - days * Day /\ r.sku \in {"SKU-000001", "SKU-000002"}
      /\ r.id \in BeforeChange => days >= 3
      /\ r.id \notin BeforeChange => days <= 2
  BY <1>1, <1>2 DEF IsItem, Day
\* The two prices of its SKU that its load brought.
<1>4. PICK was \in Rows("prices") : was.id = r.sku /\ was.at = b - 90 * Day
  <2>1. CASE r.sku = "SKU-000001"
    <3>1. Prices[1].row.id = r.sku /\ Prices[1].row.at = -90 * Day
      BY <2>1, PriceList DEF Price
    <3>2. Prices[1].row.at + b = b - 90 * Day
      BY <1>1, <3>1 DEF Day
    <3> QED
      BY <3>1, <3>2, PriceThere
  <2>2. CASE r.sku = "SKU-000002"
    <3>1. Prices[3].row.id = r.sku /\ Prices[3].row.at = -90 * Day
      BY <2>2, PriceList DEF Price
    <3>2. Prices[3].row.at + b = b - 90 * Day
      BY <1>1, <3>1 DEF Day
    <3> QED
      BY <3>1, <3>2, PriceThere
  <2> QED
    BY <1>3, <2>1, <2>2
<1>5. PICK is \in Rows("prices") : is.id = r.sku /\ is.at = b - 2 * Day /\ is.age = "new"
  <2>1. CASE r.sku = "SKU-000001"
    <3>1. Prices[2].row.id = r.sku /\ Prices[2].row.at = -2 * Day
      BY <2>1, PriceList DEF Price
    <3>2. Prices[2].row.at + b = b - 2 * Day
      BY <1>1, <3>1 DEF Day
    <3> QED
      BY <3>1, <3>2, PriceThere
  <2>2. CASE r.sku = "SKU-000002"
    <3>1. Prices[4].row.id = r.sku /\ Prices[4].row.at = -2 * Day
      BY <2>2, PriceList DEF Price
    <3>2. Prices[4].row.at + b = b - 2 * Day
      BY <1>1, <3>1 DEF Day
    <3> QED
      BY <3>1, <3>2, PriceThere
  <2> QED
    BY <1>3, <2>1, <2>2
<1>6. was.age = "old"
  <2>1. was.age = "new" => is.at - was.at < Day
    BY <1>5
  <2> QED
    BY <1>1, <1>4, <1>5, <2>1, PriceInstants DEF Day
<1>7. \A p \in Rows("prices") : /\ p.at \in Int /\ p.age \in {"old", "new"}
                                /\ p.age = "new" => p.at > b - 3 * Day
                                /\ p.age = "old" => p.at < b - 89 * Day
  <2> SUFFICES ASSUME NEW p \in Rows("prices")
               PROVE  /\ p.at \in Int /\ p.age \in {"old", "new"}
                      /\ p.age = "new" => p.at > b - 3 * Day
                      /\ p.age = "old" => p.at < b - 89 * Day
    OBVIOUS
  <2>1. p.age = "new" => is.at - p.at < Day
    BY <1>5
  <2>2. p.age = "old" => p.at - was.at < Day
    BY <1>6
  <2> QED
    BY <1>1, <1>4, <1>5, <2>1, <2>2, PriceInstants DEF Day
<1>8. \A p \in Priced(r) : /\ p \in Rows("prices") /\ p.at <= r.at
                           /\ \A q \in Rows("prices") : q.id = r.sku /\ q.at <= r.at => q.at <= p.at
  BY DEF Priced
<1>9. r.at \in Int /\ r.at + 90 * Day \in Nat
  BY <1>1, <1>3 DEF Day
<1>10. CASE r.id \in BeforeChange
  <2>1. r.at <= b - 3 * Day /\ was.at <= r.at
    BY <1>1, <1>3, <1>4, <1>10 DEF Day
  <2>2. \A p \in Priced(r) : p.age = "old"
    BY <1>1, <1>7, <1>8, <1>9, <2>1 DEF Day
  <2>3. \E p \in Priced(r) : TRUE
    BY <1>4, <1>9, <2>1, PricedExists
  <2> QED
    BY <1>10, <2>2, <2>3
<1>11. CASE r.id \notin BeforeChange
  <2>1. is.at <= r.at
    BY <1>1, <1>3, <1>5, <1>11 DEF Day
  <2>2. \A p \in Priced(r) : p.age = "new"
    BY <1>1, <1>5, <1>7, <1>8, <2>1 DEF Day
  <2>3. \E p \in Priced(r) : TRUE
    BY <1>5, <1>9, <2>1, PricedExists
  <2> QED
    BY <1>11, <2>2, <2>3
<1> QED
  BY <1>10, <1>11

LEMMA PriceChecks ==
    CorePasses(7) <=>
        \A i \in Rows("order_item") :
            {p.age : p \in Priced(i)} = {IF i.id \in BeforeChange THEN "old" ELSE "new"}
BY DEF CorePasses

\* At any time an item, of a complete load or not, is joined with the price that it was
\* meant to have, as long as all the prices of one age that ever arrived lie within less than a day.
THEOREM PricesInForce == Spec => []PricesAsOf
<1>1. L1Inv => PricesAsOf
  <2> SUFFICES ASSUME L1Inv, \A p, q \in Rows("prices") : p.age = q.age => p.at - q.at < Day,
                      NEW r \in Rows("order_item")
               PROVE  {p.age : p \in Priced(r)} = {IF r.id \in BeforeChange THEN "old" ELSE "new"}
    BY PriceChecks DEF PricesAsOf
  <2>1. PICK x \in tables["order_item"] : r = x.row
    BY DEF Rows, View
  <2>2. PICK b \in Bases : x \in Batch("order_item", b) /\ Covers(tables["prices"], Batch("prices", b))
    BY DEF L1Inv, PricedItems
  <2>3. PICK i \in 1..12 : x = Entry("order_item", OrderItems[i], b)
    BY <2>2, BatchEntries, ItemKeys
  <2>4. IsItem(r, i, b)
    BY <2>1, <2>3, ItemColumns DEF IsItem
  <2> QED
    BY <2>2, <2>4, PricedItem
<1> QED
  BY <1>1, L1Invariant, PTL
===============================================================================
