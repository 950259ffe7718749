--------------------------- MODULE MockFlowProofs ---------------------------
(***************************************************************************)
(* What the mock flow keeps in order, whichever calls are made of it: for  *)
(* any bases, stops, windows, numbers of calls, of polls and of days.      *)
(***************************************************************************)
EXTENDS MockFlow, TLAPS

-----------------------------------------------------------------------------
(* The dataset: the sequence numbers of a file are different *)

\* Every row of a file has a sequence number of its own.
Numbered(rows) ==
    /\ \A i \in DOMAIN rows : rows[i].ver \in Nat
    /\ \A i, j \in DOMAIN rows : rows[i].ver = rows[j].ver => i = j

\* SeqCounter numbers a list from 1.
LEMMA EmittedNumbered ==
    ASSUME NEW changes, DOMAIN changes \subseteq Nat
    PROVE  Numbered(Emitted(changes))
BY DEF Emitted, Numbered

LEMMA SnapshotNumbered ==
    ASSUME NEW rows, DOMAIN rows \subseteq Nat
    PROVE  Numbered(Snapshot(rows))
<1> DEFINE changes == [i \in DOMAIN rows |-> Create(rows[i])]
<1>1. DOMAIN changes \subseteq Nat
  OBVIOUS
<1>2. Snapshot(rows) = Emitted(changes)
  BY DEF Snapshot
<1> HIDE DEF changes
<1> QED
  BY <1>1, <1>2, EmittedNumbered

\* The snapshot of a list of three rows.
LEMMA ThreeNumbered ==
    ASSUME NEW a, NEW b, NEW c
    PROVE  Numbered(Snapshot(<<a, b, c>>))
BY SnapshotNumbered

\* The two versions of ORD-OOO-1 are in each other's place.
LEMMA OrdersSwapped ==
    /\ DOMAIN Orders = 1..18
    /\ \A i \in 1..18 : Orders[i] = Emitted(OrderChanges)[IF i = 6 THEN 7 ELSE IF i = 7 THEN 6 ELSE i]
<1> DEFINE bySeq == Emitted(OrderChanges)
<1>1. DOMAIN OrderChanges = 1..18
  BY DEF OrderChanges
<1>2. DOMAIN bySeq = 1..18
  BY <1>1 DEF Emitted
<1>3. Orders = [bySeq EXCEPT ![6] = bySeq[7], ![7] = bySeq[6]]
  BY DEF Orders
<1> HIDE DEF bySeq
<1>4. DOMAIN Orders = 1..18
  BY <1>2, <1>3
<1>5. \A i \in 1..18 : Orders[i] = bySeq[IF i = 6 THEN 7 ELSE IF i = 7 THEN 6 ELSE i]
  BY <1>2, <1>3
<1> QED
  BY <1>4, <1>5 DEF bySeq

LEMMA OrdersNumbered == Numbered(Orders)
<1>1. DOMAIN OrderChanges = 1..18
  BY DEF OrderChanges
<1>2. \A i \in 1..18 : Orders[i].ver = IF i = 6 THEN 7 ELSE IF i = 7 THEN 6 ELSE i
  BY <1>1, OrdersSwapped DEF Emitted
<1> QED
  BY <1>2, OrdersSwapped DEF Numbered

LEMMA DatasetNumbered == \A d \in Datasets : Numbered(Generated[d])
<1>1. Numbered(BusinessUnits)
  BY ThreeNumbered DEF BusinessUnits
<1>2. Numbered(DiscountCodes)
  BY SnapshotNumbered DEF DiscountCodes
<1>3. Numbered(Prices)
  BY SnapshotNumbered DEF Prices
<1>4. Numbered(Customers)
  BY SnapshotNumbered DEF Customers
<1>5. Numbered(StockPositions)
  BY SnapshotNumbered DEF StockPositions
<1>6. Numbered(OrderItems)
  BY SnapshotNumbered DEF OrderItems
<1>7. Numbered(OrderPayments)
  <2>1. DOMAIN PaymentChanges \subseteq Nat
    BY DEF PaymentChanges
  <2> QED
    BY <2>1, EmittedNumbered DEF OrderPayments
<1> QED
  BY <1>1, <1>2, <1>3, <1>4, <1>5, <1>6, <1>7, OrdersNumbered DEF Datasets, Generated

\* So no two rows of a batch, or of the part of it that was written, have one version.
Versions(rows) ==
    /\ \A x \in rows : x.ver \in Nat
    /\ \A x, y \in rows : x.ver = y.ver => x = y

LEMMA BatchVersions ==
    ASSUME NEW d \in Datasets, NEW base
    PROVE  Versions(Batch(d, base))
<1> DEFINE stamped(e) == [e.row EXCEPT !.at = @ + base]
           entry(e) == [key |-> IF d = "prices" THEN <<stamped(e).id, stamped(e).at>> ELSE stamped(e).id,
                        ver |-> e.ver, op |-> e.op, row |-> stamped(e)]
<1>1. Batch(d, base) = {entry(e) : e \in {Generated[d][i] : i \in DOMAIN Generated[d]}}
  BY DEF Batch
<1>2. \A e : entry(e).ver = e.ver
  OBVIOUS
<1> HIDE DEF entry
<1>3. ASSUME NEW x \in Batch(d, base)
      PROVE  \E i \in DOMAIN Generated[d] : x = entry(Generated[d][i]) /\ x.ver = Generated[d][i].ver
  BY <1>1, <1>2
<1> QED
  BY <1>3, DatasetNumbered DEF Versions, Numbered

-----------------------------------------------------------------------------
(* The inductive invariant *)

VersionsAreNumbers == \A d \in Datasets : \A x \in tables[d] : x.ver \in Nat

\* The variables are functions and records of the right shape.
Shapes ==
    /\ DOMAIN tables = Datasets /\ DOMAIN dicts = Dicts
    /\ DOMAIN marts = Marts /\ DOMAIN refresh = Marts
    /\ \A m \in Marts : DOMAIN refresh[m] = {"asked", "on", "rows", "parts", "seen"}
    /\ DOMAIN verify = {"at", "tries", "failed", "ready", "asked", "waited"}

\* What a refresh in progress has read has one row per key too, whole or in part.
RefreshRows ==
    \A m \in Marts :
        OnePerKey(refresh[m].rows) /\ \A part \in refresh[m].parts : OnePerKey(part)

\* The load in progress was started at one of the bases.
LoadBase == load.file > 0 => load.base \in Bases

FlowInv == TypeOK /\ Shapes /\ VersionsAreNumbers /\ RefreshRows /\ LoadBase

-----------------------------------------------------------------------------
(* FINAL and the queries *)

\* FINAL leaves one row per key: of two rows with one key, the version, the order of the
\* inserts or the partition decides.
LEMMA FinalOnePerKey ==
    ASSUME NEW old, OnePerKey(old), \A x \in old : x.ver \in Nat,
           NEW new, Versions(new), NEW kept
    PROVE  OnePerKey(Final(old, new, kept)) /\ \A x \in Final(old, new, kept) : x.ver \in Nat
<1> DEFINE all == old \cup new
           beats(y, x) == \/ y.ver > x.ver
                          \/ y.ver = x.ver /\ IF x.key \in kept THEN y \in old ELSE y \in new
<1>1. Final(old, new, kept) = {x \in all : \A y \in all \ {x} : y.key = x.key => ~ beats(y, x)}
  BY DEF Final
<1>2. ASSUME NEW x \in all, NEW y \in all, x.key = y.key, x # y
      PROVE  beats(x, y) \/ beats(y, x)
  <2>1. x.ver \in Nat /\ y.ver \in Nat
    BY DEF Versions
  <2>2. CASE x.ver # y.ver
    BY <2>1, <2>2
  <2>3. CASE x.ver = y.ver
    <3>1. ~ (x \in old /\ y \in old)
      BY <1>2 DEF OnePerKey
    <3>2. ~ (x \in new /\ y \in new)
      BY <1>2, <2>3 DEF Versions
    <3> QED
      BY <1>2, <2>3, <3>1, <3>2
  <2> QED
    BY <2>2, <2>3
<1> HIDE DEF beats
<1> QED
  BY <1>1, <1>2 DEF OnePerKey, Versions

\* The GROUP BY of a mart's query gives one row per key, and so does a part of it.
LEMMA QueryOnePerKey ==
    ASSUME NEW m \in Marts
    PROVE  OnePerKey(Query(m)) /\ \A cut : OnePerKey(Part(m, cut))
<1>1. ASSUME NEW pays, NEW pairs
      PROVE  OnePerKey(FunnelRowsOf(pays, pairs))
  <2>1. \A k : FunnelRow(k, pays, pairs).key = k
    BY DEF FunnelRow
  <2> DEFINE keys == {FunnelKey(x[1], x[2]) : x \in pairs}
  <2>2. FunnelRowsOf(pays, pairs) = {FunnelRow(k, pays, pairs) : k \in keys}
    BY DEF FunnelRowsOf
  <2> HIDE DEF keys
  <2> QED
    BY <2>1, <2>2 DEF OnePerKey
<1>2. ASSUME NEW sold
      PROVE  OnePerKey(RevenueRowsOf(sold))
  <2>1. \A k : RevenueRow(k, sold).key = k
    BY DEF RevenueRow
  <2> QED
    BY <2>1 DEF RevenueRowsOf, OnePerKey
<1>3. OnePerKey(FunnelRows) /\ \A cut : OnePerKey(FunnelPart(cut))
  BY <1>1 DEF FunnelRows, FunnelPart
<1>4. OnePerKey(RevenueRows) /\ \A cut : OnePerKey(RevenuePart(cut))
  BY <1>2 DEF RevenueRows, RevenuePart
<1> QED
  BY <1>3, <1>4 DEF Query, Part

\* What the view keeps of a refresh: the business unit is in the key, so that the rows of
\* one key are all taken whole or all taken in part.
LEMMA KeptOnePerKey ==
    ASSUME NEW m, NEW whole, NEW part, NEW copies, OnePerKey(whole), OnePerKey(part)
    PROVE  OnePerKey(Kept(m, whole, part, copies))
<1> DEFINE renamed == Renamed(copies)
<1>1. \A x, y : x.key = y.key => BuOf(m, x) = BuOf(m, y)
  BY DEF BuOf
<1>2. Kept(m, whole, part, copies) =
        {r \in whole : BuOf(m, r) \notin renamed} \cup {r \in part : BuOf(m, r) \in renamed}
  BY DEF Kept
<1> HIDE DEF renamed
<1> QED
  BY <1>1, <1>2 DEF OnePerKey

LEMMA AppendedOnePerKey ==
    ASSUME NEW old, NEW new, OnePerKey(old), OnePerKey(new)
    PROVE  OnePerKey(Appended(old, new))
BY DEF OnePerKey, Appended

-----------------------------------------------------------------------------
(* The steps *)

LEMMA InitFlow == Init => FlowInv
<1> SUFFICES ASSUME Init PROVE FlowInv
  OBVIOUS
<1> USE MockAssumption DEF MockAssumption, Init
<1>1. TypeOK
  BY DEF TypeOK, OnePerKey, NoLoad, NoVerify, LastStatement, Files
<1>2. Shapes /\ RefreshRows /\ VersionsAreNumbers
  BY DEF Shapes, RefreshRows, VersionsAreNumbers, Waiting, NoVerify, OnePerKey
<1> QED
  BY <1>1, <1>2 DEF FlowInv, LoadBase, NoLoad

\* The file that the load is at, and what an INSERT of some of its rows does.
LEMMA FileFacts ==
    ASSUME FlowInv, load.file > 0
    PROVE  /\ load.file \in 1..8 /\ load.base \in Bases
           /\ Files[load.file] \in Datasets /\ Versions(File)
<1>1. Len(Files) = 8 /\ \A n \in 1..8 : Files[n] \in Datasets
  BY DEF Files, Datasets, Generated
<1>2. load.file \in 1..8 /\ load.base \in Bases
  BY <1>1 DEF FlowInv, TypeOK, LoadBase
<1>3. File = Batch(Files[load.file], load.base)
  BY <1>1, <1>2, Zenon DEF File, Contents
<1> QED
  BY <1>1, <1>2, <1>3, BatchVersions

LEMMA InsertKeeps ==
    ASSUME FlowInv, load.file > 0, NEW rows, Versions(rows), Insert(rows)
    PROVE  /\ DOMAIN tables' = Datasets
           /\ \A d \in Datasets : OnePerKey(tables'[d])
           /\ VersionsAreNumbers'
<1> DEFINE f == Files[load.file]
<1>1. f \in Datasets
  BY FileFacts
<1>2. /\ DOMAIN tables = Datasets /\ \A d \in Datasets : OnePerKey(tables[d])
      /\ \A d \in Datasets : \A x \in tables[d] : x.ver \in Nat
  BY DEF FlowInv, TypeOK, Shapes, VersionsAreNumbers
<1>3. CASE tables' = tables
  BY <1>2, <1>3 DEF VersionsAreNumbers
<1>4. ASSUME NEW kept, tables' = [tables EXCEPT ![f] = Final(tables[f], rows, kept)]
      PROVE  /\ DOMAIN tables' = Datasets
             /\ \A d \in Datasets : OnePerKey(tables'[d])
             /\ VersionsAreNumbers'
  <2>1. OnePerKey(Final(tables[f], rows, kept)) /\ \A x \in Final(tables[f], rows, kept) : x.ver \in Nat
    BY <1>1, <1>2, FinalOnePerKey
  <2> HIDE DEF f
  <2>2. \A d \in Datasets : tables'[d] = IF d = f THEN Final(tables[f], rows, kept) ELSE tables[d]
    BY <1>2, <1>4
  <2> QED
    BY <1>2, <1>4, <2>1, <2>2 DEF VersionsAreNumbers
<1> QED
  BY <1>3, <1>4 DEF Insert

LEMMA LoadFileKeeps == FlowInv /\ LoadFile => FlowInv'
<1> SUFFICES ASSUME FlowInv, LoadFile PROVE FlowInv'
  OBVIOUS
<1>1. /\ load.file > 0 /\ Insert(File)
      /\ UNCHANGED <<objects, dicts, marts, refresh, today, early, verify, calls>>
  BY DEF LoadFile
<1>2. /\ load.file \in 1..8 /\ load.base \in Bases /\ Versions(File) /\ Len(Files) = 8
  BY <1>1, FileFacts DEF Files
<1>3. /\ DOMAIN tables' = Datasets /\ VersionsAreNumbers'
      /\ \A d \in Datasets : OnePerKey(tables'[d])
  BY <1>1, <1>2, InsertKeeps
<1>4. /\ load' \in [file : 0..Len(Files), base : Bases \cup {0}]
      /\ (load'.file > 0 => load'.base \in Bases) /\ loaded' \subseteq Bases
  <2>1. load \in [file : 0..8, base : Bases \cup {0}] /\ loaded \subseteq Bases
    BY <1>2 DEF FlowInv, TypeOK
  <2>2. CASE load.file < Len(Files)
    <3>1. load' = [load EXCEPT !.file = @ + 1] /\ loaded' = loaded
      BY <2>2 DEF LoadFile
    <3> QED
      BY <1>2, <2>1, <2>2, <3>1
  <2>3. CASE ~ (load.file < Len(Files))
    <3>1. load' = NoLoad /\ loaded' \subseteq loaded \cup {load.base}
      BY <2>3 DEF LoadFile
    <3> QED
      BY <1>2, <2>1, <3>1 DEF NoLoad
  <2> QED
    BY <2>2, <2>3
<1> QED
  BY <1>1, <1>3, <1>4 DEF FlowInv, TypeOK, Shapes, RefreshRows, LoadBase

LEMMA AbortLoadKeeps == FlowInv /\ AbortLoad => FlowInv'
<1> SUFFICES ASSUME FlowInv, AbortLoad PROVE FlowInv'
  OBVIOUS
<1>1. /\ load.file > 0 /\ load' = NoLoad
      /\ UNCHANGED <<objects, dicts, marts, refresh, today, loaded, early, verify, calls>>
  BY DEF AbortLoad
<1>2. PICK months : Insert({x \in File : MonthOf(x.row.at) \in months})
  BY DEF AbortLoad
<1>3. Versions({x \in File : MonthOf(x.row.at) \in months})
  BY <1>1, FileFacts DEF Versions
<1>4. /\ DOMAIN tables' = Datasets /\ VersionsAreNumbers'
      /\ \A d \in Datasets : OnePerKey(tables'[d])
  <2> DEFINE written == {x \in File : MonthOf(x.row.at) \in months}
  <2>1. Versions(written) /\ Insert(written)
    BY <1>2, <1>3
  <2> HIDE DEF written
  <2> QED
    BY <1>1, <2>1, InsertKeeps
<1>5. load' \in [file : 0..Len(Files), base : Bases \cup {0}] /\ ~ (load'.file > 0)
  BY <1>1 DEF NoLoad, Files
<1> QED
  BY <1>1, <1>4, <1>5 DEF FlowInv, TypeOK, Shapes, RefreshRows, LoadBase

\* A query that loads a dictionary leaves one copy of it.
LEMMA LoadedOneCopy ==
    ASSUME FlowInv, NEW ds
    PROVE  DOMAIN Loaded(ds) = Dicts /\ \A d \in Dicts : \A c, e \in Loaded(ds)[d] : c = e
BY DEF FlowInv, TypeOK, Loaded

LEMMA StartRefreshKeeps ==
    ASSUME FlowInv, NEW m \in Marts, StartRefresh(m)
    PROVE  FlowInv'
<1> DEFINE parts == {Part(m, cut) : cut \in Cuts}
<1>1. /\ refresh' = [refresh EXCEPT ![m] = [asked |-> FALSE, on |-> TRUE, rows |-> Query(m),
                                            parts |-> parts, seen |-> dicts'["business_unit"]]]
      /\ dicts' = Loaded({"business_unit"})
      /\ UNCHANGED <<objects, tables, marts, today, load, loaded, early, verify, calls>>
  BY DEF StartRefresh
<1>2. OnePerKey(Query(m)) /\ \A part \in parts : OnePerKey(part)
  BY QueryOnePerKey
<1>3. DOMAIN dicts' = Dicts /\ \A d \in Dicts : \A c, e \in dicts'[d] : c = e
  BY <1>1, LoadedOneCopy
<1> HIDE DEF parts
<1>4. /\ DOMAIN refresh' = Marts /\ RefreshRows'
      /\ \A n \in Marts : DOMAIN refresh'[n] = {"asked", "on", "rows", "parts", "seen"}
  BY <1>1, <1>2 DEF FlowInv, Shapes, RefreshRows
<1> QED
  BY <1>1, <1>3, <1>4 DEF FlowInv, TypeOK, Shapes, VersionsAreNumbers, LoadBase

LEMMA FinishRefreshKeeps ==
    ASSUME FlowInv, NEW m \in Marts, FinishRefresh(m)
    PROVE  FlowInv'
<1>1. PICK part \in refresh[m].parts \cup {refresh[m].rows} :
        marts' = [marts EXCEPT ![m] =
                     Appended(@, Kept(m, refresh[m].rows, part, refresh[m].seen))]
  BY DEF FinishRefresh
<1>2. /\ refresh' = [refresh EXCEPT ![m] = [Waiting EXCEPT !.asked = refresh[m].asked]]
      /\ UNCHANGED <<objects, tables, dicts, today, load, loaded, early, verify, calls>>
  BY DEF FinishRefresh
<1>3. OnePerKey(marts[m]) /\ OnePerKey(refresh[m].rows) /\ OnePerKey(part)
  BY <1>1 DEF FlowInv, TypeOK, RefreshRows
<1>4. OnePerKey(Appended(marts[m], Kept(m, refresh[m].rows, part, refresh[m].seen)))
  BY <1>3, KeptOnePerKey, AppendedOnePerKey
<1>5. DOMAIN marts' = Marts /\ \A n \in Marts : OnePerKey(marts'[n])
  BY <1>1, <1>4 DEF FlowInv, Shapes, TypeOK
<1>6. /\ DOMAIN refresh' = Marts
      /\ \A n \in Marts : DOMAIN refresh'[n] = {"asked", "on", "rows", "parts", "seen"}
      /\ \A n \in Marts : \/ refresh'[n] = refresh[n]
                          \/ refresh'[n].rows = {} /\ refresh'[n].parts = {}
  BY <1>2 DEF FlowInv, Shapes, Waiting
<1>7. RefreshRows'
  BY <1>6 DEF FlowInv, RefreshRows, OnePerKey
<1> QED
  BY <1>2, <1>5, <1>6, <1>7 DEF FlowInv, TypeOK, Shapes, VersionsAreNumbers, LoadBase

LEMMA ReloadKeeps ==
    ASSUME FlowInv, NEW d \in Dicts, ReloadDict(d)
    PROVE  FlowInv'
<1>1. /\ dicts' = [dicts EXCEPT ![d] = {Source(d)}]
      /\ refresh' = [m \in Marts |->
                        IF d = "business_unit" /\ refresh[m].on
                        THEN [refresh[m] EXCEPT !.seen = @ \cup {Source(d)}] ELSE refresh[m]]
      /\ UNCHANGED <<objects, tables, marts, today, load, loaded, early, verify, calls>>
  BY DEF ReloadDict
<1>2. DOMAIN dicts' = Dicts /\ \A n \in Dicts : \A c, e \in dicts'[n] : c = e
  BY <1>1 DEF FlowInv, TypeOK, Shapes
<1>3. /\ DOMAIN refresh' = Marts
      /\ \A n \in Marts : DOMAIN refresh'[n] = {"asked", "on", "rows", "parts", "seen"}
      /\ \A n \in Marts : refresh'[n].rows = refresh[n].rows /\ refresh'[n].parts = refresh[n].parts
  BY <1>1 DEF FlowInv, Shapes
<1> QED
  BY <1>1, <1>2, <1>3 DEF FlowInv, TypeOK, Shapes, RefreshRows, VersionsAreNumbers, LoadBase

\* The steps of the operator that write no rows, and midnight.
LEMMA CallsKeep ==
    ASSUME FlowInv, ApplyDdl \/ StartLoad \/ NextDay
    PROVE  FlowInv'
<1> USE MockAssumption DEF MockAssumption
<1>1. CASE ApplyDdl
  <2>1. PICK n \in Stops \cup {LastStatement} : n >= objects /\ objects' = n
    BY <1>1 DEF ApplyDdl
  <2>2. /\ verify'.at = "idle" /\ verify'.failed = {} /\ verify'.asked = {}
        /\ DOMAIN verify' = {"at", "tries", "failed", "ready", "asked", "waited"}
    BY <1>1 DEF ApplyDdl, NoVerify
  <2> QED
    BY <1>1, <2>1, <2>2
    DEF ApplyDdl, Free, FlowInv, TypeOK, Shapes, RefreshRows, VersionsAreNumbers, LoadBase, LastStatement
<1>2. CASE StartLoad
  <2>1. PICK b \in Bases : load' = [file |-> 1, base |-> b] /\ early' \subseteq early \cup {b}
    BY <1>2 DEF StartLoad
  <2>2. load' \in [file : 0..Len(Files), base : Bases \cup {0}] /\ load'.base \in Bases
    BY <2>1 DEF Files
  <2>3. /\ verify'.at = "idle" /\ verify'.failed = {} /\ verify'.asked = {}
        /\ DOMAIN verify' = {"at", "tries", "failed", "ready", "asked", "waited"}
    BY <1>2 DEF StartLoad, NoVerify
  <2>4. early' \subseteq Bases
    BY <2>1 DEF FlowInv, TypeOK
  <2> QED
    BY <1>2, <2>2, <2>3, <2>4
    DEF StartLoad, Free, FlowInv, TypeOK, Shapes, RefreshRows, VersionsAreNumbers, LoadBase
<1>3. CASE NextDay
  BY <1>3 DEF NextDay, FlowInv, TypeOK, Shapes, RefreshRows, VersionsAreNumbers, LoadBase
<1> QED
  BY <1>1, <1>2, <1>3

\* The stages of verify.sh.
LEMMA VerifyKeeps ==
    ASSUME FlowInv, Look \/ AskRefresh \/ Poll \/ Read
    PROVE  FlowInv'
<1> USE MockAssumption DEF MockAssumption
<1>1. CASE Look
  <2>1. /\ verify'.at = "looked" /\ verify'.failed \subseteq CoreNumbers /\ verify'.asked = {}
        /\ DOMAIN verify' = {"at", "tries", "failed", "ready", "asked", "waited"}
    BY <1>1 DEF Look, NoVerify
  <2>2. DOMAIN dicts' = Dicts /\ \A d \in Dicts : \A c, e \in dicts'[d] : c = e
    BY <1>1, LoadedOneCopy DEF Look
  <2>3. calls' \in 0..MaxCalls /\ UNCHANGED <<objects, tables, marts, refresh, today, load, loaded, early>>
    BY <1>1 DEF Look, Free, FlowInv, TypeOK
  <2> QED
    BY <2>1, <2>2, <2>3 DEF FlowInv, TypeOK, Shapes, RefreshRows, VersionsAreNumbers, LoadBase
<1>2. CASE AskRefresh
  <2>1. /\ UNCHANGED <<objects, tables, dicts, marts, today, load, loaded, early, calls>>
    BY <1>2 DEF AskRefresh
  <2>2. PICK ms \in SUBSET Marts :
          /\ refresh' = [m \in Marts |-> [refresh[m] EXCEPT !.asked = @ \/ m \in ms]]
          /\ verify' = [verify EXCEPT !.at = "polling", !.asked = ms]
    BY <1>2 DEF AskRefresh
  <2>3. /\ DOMAIN refresh' = Marts
        /\ \A n \in Marts : DOMAIN refresh'[n] = {"asked", "on", "rows", "parts", "seen"}
        /\ \A n \in Marts : refresh'[n].rows = refresh[n].rows /\ refresh'[n].parts = refresh[n].parts
    BY <2>2 DEF FlowInv, Shapes
  <2>4. /\ verify'.at = "polling" /\ verify'.failed = verify.failed /\ verify'.asked \subseteq Marts
        /\ DOMAIN verify' = {"at", "tries", "failed", "ready", "asked", "waited"}
    BY <2>2 DEF FlowInv, Shapes
  <2> QED
    BY <2>1, <2>3, <2>4 DEF FlowInv, TypeOK, Shapes, RefreshRows, VersionsAreNumbers, LoadBase
<1>3. CASE Poll
  <2>1. /\ verify'.at \in {"polling", "polled"} /\ verify'.failed = verify.failed
        /\ verify'.asked = verify.asked
        /\ DOMAIN verify' = {"at", "tries", "failed", "ready", "asked", "waited"}
    BY <1>3 DEF Poll, FlowInv, Shapes
  <2>2. UNCHANGED <<objects, tables, dicts, marts, refresh, today, load, loaded, early, calls>>
    BY <1>3 DEF Poll
  <2> QED
    BY <2>1, <2>2 DEF FlowInv, TypeOK, Shapes, RefreshRows, VersionsAreNumbers, LoadBase
<1>4. CASE Read
  <2>1. /\ verify'.at = "done" /\ verify'.failed \subseteq verify.failed \cup MartNumbers
        /\ verify'.asked = {}
        /\ DOMAIN verify' = {"at", "tries", "failed", "ready", "asked", "waited"}
    BY <1>4 DEF Read, FlowInv, Shapes
  <2>2. UNCHANGED <<objects, tables, dicts, marts, refresh, today, load, loaded, early, calls>>
    BY <1>4 DEF Read
  <2> QED
    BY <2>1, <2>2 DEF FlowInv, TypeOK, Shapes, RefreshRows, VersionsAreNumbers, LoadBase
<1> QED
  BY <1>1, <1>2, <1>3, <1>4

LEMMA FlowStep == FlowInv /\ [Next]_vars => FlowInv'
<1> SUFFICES ASSUME FlowInv, [Next]_vars PROVE FlowInv'
  OBVIOUS
<1>1. CASE UNCHANGED vars
  BY <1>1 DEF vars, FlowInv, TypeOK, Shapes, RefreshRows, VersionsAreNumbers, LoadBase
<1> QED
  BY <1>1, LoadFileKeeps, AbortLoadKeeps, StartRefreshKeeps, FinishRefreshKeeps, ReloadKeeps,
     CallsKeep, VerifyKeeps DEF Next

\* Through stopped applies, aborted and repeated loads, refreshes, reloads and midnight,
\* every core view and every mart has one row per key at most, every dictionary one copy
\* at most, and verify.sh reports none but its own checks.
THEOREM FlowTypes == Spec => []TypeOK
<1>1. FlowInv => TypeOK
  BY DEF FlowInv
<1> QED
  BY <1>1, InitFlow, FlowStep, PTL DEF Spec
=============================================================================
