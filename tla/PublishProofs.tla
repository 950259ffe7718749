---------------------------- MODULE PublishProofs ----------------------------
(***************************************************************************)
(* What the topics hold of every run of `producer kafka', for any          *)
(* datasets, records, partitions, filters and numbers of runs, errors,     *)
(* signals and lost acknowledgments.                                       *)
(***************************************************************************)
EXTENDS Publish, NatFacts, TLAPS

-----------------------------------------------------------------------------
(* The inductive invariant *)

\* What is in flight or stored can be decoded and belongs to a run that was started;
\* what is stored is in the partition of its key.
Carried ==
    /\ \A m \in wire \cup acks : m.known /\ m.name \in schemas
    /\ \A d \in Names, p \in Parts : \A x \in 1..Len(topics[d][p]) :
          LET m == topics[d][p][x]
          IN  /\ m.name = d /\ m.by \in 1..runs /\ m.n \in All(d)
              /\ m.known /\ d \in schemas /\ p = PartOf[KeyOf(m)]

\* A run has at most one record in flight.
OneInFlight ==
    /\ wire \cap acks = {}
    /\ \A l, m \in wire \cup acks : l.by = m.by => l = m

\* That record is the next one of its run in its dataset, or the last one written.
NextInFlight ==
    /\ \A m \in wire : /\ 1..(m.n - 1) \subseteq Written(topics[m.name], m.by)
                       /\ Written(topics[m.name], m.by) \subseteq 1..m.n
    /\ \A m \in acks : Written(topics[m.name], m.by) = 1..m.n

\* A record in flight of the current run comes after all the datasets before its own,
\* also when the run is over.
InFlightInOrder ==
    \A m \in wire \cup acks : m.by = runs =>
        \E y \in Selected(run.only) :
            Datasets[y] = m.name /\ \A x \in Selected(run.only) : x < y => Complete(x)

\* The loop: how far the run has come by its control state and loop variables.
Loop ==
    Live =>
        /\ runs > 0 /\ outcome[runs] = "none"
        /\ \A x \in Selected(run.only) :
              /\ x < run.d => Complete(x)
              /\ x > run.d => Written(topics[Datasets[x]], runs) = {}
        /\ run.pc = "schema"  => Written(topics[Datasets[run.d]], runs) = {}
        /\ run.pc = "produce" => Written(topics[Datasets[run.d]], runs) = 1..(run.i - 1)
        /\ run.pc # "schema"  => run.known /\ Datasets[run.d] \in schemas
        /\ run.pc = "wait"    => Message \in wire \cup acks
        /\ run.pc # "wait"    => \A m \in wire \cup acks : m.by # runs

NotYetRun == \A r \in 1..MaxRuns : r > runs => outcome[r] = "none"

Progress ==
    /\ Carried /\ OneInFlight /\ NextInFlight /\ InFlightInOrder /\ Loop /\ NotYetRun
    /\ EmissionOrder /\ DatasetsInOrder /\ SuccessMeansPublished

PubInv == TypeOK /\ Progress

-----------------------------------------------------------------------------
(* Facts about the constants and the loop *)

\* The datasets have different names; each has a sequence of records.
LEMMA ConstantFacts ==
  /\ Len(Datasets) \in Nat
  /\ \A x \in 1..Len(Datasets) : Datasets[x] \in Names
  /\ \A x, y \in 1..Len(Datasets) : Datasets[x] = Datasets[y] => x = y
  /\ \A d \in Names : Len(Records[d]) \in Nat
  /\ \A d \in Names : Records[d] # <<>> => Len(Records[d]) > 0
  /\ \A d \in Names : \A n \in All(d) : PartOf[Records[d][n]] \in Parts
<1>1. Len(Datasets) \in Nat /\ \A x \in 1..Len(Datasets) : Datasets[x] \in Names
  BY PublishAssumption DEF Names
<1>2. \A x, y \in 1..Len(Datasets) : Datasets[x] = Datasets[y] => x = y
  BY PublishAssumption
<1>3. ASSUME NEW d \in Names
      PROVE  /\ Len(Records[d]) \in Nat /\ (Records[d] # <<>> => Len(Records[d]) > 0)
             /\ \A n \in All(d) : PartOf[Records[d][n]] \in Parts
  <2> DEFINE K == DOMAIN PartOf
  <2>1. Records[d] \in Seq(K)
    BY PublishAssumption
  <2> HIDE DEF K
  <2>2. Len(Records[d]) \in Nat /\ (Records[d] # <<>> => Len(Records[d]) > 0)
    BY <2>1
  <2>3. \A n \in All(d) : Records[d][n] \in K
    BY <2>1 DEF All
  <2> QED
    BY <2>2, <2>3 DEF K, Parts
<1> QED
  BY <1>1, <1>2, <1>3

\* PublishKafka goes on with the next selected dataset, or returns.
LEMMA EnterEffect ==
  ASSUME NEW only \in SUBSET Names, NEW d \in Nat, Enter(only, d)
  PROVE  \/ /\ Pending(only, d) = {}
            /\ run' = [pc |-> "down", d |-> 0, i |-> 0, only |-> only, known |-> FALSE]
            /\ outcome' = [outcome EXCEPT ![runs'] = "ok"]
         \/ \E y \in Pending(only, d) :
               /\ \A x \in Pending(only, d) : y <= x
               /\ run' = [pc |-> "schema", d |-> y, i |-> 0, only |-> only, known |-> FALSE]
               /\ outcome' = outcome
<1>1. CASE Pending(only, d) = {}
  BY <1>1 DEF Enter, Down
<1>2. CASE Pending(only, d) # {}
  <2> DEFINE P == Pending(only, d)
             y == CHOOSE x \in P : \A z \in P : x <= z
  <2>1. P \subseteq Nat
    BY ConstantFacts DEF Pending, Selected
  <2>2. y \in P /\ \A x \in P : y <= x
    <3> HIDE DEF P
    <3>1. \E x \in P : \A z \in P : x <= z
      BY <1>2, <2>1, LeastExists DEF P
    <3> QED BY <3>1
  <2>3. /\ run' = [pc |-> "schema", d |-> y, i |-> 0, only |-> only, known |-> FALSE]
        /\ outcome' = outcome
    BY <1>2 DEF Enter
  <2> HIDE DEF y
  <2> QED
    BY <2>2, <2>3
<1> QED
  BY <1>1, <1>2

\* After either outcome the producer is in the bounds of its loops.
LEMMA EnterTypes ==
  ASSUME NEW only \in SUBSET Names, NEW d \in Nat, Enter(only, d),
         outcome \in [1..MaxRuns -> {"none", "ok", "failed"}]
  PROVE  /\ run' \in Loops /\ InBounds' /\ outcome' \in [1..MaxRuns -> {"none", "ok", "failed"}]
<1>1. CASE /\ run' = [pc |-> "down", d |-> 0, i |-> 0, only |-> only, known |-> FALSE]
           /\ outcome' = [outcome EXCEPT ![runs'] = "ok"]
  BY <1>1 DEF Loops, InBounds, Live
<1>2. ASSUME NEW y \in Pending(only, d),
             run' = [pc |-> "schema", d |-> y, i |-> 0, only |-> only, known |-> FALSE],
             outcome' = outcome
      PROVE  run' \in Loops /\ InBounds' /\ outcome' \in [1..MaxRuns -> {"none", "ok", "failed"}]
  <2>1. y \in Selected(only) /\ y \in Nat
    BY ConstantFacts DEF Pending, Selected
  <2> QED
    BY <1>2, <2>1 DEF Loops, InBounds, Live, Selected
<1> QED
  BY <1>1, <1>2, EnterEffect

-----------------------------------------------------------------------------
(* Type correctness. *)

LEMMA InitTypeOK == Init => TypeOK
<1> SUFFICES ASSUME Init PROVE TypeOK
  OBVIOUS
<1>1. topics \in [Names -> [Parts -> Seq(Messages)]]
  BY DEF Init
<1> QED
  BY <1>1, PublishAssumption DEF Init, TypeOK, InBounds, FlightOK, Loops, Down, Live

\* The record that the loop is at.
LEMMA MessageType ==
  ASSUME TypeOK, run.pc \in {"produce", "wait"}
  PROVE  /\ Message \in Messages /\ Message.name = Datasets[run.d] /\ Message.n = run.i
         /\ Message.by = runs /\ Message.n \in All(Message.name) /\ Message.known = run.known
<1>1. Datasets[run.d] \in Names
  BY ConstantFacts DEF TypeOK, InBounds, Live, Selected
<1>2. runs \in Nat
  BY PublishAssumption DEF TypeOK
<1> QED
  BY <1>1, <1>2 DEF TypeOK, InBounds, Loops, Message, Messages, All

LEMMA NextTypeOK ==
  ASSUME TypeOK, Loop, [Next]_vars
  PROVE  TypeOK'
<1> USE PublishAssumption
<1>0. runs \in Nat /\ run.d \in Nat /\ run.only \in SUBSET Names
  BY DEF TypeOK, Loops
<1>1. ASSUME NEW only \in SUBSET Names, Start(only)
      PROVE  TypeOK'
  <2>1. runs' = runs + 1 /\ runs' \in 1..MaxRuns /\ Enter(only, 1)
    BY <1>0, <1>1 DEF Start
  <2>2. run' \in Loops /\ InBounds' /\ outcome' \in [1..MaxRuns -> {"none", "ok", "failed"}]
    BY <2>1, EnterTypes DEF TypeOK
  <2>3. FlightOK'
    BY <1>0, <1>1, <2>1 DEF Start, TypeOK, FlightOK
  <2> QED
    BY <1>1, <2>1, <2>2, <2>3 DEF Start, TypeOK
<1>2. CASE Register
  <2>1. run.d \in Selected(run.only)
    BY <1>2 DEF Register, TypeOK, InBounds, Live
  <2>2. 1 \in 1..Len(Records[Datasets[run.d]]) /\ Datasets[run.d] \in Names
    BY <2>1, ConstantFacts DEF Selected
  <2>3. run' = [run EXCEPT !.pc = "produce", !.i = 1, !.known = TRUE]
    BY <1>2 DEF Register
  <2>4. run' = [pc |-> "produce", d |-> run.d, i |-> 1, only |-> run.only, known |-> TRUE]
    BY <2>3 DEF TypeOK, Loops
  <2>5. run' \in Loops
    BY <1>0, <2>4 DEF Loops
  <2>6. InBounds'
    BY <2>1, <2>2, <2>4 DEF InBounds, Live, Selected
  <2> QED
    BY <1>2, <2>2, <2>5, <2>6 DEF Register, TypeOK, FlightOK
<1>3. CASE Send
  <2>1. Message \in Messages /\ Message.n \in 1..Len(Records[Message.name]) /\ Message.by \in 1..runs
    BY <1>0, <1>3, MessageType DEF Send, Loop, Live, All
  <2>2. run' = [pc |-> "wait", d |-> run.d, i |-> run.i, only |-> run.only, known |-> run.known]
    BY <1>3 DEF Send, TypeOK, Loops
  <2>3. run' \in Loops
    BY <2>2 DEF TypeOK, Loops
  <2>4. InBounds'
    BY <1>3, <2>2 DEF Send, TypeOK, InBounds, Live, Selected
  <2>5. wire' = wire \cup {Message} /\ acks' = acks /\ runs' = runs
    BY <1>3 DEF Send
  <2> HIDE DEF Message
  <2>6. FlightOK'
    BY <2>1, <2>5 DEF TypeOK, FlightOK
  <2> QED
    BY <1>3, <2>3, <2>4, <2>6 DEF Send, TypeOK
<1>4. CASE Reject
  <2>1. run' = [pc |-> "down", d |-> 0, i |-> 0, only |-> run.only, known |-> FALSE]
    BY <1>4 DEF Reject, Down
  <2>2. outcome' \in [1..MaxRuns -> {"none", "ok", "failed"}]
    BY <1>4 DEF Reject, TypeOK
  <2>3. run' \in Loops /\ InBounds'
    BY <1>0, <2>1 DEF Loops, InBounds, Live
  <2> QED
    BY <1>4, <2>2, <2>3 DEF Reject, TypeOK, FlightOK
<1>5. ASSUME NEW m \in wire, Write(m)
      PROVE  TypeOK'
  <2>1. m \in Messages /\ m.n \in All(m.name)
    BY DEF TypeOK, FlightOK, All
  <2> DEFINE p == PartOf[KeyOf(m)]
  <2>2. p \in Parts /\ m.name \in Names
    BY <2>1, ConstantFacts DEF KeyOf, Messages
  <2>3. topics[m.name][p] \in Seq(Messages)
    BY <2>2 DEF TypeOK
  <2>4. Append(topics[m.name][p], m) \in Seq(Messages)
    BY <2>1, <2>3
  <2> DEFINE t == [topics[m.name] EXCEPT ![p] = Append(topics[m.name][p], m)]
  <2>5. topics' = topics \/ topics' = [topics EXCEPT ![m.name] = t]
    BY <1>5 DEF Write
  <2> HIDE DEF p
  <2>6. t \in [Parts -> Seq(Messages)]
    BY <2>2, <2>4 DEF TypeOK
  <2> HIDE DEF t
  <2>7. topics' \in [Names -> [Parts -> Seq(Messages)]]
    BY <2>2, <2>5, <2>6 DEF TypeOK
  <2>8. FlightOK'
    BY <1>5, <2>1 DEF Write, TypeOK, FlightOK
  <2> QED
    BY <1>5, <2>7, <2>8 DEF Write, TypeOK, InBounds, Live, Selected
<1>6. ASSUME NEW m \in acks, LoseAck(m)
      PROVE  TypeOK'
  <2>1. wire' \subseteq wire \cup {m} /\ acks' = acks \ {m} /\ runs' = runs
    BY <1>6 DEF LoseAck
  <2>2. FlightOK'
    BY <2>1 DEF TypeOK, FlightOK
  <2> QED
    BY <1>6, <2>2 DEF LoseAck, TypeOK, InBounds, Live, Selected
<1>7. ASSUME NEW m \in wire, Drop(m)
      PROVE  TypeOK'
  <2>1. FlightOK'
    BY <1>7 DEF Drop, TypeOK, FlightOK
  <2> QED
    BY <1>7, <2>1 DEF Drop, TypeOK, InBounds, Live, Selected
<1>8. CASE Ack
  <2>0. run.pc = "wait" /\ runs' = runs /\ runs \in 1..MaxRuns
    BY <1>0, <1>8 DEF Ack, Loop, Live, TypeOK
  <2>1. run' \in Loops /\ InBounds' /\ outcome' \in [1..MaxRuns -> {"none", "ok", "failed"}]
    <3>1. CASE run.i < Len(Records[Datasets[run.d]])
      <4>1. run' = [pc |-> "produce", d |-> run.d, i |-> run.i + 1, only |-> run.only, known |-> run.known]
        BY <1>8, <3>1 DEF Ack, TypeOK, Loops
      <4>2. run.d \in Selected(run.only) /\ run.i + 1 \in 1..Len(Records[Datasets[run.d]])
        BY <2>0, <3>1, ConstantFacts DEF TypeOK, InBounds, Live, Selected
      <4>3. InBounds'
        BY <4>1, <4>2 DEF InBounds, Live, Selected
      <4> QED
        BY <1>8, <3>1, <4>1, <4>3 DEF Ack, TypeOK, Loops
    <3>2. CASE ~ (run.i < Len(Records[Datasets[run.d]]))
      <4>1. Enter(run.only, run.d + 1)
        BY <1>8, <3>2 DEF Ack
      <4>2. run.d + 1 \in Nat /\ outcome \in [1..MaxRuns -> {"none", "ok", "failed"}]
        BY <1>0 DEF TypeOK
      <4> QED
        BY <1>0, <4>1, <4>2, EnterTypes
    <3> QED
      BY <3>1, <3>2
  <2>2. FlightOK'
    BY <1>8 DEF Ack, TypeOK, FlightOK
  <2> QED
    BY <1>8, <2>1, <2>2 DEF Ack, TypeOK
<1>9. CASE Stop
  <2>1. run' = [pc |-> "down", d |-> 0, i |-> 0, only |-> run.only, known |-> FALSE]
    BY <1>9 DEF Stop, Down
  <2>2. outcome' \in [1..MaxRuns -> {"none", "ok", "failed"}]
    BY <1>9 DEF Stop, TypeOK
  <2>3. schemas' \subseteq Names
    BY <1>9, ConstantFacts DEF Stop, TypeOK, InBounds, Live, Selected
  <2>4. run' \in Loops /\ InBounds'
    BY <1>0, <2>1 DEF Loops, InBounds, Live
  <2> QED
    BY <1>9, <2>2, <2>3, <2>4 DEF Stop, TypeOK, FlightOK
<1>10. CASE UNCHANGED vars
  BY <1>10 DEF vars, TypeOK, InBounds, FlightOK, Live, Selected
<1> QED
  BY <1>1, <1>2, <1>3, <1>4, <1>5, <1>6, <1>7, <1>8, <1>9, <1>10 DEF Next

-----------------------------------------------------------------------------
(* What the broker's write does to what a run has written *)

LEMMA WrittenBy ==
  ASSUME NEW T, NEW r, NEW v
  PROVE  v \in Written(T, r) <=> \E q \in Parts : \E x \in By(T[q], r) : v = T[q][x].n
BY DEF Written

LEMMA WrittenHas ==
  ASSUME NEW T, NEW r, NEW q \in Parts, NEW x \in By(T[q], r)
  PROVE  T[q][x].n \in Written(T, r)
BY WrittenBy

\* U is T with the record m appended to partition p.
Appended(U, T, p, m) ==
    /\ T \in [Parts -> Seq(Messages)] /\ U \in [Parts -> Seq(Messages)]
    /\ p \in Parts /\ m \in Messages
    /\ U[p] = Append(T[p], m) /\ \A q \in Parts : q # p => U[q] = T[q]

\* A record appended to a partition is one more that its run wrote, and no other run.
LEMMA AppendEffect ==
  ASSUME NEW T, NEW p, NEW m, NEW r, NEW U, Appended(U, T, p, m)
  PROVE  /\ \A q \in Parts : \A x \in 1..Len(U[q]) :
               \/ x \in 1..Len(T[q]) /\ U[q][x] = T[q][x]
               \/ q = p /\ U[q][x] = m
         /\ Written(U, r) = IF r = m.by THEN Written(T, r) \cup {m.n} ELSE Written(T, r)
         /\ (r = m.by => \A n \in Written(T, r) : n < m.n) =>
               \A q \in Parts : Ordered(T[q], r) => Ordered(U[q], r)
<1> DEFINE L == Len(T[p])
<1>1. /\ L \in Nat /\ Len(U[p]) = L + 1 /\ U[p][L + 1] = m /\ p \in Parts
      /\ \A x \in 1..L : U[p][x] = T[p][x]
      /\ \A q \in Parts : q # p => U[q] = T[q]
  BY DEF Appended
<1>2. \A q \in Parts : By(U[q], r) = IF q = p /\ r = m.by THEN By(T[q], r) \cup {L + 1} ELSE By(T[q], r)
  BY <1>1 DEF By
<1>3. L + 1 \notin By(T[p], r) /\ \A x \in By(T[p], r) : x \in 1..L
  BY <1>1 DEF By
<1>4. ASSUME NEW q \in Parts, NEW x \in 1..Len(U[q])
      PROVE  \/ x \in 1..Len(T[q]) /\ U[q][x] = T[q][x]
             \/ q = p /\ U[q][x] = m
  <2>1. CASE q = p
    <3>1. x \in 1..L \/ x = L + 1
      BY <1>1, <2>1
    <3> QED
      BY <1>1, <2>1, <3>1
  <2>2. CASE q # p
    BY <1>1, <2>2
  <2> QED
    BY <2>1, <2>2
<1>5. \A q \in Parts : \A x \in By(T[q], r) : U[q][x] = T[q][x] /\ x \in By(U[q], r)
  BY <1>1, <1>2, <1>3
<1>6. Written(T, r) \subseteq Written(U, r)
  <2> SUFFICES ASSUME NEW v \in Written(T, r) PROVE v \in Written(U, r)
    OBVIOUS
  <2>0. PICK q \in Parts : \E x \in By(T[q], r) : v = T[q][x].n
    BY WrittenBy
  <2>1. PICK x \in By(T[q], r) : v = T[q][x].n
    BY <2>0
  <2>2. x \in By(U[q], r) /\ v = U[q][x].n
    BY <1>5, <2>1
  <2> QED
    BY <2>2, WrittenHas
<1>7. r = m.by => m.n \in Written(U, r)
  <2> SUFFICES ASSUME r = m.by PROVE m.n \in Written(U, r)
    OBVIOUS
  <2>1. L + 1 \in By(U[p], r) /\ m.n = U[p][L + 1].n
    BY <1>1, <1>2
  <2> QED
    BY <1>1, <2>1, WrittenHas
<1>8. ASSUME NEW v \in Written(U, r)
      PROVE  v \in Written(T, r) \/ (r = m.by /\ v = m.n)
  <2>0. PICK q \in Parts : \E x \in By(U[q], r) : v = U[q][x].n
    BY <1>8, WrittenBy
  <2>1. PICK x \in By(U[q], r) : v = U[q][x].n
    BY <2>0
  <2>2. CASE x \in By(T[q], r)
    <3>1. v = T[q][x].n
      BY <1>5, <2>1, <2>2
    <3>2. T[q][x].n \in Written(T, r)
      BY <2>2, WrittenHas
    <3> QED
      BY <3>1, <3>2
  <2>3. CASE x \notin By(T[q], r)
    BY <1>1, <1>2, <2>1, <2>3
  <2> QED
    BY <2>2, <2>3
<1>9. Written(U, r) = IF r = m.by THEN Written(T, r) \cup {m.n} ELSE Written(T, r)
  BY <1>6, <1>7, <1>8
<1>10. ASSUME r = m.by => \A n \in Written(T, r) : n < m.n, NEW q \in Parts, Ordered(T[q], r)
       PROVE  Ordered(U[q], r)
  <2> SUFFICES ASSUME NEW x \in By(U[q], r), NEW y \in By(U[q], r), x < y
               PROVE  U[q][x].n < U[q][y].n
    BY DEF Ordered
  <2>1. \A z \in By(T[q], r) : T[q][z].n \in Written(T, r)
    BY WrittenBy
  <2>2. CASE x \in By(T[q], r) /\ y \in By(T[q], r)
    BY <1>5, <1>10, <2>2 DEF Ordered
  <2>3. CASE x \in By(T[q], r) /\ y \notin By(T[q], r)
    <3>1. q = p /\ r = m.by /\ y = L + 1
      BY <1>2, <2>3
    <3> QED
      BY <1>1, <1>5, <1>10, <2>1, <2>3, <3>1
  <2>4. CASE x \notin By(T[q], r)
    <3>1. q = p /\ x = L + 1
      BY <1>2, <2>4
    <3>2. y \in 1..(L + 1)
      BY <1>1, <3>1 DEF By
    <3> QED
      BY <1>1, <3>1, <3>2
  <2> QED
    BY <2>2, <2>3, <2>4
<1> QED
  BY <1>4, <1>9, <1>10

LEMMA OneMore ==
  ASSUME NEW n \in Nat, n > 0, NEW W, 1..(n - 1) \subseteq W, W \subseteq 1..n
  PROVE  W \cup {n} = 1..n
<1>1. \A k \in 1..n : k \in 1..(n - 1) \/ k = n
  OBVIOUS
<1>2. n \in 1..n
  OBVIOUS
<1> QED
  BY <1>1, <1>2

\* The broker's write of the record in flight: its run has then written the dataset up
\* to it, whether the record was there before or not, still in order.
LEMMA WriteEffect ==
  ASSUME TypeOK, Carried, NextInFlight, NEW m \in wire, Write(m)
  PROVE  /\ Carried'
         /\ \A d \in Names : \A r :
               Written(topics'[d], r) = IF d = m.name /\ r = m.by THEN 1..m.n ELSE Written(topics[d], r)
         /\ \A d \in Names : \A q \in Parts : \A r : Ordered(topics[d][q], r) => Ordered(topics'[d][q], r)
<1> DEFINE p == PartOf[KeyOf(m)]
           T == topics[m.name]
           U == topics'[m.name]
           stored == \E x \in 1..Len(T[p]) : T[p][x] = m
<1>1. /\ m \in Messages /\ m.n \in All(m.name) /\ m.name \in Names /\ m.n \in Nat
      /\ m.by \in 1..runs /\ m.known /\ m.name \in schemas
  BY DEF TypeOK, FlightOK, Carried, Messages, All
<1>2. p \in Parts
  BY <1>1, ConstantFacts DEF KeyOf
<1>3. /\ T \in [Parts -> Seq(Messages)] /\ \A d \in Names : topics[d] \in [Parts -> Seq(Messages)]
      /\ topics \in [Names -> [Parts -> Seq(Messages)]]
  BY <1>1 DEF TypeOK
<1>4. IF stored THEN topics' = topics
      ELSE topics' = [topics EXCEPT ![m.name] = [topics[m.name] EXCEPT ![p] = Append(topics[m.name][p], m)]]
  BY DEF Write
<1>5. /\ wire' = wire \ {m} /\ acks' = acks \cup {m} /\ runs' = runs /\ schemas' = schemas
  BY DEF Write
<1>6. \A d \in Names : d # m.name => topics'[d] = topics[d]
  BY <1>1, <1>3, <1>4
<1>7. ~ stored => U \in [Parts -> Seq(Messages)] /\ U[p] = Append(T[p], m) /\ \A q \in Parts : q # p => U[q] = T[q]
  <2> SUFFICES ASSUME ~ stored
               PROVE  U \in [Parts -> Seq(Messages)] /\ U[p] = Append(T[p], m) /\ \A q \in Parts : q # p => U[q] = T[q]
    OBVIOUS
  <2>1. U = [topics[m.name] EXCEPT ![p] = Append(topics[m.name][p], m)]
    BY <1>1, <1>3, <1>4
  <2> HIDE DEF p, U, stored
  <2>2. Append(topics[m.name][p], m) \in Seq(Messages)
    BY <1>1, <1>2, <1>3
  <2> QED
    BY <1>2, <1>3, <2>1, <2>2
<1>8. stored => U = T
  BY <1>4
<1>9. Written(T, m.by) \subseteq 1..m.n /\ 1..(m.n - 1) \subseteq Written(T, m.by)
  BY DEF NextInFlight
<1>10. m.n \in Written(T, m.by) => stored
  <2> SUFFICES ASSUME m.n \in Written(T, m.by) PROVE stored
    OBVIOUS
  <2>1. PICK q \in Parts : \E x \in By(T[q], m.by) : m.n = T[q][x].n
    BY WrittenBy
  <2>2. PICK x \in By(T[q], m.by) : m.n = T[q][x].n
    BY <2>1
  <2>3. x \in 1..Len(T[q]) /\ T[q][x].by = m.by
    BY DEF By
  <2>4. T[q][x].name = m.name /\ T[q][x].known /\ q = PartOf[KeyOf(T[q][x])]
    BY <1>1, <2>3 DEF Carried
  <2>5. T[q][x] \in Messages
    BY <1>3, <2>3
  <2>6. T[q][x] = m
    <3>1. T[q][x].known = TRUE /\ m.known = TRUE
      BY <1>1, <2>4, <2>5 DEF Messages
    <3> QED
      BY <1>1, <2>2, <2>3, <2>4, <2>5, <3>1 DEF Messages
  <2> QED
    BY <2>3, <2>4, <2>6
<1>11. stored => m.n \in Written(T, m.by)
  <2> SUFFICES ASSUME NEW x \in 1..Len(T[p]), T[p][x] = m PROVE m.n \in Written(T, m.by)
    OBVIOUS
  <2>1. x \in By(T[p], m.by) /\ m.n = T[p][x].n
    BY DEF By
  <2> HIDE DEF p
  <2> QED
    BY <1>2, <2>1, WrittenHas
<1> HIDE DEF p, T, U, stored
<1>12. ASSUME ~ stored, NEW r
       PROVE  /\ \A q \in Parts : \A x \in 1..Len(U[q]) :
                   \/ x \in 1..Len(T[q]) /\ U[q][x] = T[q][x]
                   \/ q = p /\ U[q][x] = m
              /\ Written(U, r) = IF r = m.by THEN Written(T, r) \cup {m.n} ELSE Written(T, r)
              /\ (r = m.by => \A n \in Written(T, r) : n < m.n) =>
                   \A q \in Parts : Ordered(T[q], r) => Ordered(U[q], r)
  <2>1. Appended(U, T, p, m)
    BY <1>1, <1>2, <1>3, <1>7, <1>12 DEF Appended
  <2> QED
    BY <2>1, AppendEffect
<1>13. Written(U, m.by) = 1..m.n
  <2>1. Written(U, m.by) = Written(T, m.by) \cup {m.n}
    BY <1>8, <1>11, <1>12
  <2>2. m.n > 0
    BY <1>1 DEF All
  <2> QED
    BY <1>1, <1>9, <2>1, <2>2, OneMore
<1>14. ASSUME NEW r, r # m.by PROVE Written(U, r) = Written(T, r)
  BY <1>8, <1>12, <1>14
<1>15. ASSUME NEW q \in Parts, NEW r, Ordered(T[q], r) PROVE Ordered(U[q], r)
  <2>1. CASE stored
    BY <1>8, <1>15, <2>1
  <2>2. CASE ~ stored
    <3>1. r = m.by => \A n \in Written(T, r) : n < m.n
      BY <1>1, <1>9, <1>10, <2>2
    <3> QED
      BY <1>12, <1>15, <2>2, <3>1
  <2> QED
    BY <2>1, <2>2
<1>16. Carried'
  <2>1. \A l \in wire' \cup acks' : l.known /\ l.name \in schemas'
    BY <1>5 DEF Carried
  <2> DEFINE Fits(l, d, q) == /\ l.name = d /\ l.by \in 1..runs /\ l.n \in All(d)
                              /\ l.known /\ d \in schemas /\ q = PartOf[KeyOf(l)]
  <2>2. \A d \in Names, q \in Parts : \A x \in 1..Len(topics[d][q]) : Fits(topics[d][q][x], d, q)
    BY DEF Carried
  <2>3. Fits(m, m.name, p)
    BY <1>1 DEF p
  <2>4. ASSUME NEW q \in Parts, NEW x \in 1..Len(U[q])
        PROVE  Fits(U[q][x], m.name, q)
    <3>1. (x \in 1..Len(T[q]) /\ U[q][x] = T[q][x]) \/ (q = p /\ U[q][x] = m)
      <4>1. CASE stored
        BY <1>8, <4>1
      <4>2. CASE ~ stored
        BY <1>12, <4>2
      <4> QED
        BY <4>1, <4>2
    <3> QED
      BY <1>1, <2>2, <2>3, <3>1 DEF T
  <2>5. ASSUME NEW d \in Names, NEW q \in Parts, NEW x \in 1..Len(topics'[d][q])
        PROVE  Fits(topics'[d][q][x], d, q)
    <3>1. CASE d = m.name
      BY <2>4, <3>1 DEF U
    <3>2. CASE d # m.name
      BY <1>6, <2>2, <3>2
    <3> QED
      BY <3>1, <3>2
  <2> QED
    BY <1>5, <2>1, <2>5 DEF Carried, KeyOf
<1> QED
  BY <1>6, <1>13, <1>14, <1>16, <1>15 DEF T, U

-----------------------------------------------------------------------------
(* Progress: one lemma per action *)

\* A run that was not started has written nothing.
LEMMA NothingWritten ==
  ASSUME Carried, NEW d \in Names, NEW r, r \notin 1..runs
  PROVE  Written(topics[d], r) = {} /\ \A p \in Parts : By(topics[d][p], r) = {}
<1>1. \A p \in Parts : By(topics[d][p], r) = {}
  BY DEF By, Carried
<1> QED
  BY <1>1 DEF Written

LEMMA InitProgress == Init => Progress
<1> SUFFICES ASSUME Init PROVE Progress
  OBVIOUS
<1>1. \A d \in Names, p \in Parts : topics[d][p] = <<>>
  BY DEF Init
<1>2. Carried
  BY <1>1 DEF Init, Carried
<1>3. runs = 0 /\ wire = {} /\ acks = {} /\ run.pc = "down" /\ run.only = {}
  BY DEF Init, Down
<1>4. \A d \in Names : Written(topics[d], runs) = {}
  BY <1>2, <1>3, NothingWritten
<1>5. DatasetsInOrder
  BY <1>4, ConstantFacts DEF DatasetsInOrder, Selected
<1>6. OneInFlight /\ NextInFlight /\ InFlightInOrder /\ Loop
  BY <1>3 DEF OneInFlight, NextInFlight, InFlightInOrder, Loop, Live
<1>7. NotYetRun /\ EmissionOrder /\ SuccessMeansPublished
  BY <1>3 DEF Init, NotYetRun, EmissionOrder, SuccessMeansPublished
<1> QED
  BY <1>2, <1>5, <1>6, <1>7 DEF Progress

LEMMA StartKeeps ==
  ASSUME TypeOK, Progress, NEW only \in SUBSET Names, Start(only)
  PROVE  Progress'
<1>1. /\ runs \in Nat /\ runs' = runs + 1 /\ runs' \in 1..MaxRuns /\ Enter(only, 1)
      /\ topics' = topics /\ wire' = wire /\ acks' = acks /\ schemas' = schemas
  BY PublishAssumption DEF Start, TypeOK
<1>2. Carried /\ NotYetRun /\ outcome \in [1..MaxRuns -> {"none", "ok", "failed"}]
  BY DEF Progress, TypeOK
<1>3. \A d \in Names : Written(topics[d], runs + 1) = {} /\ \A p \in Parts : By(topics[d][p], runs + 1) = {}
  <2>1. runs + 1 \notin 1..runs
    BY <1>1
  <2> QED
    BY <1>2, <2>1, NothingWritten
<1>4. \A x \in Selected(only) : x \in Nat /\ x >= 1 /\ Datasets[x] \in Names
  BY ConstantFacts DEF Selected
<1>5. \A m \in wire \cup acks : m.by \in 1..runs
  BY DEF TypeOK, FlightOK
<1>6. Carried'
  BY <1>1, <1>2 DEF Carried, KeyOf
<1>7. OneInFlight' /\ NextInFlight' /\ InFlightInOrder'
  BY <1>1, <1>5 DEF Progress, OneInFlight, NextInFlight, InFlightInOrder
<1>8. EmissionOrder'
  <2>1. ASSUME NEW r \in 1..(runs + 1), NEW d \in Names
        PROVE  /\ \E n \in 0..Len(Records[d]) : Written(topics[d], r) = 1..n
               /\ \A p \in Parts : Ordered(topics[d][p], r)
    <3>1. CASE r \in 1..runs
      BY <3>1 DEF Progress, EmissionOrder
    <3>2. CASE r = runs + 1
      <4>1. 0 \in 0..Len(Records[d]) /\ Written(topics[d], r) = 1..0
        BY <1>3, <3>2, ConstantFacts
      <4>2. \A p \in Parts : Ordered(topics[d][p], r)
        BY <1>3, <3>2 DEF Ordered
      <4> QED
        BY <4>1, <4>2
    <3> QED
      BY <1>1, <3>1, <3>2
  <2> QED
    BY <1>1, <2>1 DEF EmissionOrder
<1>9. Loop' /\ NotYetRun' /\ SuccessMeansPublished' /\ run'.only = only
  <2>1. CASE /\ Pending(only, 1) = {}
             /\ run' = [pc |-> "down", d |-> 0, i |-> 0, only |-> only, known |-> FALSE]
             /\ outcome' = [outcome EXCEPT ![runs'] = "ok"]
    <3>1. Selected(only) = {}
      BY <1>4, <2>1 DEF Pending
    <3>2. NotYetRun'
      BY <1>1, <1>2, <2>1 DEF NotYetRun
    <3>3. SuccessMeansPublished'
      BY <2>1, <3>1 DEF SuccessMeansPublished, Selected
    <3> QED
      BY <2>1, <3>2, <3>3 DEF Loop, Live
  <2>2. ASSUME NEW y \in Pending(only, 1), \A x \in Pending(only, 1) : y <= x,
               run' = [pc |-> "schema", d |-> y, i |-> 0, only |-> only, known |-> FALSE],
               outcome' = outcome
        PROVE  Loop' /\ NotYetRun' /\ SuccessMeansPublished' /\ run'.only = only
    <3>1. y \in Selected(only) /\ \A x \in Selected(only) : y <= x
      BY <1>4, <2>2 DEF Pending
    <3>2. outcome'[runs'] = "none"
      BY <1>1, <1>2, <2>2 DEF NotYetRun
    <3>3. \A x \in Selected(only) : ~ (x < y) /\ Written(topics'[Datasets[x]], runs') = {}
      BY <1>1, <1>3, <1>4, <3>1
    <3>4. \A m \in wire' \cup acks' : m.by # runs'
      BY <1>1, <1>5
    <3>5. Loop'
      <4>1. run'.pc = "schema" /\ run'.d = y /\ run'.only = only
        BY <2>2
      <4>2. \A x \in Selected(run'.only) : ~ (x < run'.d) /\ Written(topics'[Datasets[x]], runs') = {}
        BY <3>3, <4>1
      <4>3. Written(topics'[Datasets[run'.d]], runs') = {}
        BY <3>1, <3>3, <4>1
      <4> QED
        BY <1>1, <3>2, <3>4, <4>1, <4>2, <4>3 DEF Loop
    <3>6. NotYetRun' /\ SuccessMeansPublished'
      BY <1>1, <1>2, <2>2, <3>2 DEF NotYetRun, SuccessMeansPublished
    <3> QED
      BY <2>2, <3>5, <3>6
  <2> QED
    BY <1>1, <2>1, <2>2, EnterEffect
<1>10. DatasetsInOrder'
  <2>1. \A x \in Selected(only) : Written(topics'[Datasets[x]], runs') = {}
    BY <1>1, <1>3, <1>4
  <2> QED
    BY <1>9, <2>1 DEF DatasetsInOrder, Selected
<1> QED
  BY <1>6, <1>7, <1>8, <1>9, <1>10 DEF Progress

LEMMA RegisterKeeps ==
  ASSUME TypeOK, Progress, Register
  PROVE  Progress'
<1>1. /\ run.pc = "schema" /\ runs' = runs /\ outcome' = outcome /\ topics' = topics
      /\ wire' = wire /\ acks' = acks /\ schemas' = schemas \cup {Datasets[run.d]}
      /\ run' = [run EXCEPT !.pc = "produce", !.i = 1, !.known = TRUE]
  BY DEF Register
<1>2. run' = [pc |-> "produce", d |-> run.d, i |-> 1, only |-> run.only, known |-> TRUE]
  BY <1>1 DEF TypeOK, Loops
<1>3. run'.pc = "produce" /\ run'.d = run.d /\ run'.i = 1 /\ run'.only = run.only /\ run'.known = TRUE
  BY <1>2
<1>4. Carried' /\ OneInFlight' /\ NextInFlight' /\ NotYetRun' /\ EmissionOrder'
  BY <1>1 DEF Progress, Carried, KeyOf, OneInFlight, NextInFlight, NotYetRun, EmissionOrder
<1>5. InFlightInOrder' /\ DatasetsInOrder' /\ SuccessMeansPublished'
  BY <1>1, <1>3 DEF Progress, InFlightInOrder, DatasetsInOrder, SuccessMeansPublished, Complete
<1>6. Written(topics'[Datasets[run'.d]], runs') = 1..(run'.i - 1)
  BY <1>1, <1>3 DEF Progress, Loop, Live
<1>7. Loop'
  BY <1>1, <1>3, <1>6 DEF Progress, Loop, Live, Complete
<1> QED
  BY <1>4, <1>5, <1>7 DEF Progress

LEMMA SendKeeps ==
  ASSUME TypeOK, Progress, Send
  PROVE  Progress'
<1>1. /\ run.pc = "produce" /\ runs' = runs /\ outcome' = outcome /\ topics' = topics
      /\ wire' = wire \cup {Message} /\ acks' = acks /\ schemas' = schemas
      /\ run' = [run EXCEPT !.pc = "wait"]
  BY DEF Send
<1>2. run' = [pc |-> "wait", d |-> run.d, i |-> run.i, only |-> run.only, known |-> run.known]
  BY <1>1 DEF TypeOK, Loops
<1>3. run'.pc = "wait" /\ run'.d = run.d /\ run'.i = run.i /\ run'.only = run.only /\ run'.known = run.known
  BY <1>2
<1>4. /\ Message \in Messages /\ Message.name = Datasets[run.d] /\ Message.n = run.i /\ Message.by = runs
      /\ Message.known = run.known
  BY <1>1, MessageType
<1>5. Message' = Message
  BY <1>1, <1>3 DEF Message
<1> HIDE DEF Message
<1>6. /\ runs > 0 /\ outcome[runs] = "none" /\ run.known /\ Datasets[run.d] \in schemas
      /\ Written(topics[Datasets[run.d]], runs) = 1..(run.i - 1)
      /\ \A m \in wire \cup acks : m.by # runs
      /\ \A x \in Selected(run.only) :
            /\ x < run.d => Complete(x)
            /\ x > run.d => Written(topics[Datasets[x]], runs) = {}
  BY <1>1 DEF Progress, Loop, Live
<1>7. run.d \in Selected(run.only) /\ run.i \in Nat
  BY <1>1 DEF TypeOK, InBounds, Live, Loops
<1>8. Carried'
  <2>1. Message.known /\ Message.name \in schemas
    BY <1>4, <1>6, Zenon
  <2>2. \A m \in wire' \cup acks' : m.known /\ m.name \in schemas'
    BY <1>1, <2>1 DEF Progress, Carried
  <2> QED
    BY <1>1, <2>2 DEF Progress, Carried, KeyOf
<1>9. OneInFlight'
  BY <1>1, <1>4, <1>6 DEF Progress, OneInFlight
<1>10. NextInFlight'
  <2>1. 1..(Message.n - 1) \subseteq Written(topics[Message.name], Message.by)
    BY <1>4, <1>6
  <2>2. Written(topics[Message.name], Message.by) \subseteq 1..Message.n
    BY <1>4, <1>6, <1>7
  <2> QED
    BY <1>1, <2>1, <2>2 DEF Progress, NextInFlight
<1>11. InFlightInOrder'
  <2>1. \E y \in Selected(run.only) :
          Datasets[y] = Message.name /\ \A x \in Selected(run.only) : x < y => Complete(x)
    BY <1>4, <1>6, <1>7
  <2>2. \A m \in wire' \cup acks' : m.by = runs => m = Message
    BY <1>1, <1>6
  <2> QED
    BY <1>1, <1>3, <2>1, <2>2 DEF InFlightInOrder, Complete
<1>12. NotYetRun' /\ EmissionOrder' /\ DatasetsInOrder' /\ SuccessMeansPublished'
  BY <1>1, <1>3 DEF Progress, NotYetRun, EmissionOrder, DatasetsInOrder, SuccessMeansPublished, Complete
<1>13. Loop'
  BY <1>1, <1>3, <1>5, <1>6 DEF Loop, Complete
<1> QED
  BY <1>8, <1>9, <1>10, <1>11, <1>12, <1>13 DEF Progress

\* A run that ends with an error or a signal leaves what is in flight behind.
LEMMA EndKeeps ==
  ASSUME TypeOK, Progress, Live, runs' = runs, topics' = topics, wire' = wire, acks' = acks,
         run' = [Down EXCEPT !.only = run.only], outcome' = [outcome EXCEPT ![runs] = "failed"],
         schemas \subseteq schemas'
  PROVE  Progress'
<1>1. runs \in 1..MaxRuns
  BY PublishAssumption DEF TypeOK, Progress, Loop
<1>2. run'.pc = "down" /\ run'.only = run.only
  BY DEF Down
<1>3. outcome'[runs] = "failed" /\ \A r \in 1..MaxRuns : r > runs => outcome'[r] = outcome[r]
  BY <1>1 DEF TypeOK
<1>4. Carried' /\ OneInFlight' /\ NextInFlight' /\ EmissionOrder'
  BY DEF Progress, Carried, KeyOf, OneInFlight, NextInFlight, EmissionOrder
<1>5. InFlightInOrder' /\ DatasetsInOrder'
  BY <1>2 DEF Progress, InFlightInOrder, DatasetsInOrder, Complete
<1>6. NotYetRun' /\ SuccessMeansPublished' /\ Loop'
  BY <1>2, <1>3 DEF Progress, NotYetRun, SuccessMeansPublished, Loop, Live
<1> QED
  BY <1>4, <1>5, <1>6 DEF Progress

LEMMA LoseAckKeeps ==
  ASSUME TypeOK, Progress, NEW m \in acks, LoseAck(m)
  PROVE  Progress'
<1>1. /\ runs' = runs /\ outcome' = outcome /\ topics' = topics /\ run' = run /\ schemas' = schemas
      /\ acks' = acks \ {m}
      /\ wire' = IF run.pc = "wait" /\ m = Message THEN wire \cup {m} ELSE wire
  BY DEF LoseAck
<1>2. Message' = Message
  BY <1>1 DEF Message
<1> HIDE DEF Message
<1>3. wire' \cup acks' \subseteq wire \cup acks /\ wire' \subseteq wire \cup {m}
  BY <1>1
<1>4. Carried' /\ NotYetRun' /\ EmissionOrder'
  BY <1>1, <1>3 DEF Progress, Carried, KeyOf, NotYetRun, EmissionOrder
<1>5. OneInFlight'
  BY <1>1, <1>3 DEF Progress, OneInFlight
<1>6. NextInFlight'
  <2>1. Written(topics[m.name], m.by) = 1..m.n /\ m.n \in Nat
    BY DEF Progress, NextInFlight, TypeOK, FlightOK, Messages
  <2>2. 1..(m.n - 1) \subseteq 1..m.n
    BY <2>1
  <2> QED
    BY <1>1, <1>3, <2>1, <2>2 DEF Progress, NextInFlight
<1>7. InFlightInOrder' /\ DatasetsInOrder' /\ SuccessMeansPublished'
  BY <1>1, <1>3 DEF Progress, InFlightInOrder, DatasetsInOrder, SuccessMeansPublished, Complete
<1>8. run.pc = "wait" /\ Message \in wire \cup acks => Message \in wire' \cup acks'
  BY <1>1
<1>9. Loop'
  BY <1>1, <1>2, <1>3, <1>8 DEF Progress, Loop, Live, Complete
<1> QED
  BY <1>4, <1>5, <1>6, <1>7, <1>9 DEF Progress

LEMMA DropKeeps ==
  ASSUME TypeOK, Progress, NEW m \in wire, Drop(m)
  PROVE  Progress'
<1>1. /\ runs' = runs /\ outcome' = outcome /\ topics' = topics /\ run' = run /\ schemas' = schemas
      /\ acks' = acks /\ wire' = wire \ {m} /\ (m.by # runs \/ ~ Live)
  BY DEF Drop
<1>2. Message' = Message /\ Message.by = runs
  BY <1>1 DEF Message
<1> HIDE DEF Message
<1>3. Carried' /\ NotYetRun' /\ EmissionOrder' /\ OneInFlight' /\ NextInFlight'
  BY <1>1 DEF Progress, Carried, KeyOf, NotYetRun, EmissionOrder, OneInFlight, NextInFlight
<1>4. InFlightInOrder' /\ DatasetsInOrder' /\ SuccessMeansPublished'
  BY <1>1 DEF Progress, InFlightInOrder, DatasetsInOrder, SuccessMeansPublished, Complete
<1>5. Loop'
  BY <1>1, <1>2 DEF Progress, Loop, Live, Complete
<1> QED
  BY <1>3, <1>4, <1>5 DEF Progress

LEMMA WriteKeeps ==
  ASSUME TypeOK, Progress, NEW m \in wire, Write(m)
  PROVE  Progress'
<1>1. /\ runs' = runs /\ outcome' = outcome /\ run' = run /\ schemas' = schemas
      /\ wire' = wire \ {m} /\ acks' = acks \cup {m}
  BY DEF Write
<1>2. /\ m.name \in Names /\ m.n \in All(m.name) /\ m.n \in Nat /\ m.by \in 1..runs
      /\ wire' \cup acks' = wire \cup acks
  BY <1>1 DEF TypeOK, FlightOK, Messages, All
<1>3. Carried /\ NextInFlight /\ OneInFlight
  BY DEF Progress
<1>4. /\ Carried'
      /\ \A d \in Names : \A r :
            Written(topics'[d], r) = IF d = m.name /\ r = m.by THEN 1..m.n ELSE Written(topics[d], r)
      /\ \A d \in Names : \A q \in Parts : \A r : Ordered(topics[d][q], r) => Ordered(topics'[d][q], r)
  BY <1>3, WriteEffect
<1>5. \A x \in Selected(run.only) : Datasets[x] \in Names /\ x \in 1..Len(Datasets)
  BY ConstantFacts DEF Selected
\* What a run has completed stays so.
<1>6. ASSUME NEW x \in Selected(run.only), Complete(x)
      PROVE  Written(topics'[Datasets[x]], runs) = All(Datasets[x])
  <2>1. CASE Datasets[x] = m.name /\ runs = m.by
    <3>1. Written(topics[m.name], m.by) \subseteq 1..m.n
      BY <1>3 DEF NextInFlight
    <3>2. Written(topics[m.name], m.by) = All(m.name)
      BY <1>6, <2>1 DEF Complete
    <3>3. 1..m.n = All(m.name)
      BY <1>2, <3>1, <3>2, ConstantFacts DEF All
    <3> QED
      BY <1>2, <1>4, <2>1, <3>3
  <2>2. CASE ~ (Datasets[x] = m.name /\ runs = m.by)
    BY <1>4, <1>5, <1>6, <2>2 DEF Complete
  <2> QED
    BY <2>1, <2>2
<1>7. Message' = Message /\ Message.by = runs /\ Message.name = Datasets[run.d]
  BY <1>1 DEF Message
<1> HIDE DEF Message
<1>8. OneInFlight'
  BY <1>1, <1>2, <1>3 DEF OneInFlight
<1>9. NextInFlight'
  <2>1. \A l \in wire \cup acks : l # m => l.by # m.by /\ l.name \in Names
    BY <1>3 DEF OneInFlight, TypeOK, FlightOK, Messages
  <2>2. \A l \in wire \cup acks : l # m => Written(topics'[l.name], l.by) = Written(topics[l.name], l.by)
    BY <1>4, <2>1
  <2>3. Written(topics'[m.name], m.by) = 1..m.n
    BY <1>2, <1>4
  <2> QED
    BY <1>1, <1>3, <2>2, <2>3 DEF NextInFlight
<1>10. InFlightInOrder'
  BY <1>1, <1>2, <1>6 DEF Progress, InFlightInOrder, Complete
<1>11. NotYetRun'
  BY <1>1 DEF Progress, NotYetRun
<1>12. EmissionOrder'
  <2>1. ASSUME NEW r \in 1..runs, NEW d \in Names
        PROVE  /\ \E n \in 0..Len(Records[d]) : Written(topics'[d], r) = 1..n
               /\ \A q \in Parts : Ordered(topics'[d][q], r)
    <3>1. /\ \E n \in 0..Len(Records[d]) : Written(topics[d], r) = 1..n
          /\ \A q \in Parts : Ordered(topics[d][q], r)
      BY DEF Progress, EmissionOrder
    <3>2. d = m.name => m.n \in 0..Len(Records[d])
      BY <1>2, ConstantFacts DEF All
    <3> QED
      BY <1>4, <3>1, <3>2
  <2> QED
    BY <1>1, <2>1 DEF EmissionOrder
<1>13. DatasetsInOrder'
  <2> SUFFICES ASSUME NEW x \in Selected(run.only), NEW y \in Selected(run.only), x < y,
                      Written(topics'[Datasets[y]], runs) # {}
               PROVE  Written(topics'[Datasets[x]], runs) = All(Datasets[x])
    BY <1>1 DEF DatasetsInOrder, Complete
  <2>1. CASE Written(topics[Datasets[y]], runs) # {}
    BY <1>6, <2>1 DEF Progress, DatasetsInOrder
  <2>2. CASE Written(topics[Datasets[y]], runs) = {}
    <3>1. Datasets[y] = m.name /\ m.by = runs
      BY <1>4, <1>5, <2>2
    <3>2. PICK z \in Selected(run.only) :
            Datasets[z] = m.name /\ \A v \in Selected(run.only) : v < z => Complete(v)
      BY <3>1 DEF Progress, InFlightInOrder
    <3>3. z = y
      BY <1>5, <3>1, <3>2, ConstantFacts
    <3> QED
      BY <1>6, <3>2, <3>3
  <2> QED
    BY <2>1, <2>2
<1>14. SuccessMeansPublished'
  BY <1>1, <1>6 DEF Progress, SuccessMeansPublished, Complete
<1>15. Loop'
  <2> SUFFICES ASSUME Live PROVE Loop'
    BY <1>1 DEF Loop, Live
  <2>1. /\ runs > 0 /\ outcome[runs] = "none"
        /\ \A x \in Selected(run.only) :
              /\ x < run.d => Complete(x)
              /\ x > run.d => Written(topics[Datasets[x]], runs) = {}
        /\ run.pc = "schema"  => Written(topics[Datasets[run.d]], runs) = {}
        /\ run.pc = "produce" => Written(topics[Datasets[run.d]], runs) = 1..(run.i - 1)
        /\ run.pc # "schema"  => run.known /\ Datasets[run.d] \in schemas
        /\ run.pc = "wait"    => Message \in wire \cup acks
        /\ run.pc # "wait"    => \A l \in wire \cup acks : l.by # runs
    BY DEF Progress, Loop
  <2>2. run.d \in Selected(run.only) /\ run.d \in Nat
    BY DEF TypeOK, InBounds, Loops
  <2>3. m.by = runs => run.pc = "wait" /\ m.name = Datasets[run.d]
    BY <1>3, <1>7, <2>1 DEF OneInFlight
  <2>4. \A x \in Selected(run.only) : x > run.d => Written(topics'[Datasets[x]], runs) = {}
    <3> SUFFICES ASSUME NEW x \in Selected(run.only), x > run.d
                 PROVE  Written(topics'[Datasets[x]], runs) = {}
      OBVIOUS
    <3>1. Datasets[x] # Datasets[run.d]
      BY <1>5, <2>2, ConstantFacts
    <3> QED
      BY <1>4, <1>5, <2>1, <2>3, <3>1
  <2>5. \A x \in Selected(run.only) : x < run.d => Written(topics'[Datasets[x]], runs) = All(Datasets[x])
    BY <1>6, <2>1
  <2>6. /\ run.pc = "schema"  => Written(topics'[Datasets[run.d]], runs) = {}
        /\ run.pc = "produce" => Written(topics'[Datasets[run.d]], runs) = 1..(run.i - 1)
    BY <1>4, <1>5, <2>1, <2>2, <2>3
  <2> QED
    BY <1>1, <1>2, <1>7, <2>1, <2>4, <2>5, <2>6 DEF Loop, Complete
<1> QED
  BY <1>4, <1>8, <1>9, <1>10, <1>11, <1>12, <1>13, <1>14, <1>15 DEF Progress

LEMMA AckKeeps ==
  ASSUME TypeOK, Progress, Ack
  PROVE  Progress'
<1>1. /\ run.pc = "wait" /\ Message \in acks /\ acks' = acks \ {Message}
      /\ runs' = runs /\ topics' = topics /\ wire' = wire /\ schemas' = schemas
  BY DEF Ack
<1>2. Message.name = Datasets[run.d] /\ Message.n = run.i /\ Message.by = runs
  BY <1>1, MessageType
<1> HIDE DEF Message
<1>3. /\ runs > 0 /\ outcome[runs] = "none" /\ run.known /\ Datasets[run.d] \in schemas
      /\ \A x \in Selected(run.only) :
            /\ x < run.d => Complete(x)
            /\ x > run.d => Written(topics[Datasets[x]], runs) = {}
  BY <1>1 DEF Progress, Loop, Live
<1>4. run.d \in Selected(run.only) /\ run.d \in Nat /\ run.i \in Nat /\ run.only \in SUBSET Names
  BY <1>1 DEF TypeOK, InBounds, Live, Loops
<1>5. Written(topics[Datasets[run.d]], runs) = 1..run.i
  BY <1>1, <1>2 DEF Progress, NextInFlight
<1>6. \A m \in wire' \cup acks' : m.by # runs /\ m \in wire \cup acks
  BY <1>1, <1>2 DEF Progress, OneInFlight
<1>7. Carried' /\ OneInFlight' /\ NextInFlight' /\ EmissionOrder'
  BY <1>1 DEF Progress, Carried, KeyOf, OneInFlight, NextInFlight, EmissionOrder
<1>8. InFlightInOrder'
  BY <1>1, <1>6 DEF InFlightInOrder
<1>9. CASE run.i < Len(Records[Datasets[run.d]])
  <2>1. outcome' = outcome /\ run' = [run EXCEPT !.pc = "produce", !.i = @ + 1]
    BY <1>9 DEF Ack
  <2>2. run' = [pc |-> "produce", d |-> run.d, i |-> run.i + 1, only |-> run.only, known |-> run.known]
    BY <2>1 DEF TypeOK, Loops
  <2>3. run'.pc = "produce" /\ run'.d = run.d /\ run'.i = run.i + 1 /\ run'.only = run.only /\ run'.known = run.known
    BY <2>2
  <2>4. NotYetRun' /\ DatasetsInOrder' /\ SuccessMeansPublished'
    BY <1>1, <2>1, <2>3 DEF Progress, NotYetRun, DatasetsInOrder, SuccessMeansPublished, Complete
  <2>5. Written(topics'[Datasets[run'.d]], runs') = 1..(run'.i - 1)
    BY <1>1, <1>4, <1>5, <2>3
  <2>6. Loop'
    BY <1>1, <1>3, <1>6, <2>1, <2>3, <2>5 DEF Loop, Complete
  <2> QED
    BY <1>7, <1>8, <2>4, <2>6 DEF Progress
<1>10. CASE ~ (run.i < Len(Records[Datasets[run.d]]))
  <2>1. Enter(run.only, run.d + 1)
    BY <1>10 DEF Ack
  <2>2. Complete(run.d)
    <3>1. run.i = Len(Records[Datasets[run.d]])
      BY <1>1, <1>4, <1>10, ConstantFacts DEF TypeOK, InBounds, Selected
    <3> QED
      BY <1>5, <3>1 DEF Complete, All
  <2>3. \A x \in Selected(run.only) : x \in Nat
    BY ConstantFacts DEF Selected
  <2>4. \A x \in Selected(run.only) : x < run.d + 1 => Complete(x)
    BY <1>3, <1>4, <2>2, <2>3
  <2>5. \A x \in Selected(run.only) : x \in Pending(run.only, run.d + 1) <=> x > run.d
    BY <1>4, <2>3 DEF Pending
  <2>6. run.d + 1 \in Nat /\ outcome \in [1..MaxRuns -> {"none", "ok", "failed"}] /\ runs \in 1..MaxRuns
    BY <1>3, <1>4, PublishAssumption DEF TypeOK
  <2>7. Loop' /\ NotYetRun' /\ SuccessMeansPublished' /\ run'.only = run.only
    <3>1. CASE /\ Pending(run.only, run.d + 1) = {}
               /\ run' = [pc |-> "down", d |-> 0, i |-> 0, only |-> run.only, known |-> FALSE]
               /\ outcome' = [outcome EXCEPT ![runs'] = "ok"]
      <4>1. run'.pc = "down" /\ run'.only = run.only
        BY <3>1
      <4>2. \A x \in Selected(run.only) : Complete(x)
        BY <1>4, <2>3, <2>4, <2>5, <3>1
      <4>3. SuccessMeansPublished'
        BY <1>1, <4>1, <4>2 DEF SuccessMeansPublished, Complete
      <4>4. NotYetRun'
        BY <1>1, <2>6, <3>1 DEF Progress, NotYetRun
      <4> QED
        BY <4>1, <4>3, <4>4 DEF Loop, Live
    <3>2. ASSUME NEW y \in Pending(run.only, run.d + 1), \A x \in Pending(run.only, run.d + 1) : y <= x,
                 run' = [pc |-> "schema", d |-> y, i |-> 0, only |-> run.only, known |-> FALSE],
                 outcome' = outcome
          PROVE  Loop' /\ NotYetRun' /\ SuccessMeansPublished' /\ run'.only = run.only
      <4>1. run'.pc = "schema" /\ run'.d = y /\ run'.only = run.only
        BY <3>2
      <4>2. y \in Selected(run.only) /\ y > run.d
        BY <1>4, <2>3, <3>2 DEF Pending
      <4>3. \A x \in Selected(run.only) : x < y => Complete(x)
        BY <1>4, <2>3, <2>4, <2>5, <3>2, <4>2
      <4>4. \A x \in Selected(run.only) : x > y => Written(topics[Datasets[x]], runs) = {}
        BY <1>3, <1>4, <2>3, <4>2
      <4>5. Written(topics[Datasets[y]], runs) = {}
        BY <1>3, <4>2
      <4>6. Loop'
        BY <1>1, <1>3, <1>6, <3>2, <4>1, <4>3, <4>4, <4>5 DEF Loop, Complete
      <4>7. NotYetRun' /\ SuccessMeansPublished'
        BY <1>1, <3>2, <4>1 DEF Progress, NotYetRun, SuccessMeansPublished, Complete
      <4> QED
        BY <4>1, <4>6, <4>7
    <3> QED
      BY <1>4, <2>1, <2>6, <3>1, <3>2, EnterEffect
  <2>8. DatasetsInOrder'
    BY <1>1, <2>7 DEF Progress, DatasetsInOrder, Complete
  <2> QED
    BY <1>7, <1>8, <2>7, <2>8 DEF Progress
<1> QED
  BY <1>9, <1>10

LEMMA NextProgress ==
  ASSUME TypeOK, Progress, [Next]_vars
  PROVE  Progress'
<1>1. ASSUME Stop PROVE Progress'
  BY <1>1, EndKeeps DEF Stop
<1>2. ASSUME Reject PROVE Progress'
  BY <1>2, EndKeeps DEF Reject, Live
<1>3. ASSUME UNCHANGED vars PROVE Progress'
  <2>1. /\ run' = run /\ runs' = runs /\ outcome' = outcome /\ topics' = topics /\ schemas' = schemas
        /\ wire' = wire /\ acks' = acks
    BY <1>3 DEF vars
  <2>2. Carried' /\ OneInFlight' /\ NextInFlight' /\ NotYetRun' /\ EmissionOrder'
    BY <2>1 DEF Progress, Carried, KeyOf, OneInFlight, NextInFlight, NotYetRun, EmissionOrder
  <2>3. InFlightInOrder' /\ DatasetsInOrder' /\ SuccessMeansPublished'
    BY <2>1 DEF Progress, InFlightInOrder, DatasetsInOrder, SuccessMeansPublished, Complete
  <2>4. Message' = Message
    BY <2>1 DEF Message
  <2> HIDE DEF Message
  <2>5. Loop'
    BY <2>1, <2>4 DEF Progress, Loop, Live, Complete
  <2> QED
    BY <2>2, <2>3, <2>5 DEF Progress
<1> QED
  BY <1>1, <1>2, <1>3, StartKeeps, RegisterKeeps, SendKeeps, WriteKeeps, LoseAckKeeps, DropKeeps,
     AckKeeps DEF Next

-----------------------------------------------------------------------------
(* The theorems *)

LEMMA Invariance == Spec => []PubInv
<1>1. Init => PubInv
  BY InitTypeOK, InitProgress DEF PubInv
<1>2. PubInv /\ [Next]_vars => PubInv'
  <2> SUFFICES ASSUME TypeOK, Progress, [Next]_vars PROVE PubInv'
    BY DEF PubInv
  <2>1. TypeOK'
    BY NextTypeOK DEF Progress
  <2>2. Progress'
    BY NextProgress
  <2> QED
    BY <2>1, <2>2 DEF PubInv
<1> QED
  BY <1>1, <1>2, PTL DEF Spec

\* The loops of PublishKafka stay inside the selected datasets and their records, and
\* the broker's state has its type.
THEOREM ProducerTypes == Spec => []TypeOK
<1>1. PubInv => TypeOK
  BY DEF PubInv
<1> QED
  BY <1>1, Invariance, PTL

\* Whatever is lost, sent again or left behind by an earlier run, every run's records
\* are in the topics in emission order, each once and without a gap.
THEOREM Emission == Spec => []EmissionOrder
<1>1. PubInv => EmissionOrder
  BY DEF PubInv, Progress
<1> QED
  BY <1>1, Invariance, PTL

\* PublishKafka comes to a dataset only when the selected ones before it are published,
\* also when a record of a dead run is written late.
THEOREM OneDatasetAfterTheOther == Spec => []DatasetsInOrder
<1>1. PubInv => DatasetsInOrder
  BY DEF PubInv, Progress
<1> QED
  BY <1>1, Invariance, PTL

\* A run that exits with status 0 has published every record of every selected dataset.
THEOREM NoFalseSuccess == Spec => []SuccessMeansPublished
<1>1. PubInv => SuccessMeansPublished
  BY DEF PubInv, Progress
<1> QED
  BY <1>1, Invariance, PTL

\* Every message in a topic carries an id of the registry and its subject is there.
THEOREM AlwaysDecodable == Spec => []Decodable
<1>1. PubInv => Decodable
  BY DEF PubInv, Progress, Carried, Decodable
<1> QED
  BY <1>1, Invariance, PTL

=============================================================================
