------------------------------- MODULE Publish -------------------------------
(***************************************************************************)
(* `producer kafka': mockrun.PublishKafka publishes the datasets one after *)
(* the other, each record with a synchronous produce, and stops at the     *)
(* first error.  The operator starts it again as often as needed; every    *)
(* run begins with the first dataset.                                      *)
(*                                                                         *)
(* The registry and the broker are external: a registration may take place *)
(* although its caller sees an error, a record may be written although the *)
(* producer never sees the acknowledgment, even after the producer is      *)
(* gone, and a retransmitted record is written once (the idempotent        *)
(* producer of franz-go, within one run).                                  *)
(***************************************************************************)
EXTENDS Integers, Sequences, FiniteSets

CONSTANTS
    Datasets,   \* the sequence of dataset names that allDatasets builds
    Records,    \* [name -> sequence of the message keys of its records]
    PartOf,     \* [key -> partition]: the partitioner of franz-go hashes the key
    Suspects,   \* records that the codec may reject
    MaxRuns,    \* bound: runs of the producer
    MaxStops,   \* bound: runs that an error or a signal ends
    MaxLost     \* bound: acknowledgments lost

Names == {Datasets[x] : x \in 1..Len(Datasets)}
Parts == {PartOf[k] : k \in DOMAIN PartOf}

ASSUME PublishAssumption ==
    /\ Datasets \in Seq(Names)
    /\ \A x, y \in 1..Len(Datasets) : Datasets[x] = Datasets[y] => x = y
    /\ Records \in [Names -> Seq(DOMAIN PartOf)]
    /\ \A r \in Suspects : r.name \in Names /\ r.n \in 1..Len(Records[r.name])
    /\ MaxRuns \in Nat /\ MaxStops \in Nat /\ MaxLost \in Nat

VARIABLES
    bad,        \* records that Encode rejects, the same ones in every run
    run,        \* the producer: control state and loop variables
    runs,       \* runs started, and the number of the current one
    outcome,    \* [run -> "none", "ok" (exit 0) or "failed" (exit 1, or killed)]
    schemas,    \* names whose subject <topic>-value the registry holds
    wire,       \* records sent and not yet written
    acks,       \* records written whose acknowledgment is on its way
    topics,     \* [name -> [partition -> sequence of records]]
    stops, lost \* counters of the bounds

vars == <<bad, run, runs, outcome, schemas, wire, acks, topics, stops, lost>>

\* `d' and `i' are the loop variables, `only' the filter of --only, `known' whether
\* the schema id that the codec writes into every message comes from the registry.
Down == [pc |-> "down", d |-> 0, i |-> 0, only |-> {}, known |-> FALSE]

Live == run.pc \in {"schema", "produce", "wait"}

\* The message that record i of the current dataset becomes.
Message == [name |-> Datasets[run.d], n |-> run.i, by |-> runs, known |-> run.known]

\* The datasets that the loop does not skip: --only empty or naming it, and records
\* to publish.  Pending are those of them from position d on.
Selected(only)   == {x \in 1..Len(Datasets) :
                        /\ only = {} \/ Datasets[x] \in only
                        /\ Records[Datasets[x]] # <<>>}
Pending(only, d) == {x \in Selected(only) : x >= d}

\* The loop over datasets goes on at position d, or ends: PublishKafka returns nil.
Enter(only, d) ==
    IF Pending(only, d) = {}
    THEN /\ run' = [Down EXCEPT !.only = only]
         /\ outcome' = [outcome EXCEPT ![runs'] = "ok"]
    ELSE /\ run' = [pc |-> "schema", i |-> 0, only |-> only, known |-> FALSE,
                    d |-> CHOOSE x \in Pending(only, d) : \A y \in Pending(only, d) : x <= y]
         /\ UNCHANGED outcome

-----------------------------------------------------------------------------
Init ==
    /\ bad \in SUBSET Suspects
    /\ run = Down
    /\ runs = 0
    /\ outcome = [r \in 1..MaxRuns |-> "none"]
    /\ schemas = {} /\ wire = {} /\ acks = {}
    /\ topics = [d \in Names |-> [p \in Parts |-> <<>>]]
    /\ stops = 0 /\ lost = 0

Start(only) ==
    /\ ~ Live /\ runs < MaxRuns
    /\ runs' = runs + 1
    /\ Enter(only, 1)
    /\ UNCHANGED <<bad, schemas, wire, acks, topics, stops, lost>>

\* The schema file is read, registered (or found again) and parsed: the registry's
\* id goes into the codec.
Register ==
    /\ run.pc = "schema"
    /\ schemas' = schemas \cup {Datasets[run.d]}
    /\ run' = [run EXCEPT !.pc = "produce", !.i = 1, !.known = TRUE]
    /\ UNCHANGED <<bad, runs, outcome, wire, acks, topics, stops, lost>>

\* Encode accepts the record: every field of the schema is there and its value can
\* be coerced to the field's type.
Encodes(m) == [name |-> m.name, n |-> m.n] \notin bad

\* Mutant: produce without waiting for the acknowledgment.
MutSendOnly ==
    /\ run.pc = "produce" /\ Encodes(Message)
    /\ wire' = wire \cup {Message}
    /\ run' = IF run.i = Len(Records[Datasets[run.d]])
              THEN [run EXCEPT !.pc = "wait"] ELSE [run EXCEPT !.i = @ + 1]
    /\ UNCHANGED <<bad, runs, outcome, schemas, acks, topics, stops, lost>>

\* The record is encoded and handed to ProduceSync.
Send ==
    /\ run.pc = "produce" /\ Encodes(Message)
    /\ wire' = wire \cup {Message}
    /\ run' = [run EXCEPT !.pc = "wait"]
    /\ UNCHANGED <<bad, runs, outcome, schemas, acks, topics, stops, lost>>

KeyOf(m) == Records[m.name][m.n]

\* The broker writes a record to the partition of its key, unless it has it.
Write(m) ==
    LET p == PartOf[KeyOf(m)]
        written == \E x \in 1..Len(topics[m.name][p]) : topics[m.name][p][x] = m
    IN  /\ topics' = IF written THEN topics
                     ELSE [topics EXCEPT ![m.name][p] = Append(@, m)]
        /\ wire' = wire \ {m}
        /\ acks' = acks \cup {m}
        /\ UNCHANGED <<bad, run, runs, outcome, schemas, stops, lost>>

\* The acknowledgment is lost: a producer that still waits sends the record again.
LoseAck(m) ==
    /\ lost < MaxLost
    /\ lost' = lost + 1
    /\ acks' = acks \ {m}
    /\ wire' = IF run.pc = "wait" /\ m = Message THEN wire \cup {m} ELSE wire
    /\ UNCHANGED <<bad, run, runs, outcome, schemas, topics, stops>>

\* A record whose producer is gone is dropped with its connection.
Drop(m) ==
    /\ m.by # runs \/ ~ Live
    /\ wire' = wire \ {m}
    /\ UNCHANGED <<bad, run, runs, outcome, schemas, acks, topics, stops, lost>>

\* Mutant: the loop over the records goes one too far.
MutAckPastEnd ==
    /\ run.pc = "wait" /\ Message \in acks
    /\ acks' = acks \ {Message}
    /\ IF run.i <= Len(Records[Datasets[run.d]])
       THEN run' = [run EXCEPT !.pc = "produce", !.i = @ + 1] /\ UNCHANGED outcome
       ELSE UNCHANGED runs /\ Enter(run.only, run.d + 1)
    /\ UNCHANGED <<bad, runs, schemas, wire, topics, stops, lost>>
\* Mutant: the loop variable does not move.
MutAckStays ==
    /\ run.pc = "wait" /\ Message \in acks
    /\ acks' = acks \ {Message}
    /\ run' = [run EXCEPT !.pc = "produce"]
    /\ UNCHANGED <<bad, runs, outcome, schemas, wire, topics, stops, lost>>

\* ProduceSync returns: next record, next dataset, or the end.
Ack ==
    /\ run.pc = "wait" /\ Message \in acks
    /\ acks' = acks \ {Message}
    /\ UNCHANGED runs
    /\ IF run.i < Len(Records[Datasets[run.d]])
       THEN run' = [run EXCEPT !.pc = "produce", !.i = @ + 1] /\ UNCHANGED outcome
       ELSE Enter(run.only, run.d + 1)
    /\ UNCHANGED <<bad, schemas, wire, topics, stops, lost>>

\* Mutant: the error of a dataset is logged and the loop goes on.
MutStopSkipsDataset ==
    /\ Live /\ stops < MaxStops
    /\ stops' = stops + 1
    /\ UNCHANGED runs
    /\ Enter(run.only, run.d + 1)
    /\ UNCHANGED <<bad, schemas, wire, acks, topics, lost>>
\* Mutant: a signal ends PublishKafka without an error.
MutStopCleanly ==
    /\ Live /\ stops < MaxStops
    /\ stops' = stops + 1
    /\ run' = [Down EXCEPT !.only = run.only]
    /\ outcome' = [outcome EXCEPT ![runs] = "ok"]
    /\ UNCHANGED <<bad, runs, schemas, wire, acks, topics, lost>>
\* Mutant: the status of the registry's answer is not looked at.
MutStopKeepsId ==
    /\ Live /\ stops < MaxStops
    /\ stops' = stops + 1
    /\ IF run.pc = "schema"
       THEN run' = [run EXCEPT !.pc = "produce", !.i = 1] /\ UNCHANGED outcome
       ELSE run' = [Down EXCEPT !.only = run.only] /\ outcome' = [outcome EXCEPT ![runs] = "failed"]
    /\ UNCHANGED <<bad, runs, schemas, wire, acks, topics, lost>>

\* The first error ends the run, and so does a signal: whatever is on the wire
\* stays there.  The registry may have registered the schema all the same.
Stop ==
    /\ Live /\ stops < MaxStops
    /\ stops' = stops + 1
    /\ run' = [Down EXCEPT !.only = run.only]
    /\ outcome' = [outcome EXCEPT ![runs] = "failed"]
    /\ \/ UNCHANGED schemas
       \/ run.pc = "schema" /\ schemas' = schemas \cup {Datasets[run.d]}
    /\ UNCHANGED <<bad, runs, wire, acks, topics, lost>>

\* Encode fails: the run ends, and so will every run that comes to this record.
Reject ==
    /\ run.pc = "produce" /\ ~ Encodes(Message)
    /\ run' = [Down EXCEPT !.only = run.only]
    /\ outcome' = [outcome EXCEPT ![runs] = "failed"]
    /\ UNCHANGED <<bad, runs, schemas, wire, acks, topics, stops, lost>>

Next ==
    \/ \E only \in SUBSET Names : Start(only)
    \/ Register
    \/ Send
    \/ Reject
    \/ \E m \in wire : Write(m)
    \/ \E m \in acks : LoseAck(m)
    \/ \E m \in wire : Drop(m)
    \/ Ack
    \/ Stop

Spec == Init /\ [][Next]_vars

\* The process runs; the registry and the broker answer.
Fairness ==
    /\ WF_vars(Register) /\ WF_vars(Send) /\ WF_vars(Reject) /\ WF_vars(Ack)
    /\ WF_vars(\E m \in wire : Write(m))
FairSpec == Spec /\ Fairness
-----------------------------------------------------------------------------
(* Properties *)

Messages == [name : Names, n : Nat, by : Nat, known : BOOLEAN]
Loops    == [pc : {"down", "schema", "produce", "wait"}, d : Nat, i : Nat,
             only : SUBSET Names, known : BOOLEAN]

\* The loops stay inside what --only selects and inside the dataset.
InBounds ==
    /\ Live => run.d \in Selected(run.only)
    /\ run.pc \in {"produce", "wait"} => run.i \in 1..Len(Records[Datasets[run.d]])

\* What is in flight is a record of a dataset, sent by a run that was started.
FlightOK ==
    /\ wire \subseteq Messages /\ acks \subseteq Messages
    /\ \A m \in wire \cup acks : m.by \in 1..runs /\ m.n \in 1..Len(Records[m.name])

\* Types, with the bounds of the loops and of what is in flight.
TypeOK ==
    /\ bad \subseteq Suspects /\ runs \in 0..MaxRuns /\ run \in Loops
    /\ InBounds /\ FlightOK
    /\ outcome \in [1..MaxRuns -> {"none", "ok", "failed"}]
    /\ schemas \subseteq Names
    /\ topics \in [Names -> [Parts -> Seq(Messages)]]
    /\ stops \in Nat /\ lost \in Nat

\* Where the records of run r are in a partition s; which records of a dataset with
\* the partitions T the run wrote; whether they are in s in the order of the dataset.
By(s, r)      == {x \in 1..Len(s) : s[x].by = r}
Written(T, r) == UNION {{T[p][x].n : x \in By(T[p], r)} : p \in Parts}
Ordered(s, r) == \A x, y \in By(s, r) : x < y => s[x].n < s[y].n

\* The current run has written the whole dataset at position x.
All(d)      == 1..Len(Records[d])
Complete(x) == Written(topics[Datasets[x]], runs) = All(Datasets[x])

\* Within a run the broker receives the records as the generator emitted them: in
\* every partition in emission order, each once, and over the partitions without a
\* gap, so the deliberate disorder of _cdc_seq within a key arrives as it was made.
EmissionOrder ==
    \A r \in 1..runs, d \in Names :
        /\ \E n \in 0..Len(Records[d]) : Written(topics[d], r) = 1..n
        /\ \A p \in Parts : Ordered(topics[d][p], r)

\* A run that has begun a dataset has published all of every dataset before it that
\* the filter selects, whatever acknowledgments and runs were lost.
DatasetsInOrder ==
    \A x, y \in Selected(run.only) :
        (x < y /\ Written(topics[Datasets[y]], runs) # {}) => Complete(x)

\* Exit status 0 is no lie: every record of every selected dataset is in its topic,
\* so no run that selects a dataset with a record the codec rejects comes to it.
SuccessMeansPublished ==
    (runs > 0 /\ outcome[runs] = "ok") => \A x \in Selected(run.only) : Complete(x)

\* A consumer can read whatever is in a topic: its subject is in the registry and
\* the message carries an id the registry gave.
Decodable ==
    \A d \in Names, p \in Parts : \A x \in 1..Len(topics[d][p]) :
        topics[d][p][x].known /\ d \in schemas

\* Every run ends, by itself or stopped.
RunsEnd == Live ~> ~ Live
=============================================================================
