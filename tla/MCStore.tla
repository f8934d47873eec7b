------------------------------- MODULE MCStore -------------------------------
(* Store for TLC: no more insertions into a file than its pages can take. *)
EXTENDS Store

CONSTANTS
    MaxInserts, \* rows in all, those being inserted included
    MaxEvents,  \* drops and crashes together
    MaxUsage    \* usage counts

Bool(b) == [type |-> "boolean", bytes |-> <<b>>]
Number(n) == [type |-> "uint64",
              bytes |-> <<n % 256, n \div 256>> \o [b \in 1..6 |-> 0]]
Null == [type |-> "null", bytes |-> <<0>>]

\* Lengths as in the tests: those of the types.
TestSchema == <<[type |-> "uint64", length |-> 8], [type |-> "boolean", length |-> 1]>>
\* Two rows of this schema, and one the schema has no way to give back.
TestRows == {<<Number(258), Bool(1)>>, <<Number(0), Bool(0)>>, <<Number(1), Null>>}
\* Only what the schema can hold.
WellTypedRows == {<<Number(258), Bool(1)>>, <<Number(0), Bool(0)>>}

\* What StoreProofs presumes of a schema.
ASSUME TestLayoutFits == schema = TestSchema /\ Rows \subseteq TestRows => LayoutFits
ASSUME TestRowsOfSchema == schema = TestSchema => (RowsOfSchema <=> Rows \subseteq WellTypedRows)

\* example/main.cpp: its schema, and the row it inserts first.
ExampleSchema == <<[type |-> "uint64", length |-> 4], [type |-> "boolean", length |-> 1],
                   [type |-> "uint64", length |-> 4]>>
ExampleRows == {<<Number(0), Number(0), Number(100)>>}

Inserting == IF operation.kind \in {"insert", "inserted"} THEN 1 ELSE 0

Bounds ==
    /\ Cardinality(told) + Inserting <= MaxInserts
    /\ crashes + Cardinality({i \in Inodes : directory[i] = Dropped}) <= MaxEvents
    /\ \A f \in BP!Frames : buffer_descriptors_layer[f].usage <= MaxUsage

\* The kernel hands out the lowest descriptor that is free.
LowestDescriptor ==
    \A fd \in connected' \ connected, other \in FDs : other < fd => other \in BP!Alive

\* Names are made in this order.
NamesInOrder ==
    \A name \in Names : (\E inode \in Inodes : directory[inode] = name) =>
        \/ name = CHOOSE first \in Names : TRUE
        \/ \E inode \in Inodes : directory[inode] \notin {NotMade, name}

\* No more than one table is connected at a time.
OneTable == Cardinality(connected) <= 1
=============================================================================
