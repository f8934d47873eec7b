----------------------------- MODULE TablePage -----------------------------
(***************************************************************************)
(* FixedTablePage and Marshal (src/src/table, src/src/transform): how the  *)
(* rows of a table lie in the bytes of a page.                             *)
(*                                                                         *)
(* A page is an array of slots of one size, each a header byte and a row.  *)
(* A slot leaves a row the lengths its schema declares; serialize_row and  *)
(* deserialize_row go by the sizes of the C++ types.  A value is the       *)
(* alternative of the variant it is of, and its bytes: memcpy copies them. *)
(* What runs past the end of the page is outside of this model.            *)
(***************************************************************************)
EXTENDS Integers, SequencesExt

CONSTANTS
    PageSize,   \* bytes of a page: 4096
    schema      \* the columns, [type, length] each

Byte == 0..255
SizeOf == [boolean |-> 1, uint64 |-> 8, null |-> 1]

\* The lengths are what the caller says: nothing compares them with SizeOf.
ASSUME PageSizeAssumption == PageSize \in Nat \ {0}
ASSUME SchemaAssumption ==
    schema \in Seq([type : {"boolean", "uint64"}, length : Nat]) /\ schema # <<>>

EmptyPage == [byte \in 0..(PageSize - 1) |-> 0]
EmptyRow == <<>>

\* The sums of the first sizes, of as many as there are or fewer.
Totals(sizes) ==
    LET total[n \in 0..Len(sizes)] == IF n = 0 THEN 0 ELSE total[n - 1] + sizes[n]
    IN  total

-----------------------------------------------------------------------------
(* Marshal *)

\* calculate_row_space
fixed_row_space == Totals([c \in DOMAIN schema |-> schema[c].length])[Len(schema)]

serialize_row(row) == FlattenSeq([c \in DOMAIN row |-> row[c].bytes])

\* Where deserialize_row finds each column.
column_start == [c \in DOMAIN schema |->
                   Totals([d \in DOMAIN schema |-> SizeOf[schema[d].type]])[c - 1]]

deserialize_row(page, data) ==
    [c \in DOMAIN schema |->
       [type |-> schema[c].type,
        bytes |-> [b \in 1..SizeOf[schema[c].type] |-> page[data + column_start[c] + b - 1]]]]

-----------------------------------------------------------------------------
(* FixedTablePage *)

max_row_index == PageSize \div (1 + fixed_row_space)
RowIndexes == 0..(max_row_index - 1)

\* Mutant of data_by_index: no place for the header.
data_by_index_packed(index) == index * fixed_row_space

data_by_index(index) == index * (1 + fixed_row_space)

\* Mutant of FreeSlots: the headers are not looked at.
AllSlots(page) == RowIndexes

\* The slots find_free_slot chooses from; it takes the first.
FreeSlots(page) == {index \in RowIndexes : page[data_by_index(index)] = 0}

find_free_slot(page) ==
    CHOOSE index \in FreeSlots(page) : \A other \in FreeSlots(page) : index <= other

\* The page with the row in a slot.
WithRow(page, index, row) ==
    LET header == data_by_index(index)
        bytes  == serialize_row(row)
    IN  [b \in DOMAIN page |-> IF b = header THEN 1
                               ELSE IF b - header \in DOMAIN bytes THEN bytes[b - header]
                               ELSE page[b]]

get_row(page, index) ==
    IF page[data_by_index(index)] = 0 THEN EmptyRow
    ELSE deserialize_row(page, data_by_index(index) + 1)
=============================================================================
