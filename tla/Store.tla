-------------------------------- MODULE Store --------------------------------
(***************************************************************************)
(* The storage engine: Store and Table (src/src/store, src/src/table) with *)
(* the pages of TablePage in the frames of BufferPool.                     *)
(*                                                                         *)
(* insert_row goes through the pages from where the last insertion of this *)
(* Table ended, takes the first free slot, and allocates a page when it    *)
(* has seen them all.  A Table holds one PoolPage at a time.               *)
(*                                                                         *)
(* A name is a file of the directory; drop takes it away, while tables and *)
(* frames may still hold the file.  The process may die at any moment.     *)
(***************************************************************************)
EXTENDS TablePage, FiniteSets

CONSTANTS
    FrameCount, FDs, Inodes, MaxPages, Reopens, DiskMayFill,  \* see BufferPool
    Names,      \* names of tables
    Rows,
    MaxCrashes  \* how often the process dies

ASSUME PoolAssumption ==
    /\ FrameCount \in Nat \ {0}
    /\ FDs \subseteq Nat \ {0}
    /\ "none" \notin Inodes
    /\ MaxPages \in Nat
    /\ Reopens \in BOOLEAN /\ DiskMayFill \in BOOLEAN
\* Rows are nonempty, and of the alternatives of the variant, of any types.
ASSUME RowsAssumption ==
    \A row \in Rows :
        /\ row \in Seq([type : DOMAIN SizeOf, bytes : Seq(Byte)]) \ {EmptyRow}
        /\ \A c \in DOMAIN row : Len(row[c].bytes) = SizeOf[row[c].type]
ASSUME SlotsAssumption == max_row_index > 0

VARIABLES
    disk, files, connected, frames, buffer_table_layer,
    buffer_descriptors_layer, cursor, pages, request, aborted,
    current_page_index, \* Table::current_page_index_ of each table
    operation,          \* the insert_row or get_row that is running
    told,               \* the rows inserted, with the ids insert_row returned
    answer,             \* what get_row has just returned
    directory,          \* the name of each file
    crashes             \* how often the process has died

BP == INSTANCE BufferPool WITH
    PageValues <- {EmptyPage},  \* not used here: WritePage is told what to write
    Zero <- EmptyPage,
    Holders <- {"table"}

poolVars == <<disk, files, connected, frames, buffer_table_layer,
              buffer_descriptors_layer, cursor, pages, request, aborted>>
tableVars == <<current_page_index, operation, told, answer>>
outsideVars == <<directory, crashes>>
vars == <<poolVars, tableVars, outsideVars>>

\* A file that has not been made yet, and one whose name is removed.
NotMade == "not made"
Dropped == "dropped"
ASSUME NamesAssumption == {NotMade, Dropped} \cap Names = {}

NoOperation == [kind |-> "none"]
NoAnswer == [file |-> "none", id |-> <<0, 0>>, row |-> EmptyRow]

Init ==
    /\ BP!Init
    /\ current_page_index = [fd \in FDs |-> 0]
    /\ operation = NoOperation
    /\ told = {}
    /\ answer = NoAnswer
    /\ directory = [inode \in Inodes |-> NotMade]
    /\ crashes = 0

\* The row a RowID names if its page holds these bytes.
RowOn(page_of, inode, id) ==
    IF id[1] < Len(disk[inode]) THEN get_row(page_of[id[1] + 1], id[2]) ELSE EmptyRow

\* The row in the file itself, whatever the frames hold.
SavedRow(inode, id) == RowOn(disk[inode], inode, id)

-----------------------------------------------------------------------------
\* Store::exists, and the file it is of.
exists(name, inode) == directory[inode] = name

\* A file nobody has seen yet, if there is one left: which of them is the same.
NewFile == LET unused == {inode \in Inodes : directory[inode] = NotMade}
           IN  IF unused = {} THEN {} ELSE {CHOOSE inode \in unused : TRUE}

\* Store::connect_table; a file is created when there is none of this name.
Connect(fd, name) ==
    /\ operation = NoOperation
    /\ \E inode \in IF \E made \in Inodes : exists(name, made)
                   THEN {made \in Inodes : exists(name, made)}
                   ELSE NewFile :
         /\ BP!OpenFile(fd, inode)
         /\ directory' = [directory EXCEPT ![inode] = name]
    /\ answer' = NoAnswer
    /\ UNCHANGED <<current_page_index, operation, told, crashes>>

\* ~Table.
Disconnect(fd) ==
    /\ operation = NoOperation
    /\ BP!ReleaseFile(fd)
    /\ current_page_index' = [current_page_index EXCEPT ![fd] = 0]
    /\ answer' = NoAnswer
    /\ UNCHANGED <<operation, told, outsideVars>>

\* Store::drop removes the name, open or not; the pages remain for those who
\* hold the file.
Drop(name) ==
    /\ operation = NoOperation
    /\ ~aborted
    /\ \E inode \in Inodes :
         /\ exists(name, inode)
         /\ directory' = [directory EXCEPT ![inode] = Dropped]
    /\ answer' = NoAnswer
    /\ UNCHANGED <<poolVars, current_page_index, operation, told, crashes>>

Restart ==
    /\ operation = NoOperation
    /\ BP!Restart
    /\ answer' = NoAnswer
    /\ UNCHANGED <<current_page_index, operation, told, outsideVars>>

\* The process dies, in the middle of a call or not.  Only the files and their
\* names are left, and so of the rows told only those that are in their files.
Crash ==
    /\ crashes < MaxCrashes
    /\ crashes' = crashes + 1
    /\ BP!Crash
    /\ current_page_index' = [fd \in FDs |-> 0]
    /\ operation' = NoOperation
    /\ told' = {t \in told : SavedRow(t.inode, t.id)' = t.row}
    /\ answer' = NoAnswer
    /\ UNCHANGED directory

-----------------------------------------------------------------------------
(* Table::get_table_page, for the page the operation is at. *)

Holding == pages["table"] # BP!NoPage

PageAt == IF operation.kind = "insert" THEN current_page_index[operation.fd]
          ELSE operation.id[1]

GetTablePage ==
    /\ operation # NoOperation
    /\ ~Holding
    /\ operation.kind = "insert" => PageAt # files[operation.fd].size
    /\ \/ BP!GetCached("table", <<operation.fd, PageAt>>)
       \/ BP!GetUncached("table", <<operation.fd, PageAt>>)
    /\ UNCHANGED <<tableVars, outsideVars>>

FillFrame == BP!Search /\ UNCHANGED <<tableVars, outsideVars>>

\* The bytes of the page that is held.
Page == frames[pages["table"].frame].data

-----------------------------------------------------------------------------
(* Table::insert_row *)

InsertRow(fd, row) ==
    /\ operation = NoOperation
    /\ fd \in connected
    /\ ~aborted
    /\ operation' = [kind |-> "insert", fd |-> fd, row |-> row]
    /\ answer' = NoAnswer
    /\ UNCHANGED <<poolVars, current_page_index, told, outsideVars>>

\* Mutant of InsertAllocates: the index is the count of pages, the new one included.
InsertAllocatesBehind ==
    /\ operation.kind = "insert"
    /\ ~Holding
    /\ PageAt = files[operation.fd].size
    /\ BP!AllocPage(operation.fd)
    /\ current_page_index' =
         [current_page_index EXCEPT ![operation.fd] = files'[operation.fd].size]
    /\ UNCHANGED <<operation, told, answer, outsideVars>>

\* All pages have been seen.
InsertAllocates ==
    /\ operation.kind = "insert"
    /\ ~Holding
    /\ PageAt = files[operation.fd].size
    /\ BP!AllocPage(operation.fd)
    /\ current_page_index' =
         [current_page_index EXCEPT ![operation.fd] = files[operation.fd].size]
    /\ UNCHANGED <<operation, told, answer, outsideVars>>

\* FixedTablePage::insert_row finds a slot, and the row reads back.
InsertIntoSlot ==
    /\ operation.kind = "insert"
    /\ Holding
    /\ FreeSlots(Page) # {}
    /\ LET slot    == find_free_slot(Page)
           written == WithRow(Page, slot, operation.row)
       IN  /\ get_row(written, slot) = operation.row
           /\ BP!WritePage("table", written)
           /\ operation' = [kind |-> "inserted", fd |-> operation.fd,
                            row |-> operation.row, id |-> <<PageAt, slot>>]
    /\ UNCHANGED <<current_page_index, told, answer, outsideVars>>

\* It does not: assert(actual_row == row) ends the program.
InsertFails ==
    /\ operation.kind = "insert"
    /\ Holding
    /\ ~aborted
    /\ FreeSlots(Page) # {}
    /\ LET slot == find_free_slot(Page)
       IN  get_row(WithRow(Page, slot, operation.row), slot) # operation.row
    /\ aborted' = TRUE
    /\ UNCHANGED <<disk, files, connected, frames, buffer_table_layer,
                   buffer_descriptors_layer, cursor, pages, request, tableVars, outsideVars>>

\* Mutant of InsertReturns: the next insertion begins on the next page.
InsertMovesOn ==
    /\ operation.kind = "inserted"
    /\ BP!ReleasePage("table")
    /\ told' = told \union {[inode |-> files[operation.fd].inode,
                             id |-> operation.id, row |-> operation.row]}
    /\ operation' = NoOperation
    /\ current_page_index' = [current_page_index EXCEPT ![operation.fd] = @ + 1]
    /\ UNCHANGED <<answer, outsideVars>>

InsertReturns ==
    /\ operation.kind = "inserted"
    /\ BP!ReleasePage("table")
    /\ told' = told \union {[inode |-> files[operation.fd].inode,
                             id |-> operation.id, row |-> operation.row]}
    /\ operation' = NoOperation
    /\ UNCHANGED <<current_page_index, answer, outsideVars>>

\* The page has no slot left: the loop goes on to the next page.
InsertSkipsPage ==
    /\ operation.kind = "insert"
    /\ Holding
    /\ FreeSlots(Page) = {}
    /\ BP!ReleasePage("table")
    /\ current_page_index' = [current_page_index EXCEPT ![operation.fd] = @ + 1]
    /\ UNCHANGED <<operation, told, answer, outsideVars>>

-----------------------------------------------------------------------------
(* Table::get_row, of a slot of a page the file has. *)

GetRow(fd, id) ==
    /\ operation = NoOperation
    /\ fd \in connected
    /\ ~aborted
    /\ id[1] < files[fd].size
    /\ operation' = [kind |-> "get", fd |-> fd, id |-> id]
    /\ answer' = NoAnswer
    /\ UNCHANGED <<poolVars, current_page_index, told, outsideVars>>

GetReturns ==
    /\ operation.kind = "get"
    /\ Holding
    /\ BP!ReleasePage("table")
    /\ answer' = [file |-> files[operation.fd].inode, id |-> operation.id,
                  row |-> get_row(Page, operation.id[2])]
    /\ operation' = NoOperation
    /\ UNCHANGED <<current_page_index, told, outsideVars>>

-----------------------------------------------------------------------------
RowIDs == (0..(MaxPages - 1)) \X RowIndexes

OperationStep ==
    \/ GetTablePage
    \/ FillFrame
    \/ InsertAllocates
    \/ InsertIntoSlot
    \/ InsertFails
    \/ InsertReturns
    \/ InsertSkipsPage
    \/ GetReturns

Next ==
    \/ \E fd \in FDs : \/ \E name \in Names : Connect(fd, name)
                       \/ Disconnect(fd)
                       \/ \E row \in Rows : InsertRow(fd, row)
                       \/ \E id \in RowIDs : GetRow(fd, id)
    \/ \E name \in Names : Drop(name)
    \/ Restart
    \/ Crash
    \/ OperationStep

\* Calls of one thread: what has begun goes on until it returns.
Spec == Init /\ [][Next]_vars /\ WF_vars(OperationStep)

-----------------------------------------------------------------------------
(* Properties *)

\* What the caller has to see to, for nothing checks it: the lengths a schema
\* declares are no shorter than the values of the column's type, and than those
\* that are inserted there; a row has no more values than there are columns.
LayoutFits ==
    /\ \A c \in DOMAIN schema : SizeOf[schema[c].type] <= schema[c].length
    /\ \A row \in Rows :
         /\ Len(row) <= Len(schema)
         /\ \A c \in DOMAIN row : SizeOf[row[c].type] <= schema[c].length

\* Rows have a value of its type for every column.
RowsOfSchema ==
    \A row \in Rows :
        /\ Len(row) = Len(schema)
        /\ \A c \in DOMAIN schema : row[c].type = schema[c].type

\* The row a RowID names, wherever its page is.
RowAt(inode, id) ==
    RowOn([p \in DOMAIN disk[inode] |-> BP!Content(inode, p)], inode, id)

RS == INSTANCE RowStore WITH
    Files <- Inodes,
    NoRow <- EmptyRow,
    rows <- [inode \in Inodes |-> [id \in RowIDs |-> RowAt(inode, id)]],
    saved <- [inode \in Inodes |-> {id \in RowIDs : SavedRow(inode, id) # EmptyRow}]

\* A slot is written once, by an insertion that finds it free, and nothing
\* else ever changes what it reads as: no row beside it, no eviction, reload,
\* new page, reconnection, drop or restart.  get_row returns what is there.  A
\* crash takes away exactly the rows that are in no file yet, and a row that
\* once is in its file is never lost from it.
ImplementsRowStore == RS!Spec

\* A file holds the rows insert_row was told to put there, where it said, and
\* no others: not those of a dropped table of the same name, of a table whose
\* descriptor is used again, or of an insertion a crash has cut off.
RowsAreWhatWasInserted ==
    \A inode \in Inodes, id \in RowIDs :
        \/ operation.kind = "inserted" /\ operation.id = id /\ files[operation.fd].inode = inode
        \/ {t.row : t \in {x \in told : x.inode = inode /\ x.id = id}}
             = {RowAt(inode, id)} \ {EmptyRow}

\* insert_row makes a file longer only when no slot of it is free: it goes on
\* from where the Table has been, in this call or an earlier one, and neither
\* that nor a page it has not looked at since its File was opened has room.
GrowsOnlyWhenFull ==
    [][InsertAllocates =>
         \A id \in RowIDs : id[1] < files[operation.fd].size
           => RowAt(files[operation.fd].inode, id) # EmptyRow]_vars

\* A page is asked for, found or filled, and looked at.
StepsOnPage == IF Holding THEN 1 ELSE IF request # BP!NoRequest THEN 2 ELSE 3

\* Some page the insertion has yet to look at has a free slot.
RoomAhead ==
    \E id \in RowIDs :
        /\ PageAt <= id[1] /\ id[1] < files[operation.fd].size
        /\ RowAt(files[operation.fd].inode, id) = EmptyRow

\* What is left of a call, the turns of the clock not counted: the pages ahead,
\* and one that has to be made if they are full.
StepsLeft ==
    CASE operation.kind = "none"     -> 0
      [] operation.kind = "inserted" -> 1
      [] operation.kind = "get"      -> StepsOnPage
      [] operation.kind = "insert"   -> 3 * (files[operation.fd].size - PageAt) + StepsOnPage
                                          + IF RoomAhead THEN 0 ELSE 4

\* insert_row and get_row end, and it is settled after how many steps when they
\* begin: each step is one of those that were left, fails an assert, or turns
\* the clock nearer to every frame, for a table has let go of one page before it
\* asks for the next.  No page is looked at twice, and none is made but one.
CallsComeCloser ==
    [][OperationStep =>
         \/ StepsLeft' \in 0..(StepsLeft - 1)
         \/ aborted'
         \/ /\ StepsLeft' = StepsLeft
            /\ \A f \in BP!Frames : BP!TurnsTo(f)' \in 0..(BP!TurnsTo(f) - 1)]_vars

\* test_buffer_pool.cpp, InsertAndGetRow and InsertAndGetRowWithRestart:
\* ASSERT_EQ(actual_row, expected.row) for every id insert_row has returned.
GetsWhatWasInserted ==
    [][\A t \in told :
         GetReturns /\ t.inode = files[operation.fd].inode /\ t.id = operation.id
           => answer'.row = t.row]_vars

\* What is left of that where a file is opened anew, connected twice or cut off:
\* get_row may miss a row, but never returns one that insert_row did not return
\* this id for.
GetsOnlyWhatWasInserted ==
    [][GetReturns =>
         \/ answer'.row = EmptyRow
         \/ \E t \in told : t.inode = answer'.file /\ t.id = answer'.id /\ t.row = answer'.row]_vars

\* fixed_table_page.cpp: assert(actual_row == row), for the rows inserted.
RowsReadBack == ~aborted

\* insert_row and get_row return, also with a single frame, unless an assert
\* ends the program.
OperationsEnd == operation # NoOperation ~> (operation = NoOperation \/ aborted)
=============================================================================
