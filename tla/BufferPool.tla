----------------------------- MODULE BufferPool -----------------------------
(***************************************************************************)
(* The buffer pool (src/src/buffer_pool): the ClockCache that chooses      *)
(* frames, the FramePool that fills and flushes them, the PoolPages that   *)
(* pin them, and the File objects whose pages they hold.                   *)
(*                                                                         *)
(* Everything runs in one thread.  ClockCache::put is the one loop that    *)
(* may take long, or for ever, so each of its iterations is a step; every  *)
(* other call is one step.                                                 *)
(*                                                                         *)
(* A File object is named by its descriptor, as in the cache.  It lives as *)
(* long as a table or a frame holds a FilePtr to it; then its descriptor   *)
(* is closed and the kernel may hand it out again.  The pages of the file  *)
(* on disk belong to its inode: two File objects may be opened on one.     *)
(***************************************************************************)
EXTENDS Integers, Sequences, FiniteSets

CONSTANTS
    FrameCount,     \* frame_count of make_buffer_pool
    FDs,            \* descriptors the kernel hands out
    Inodes,         \* files on disk
    MaxPages,       \* pages of a file
    PageValues,     \* contents of a page
    Zero,           \* the content fallocate gives a page
    Holders,        \* those who may hold a PoolPage
    Reopens,        \* may a file be opened that has a File object already?
    DiskMayFill     \* may fallocate fail?

ASSUME FrameCountAssumption == FrameCount \in Nat \ {0}
ASSUME FDsAssumption == FDs \subseteq Nat \ {0}
ASSUME InodesAssumption == "none" \notin Inodes     \* NoInode
ASSUME MaxPagesAssumption == MaxPages \in Nat
ASSUME ZeroAssumption == Zero \in PageValues
ASSUME HoldersAssumption == IsFiniteSet(Holders) /\ "none" \notin Holders    \* NoRequest
ASSUME SwitchesAssumption == Reopens \in BOOLEAN /\ DiskMayFill \in BOOLEAN

VARIABLES
    disk,           \* the pages of each inode
    files,          \* the File objects
    connected,      \* the descriptors of the File objects held by a table
    frames,         \* FramePool::frames_, with the part of data_ each points to
    buffer_table_layer,         \* ClockCache: the frame of each cached page
    buffer_descriptors_layer,   \* ClockCache: tag, usage and lock of each frame
    cursor,         \* ClockCache: the hand of the clock
    pages,          \* the PoolPages
    request,        \* the get_page that is in ClockCache::put
    aborted         \* an assert of File::read has failed

vars == <<disk, files, connected, frames, buffer_table_layer,
          buffer_descriptors_layer, cursor, pages, request, aborted>>

-----------------------------------------------------------------------------
Frames == 0..(FrameCount - 1)
PageIndexes == 0..(MaxPages - 1)
PageIDs == FDs \X PageIndexes

NoFrame == -1
NoFile == -1        \* a FilePtr that is null
NoInode == "none"
UnusedTag == <<0, 0>>   \* BufferDescriptor{}: no File has descriptor 0
NoPage == [frame |-> NoFrame, id |-> UnusedTag]
NoRequest == [holder |-> "none", id |-> UnusedTag]

ClosedFile == [inode |-> NoInode, size |-> 0]
EmptyFrame == [owner |-> NoFile, page_index |-> 0, data |-> Zero, ref_count |-> 0]
UnusedDescriptor == [tag |-> UnusedTag, usage |-> 0, lock |-> FALSE]

Alive == {fd \in FDs : files[fd] # ClosedFile}

\* Mutant of FilesHeld: frames do not share in the ownership of a File.
FilesOfTables(new_frames, tables) ==
    [fd \in FDs |-> IF fd \in tables THEN files[fd] ELSE ClosedFile]

\* The File objects that are left once these frames and these tables are all
\* that holds them: ~File closes the others.
FilesHeld(new_frames, tables) ==
    [fd \in FDs |-> IF fd \in tables \/ \E f \in Frames : new_frames[f].owner = fd
                    THEN files[fd] ELSE ClosedFile]

Idle == request = NoRequest /\ ~aborted

Init ==
    /\ disk = [inode \in Inodes |-> <<>>]
    /\ files = [fd \in FDs |-> ClosedFile]
    /\ connected = {}
    /\ frames = [f \in Frames |-> EmptyFrame]
    /\ buffer_table_layer = [id \in PageIDs |-> NoFrame]
    /\ buffer_descriptors_layer = [f \in Frames |-> UnusedDescriptor]
    /\ cursor = 0
    /\ pages = [h \in Holders |-> NoPage]
    /\ request = NoRequest
    /\ aborted = FALSE

Max2(a, b) == IF a < b THEN b ELSE a

cacheVars == <<buffer_table_layer, buffer_descriptors_layer, cursor>>

-----------------------------------------------------------------------------
(* Files *)

\* A table is connected: the file is opened, and its size read.  The File that
\* another table, or a frame, still holds of the same file is a stranger to it.
OpenFile(fd, inode) ==
    /\ Idle
    /\ fd \notin Alive
    /\ \A other \in Alive : files[other].inode = inode => Reopens
    /\ files' = [files EXCEPT ![fd] = [inode |-> inode, size |-> Len(disk[inode])]]
    /\ connected' = connected \union {fd}
    /\ UNCHANGED <<disk, frames, cacheVars, pages, request, aborted>>

\* A table goes away; its File stays open while a frame holds it.
ReleaseFile(fd) ==
    /\ Idle
    /\ fd \in connected
    /\ connected' = connected \ {fd}
    /\ files' = FilesHeld(frames, connected \ {fd})
    /\ UNCHANGED <<disk, frames, cacheVars, pages, request, aborted>>

\* FALLOC_FL_ZERO_RANGE at the size this File object knows: the page there is
\* zeros, and so is any gap between it and what was the end of the file.
ZeroRange(fd) ==
    LET page == files[fd].size + 1
    IN  [disk EXCEPT ![files[fd].inode] =
           [p \in 1..Max2(Len(@), page) |-> IF p <= Len(@) /\ p # page THEN @[p] ELSE Zero]]

\* File::alloc_page.  fallocate reports failure as -1, which alloc does not
\* look for: size grows all the same.
AllocPage(fd) ==
    /\ Idle
    /\ fd \in connected
    /\ files[fd].size < MaxPages
    /\ disk' = ZeroRange(fd) \/ (DiskMayFill /\ disk' = disk)
    /\ files' = [files EXCEPT ![fd].size = @ + 1]
    /\ UNCHANGED <<connected, frames, cacheVars, pages, request, aborted>>

-----------------------------------------------------------------------------
(* get_page *)

\* A frame that is found or filled for holder h is referred to once more, and
\* locked with the first reference.
Referred(frame) == [frame EXCEPT !.ref_count = @ + 1]

\* ClockCache::get finds the page.
GetCached(h, id) ==
    /\ Idle
    /\ pages[h] = NoPage
    /\ id[1] \in connected
    /\ id[2] < files[id[1]].size
    /\ buffer_table_layer[id] # NoFrame
    /\ LET f == buffer_table_layer[id]
       IN  /\ frames' = [frames EXCEPT ![f] = Referred(@)]
           /\ buffer_descriptors_layer' =
                [buffer_descriptors_layer EXCEPT
                   ![f].usage = @ + 1,
                   ![f].lock = @ \/ frames[f].ref_count = 0]
           /\ pages' = [pages EXCEPT ![h] = [frame |-> f, id |-> id]]
    /\ UNCHANGED <<disk, files, connected, buffer_table_layer, cursor, request,
                   aborted>>

\* ClockCache::get does not: put is called.
GetUncached(h, id) ==
    /\ Idle
    /\ pages[h] = NoPage
    /\ id[1] \in connected
    /\ id[2] < files[id[1]].size
    /\ buffer_table_layer[id] = NoFrame
    /\ request' = [holder |-> h, id |-> id]
    /\ UNCHANGED <<disk, files, connected, frames, cacheVars, pages, aborted>>

Searching == request # NoRequest /\ ~aborted

\* Mutant of NextCursor: the hand does not go back to the first frame.
NextCursorUnbounded == cursor + 1

NextCursor == (cursor + 1) % FrameCount

\* Mutant of AtLocked: the clock does not look at the lock.
AtLockedNever == FALSE

AtLocked == buffer_descriptors_layer[cursor].lock

SkipLocked ==
    /\ Searching
    /\ AtLocked
    /\ cursor' = NextCursor
    /\ UNCHANGED <<disk, files, connected, frames, buffer_table_layer,
                   buffer_descriptors_layer, pages, request, aborted>>

\* Mutant of SpendUsage: the second chance is never used up.
SpendNothing ==
    /\ Searching
    /\ ~AtLocked
    /\ buffer_descriptors_layer[cursor].usage # 0
    /\ cursor' = NextCursor
    /\ UNCHANGED <<disk, files, connected, frames, buffer_table_layer,
                   buffer_descriptors_layer, pages, request, aborted>>

SpendUsage ==
    /\ Searching
    /\ ~AtLocked
    /\ buffer_descriptors_layer[cursor].usage # 0
    /\ buffer_descriptors_layer' = [buffer_descriptors_layer EXCEPT ![cursor].usage = @ - 1]
    /\ cursor' = NextCursor
    /\ UNCHANGED <<disk, files, connected, frames, buffer_table_layer, pages,
                   request, aborted>>

Found ==
    /\ Searching
    /\ ~AtLocked
    /\ buffer_descriptors_layer[cursor].usage = 0

\* Mutant of Dumped: the frame is not written back.
DumpedNever(f) == disk

\* dump_frame: a frame that has an owner is written back, changed or not.
Dumped(f) ==
    IF frames[f].owner = NoFile THEN disk
    ELSE [disk EXCEPT ![files[frames[f].owner].inode][frames[f].page_index + 1] =
            frames[f].data]

\* Mutant of TableWith: the key of the page before is not erased.
TableWithBoth(id, f) == [buffer_table_layer EXCEPT ![id] = f]

\* buffer_table_layer once the page before has made room for page id in frame f.
TableWith(id, f) ==
    [i \in PageIDs |-> IF i = id THEN f
                       ELSE IF i = buffer_descriptors_layer[f].tag THEN NoFrame
                       ELSE buffer_table_layer[i]]

\* The frame at the cursor is written back and filled with the page.
Replace ==
    LET f     == cursor
        id    == request.id
        inode == files[id[1]].inode
        filled == [owner |-> id[1], page_index |-> id[2],
                   data |-> Dumped(f)[inode][id[2] + 1], ref_count |-> 0]
        new_frames == [frames EXCEPT ![f] = Referred(filled)]
    IN  /\ Found
        /\ id[2] < Len(Dumped(f)[inode])
        /\ buffer_table_layer' = TableWith(id, f)
        /\ buffer_descriptors_layer' =
             [buffer_descriptors_layer EXCEPT ![f] = [tag |-> id, usage |-> 1, lock |-> TRUE]]
        /\ cursor' = NextCursor
        /\ disk' = Dumped(f)
        /\ frames' = new_frames
        /\ files' = FilesHeld(new_frames, connected)
        /\ pages' = [pages EXCEPT ![request.holder] = [frame |-> f, id |-> id]]
        /\ request' = NoRequest
        /\ UNCHANGED <<connected, aborted>>

\* pread returns nothing beyond the end of the file: assert(r == PageSize).  The
\* page before is on disk by then; what put and read_frame have done to the
\* cache and the frame is gone with the memory of the process.
ReadFails ==
    /\ Found
    /\ request.id[2] >= Len(Dumped(cursor)[files[request.id[1]].inode])
    /\ disk' = Dumped(cursor)
    /\ aborted' = TRUE
    /\ UNCHANGED <<files, connected, frames, cacheVars, pages, request>>

Search == SkipLocked \/ SpendUsage \/ Replace \/ ReadFails

-----------------------------------------------------------------------------
(* PoolPage *)

\* Through get_data().
WritePage(h, value) ==
    /\ Idle
    /\ pages[h] # NoPage
    /\ frames' = [frames EXCEPT ![pages[h].frame].data = value]
    /\ UNCHANGED <<disk, files, connected, cacheVars, pages, request, aborted>>

\* ~PoolPage: release_frame.
ReleasePage(h) ==
    /\ Idle
    /\ pages[h] # NoPage
    /\ LET f == pages[h].frame
       IN  /\ frames' = [frames EXCEPT ![f].ref_count = @ - 1]
           /\ buffer_descriptors_layer' =
                [buffer_descriptors_layer EXCEPT
                   ![f].lock = @ /\ frames[f].ref_count # 1]
    /\ pages' = [pages EXCEPT ![h] = NoPage]
    /\ UNCHANGED <<disk, files, connected, buffer_table_layer, cursor, request,
                   aborted>>

-----------------------------------------------------------------------------
\* ~FramePool dumps every frame, in order: the last frame of a page wins.
AllDumped ==
    [inode \in Inodes |-> [p \in DOMAIN disk[inode] |->
        LET holding == {f \in Frames : /\ frames[f].owner # NoFile
                                       /\ files[frames[f].owner].inode = inode
                                       /\ frames[f].page_index + 1 = p}
        IN  IF holding = {} THEN disk[inode][p]
            ELSE frames[CHOOSE f \in holding : \A g \in holding : g <= f].data]]

\* The store is destroyed and made anew: nobody may hold the pool then.
Restart ==
    /\ Idle
    /\ connected = {}
    /\ \A h \in Holders : pages[h] = NoPage
    /\ disk' = AllDumped
    /\ files' = [fd \in FDs |-> ClosedFile]
    /\ frames' = [f \in Frames |-> EmptyFrame]
    /\ buffer_table_layer' = [id \in PageIDs |-> NoFrame]
    /\ buffer_descriptors_layer' = [f \in Frames |-> UnusedDescriptor]
    /\ cursor' = 0
    /\ UNCHANGED <<connected, pages, request, aborted>>

\* The process dies, at any moment, and the kernel closes its descriptors.  Not
\* a step of this module's Next: pages lose what only frames held, and Store
\* says what that means.
Crash ==
    /\ disk' = disk
    /\ files' = [fd \in FDs |-> ClosedFile]
    /\ connected' = {}
    /\ frames' = [f \in Frames |-> EmptyFrame]
    /\ buffer_table_layer' = [id \in PageIDs |-> NoFrame]
    /\ buffer_descriptors_layer' = [f \in Frames |-> UnusedDescriptor]
    /\ cursor' = 0
    /\ pages' = [h \in Holders |-> NoPage]
    /\ request' = NoRequest
    /\ aborted' = FALSE

Next ==
    \/ \E fd \in FDs : \/ \E inode \in Inodes : OpenFile(fd, inode)
                       \/ ReleaseFile(fd)
                       \/ AllocPage(fd)
    \/ \E h \in Holders : \/ \E id \in PageIDs : GetCached(h, id) \/ GetUncached(h, id)
                          \/ \E value \in PageValues : WritePage(h, value)
                          \/ ReleasePage(h)
    \/ Search
    \/ Restart

Spec == Init /\ [][Next]_vars

-----------------------------------------------------------------------------
(* Properties *)

\* Every variable stays in its domain.
TypeOK ==
    /\ disk \in [Inodes -> Seq(PageValues)]
    /\ files \in [FDs -> [inode : Inodes \union {NoInode}, size : 0..MaxPages]]
    /\ connected \subseteq FDs
    /\ frames \in [Frames -> [owner : FDs \union {NoFile}, page_index : PageIndexes \union {0},
                              data : PageValues, ref_count : Nat]]
    /\ buffer_table_layer \in [PageIDs -> Frames \union {NoFrame}]
    /\ buffer_descriptors_layer \in
         [Frames -> [tag : PageIDs \union {UnusedTag}, usage : Nat, lock : BOOLEAN]]
    /\ cursor \in Frames
    /\ pages \in [Holders -> [frame : Frames \union {NoFrame}, id : PageIDs \union {UnusedTag}]]
    /\ request \in [holder : Holders, id : PageIDs] \union {NoRequest}
    /\ aborted \in BOOLEAN

\* The two layers of the cache and the frames say the same: a page is in the
\* table exactly if one descriptor is tagged with it, and the frame of that
\* descriptor holds this page of this File.  The asserts of acquire_frame.
LayersAgree ==
    /\ \A id \in PageIDs, f \in Frames :
         buffer_table_layer[id] = f <=> buffer_descriptors_layer[f].tag = id
    /\ \A f \in Frames :
         IF buffer_descriptors_layer[f].tag = UnusedTag THEN frames[f].owner = NoFile
         ELSE buffer_descriptors_layer[f].tag = <<frames[f].owner, frames[f].page_index>>

\* A cached page is named by a descriptor the kernel cannot have handed out
\* again: the File it was opened for is still alive.
DescriptorsNotReused ==
    \A f \in Frames : frames[f].owner # NoFile => frames[f].owner \in Alive

\* Who holds a page holds the frame it is cached in, and a frame is locked
\* exactly while somebody holds it, so the clock never takes it away.
HeldPagesStay ==
    /\ \A h \in Holders : pages[h] # NoPage =>
         buffer_table_layer[pages[h].id] = pages[h].frame
    /\ \A f \in Frames :
         LET holders == {h \in Holders : pages[h].frame = f}
         IN  /\ frames[f].ref_count = Cardinality(holders)
             /\ buffer_descriptors_layer[f].lock <=> holders # {}

\* Calls of increase() until the hand has come to frame f and spent its usage.
TurnsTo(f) ==
    (IF cursor <= f THEN f - cursor ELSE FrameCount - cursor + f)
      + FrameCount * buffer_descriptors_layer[f].usage

\* ClockCache::put ends if any frame is unlocked, and it is settled when and
\* with which: each iteration brings the hand nearer to every unlocked frame,
\* by one, however often its page was hit.  Only if all frames are held does
\* put go on for ever.
PutComesCloser ==
    [][Searching /\ Searching' =>
         \A f \in Frames : ~buffer_descriptors_layer[f].lock => TurnsTo(f)' = TurnsTo(f) - 1]_vars

\* What a page of a file holds: the frame it is cached in, or else the disk.
Content(inode, p) ==
    LET caching == {f \in Frames : /\ frames[f].owner # NoFile
                                   /\ files[frames[f].owner].inode = inode
                                   /\ frames[f].page_index + 1 = p}
    IN  IF caching = {} THEN disk[inode][p] ELSE frames[CHOOSE f \in caching : TRUE].data

PF == INSTANCE PagedFiles WITH
    Files <- Inodes,
    Nothing <- <<>>,
    content <- [inode \in Inodes |-> [p \in DOMAIN disk[inode] |-> Content(inode, p)]],
    held <- [h \in Holders |-> IF pages[h] = NoPage THEN <<>>
                               ELSE <<files[pages[h].id[1]].inode, pages[h].id[2] + 1>>]

\* A page changes only through somebody who holds it: no eviction, reload, new
\* page, descriptor that is used again or restart ever changes what it holds.
ImplementsPagedFiles == PF!Spec

\* file.cpp: assert(r == PageSize) in File::read.
ReadsWholePages == ~aborted
=============================================================================
