-------------------------- MODULE BufferPoolProofs --------------------------
(***************************************************************************)
(* Proofs about BufferPool, for any number of frames, files and holders.   *)
(*                                                                         *)
(* LayersAgree and HeldPagesStay need each other: the clock spares frames  *)
(* that are locked, a frame is locked while its count is not zero, and the *)
(* page a holder has is still the one in its frame only because neither a  *)
(* second entry nor a second frame for it can appear (RequestWellFormed).  *)
(***************************************************************************)
EXTENDS BufferPool, FiniteSetTheorems, SequenceTheorems, Recursion, TLAPS

Assumptions ==
    /\ FrameCount \in Nat \ {0}
    /\ FDs \subseteq Nat \ {0}
    /\ MaxPages \in Nat
    /\ Zero \in PageValues
    /\ "none" \notin Inodes
    /\ "none" \notin Holders

\* Tables keep their Files alive, and a live File is open on an inode.
FilesWellFormed ==
    /\ connected \subseteq Alive
    /\ \A fd \in Alive : files[fd].inode \in Inodes

\* No file is longer than the bound.
DiskBounded == \A inode \in Inodes : Len(disk[inode]) <= MaxPages

\* Whoever holds a page knows its frame.
PagesWellFormed ==
    \A h \in Holders : pages[h] # NoPage => pages[h].frame \in Frames /\ pages[h].id \in PageIDs

\* ClockCache::put only runs for a page of a connected table that is in no
\* frame, and for someone who holds no page.
RequestWellFormed ==
    request # NoRequest => /\ pages[request.holder] = NoPage
                           /\ request.id[1] \in connected
                           /\ buffer_table_layer[request.id] = NoFrame

IInv ==
    /\ TypeOK
    /\ LayersAgree
    /\ DescriptorsNotReused
    /\ HeldPagesStay
    /\ FilesWellFormed
    /\ DiskBounded
    /\ PagesWellFormed
    /\ RequestWellFormed

-----------------------------------------------------------------------------
(* Lemmas about the operators of BufferPool. *)

\* The assumptions on the constants, under one name.
LEMMA ConstantsAssumed == Assumptions
  BY FrameCountAssumption, FDsAssumption, MaxPagesAssumption, ZeroAssumption,
     InodesAssumption, HoldersAssumption DEF Assumptions

\* The hand stays on the clock.
LEMMA NextCursorType ==
  ASSUME cursor \in Frames
  PROVE  NextCursor \in Frames
  BY ConstantsAssumed DEF Assumptions, Frames, NextCursor

\* No page has the tag of an unused descriptor.
LEMMA UnusedTagIsNone == UnusedTag \notin PageIDs
  BY ConstantsAssumed DEF Assumptions, UnusedTag, PageIDs

\* Values that stand for nothing are none of the somethings.
LEMMA NothingIsNothing ==
  /\ NoFrame \notin Frames
  /\ NoFile \notin FDs
  /\ UnusedDescriptor.tag = UnusedTag
  /\ 0 \in Frames
  BY ConstantsAssumed
     DEF Assumptions, NoFrame, Frames, NoFile, UnusedDescriptor, UnusedTag

\* A request that is one has a holder and a page.
LEMMA RequestType ==
  ASSUME TypeOK, request # NoRequest
  PROVE  request.holder \in Holders /\ request.id \in PageIDs
  BY DEF TypeOK

\* The parts of a page id.
LEMMA PageIDParts ==
  ASSUME NEW id \in PageIDs
  PROVE  id[1] \in FDs /\ id[2] \in PageIndexes /\ id = <<id[1], id[2]>>
  BY DEF PageIDs

\* What an assignment to page p makes of the pages s of a file.
Updated(s, p, d) == [s EXCEPT ![p] = d]

\* A sequence that changes in one place stays one of the same length.
LEMMA SequenceUpdated ==
  ASSUME NEW S, NEW s \in Seq(S), NEW p, NEW d \in S
  PROVE  Updated(s, p, d) \in Seq(S) /\ Len(Updated(s, p, d)) = Len(s)
<1> DEFINE t == Updated(s, p, d)
<1>1. Len(s) \in Nat /\ s \in [1..Len(s) -> S]
  BY LenProperties
<1>2. t \in [1..Len(s) -> S]
  BY <1>1 DEF Updated
<1>3. t \in Seq(S)
  BY <1>1, <1>2, SeqDef
<1> HIDE DEF t
<1>4. Len(t) = Len(s)
  BY <1>1, <1>2, <1>3, LenProperties
<1> QED BY <1>3, <1>4 DEF t

\* Writing a frame back changes no length, and leaves pages values.
LEMMA DumpedType ==
  ASSUME TypeOK, NEW f \in Frames
  PROVE  /\ Dumped(f) \in [Inodes -> Seq(PageValues)]
         /\ \A inode \in Inodes : Len(Dumped(f)[inode]) = Len(disk[inode])
<1> DEFINE inode0 == files[frames[f].owner].inode
           p0 == frames[f].page_index + 1
           d0 == frames[f].data
<1>1. disk \in [Inodes -> Seq(PageValues)] /\ d0 \in PageValues
  BY DEF TypeOK
<1>2. CASE frames[f].owner = NoFile
  BY <1>1, <1>2 DEF Dumped
<1>3. CASE frames[f].owner # NoFile
  <2>1. Dumped(f) = [i \in Inodes |-> IF i = inode0 THEN Updated(disk[i], p0, d0)
                                                    ELSE disk[i]]
    BY <1>1, <1>3 DEF Dumped, Updated
  <2>2. \A i \in Inodes : /\ Updated(disk[i], p0, d0) \in Seq(PageValues)
                          /\ Len(Updated(disk[i], p0, d0)) = Len(disk[i])
    BY <1>1, SequenceUpdated
  <2> HIDE DEF p0, d0, inode0
  <2> QED BY <1>1, <2>1, <2>2
<1> QED BY <1>2, <1>3

\* Closing Files leaves the others as they are.
LEMMA FilesHeldType ==
  ASSUME TypeOK, NEW new_frames, NEW tables
  PROVE  /\ FilesHeld(new_frames, tables) \in
              [FDs -> [inode : Inodes \union {NoInode}, size : 0..MaxPages]]
         /\ \A fd \in FDs :
              /\ fd \in tables \/ (\E f \in Frames : new_frames[f].owner = fd)
                 => FilesHeld(new_frames, tables)[fd] = files[fd]
              /\ FilesHeld(new_frames, tables)[fd] \in {files[fd], ClosedFile}
  BY ConstantsAssumed DEF TypeOK, FilesHeld, ClosedFile, NoInode, Assumptions

\* Who holds a page of frame f.
HoldersOf(f) == {h \in Holders : pages[h].frame = f}

\* A frame somebody holds has a count to take one from.
LEMMA HeldIsCounted ==
  ASSUME TypeOK, HeldPagesStay, NEW f \in Frames
  PROVE  /\ IsFiniteSet(HoldersOf(f))
         /\ Cardinality(HoldersOf(f)) \in Nat
         /\ HoldersOf(f) = {} <=> frames[f].ref_count = 0
         /\ frames[f].ref_count = Cardinality(HoldersOf(f))
         /\ buffer_descriptors_layer[f].lock <=> HoldersOf(f) # {}
<1>1. IsFiniteSet(HoldersOf(f))
  BY HoldersAssumption, FS_Subset DEF HoldersOf
<1>2. Cardinality(HoldersOf(f)) \in Nat /\ (Cardinality(HoldersOf(f)) = 0 <=> HoldersOf(f) = {})
  BY <1>1, FS_CardinalityType, FS_EmptySet
<1>3. /\ frames[f].ref_count = Cardinality(HoldersOf(f))
      /\ buffer_descriptors_layer[f].lock <=> HoldersOf(f) # {}
  BY DEF HeldPagesStay, HoldersOf
<1> QED BY <1>1, <1>2, <1>3

\* The last of the frames that hold a page, which ~FramePool writes last.
LEMMA LastFrame ==
  ASSUME NEW S \in SUBSET Frames, S # {}
  PROVE  \E f \in S : \A g \in S : g <= f
<1> DEFINE T == {FrameCount - f : f \in S}
<1>1. FrameCount \in Nat /\ \A f \in S : f \in Nat /\ f < FrameCount
  BY ConstantsAssumed DEF Assumptions, Frames
<1>2. T \subseteq Nat /\ T # {}
  BY <1>1
<1>3. PICK n \in T : \A m \in T : n <= m
  BY <1>2, LeastNatural
<1>4. PICK f \in S : n = FrameCount - f
  BY <1>3
<1>5. \A g \in S : FrameCount - f <= FrameCount - g
  BY <1>3, <1>4
<1> QED BY <1>1, <1>4, <1>5

-----------------------------------------------------------------------------
(* Types *)

\* Growing a file by zeros: no page of it that is not the new one changes.
LEMMA ZeroRangeType ==
  ASSUME TypeOK, FilesWellFormed, DiskBounded, NEW fd \in Alive, files[fd].size < MaxPages
  PROVE  /\ ZeroRange(fd) \in [Inodes -> Seq(PageValues)]
         /\ \A inode \in Inodes :
              Len(ZeroRange(fd)[inode]) =
                IF inode = files[fd].inode THEN Max2(Len(disk[inode]), files[fd].size + 1)
                ELSE Len(disk[inode])
<1> DEFINE inode0 == files[fd].inode
           page == files[fd].size + 1
           last == Max2(Len(disk[inode0]), page)
           zeroed == [p \in 1..last |-> IF p <= Len(disk[inode0]) /\ p # page
                                        THEN disk[inode0][p] ELSE Zero]
<1>1. /\ inode0 \in Inodes /\ disk[inode0] \in Seq(PageValues)
      /\ page \in Nat /\ Zero \in PageValues
  BY ConstantsAssumed DEF FilesWellFormed, TypeOK, Assumptions, Alive
<1>2. Len(disk[inode0]) \in Nat /\ disk[inode0] \in [1..Len(disk[inode0]) -> PageValues]
  BY <1>1, LenProperties
<1>3. last \in Nat
  BY <1>1, <1>2 DEF Max2
<1>4. zeroed \in [1..last -> PageValues]
  <2> HIDE DEF page, last, inode0
  <2> QED BY <1>1, <1>2, <1>3
<1>5. zeroed \in Seq(PageValues)
  <2> HIDE DEF zeroed, last
  <2> QED BY <1>3, <1>4, SeqDef
<1>6. Len(zeroed) = last
  <2> HIDE DEF zeroed, last
  <2> QED BY <1>3, <1>4, <1>5, LenProperties
<1>7. ZeroRange(fd) = [disk EXCEPT ![inode0] = zeroed]
  BY DEF ZeroRange
<1> HIDE DEF zeroed
<1> QED BY <1>1, <1>5, <1>6, <1>7 DEF TypeOK

\* ~FramePool writes frames to pages that are there.
LEMMA AllDumpedType ==
  ASSUME TypeOK
  PROVE  /\ AllDumped \in [Inodes -> Seq(PageValues)]
         /\ \A inode \in Inodes : Len(AllDumped[inode]) = Len(disk[inode])
<1> DEFINE holding(inode, p) == {f \in Frames : /\ frames[f].owner # NoFile
                                                /\ files[frames[f].owner].inode = inode
                                                /\ frames[f].page_index + 1 = p}
           lastOf(S) == CHOOSE f \in S : \A g \in S : g <= f
           dumped(inode) == [p \in DOMAIN disk[inode] |->
                               IF holding(inode, p) = {} THEN disk[inode][p]
                               ELSE frames[lastOf(holding(inode, p))].data]
<1>1. \A S \in SUBSET Frames : S # {} => lastOf(S) \in Frames
  BY LastFrame
<1>2. ASSUME NEW inode \in Inodes
      PROVE  dumped(inode) \in Seq(PageValues) /\ Len(dumped(inode)) = Len(disk[inode])
  <2>1. disk[inode] \in Seq(PageValues)
    BY DEF TypeOK
  <2>2. /\ Len(disk[inode]) \in Nat
        /\ DOMAIN disk[inode] = 1..Len(disk[inode])
        /\ disk[inode] \in [1..Len(disk[inode]) -> PageValues]
    BY <2>1, LenProperties
  <2>3. ASSUME NEW p \in DOMAIN disk[inode], holding(inode, p) # {}
        PROVE  frames[lastOf(holding(inode, p))].data \in PageValues
    <3>1. holding(inode, p) \in SUBSET Frames
      OBVIOUS
    <3>2. lastOf(holding(inode, p)) \in Frames
      <4> HIDE DEF holding, lastOf
      <4> QED BY <1>1, <2>3, <3>1
    <3> HIDE DEF holding, lastOf
    <3> QED BY <3>2 DEF TypeOK
  <2>4. dumped(inode) \in [1..Len(disk[inode]) -> PageValues]
    <3> HIDE DEF holding, lastOf
    <3> QED BY <2>2, <2>3
  <2>5. dumped(inode) \in Seq(PageValues)
    <3> HIDE DEF dumped
    <3> QED BY <2>2, <2>4, SeqDef
  <2>6. Len(dumped(inode)) = Len(disk[inode])
    <3> HIDE DEF dumped
    <3> QED BY <2>2, <2>4, <2>5, LenProperties
  <2> QED BY <2>5, <2>6
<1>3. AllDumped = [inode \in Inodes |-> dumped(inode)]
  BY DEF AllDumped
<1> HIDE DEF dumped
<1> QED BY <1>2, <1>3

FrameType == [owner : FDs \union {NoFile}, page_index : PageIndexes \union {0},
              data : PageValues, ref_count : Nat]
DescriptorType == [tag : PageIDs \union {UnusedTag}, usage : Nat, lock : BOOLEAN]

\* One more reference leaves a frame a frame, with the page it had.
LEMMA ReferredType ==
  ASSUME NEW frame \in FrameType
  PROVE  /\ Referred(frame) \in FrameType
         /\ Referred(frame).owner = frame.owner
         /\ Referred(frame).page_index = frame.page_index
         /\ Referred(frame).data = frame.data
         /\ Referred(frame).ref_count = frame.ref_count + 1
  BY DEF Referred, FrameType

\* What finding a page does to the descriptor of its frame.
LEMMA FoundDescriptor ==
  ASSUME TypeOK, NEW h \in Holders, NEW id \in PageIDs, GetCached(h, id)
  PROVE  /\ buffer_descriptors_layer' \in [Frames -> DescriptorType]
         /\ \A g \in Frames :
              /\ buffer_descriptors_layer'[g].tag = buffer_descriptors_layer[g].tag
              /\ buffer_descriptors_layer'[g].lock <=>
                   \/ buffer_descriptors_layer[g].lock
                   \/ g = buffer_table_layer[id] /\ frames[g].ref_count = 0
<1> DEFINE f == buffer_table_layer[id]
           lock == buffer_descriptors_layer[f].lock \/ frames[f].ref_count = 0
<1>1. buffer_descriptors_layer' =
        [buffer_descriptors_layer EXCEPT ![f].usage = @ + 1, ![f].lock = lock]
  BY DEF GetCached
<1>2. f \in Frames /\ lock \in BOOLEAN
  BY DEF GetCached, TypeOK
<1>3. buffer_descriptors_layer \in [Frames -> DescriptorType]
  BY DEF TypeOK, DescriptorType
<1>4. /\ buffer_descriptors_layer' \in [Frames -> DescriptorType]
      /\ \A g \in Frames :
           /\ buffer_descriptors_layer'[g].tag = buffer_descriptors_layer[g].tag
           /\ buffer_descriptors_layer'[g].lock =
                IF g = f THEN lock ELSE buffer_descriptors_layer[g].lock
  <2> HIDE DEF lock, f
  <2> DEFINE d == [buffer_descriptors_layer EXCEPT ![f].usage = @ + 1]
  <2>1. d \in [Frames -> DescriptorType] /\ \A g \in Frames :
          /\ d[g].tag = buffer_descriptors_layer[g].tag
          /\ d[g].lock = buffer_descriptors_layer[g].lock
    BY <1>2, <1>3 DEF DescriptorType
  <2>2. buffer_descriptors_layer' = [d EXCEPT ![f].lock = lock]
    BY <1>1, <1>2, <1>3 DEF DescriptorType
  <2> HIDE DEF d
  <2> QED BY <1>2, <2>1, <2>2 DEF DescriptorType
<1> QED BY <1>4

\* No step leaves the types or makes a file too long.
LEMMA TypeStep ==
  ASSUME IInv, [Next]_vars
  PROVE  TypeOK' /\ DiskBounded'
<1> USE DEF cacheVars
<1>0. /\ TypeOK /\ LayersAgree /\ HeldPagesStay /\ FilesWellFormed /\ DiskBounded
      /\ PagesWellFormed /\ RequestWellFormed
  BY DEF IInv
<1>1. CASE UNCHANGED vars
  BY <1>0, <1>1 DEF vars, TypeOK, DiskBounded
<1>2. ASSUME NEW fd \in FDs, NEW inode \in Inodes, OpenFile(fd, inode)
      PROVE  TypeOK' /\ DiskBounded'
  <2>1. disk[inode] \in Seq(PageValues) /\ Len(disk[inode]) \in 0..MaxPages
    BY <1>0, LenProperties, ConstantsAssumed DEF TypeOK, DiskBounded, Assumptions
  <2> QED BY <1>0, <1>2, <2>1 DEF OpenFile, TypeOK, DiskBounded
<1>3. ASSUME NEW fd \in FDs, ReleaseFile(fd)
      PROVE  TypeOK' /\ DiskBounded'
  BY <1>0, <1>3, FilesHeldType DEF ReleaseFile, TypeOK, DiskBounded
<1>4. ASSUME NEW fd \in FDs, AllocPage(fd)
      PROVE  TypeOK' /\ DiskBounded'
  <2>1. fd \in Alive /\ files[fd].size \in 0..MaxPages /\ files[fd].size < MaxPages
    BY <1>0, <1>4 DEF AllocPage, FilesWellFormed, TypeOK
  <2>2. files[fd].size + 1 \in 0..MaxPages
    BY <2>1, ConstantsAssumed DEF Assumptions
  <2>3. disk' \in [Inodes -> Seq(PageValues)] /\ DiskBounded'
    <3>1. CASE disk' = disk
      BY <1>0, <3>1 DEF TypeOK, DiskBounded
    <3>2. CASE disk' = ZeroRange(fd)
      BY <1>0, <2>1, <2>2, <3>2, ZeroRangeType DEF DiskBounded, Max2
    <3> QED BY <1>4, <3>1, <3>2 DEF AllocPage
  <2>4. files' \in [FDs -> [inode : Inodes \union {NoInode}, size : 0..MaxPages]]
    <3>1. files' = [files EXCEPT ![fd].size = @ + 1]
      BY <1>4 DEF AllocPage
    <3>2. files \in [FDs -> [inode : Inodes \union {NoInode}, size : 0..MaxPages]]
      BY <1>0 DEF TypeOK
    <3> QED BY <2>2, <3>1, <3>2
  <2> QED BY <1>0, <1>4, <2>3, <2>4 DEF AllocPage, TypeOK
<1>5. ASSUME NEW h \in Holders, NEW id \in PageIDs, GetCached(h, id)
      PROVE  TypeOK' /\ DiskBounded'
  <2> DEFINE f == buffer_table_layer[id]
  <2>1. f \in Frames
    BY <1>0, <1>5 DEF GetCached, TypeOK
  <2>2. frames' \in [Frames -> FrameType]
    <3>1. frames \in [Frames -> FrameType] /\ frames' = [frames EXCEPT ![f] = Referred(frames[f])]
      BY <1>0, <1>5 DEF GetCached, TypeOK, FrameType
    <3> HIDE DEF f
    <3> QED BY <2>1, <3>1, ReferredType
  <2>3. buffer_descriptors_layer' \in [Frames -> DescriptorType]
    BY <1>0, <1>5, FoundDescriptor
  <2>4. pages' \in [Holders -> [frame : Frames \union {NoFrame}, id : PageIDs \union {UnusedTag}]]
    BY <1>0, <1>5, <2>1 DEF GetCached, TypeOK
  <2> QED BY <1>0, <1>5, <2>2, <2>3, <2>4
          DEF GetCached, TypeOK, DiskBounded, FrameType, DescriptorType
<1>6. ASSUME NEW h \in Holders, NEW id \in PageIDs, GetUncached(h, id)
      PROVE  TypeOK' /\ DiskBounded'
  BY <1>0, <1>6 DEF GetUncached, TypeOK, DiskBounded
<1>7. ASSUME NEW h \in Holders, NEW value \in PageValues, WritePage(h, value)
      PROVE  TypeOK' /\ DiskBounded'
  <2> DEFINE f == pages[h].frame
  <2>1. frames' = [frames EXCEPT ![f].data = value] /\ frames \in [Frames -> FrameType]
    BY <1>0, <1>7 DEF WritePage, TypeOK, FrameType
  <2> HIDE DEF f
  <2>2. frames' \in [Frames -> FrameType]
    BY <2>1 DEF FrameType
  <2> QED BY <1>0, <1>7, <2>2 DEF WritePage, TypeOK, DiskBounded, FrameType
<1>8. ASSUME NEW h \in Holders, ReleasePage(h)
      PROVE  TypeOK' /\ DiskBounded'
  <2> DEFINE f == pages[h].frame
  <2>1. f \in Frames /\ h \in HoldersOf(f)
    BY <1>0, <1>8 DEF ReleasePage, PagesWellFormed, HoldersOf
  <2>2. frames[f].ref_count - 1 \in Nat
    BY <1>0, <2>1, HeldIsCounted
  <2>3. frames' \in [Frames -> [owner : FDs \union {NoFile}, page_index : PageIndexes \union {0},
                                data : PageValues, ref_count : Nat]]
    <3> DEFINE count == frames[f].ref_count - 1
    <3>1. frames' = [frames EXCEPT ![f].ref_count = count]
      BY <1>8 DEF ReleasePage
    <3>2. frames \in [Frames -> FrameType]
      BY <1>0 DEF TypeOK, FrameType
    <3> HIDE DEF count
    <3>3. count \in Nat
      BY <2>2 DEF count
    <3> HIDE DEF f
    <3> QED BY <2>1, <3>1, <3>2, <3>3 DEF FrameType
  <2>4. buffer_descriptors_layer' \in [Frames -> DescriptorType]
    <3> DEFINE lock == buffer_descriptors_layer[f].lock /\ frames[f].ref_count # 1
    <3>1. buffer_descriptors_layer' = [buffer_descriptors_layer EXCEPT ![f].lock = lock]
      BY <1>8 DEF ReleasePage
    <3>2. buffer_descriptors_layer \in [Frames -> DescriptorType]
      BY <1>0 DEF TypeOK, DescriptorType
    <3>3. lock \in BOOLEAN
      BY <1>0, <2>1 DEF TypeOK
    <3> HIDE DEF lock, f
    <3> QED BY <2>1, <3>1, <3>2, <3>3 DEF DescriptorType
  <2> QED BY <1>0, <1>8, <2>3, <2>4 DEF ReleasePage, TypeOK, DiskBounded, NoPage, DescriptorType
<1>9. CASE SkipLocked
  BY <1>0, <1>9, NextCursorType DEF SkipLocked, TypeOK, DiskBounded
<1>10. CASE SpendUsage
  <2>1. cursor \in Frames /\ buffer_descriptors_layer[cursor].usage - 1 \in Nat
    BY <1>0, <1>10 DEF SpendUsage, TypeOK
  <2>2. buffer_descriptors_layer' \in [Frames -> DescriptorType]
    <3> DEFINE usage == buffer_descriptors_layer[cursor].usage - 1
    <3>1. buffer_descriptors_layer' = [buffer_descriptors_layer EXCEPT ![cursor].usage = usage]
      BY <1>10 DEF SpendUsage
    <3>2. buffer_descriptors_layer \in [Frames -> DescriptorType] /\ usage \in Nat
      BY <1>0, <2>1 DEF TypeOK, DescriptorType
    <3> HIDE DEF usage
    <3> QED BY <3>1, <3>2 DEF DescriptorType
  <2> QED BY <1>0, <1>10, <2>1, <2>2, NextCursorType
          DEF SpendUsage, TypeOK, DiskBounded, DescriptorType
<1>11. CASE Replace
  <2> DEFINE f == cursor
             id == request.id
             inode == files[id[1]].inode
             filled == [owner |-> id[1], page_index |-> id[2],
                        data |-> Dumped(f)[inode][id[2] + 1], ref_count |-> 0]
             new_frames == [frames EXCEPT ![f] = Referred(filled)]
  <2>1. f \in Frames /\ id \in PageIDs /\ request.holder \in Holders
    BY <1>0, <1>11, RequestType DEF Replace, Found, Searching, TypeOK
  <2>2. id[1] \in FDs /\ id[2] \in PageIndexes /\ id[2] \in Nat /\ inode \in Inodes
    <3>1. id[1] \in FDs /\ id[2] \in PageIndexes
      BY <2>1, PageIDParts
    <3>2. id[2] \in Nat
      BY <3>1, ConstantsAssumed DEF PageIndexes, Assumptions
    <3>3. id[1] \in connected
      BY <1>0, <1>11 DEF Replace, Found, Searching, RequestWellFormed
    <3>4. inode \in Inodes
      BY <1>0, <3>1, <3>3 DEF FilesWellFormed
    <3> QED BY <3>1, <3>2, <3>4
  <2>3. Dumped(f) \in [Inodes -> Seq(PageValues)]
    BY <1>0, <2>1, DumpedType
  <2>4. Dumped(f)[inode][id[2] + 1] \in PageValues
    <3>1. id[2] < Len(Dumped(f)[inode])
      BY <1>11 DEF Replace
    <3>2. Dumped(f)[inode] \in Seq(PageValues)
      BY <2>2, <2>3
    <3> HIDE DEF f, id, inode
    <3>3. id[2] + 1 \in 1..Len(Dumped(f)[inode])
      BY <2>2, <3>1, <3>2, LenProperties
    <3> QED BY <3>2, <3>3, ElementOfSeq
  <2>5. new_frames \in [Frames -> FrameType]
    <3>1. filled \in FrameType
      BY <2>2, <2>4 DEF FrameType
    <3>2. frames \in [Frames -> FrameType]
      BY <1>0 DEF TypeOK, FrameType
    <3> HIDE DEF filled, f
    <3> QED BY <2>1, <3>1, <3>2, ReferredType
  <2>6. buffer_table_layer' \in [PageIDs -> Frames \union {NoFrame}]
    BY <1>0, <1>11, <2>1 DEF Replace, TableWith, TypeOK
  <2>7. buffer_descriptors_layer' \in
          [Frames -> [tag : PageIDs \union {UnusedTag}, usage : Nat, lock : BOOLEAN]]
    BY <1>0, <1>11, <2>1 DEF Replace, TypeOK
  <2>8. files' \in [FDs -> [inode : Inodes \union {NoInode}, size : 0..MaxPages]]
    BY <1>0, <1>11, FilesHeldType DEF Replace
  <2>9. pages' \in [Holders -> [frame : Frames \union {NoFrame}, id : PageIDs \union {UnusedTag}]]
    BY <1>0, <1>11, <2>1 DEF Replace, TypeOK
  <2>10. DiskBounded'
    BY <1>0, <1>11, <2>1, DumpedType DEF Replace, DiskBounded
  <2>11. frames' = new_frames /\ disk' = Dumped(f) /\ cursor' = NextCursor /\ request' = NoRequest
         /\ UNCHANGED <<connected, aborted>>
    BY <1>11 DEF Replace
  <2> HIDE DEF new_frames, f
  <2> QED BY <1>0, <2>3, <2>5, <2>6, <2>7, <2>8, <2>9, <2>10, <2>11, NextCursorType
          DEF TypeOK, FrameType
<1>12. CASE ReadFails
  <2>1. cursor \in Frames /\ disk' = Dumped(cursor)
    BY <1>0, <1>12 DEF ReadFails, TypeOK
  <2>2. disk' \in [Inodes -> Seq(PageValues)] /\ DiskBounded'
    BY <1>0, <2>1, DumpedType DEF DiskBounded
  <2> QED BY <1>0, <1>12, <2>2 DEF ReadFails, TypeOK
<1>13. CASE Restart
  <2>1. disk' \in [Inodes -> Seq(PageValues)] /\ DiskBounded'
    BY <1>0, <1>13, AllDumpedType DEF Restart, DiskBounded
  <2>2. /\ ClosedFile \in [inode : Inodes \union {NoInode}, size : 0..MaxPages]
        /\ EmptyFrame \in [owner : FDs \union {NoFile}, page_index : PageIndexes \union {0},
                           data : PageValues, ref_count : Nat]
        /\ UnusedDescriptor \in [tag : PageIDs \union {UnusedTag}, usage : Nat, lock : BOOLEAN]
    BY ConstantsAssumed DEF ClosedFile, EmptyFrame, UnusedDescriptor, Assumptions
  <2> QED BY <1>0, <1>13, <2>1, <2>2, NothingIsNothing DEF Restart, TypeOK
<1> QED BY <1>1, <1>2, <1>3, <1>4, <1>5, <1>6, <1>7, <1>8, <1>9, <1>10, <1>11, <1>12, <1>13
        DEF Next, Search

-----------------------------------------------------------------------------
(* The cache *)

\* What eviction changes: one frame nobody holds, its descriptor, the entries of
\* two pages, and what the caller of get_page holds.
LEMMA ReplaceEffect ==
  ASSUME IInv, Replace
  PROVE  /\ cursor \in Frames /\ request.id \in PageIDs /\ request.holder \in Holders
         /\ HoldersOf(cursor) = {}
         /\ pages[request.holder] = NoPage
         /\ request.id[1] \in connected
         /\ buffer_table_layer[request.id] = NoFrame
         /\ \A g \in Frames : g # cursor =>
              /\ frames'[g] = frames[g]
              /\ buffer_descriptors_layer'[g] = buffer_descriptors_layer[g]
         /\ frames'[cursor] = [owner |-> request.id[1], page_index |-> request.id[2],
                               data |-> Dumped(cursor)[files[request.id[1]].inode][request.id[2] + 1],
                               ref_count |-> 1]
         /\ buffer_descriptors_layer'[cursor].tag = request.id
         /\ buffer_descriptors_layer'[cursor].lock
         /\ \A i \in PageIDs :
              buffer_table_layer'[i] =
                IF i = request.id THEN cursor
                ELSE IF i = buffer_descriptors_layer[cursor].tag THEN NoFrame
                ELSE buffer_table_layer[i]
         /\ pages' = [pages EXCEPT ![request.holder] = [frame |-> cursor, id |-> request.id]]
         /\ disk' = Dumped(cursor)
         /\ files' = FilesHeld(frames', connected)
         /\ request' = NoRequest
         /\ UNCHANGED <<connected, aborted>>
<1>1. TypeOK /\ HeldPagesStay /\ RequestWellFormed
  BY DEF IInv
<1>2. request # NoRequest /\ ~buffer_descriptors_layer[cursor].lock
  BY DEF Replace, Found, Searching, AtLocked
<1>3. cursor \in Frames /\ request.id \in PageIDs /\ request.holder \in Holders
  BY <1>1, <1>2, RequestType DEF TypeOK
<1>4. HoldersOf(cursor) = {}
  BY <1>1, <1>2, <1>3, HeldIsCounted
<1>5. /\ frames' = [frames EXCEPT ![cursor] =
                      Referred([owner |-> request.id[1], page_index |-> request.id[2],
                                data |-> Dumped(cursor)[files[request.id[1]].inode][request.id[2] + 1],
                                ref_count |-> 0])]
      /\ buffer_descriptors_layer' = [buffer_descriptors_layer EXCEPT ![cursor] =
                                        [tag |-> request.id, usage |-> 1, lock |-> TRUE]]
      /\ buffer_table_layer' = TableWith(request.id, cursor)
      /\ pages' = [pages EXCEPT ![request.holder] = [frame |-> cursor, id |-> request.id]]
      /\ disk' = Dumped(cursor)
      /\ files' = FilesHeld(frames', connected)
      /\ request' = NoRequest
      /\ UNCHANGED <<connected, aborted>>
  BY DEF Replace
<1>6. \A d : Referred([owner |-> request.id[1], page_index |-> request.id[2],
                       data |-> d, ref_count |-> 0])
             = [owner |-> request.id[1], page_index |-> request.id[2], data |-> d, ref_count |-> 1]
  BY DEF Referred
<1>7. /\ \A g \in Frames : g # cursor =>
           /\ frames'[g] = frames[g]
           /\ buffer_descriptors_layer'[g] = buffer_descriptors_layer[g]
      /\ buffer_descriptors_layer'[cursor].tag = request.id
      /\ buffer_descriptors_layer'[cursor].lock
  BY <1>1, <1>3, <1>5 DEF TypeOK
<1>8. \A i \in PageIDs :
        buffer_table_layer'[i] = IF i = request.id THEN cursor
                                 ELSE IF i = buffer_descriptors_layer[cursor].tag THEN NoFrame
                                 ELSE buffer_table_layer[i]
  BY <1>5 DEF TableWith
<1>9. frames'[cursor] = [owner |-> request.id[1], page_index |-> request.id[2],
                         data |-> Dumped(cursor)[files[request.id[1]].inode][request.id[2] + 1],
                         ref_count |-> 1]
  BY <1>1, <1>3, <1>5, <1>6 DEF TypeOK
<1> QED BY <1>1, <1>2, <1>3, <1>4, <1>5, <1>7, <1>8, <1>9 DEF RequestWellFormed

\* The table, the tags and the frames go on saying the same.
LEMMA LayersStep ==
  ASSUME IInv, [Next]_vars
  PROVE  LayersAgree'
<1> USE DEF cacheVars
<1>0. TypeOK /\ LayersAgree /\ PagesWellFormed
  BY DEF IInv
<1>1. ASSUME UNCHANGED buffer_table_layer,
             \A f \in Frames :
               /\ buffer_descriptors_layer'[f].tag = buffer_descriptors_layer[f].tag
               /\ frames'[f].owner = frames[f].owner
               /\ frames'[f].page_index = frames[f].page_index
      PROVE  LayersAgree'
  BY <1>0, <1>1 DEF LayersAgree
<1>2. CASE UNCHANGED <<buffer_table_layer, buffer_descriptors_layer, frames>>
  BY <1>1, <1>2
<1>3. ASSUME NEW h \in Holders, NEW id \in PageIDs, GetCached(h, id)
      PROVE  LayersAgree'
  <2>1. frames \in [Frames -> FrameType] /\ buffer_table_layer[id] \in Frames
    BY <1>0, <1>3 DEF GetCached, TypeOK, FrameType
  <2>2. frames' = [frames EXCEPT ![buffer_table_layer[id]] = Referred(@)]
    BY <1>3 DEF GetCached
  <2>3. UNCHANGED buffer_table_layer
    BY <1>3 DEF GetCached
  <2> QED BY <1>0, <1>1, <1>3, <2>1, <2>2, <2>3, FoundDescriptor, ReferredType
<1>4. ASSUME NEW h \in Holders, NEW value \in PageValues, WritePage(h, value)
      PROVE  LayersAgree'
  BY <1>0, <1>1, <1>4 DEF WritePage, TypeOK, PagesWellFormed
<1>5. ASSUME NEW h \in Holders, ReleasePage(h)
      PROVE  LayersAgree'
  BY <1>0, <1>1, <1>5 DEF ReleasePage, TypeOK, PagesWellFormed
<1>6. CASE SpendUsage
  BY <1>0, <1>1, <1>6 DEF SpendUsage, TypeOK
<1>7. CASE Replace
  <2>1. request.id \in PageIDs /\ request.id = <<request.id[1], request.id[2]>>
    BY <1>7, ReplaceEffect, PageIDParts
  <2>2. ASSUME NEW id \in PageIDs, NEW f \in Frames
        PROVE  buffer_table_layer'[id] = f <=> buffer_descriptors_layer'[f].tag = id
    BY <1>0, <1>7, ReplaceEffect, NothingIsNothing DEF LayersAgree
  <2>3. ASSUME NEW f \in Frames
        PROVE  IF buffer_descriptors_layer'[f].tag = UnusedTag THEN frames'[f].owner = NoFile
               ELSE buffer_descriptors_layer'[f].tag = <<frames'[f].owner, frames'[f].page_index>>
    <3>1. CASE f = cursor
      BY <1>7, <2>1, <3>1, ReplaceEffect, UnusedTagIsNone
    <3>2. CASE f # cursor
      BY <1>0, <1>7, <3>2, ReplaceEffect DEF LayersAgree
    <3> QED BY <3>1, <3>2
  <2> QED BY <2>2, <2>3 DEF LayersAgree
<1>8. CASE Restart
  <2>1. \A f \in Frames : /\ buffer_descriptors_layer'[f].tag = UnusedTag
                          /\ frames'[f].owner = NoFile
    BY <1>8 DEF Restart, UnusedDescriptor, EmptyFrame
  <2>2. \A id \in PageIDs : buffer_table_layer'[id] = NoFrame
    BY <1>8 DEF Restart
  <2> QED BY <2>1, <2>2, UnusedTagIsNone, NothingIsNothing DEF LayersAgree
<1>9. QED
  BY <1>2, <1>3, <1>4, <1>5, <1>6, <1>7, <1>8
     DEF Next, Search, vars, OpenFile, ReleaseFile, AllocPage, GetUncached, SkipLocked, ReadFails

-----------------------------------------------------------------------------
(* Files and holders *)

\* A File object lives while a table or a frame holds it.
LEMMA FilesStep ==
  ASSUME IInv, [Next]_vars
  PROVE  DescriptorsNotReused' /\ FilesWellFormed'
<1> USE DEF cacheVars
<1>0. TypeOK /\ DescriptorsNotReused /\ FilesWellFormed /\ PagesWellFormed
  BY DEF IInv
<1>1. ASSUME UNCHANGED <<files, connected>>,
             \A f \in Frames : frames'[f].owner = frames[f].owner
      PROVE  DescriptorsNotReused' /\ FilesWellFormed'
  BY <1>0, <1>1 DEF DescriptorsNotReused, FilesWellFormed, Alive
<1>2. CASE UNCHANGED <<files, connected, frames>>
  BY <1>1, <1>2
<1>3. ASSUME NEW fd \in FDs, NEW inode \in Inodes, OpenFile(fd, inode)
      PROVE  DescriptorsNotReused' /\ FilesWellFormed'
  <2>1. files'[fd].inode = inode /\ files'[fd] # ClosedFile
    BY <1>0, <1>3, ConstantsAssumed DEF OpenFile, TypeOK, ClosedFile, NoInode, Assumptions
  <2>2. \A other \in FDs : other # fd => files'[other] = files[other]
    BY <1>0, <1>3 DEF OpenFile, TypeOK
  <2>3. Alive' = Alive \union {fd}
    BY <1>3, <2>1, <2>2 DEF Alive, OpenFile
  <2> QED BY <1>0, <1>3, <2>1, <2>2, <2>3
          DEF OpenFile, DescriptorsNotReused, FilesWellFormed, Alive
<1>4. ASSUME NEW new_frames, NEW tables \in SUBSET FDs, tables \subseteq Alive,
             \A f \in Frames : new_frames[f].owner # NoFile => new_frames[f].owner \in Alive,
             frames' = new_frames, connected' = tables,
             files' = FilesHeld(new_frames, tables)
      PROVE  DescriptorsNotReused' /\ FilesWellFormed'
  <2>1. \A fd \in FDs : files'[fd] \in {files[fd], ClosedFile}
    BY <1>0, <1>4, FilesHeldType
  <2>2. \A fd \in tables : files'[fd] = files[fd]
    BY <1>0, <1>4, FilesHeldType
  <2>3. \A f \in Frames : new_frames[f].owner \in FDs
          => files'[new_frames[f].owner] = files[new_frames[f].owner]
    BY <1>0, <1>4, FilesHeldType
  <2> QED BY <1>0, <1>4, <2>1, <2>2, <2>3 DEF DescriptorsNotReused, FilesWellFormed, Alive
<1>5. ASSUME NEW fd \in FDs, ReleaseFile(fd)
      PROVE  DescriptorsNotReused' /\ FilesWellFormed'
  <2>1. connected \ {fd} \in SUBSET FDs /\ connected \ {fd} \subseteq Alive
    BY <1>0 DEF TypeOK, FilesWellFormed
  <2> QED BY <1>0, <1>4, <1>5, <2>1 DEF ReleaseFile, DescriptorsNotReused
<1>6. ASSUME NEW fd \in FDs, AllocPage(fd)
      PROVE  DescriptorsNotReused' /\ FilesWellFormed'
  <2>1. \A other \in FDs : files'[other].inode = files[other].inode
    BY <1>0, <1>6 DEF AllocPage, TypeOK
  <2>2. \A other \in Alive : files[other].inode # NoInode
    BY <1>0, ConstantsAssumed DEF FilesWellFormed, NoInode, Assumptions
  <2>3. \A other \in Alive : files'[other] # ClosedFile
    BY <2>1, <2>2 DEF Alive, ClosedFile
  <2>4. Alive' = Alive
    <3>1. \A other \in FDs : other # fd => files'[other] = files[other]
      BY <1>0, <1>6 DEF AllocPage, TypeOK
    <3>2. fd \in Alive
      BY <1>0, <1>6 DEF AllocPage, FilesWellFormed
    <3> QED BY <2>3, <3>1, <3>2 DEF Alive
  <2>5. UNCHANGED <<frames, connected>>
    BY <1>6 DEF AllocPage
  <2> QED BY <1>0, <2>1, <2>4, <2>5 DEF DescriptorsNotReused, FilesWellFormed, Alive
<1>7. ASSUME NEW h \in Holders, NEW id \in PageIDs, GetCached(h, id)
      PROVE  DescriptorsNotReused' /\ FilesWellFormed'
  <2>1. frames \in [Frames -> FrameType] /\ buffer_table_layer[id] \in Frames
    BY <1>0, <1>7 DEF GetCached, TypeOK, FrameType
  <2>2. frames' = [frames EXCEPT ![buffer_table_layer[id]] = Referred(@)]
    BY <1>7 DEF GetCached
  <2>3. UNCHANGED <<files, connected>>
    BY <1>7 DEF GetCached
  <2> QED BY <1>1, <2>1, <2>2, <2>3, ReferredType
<1>8. ASSUME NEW h \in Holders, NEW value \in PageValues, WritePage(h, value)
      PROVE  DescriptorsNotReused' /\ FilesWellFormed'
  BY <1>0, <1>1, <1>8 DEF WritePage, TypeOK, PagesWellFormed
<1>9. ASSUME NEW h \in Holders, ReleasePage(h)
      PROVE  DescriptorsNotReused' /\ FilesWellFormed'
  BY <1>0, <1>1, <1>9 DEF ReleasePage, TypeOK, PagesWellFormed
<1>10. CASE Replace
  <2>1. \A f \in Frames : frames'[f].owner # NoFile => frames'[f].owner \in Alive
    BY <1>0, <1>10, ReplaceEffect DEF DescriptorsNotReused, FilesWellFormed
  <2>2. connected \in SUBSET FDs /\ connected \subseteq Alive /\ connected' = connected
        /\ files' = FilesHeld(frames', connected)
    BY <1>0, <1>10, ReplaceEffect DEF FilesWellFormed, TypeOK
  <2> QED BY <1>4, <2>1, <2>2
<1>11. CASE Restart
  <2>1. Alive' = {} /\ connected' = {}
    BY <1>11 DEF Restart, Alive
  <2>2. \A f \in Frames : frames'[f].owner = NoFile
    BY <1>11 DEF Restart, EmptyFrame
  <2> QED BY <2>1, <2>2 DEF DescriptorsNotReused, FilesWellFormed
<1>12. QED
  BY <1>2, <1>3, <1>5, <1>6, <1>7, <1>8, <1>9, <1>10, <1>11
     DEF Next, Search, vars, GetUncached, SkipLocked, SpendUsage, ReadFails

\* A request stays one for a page in no frame until it is answered.
LEMMA RequestStep ==
  ASSUME IInv, [Next]_vars
  PROVE  RequestWellFormed'
<1> USE DEF cacheVars
<1>0. TypeOK /\ RequestWellFormed
  BY DEF IInv
<1>1. CASE UNCHANGED <<request, pages, connected, buffer_table_layer>>
  BY <1>0, <1>1 DEF RequestWellFormed
<1>2. CASE request' = NoRequest
  BY <1>2 DEF RequestWellFormed
<1>3. ASSUME NEW h \in Holders, NEW id \in PageIDs, GetUncached(h, id)
      PROVE  RequestWellFormed'
  BY <1>0, <1>3 DEF GetUncached, RequestWellFormed
<1> QED BY <1>1, <1>2, <1>3
        DEF Next, Search, vars, Idle, OpenFile, ReleaseFile, AllocPage, GetCached,
            WritePage, ReleasePage, SkipLocked, SpendUsage, Replace, ReadFails, Restart

\* Who starts and who stops holding a page is counted; nobody loses one.
LEMMA HoldersStep ==
  ASSUME IInv, [Next]_vars
  PROVE  HeldPagesStay' /\ PagesWellFormed'
<1> USE DEF cacheVars
<1>0. TypeOK /\ LayersAgree /\ HeldPagesStay /\ PagesWellFormed /\ RequestWellFormed
  BY DEF IInv
<1>a. \A h \in Holders : pages[h] # NoPage =>
        /\ pages[h].frame \in Frames /\ pages[h].id \in PageIDs
        /\ buffer_table_layer[pages[h].id] = pages[h].frame
        /\ buffer_descriptors_layer[pages[h].frame].tag = pages[h].id
  BY <1>0 DEF PagesWellFormed, HeldPagesStay, LayersAgree
<1>b. NoPage.frame = NoFrame /\ NoFrame \notin Frames
  BY NothingIsNothing DEF NoPage
<1>c. ASSUME \A f \in Frames : /\ frames'[f].ref_count = Cardinality(HoldersOf(f)')
                               /\ buffer_descriptors_layer'[f].lock <=> HoldersOf(f)' # {},
             \A h \in Holders : pages'[h] # NoPage =>
               /\ pages'[h].frame \in Frames /\ pages'[h].id \in PageIDs
               /\ buffer_table_layer'[pages'[h].id] = pages'[h].frame
      PROVE  HeldPagesStay' /\ PagesWellFormed'
  BY <1>c DEF HeldPagesStay, PagesWellFormed, HoldersOf
<1>1. ASSUME UNCHANGED <<pages, buffer_table_layer>>,
             \A f \in Frames : /\ frames'[f].ref_count = frames[f].ref_count
                               /\ buffer_descriptors_layer'[f].lock
                                    <=> buffer_descriptors_layer[f].lock
      PROVE  HeldPagesStay' /\ PagesWellFormed'
  BY <1>0, <1>1 DEF HeldPagesStay, PagesWellFormed
<1>2. CASE UNCHANGED <<pages, buffer_table_layer, buffer_descriptors_layer, frames>>
  BY <1>1, <1>2
<1>3. ASSUME NEW h \in Holders, NEW id \in PageIDs, GetCached(h, id)
      PROVE  HeldPagesStay' /\ PagesWellFormed'
  <2>0. PICK f \in Frames : f = buffer_table_layer[id]
    BY <1>0, <1>3 DEF GetCached, TypeOK
  <2>1. /\ pages[h] = NoPage
        /\ pages' = [pages EXCEPT ![h] = [frame |-> f, id |-> id]]
        /\ UNCHANGED buffer_table_layer
        /\ frames' = [frames EXCEPT ![f] = Referred(@)]
        /\ frames \in [Frames -> FrameType]
    BY <1>0, <1>3, <2>0 DEF GetCached, TypeOK, FrameType
  <2>2. /\ frames'[f].ref_count = frames[f].ref_count + 1
        /\ \A g \in Frames : g # f => frames'[g] = frames[g]
    BY <2>1, ReferredType
  <2>3. HoldersOf(f)' = HoldersOf(f) \union {h} /\ h \notin HoldersOf(f)
    BY <1>0, <1>b, <2>1 DEF HoldersOf, TypeOK
  <2>4. \A g \in Frames : g # f => HoldersOf(g)' = HoldersOf(g)
    BY <1>0, <1>b, <2>1 DEF HoldersOf, TypeOK
  <2>5. Cardinality(HoldersOf(f)') = Cardinality(HoldersOf(f)) + 1
    <3>1. IsFiniteSet(HoldersOf(f))
      BY <1>0, <2>1, HeldIsCounted
    <3> QED BY <2>3, <3>1, FS_AddElement
  <2>6. \A g \in Frames :
          buffer_descriptors_layer'[g].lock <=>
            buffer_descriptors_layer[g].lock \/ (g = f /\ frames[g].ref_count = 0)
    BY <1>0, <1>3, <2>0, FoundDescriptor
  <2>7. ASSUME NEW g \in Frames
        PROVE  /\ frames'[g].ref_count = Cardinality(HoldersOf(g)')
               /\ buffer_descriptors_layer'[g].lock <=> HoldersOf(g)' # {}
    <3>1. CASE g = f
      BY <1>0, <2>1, <2>2, <2>3, <2>5, <2>6, <3>1, HeldIsCounted
    <3>2. CASE g # f
      BY <1>0, <2>2, <2>4, <2>6, <3>2, HeldIsCounted
    <3> QED BY <3>1, <3>2
  <2>8. \A x \in Holders : pages'[x] # NoPage =>
          /\ pages'[x].frame \in Frames /\ pages'[x].id \in PageIDs
          /\ buffer_table_layer'[pages'[x].id] = pages'[x].frame
    BY <1>0, <1>a, <2>0, <2>1 DEF TypeOK
  <2> QED BY <1>c, <2>7, <2>8
<1>4. ASSUME NEW h \in Holders, NEW value \in PageValues, WritePage(h, value)
      PROVE  HeldPagesStay' /\ PagesWellFormed'
  BY <1>0, <1>1, <1>4 DEF WritePage, TypeOK, PagesWellFormed
<1>5. ASSUME NEW h \in Holders, ReleasePage(h)
      PROVE  HeldPagesStay' /\ PagesWellFormed'
  <2>0. PICK f \in Frames : f = pages[h].frame
    BY <1>5, <1>a DEF ReleasePage
  <2> DEFINE lock == buffer_descriptors_layer[f].lock /\ frames[f].ref_count # 1
  <2>1. h \in HoldersOf(f)
    BY <2>0 DEF HoldersOf
  <2>2. /\ frames'[f].ref_count = frames[f].ref_count - 1
        /\ \A g \in Frames : g # f => frames'[g] = frames[g]
    BY <1>0, <1>5, <2>0 DEF ReleasePage, TypeOK
  <2>3. /\ buffer_descriptors_layer'[f].lock <=> lock
        /\ \A g \in Frames : g # f =>
             buffer_descriptors_layer'[g].lock = buffer_descriptors_layer[g].lock
    <3>1. buffer_descriptors_layer' = [buffer_descriptors_layer EXCEPT ![f].lock = lock]
      BY <1>5, <2>0 DEF ReleasePage
    <3>2. buffer_descriptors_layer \in [Frames -> DescriptorType]
      BY <1>0 DEF TypeOK, DescriptorType
    <3>3. buffer_descriptors_layer'[f].lock = lock
      <4> HIDE DEF lock
      <4> QED BY <2>1, <3>1, <3>2 DEF DescriptorType
    <3>4. \A g \in Frames : g # f => buffer_descriptors_layer'[g] = buffer_descriptors_layer[g]
      <4> HIDE DEF lock
      <4> QED BY <2>1, <3>1, <3>2
    <3> QED BY <3>3, <3>4
  <2>4. pages' = [pages EXCEPT ![h] = NoPage] /\ UNCHANGED buffer_table_layer
    BY <1>5 DEF ReleasePage
  <2>5. HoldersOf(f)' = HoldersOf(f) \ {h}
    BY <1>0, <1>b, <2>1, <2>4 DEF HoldersOf, TypeOK
  <2>6. \A g \in Frames : g # f => HoldersOf(g)' = HoldersOf(g)
    BY <1>0, <1>b, <2>1, <2>4 DEF HoldersOf, TypeOK
  <2>7. /\ IsFiniteSet(HoldersOf(f)')
        /\ Cardinality(HoldersOf(f)') = Cardinality(HoldersOf(f)) - 1
        /\ Cardinality(HoldersOf(f)') = 0 <=> HoldersOf(f)' = {}
    <3>1. IsFiniteSet(HoldersOf(f))
      BY <1>0, <2>1, HeldIsCounted
    <3> QED BY <2>1, <2>5, <3>1, FS_RemoveElement, FS_EmptySet
  <2>8. ASSUME NEW g \in Frames
        PROVE  /\ frames'[g].ref_count = Cardinality(HoldersOf(g)')
               /\ buffer_descriptors_layer'[g].lock <=> HoldersOf(g)' # {}
    <3>1. CASE g = f
      <4>1. frames[f].ref_count = Cardinality(HoldersOf(f)) /\ Cardinality(HoldersOf(f)) \in Nat
            /\ (buffer_descriptors_layer[f].lock <=> HoldersOf(f) # {})
        BY <1>0, <2>1, HeldIsCounted
      <4>2. frames[f].ref_count # 1 <=> HoldersOf(f)' # {}
        BY <2>7, <4>1
      <4>3. buffer_descriptors_layer[f].lock
        BY <2>1, <4>1
      <4>4. frames'[f].ref_count = Cardinality(HoldersOf(f)')
        BY <2>2, <2>7, <4>1
      <4>5. buffer_descriptors_layer'[f].lock <=> HoldersOf(f)' # {}
        BY <2>3, <4>2, <4>3 DEF lock
      <4> QED BY <3>1, <4>4, <4>5
    <3>2. CASE g # f
      BY <1>0, <2>2, <2>3, <2>6, <3>2, HeldIsCounted
    <3> QED BY <3>1, <3>2
  <2>9. \A x \in Holders : pages'[x] # NoPage =>
          /\ pages'[x].frame \in Frames /\ pages'[x].id \in PageIDs
          /\ buffer_table_layer'[pages'[x].id] = pages'[x].frame
    BY <1>0, <1>a, <2>4 DEF TypeOK
  <2> QED BY <1>c, <2>8, <2>9
<1>6. CASE SpendUsage
  BY <1>0, <1>1, <1>6 DEF SpendUsage, TypeOK
<1>7. CASE Replace
  <2>0. PICK f \in Frames : f = cursor
    BY <1>7, ReplaceEffect
  <2>a. /\ \A x \in Holders : pages'[x].frame = IF x = request.holder THEN f ELSE pages[x].frame
        /\ pages[request.holder].frame \notin Frames
    BY <1>0, <1>b, <1>7, <2>0, ReplaceEffect DEF TypeOK
  <2>1. HoldersOf(f)' = {request.holder}
    BY <1>7, <2>0, <2>a, ReplaceEffect DEF HoldersOf
  <2>2. \A g \in Frames : g # f => HoldersOf(g)' = HoldersOf(g)
    BY <2>a DEF HoldersOf
  <2>3. ASSUME NEW g \in Frames
        PROVE  /\ frames'[g].ref_count = Cardinality(HoldersOf(g)')
               /\ buffer_descriptors_layer'[g].lock <=> HoldersOf(g)' # {}
    <3>1. CASE g = f
      <4>1. frames'[f].ref_count = 1 /\ buffer_descriptors_layer'[f].lock
        BY <1>7, <2>0, ReplaceEffect
      <4>2. Cardinality(HoldersOf(f)') = 1 /\ HoldersOf(f)' # {}
        BY <2>1, FS_Singleton
      <4> QED BY <3>1, <4>1, <4>2
    <3>2. CASE g # f
      BY <1>0, <1>7, <2>0, <2>2, <3>2, ReplaceEffect, HeldIsCounted
    <3> QED BY <3>1, <3>2
  <2>4. ASSUME NEW x \in Holders, pages'[x] # NoPage
        PROVE  /\ pages'[x].frame \in Frames /\ pages'[x].id \in PageIDs
               /\ buffer_table_layer'[pages'[x].id] = pages'[x].frame
    <3>1. CASE x = request.holder
      BY <1>0, <1>7, <3>1, ReplaceEffect DEF TypeOK
    <3>2. CASE x # request.holder
      <4>1. pages'[x] = pages[x]
        BY <1>0, <1>7, <3>2, ReplaceEffect DEF TypeOK
      <4>2. pages[x].frame # cursor
        BY <1>7, <2>0, ReplaceEffect DEF HoldersOf
      <4>3. pages[x].id # request.id /\ pages[x].id # buffer_descriptors_layer[cursor].tag
        BY <1>0, <1>a, <1>b, <1>7, <2>4, <4>1, <4>2, ReplaceEffect DEF LayersAgree
      <4> QED BY <1>a, <1>7, <2>4, <4>1, <4>3, ReplaceEffect
    <3> QED BY <3>1, <3>2
  <2> QED BY <1>c, <2>3, <2>4
<1>8. CASE Restart
  <2>1. pages' = pages /\ \A h \in Holders : pages[h] = NoPage
    BY <1>8 DEF Restart
  <2>2. \A f \in Frames : HoldersOf(f)' = {}
    BY <1>b, <2>1 DEF HoldersOf
  <2>3. \A f \in Frames : frames'[f].ref_count = 0 /\ ~buffer_descriptors_layer'[f].lock
    BY <1>8 DEF Restart, EmptyFrame, UnusedDescriptor
  <2> QED BY <1>c, <2>1, <2>2, <2>3, FS_EmptySet
<1>9. QED
  BY <1>2, <1>3, <1>4, <1>5, <1>6, <1>7, <1>8
     DEF Next, Search, vars, OpenFile, ReleaseFile, AllocPage, GetUncached, SkipLocked, ReadFails

-----------------------------------------------------------------------------
(* Theorems *)

\* A pool that was just made, whatever is in the files.
Fresh ==
    /\ disk \in [Inodes -> Seq(PageValues)] /\ DiskBounded
    /\ files = [fd \in FDs |-> ClosedFile]
    /\ connected = {}
    /\ frames = [f \in Frames |-> EmptyFrame]
    /\ buffer_table_layer = [id \in PageIDs |-> NoFrame]
    /\ buffer_descriptors_layer = [f \in Frames |-> UnusedDescriptor]
    /\ cursor = 0
    /\ pages = [h \in Holders |-> NoPage]
    /\ request = NoRequest
    /\ aborted = FALSE

\* The invariant holds of it.
LEMMA FreshIInv == Fresh => IInv
<1> SUFFICES ASSUME Fresh PROVE IInv
  OBVIOUS
<1>1. /\ \A f \in Frames : frames[f] = EmptyFrame /\ buffer_descriptors_layer[f] = UnusedDescriptor
      /\ \A id \in PageIDs : buffer_table_layer[id] = NoFrame
      /\ \A h \in Holders : pages[h] = NoPage
      /\ Alive = {} /\ connected = {} /\ request = NoRequest
  BY DEF Fresh, Alive
<1>2. TypeOK
  <2>1. /\ ClosedFile \in [inode : Inodes \union {NoInode}, size : 0..MaxPages]
        /\ EmptyFrame \in [owner : FDs \union {NoFile}, page_index : PageIndexes \union {0},
                           data : PageValues, ref_count : Nat]
        /\ UnusedDescriptor \in [tag : PageIDs \union {UnusedTag}, usage : Nat, lock : BOOLEAN]
        /\ NoPage \in [frame : Frames \union {NoFrame}, id : PageIDs \union {UnusedTag}]
    BY ConstantsAssumed DEF ClosedFile, EmptyFrame, UnusedDescriptor, NoPage, Assumptions
  <2> QED BY <2>1, NothingIsNothing DEF Fresh, TypeOK
<1>3. LayersAgree
  BY <1>1, UnusedTagIsNone, NothingIsNothing
     DEF LayersAgree, EmptyFrame, UnusedDescriptor
<1>4. HeldPagesStay
  <2>1. \A f \in Frames : HoldersOf(f) = {}
    BY <1>1, NothingIsNothing DEF HoldersOf, NoPage
  <2>2. \A f \in Frames : frames[f].ref_count = 0 /\ ~buffer_descriptors_layer[f].lock
    BY <1>1 DEF EmptyFrame, UnusedDescriptor
  <2>3. Cardinality({}) = 0
    BY FS_EmptySet
  <2>4. \A f \in Frames : /\ frames[f].ref_count = Cardinality(HoldersOf(f))
                          /\ buffer_descriptors_layer[f].lock <=> HoldersOf(f) # {}
    BY <2>1, <2>2, <2>3
  <2> QED BY <1>1, <2>4 DEF HeldPagesStay, HoldersOf
<1>5. DescriptorsNotReused /\ FilesWellFormed /\ PagesWellFormed /\ RequestWellFormed
  BY <1>1 DEF DescriptorsNotReused, FilesWellFormed, PagesWellFormed, RequestWellFormed, EmptyFrame
<1> QED BY <1>2, <1>3, <1>4, <1>5 DEF IInv, Fresh

\* So of one that is made over empty files.
LEMMA InitIInv == Init => IInv
<1> SUFFICES ASSUME Init PROVE Fresh
  BY FreshIInv
<1>1. disk = [inode \in Inodes |-> <<>>] /\ <<>> \in Seq(PageValues)
  BY DEF Init
<1>2. disk \in [Inodes -> Seq(PageValues)]
  BY <1>1
<1>3. DiskBounded
  BY <1>1, ConstantsAssumed DEF DiskBounded, Assumptions
<1> QED BY <1>2, <1>3 DEF Init, Fresh

\* A process that died leaves files, and the pool is made over them.
LEMMA CrashIInv == ASSUME IInv, Crash PROVE IInv'
<1>1. Fresh'
  BY DEF IInv, TypeOK, DiskBounded, Crash, Fresh
<1> QED BY <1>1, FreshIInv, PTL

\* No step breaks it.
LEMMA NextIInv == IInv /\ [Next]_vars => IInv'
  BY TypeStep, LayersStep, FilesStep, RequestStep, HoldersStep DEF IInv

\* So it holds of every reachable state of a pool of any size.
THEOREM Invariance == Spec => []IInv
  BY InitIInv, NextIInv, PTL DEF Spec

\* The types of the pool's state are an invariant; in particular the hand never
\* leaves the frames, and release_frame never takes a count below zero.
THEOREM TypeCorrect == Spec => []TypeOK
<1>1. IInv => TypeOK
  BY DEF IInv
<1> QED BY <1>1, Invariance, PTL

\* The two layers of ClockCache and the frames of FramePool never disagree about
\* which page is where.
THEOREM CacheCoherent == Spec => []LayersAgree
<1>1. IInv => LayersAgree
  BY DEF IInv
<1> QED BY <1>1, Invariance, PTL

\* No frame is cached under a descriptor that may name another file by now.
THEOREM OwnersAlive == Spec => []DescriptorsNotReused
<1>1. IInv => DescriptorsNotReused
  BY DEF IInv
<1> QED BY <1>1, Invariance, PTL

\* Eviction never takes a page from somebody who holds it, and reference counts
\* and locks always say how many that are.
THEOREM PinnedPagesStay == Spec => []HeldPagesStay
<1>1. IInv => HeldPagesStay
  BY DEF IInv
<1> QED BY <1>1, Invariance, PTL

-----------------------------------------------------------------------------
(* The clock *)

\* The hand after increase().
LEMMA NextCursorValue ==
  ASSUME cursor \in Frames
  PROVE  NextCursor = IF cursor + 1 = FrameCount THEN 0 ELSE cursor + 1
<1>1. FrameCount \in Nat \ {0} /\ cursor \in 0..(FrameCount - 1)
  BY ConstantsAssumed DEF Assumptions, Frames
<1>2. CASE cursor + 1 = FrameCount
  BY <1>1, <1>2 DEF NextCursor
<1>3. CASE cursor + 1 < FrameCount
  BY <1>1, <1>3 DEF NextCursor
<1> QED BY <1>1, <1>2, <1>3

\* A frame the hand passes loses a turn of the clock, every other frame a step.
LEMMA StepOfHand ==
  ASSUME NEW f, TypeOK, f \in Frames, ~buffer_descriptors_layer[f].lock,
         SkipLocked \/ SpendUsage
  PROVE  TurnsTo(f)' = TurnsTo(f) - 1
<1> DEFINE u == buffer_descriptors_layer[f].usage
           v == buffer_descriptors_layer'[f].usage
<1>1. /\ FrameCount \in Nat \ {0}
      /\ f \in 0..(FrameCount - 1) /\ cursor \in 0..(FrameCount - 1)
      /\ u \in Nat
  BY ConstantsAssumed DEF Assumptions, Frames, TypeOK
<1>2. cursor' = IF cursor + 1 = FrameCount THEN 0 ELSE cursor + 1
  BY NextCursorValue DEF SkipLocked, SpendUsage, TypeOK
<1>3. CASE f = cursor
  <2>1. SpendUsage /\ u # 0
    BY <1>3 DEF SkipLocked, SpendUsage, AtLocked
  <2>2. v = u - 1
    BY <1>3, <2>1 DEF SpendUsage, TypeOK
  <2>3. FrameCount * u = FrameCount * (u - 1) + FrameCount /\ FrameCount * (u - 1) \in Int
    BY <1>1
  <2>4. TurnsTo(f) = FrameCount * u
    BY <1>1, <1>3, <2>3 DEF TurnsTo
  <2>5. TurnsTo(f)' = FrameCount - 1 + FrameCount * v
    BY <1>1, <1>2, <1>3, <2>2, <2>3 DEF TurnsTo
  <2> QED BY <1>1, <2>2, <2>3, <2>4, <2>5
<1>4. CASE f # cursor
  <2>1. v = u
    BY <1>1, <1>4 DEF SkipLocked, SpendUsage, TypeOK
  <2>2. FrameCount * u \in Int
    BY <1>1
  <2> QED BY <1>1, <1>2, <1>4, <2>1, <2>2 DEF TurnsTo
<1> QED BY <1>3, <1>4

\* ClockCache::put comes nearer to every unlocked frame with each iteration,
\* however many frames there are and however often they were hit: it ends if
\* one frame is unlocked, after a number of iterations known when it begins.
THEOREM PutDrawsNearer == Spec => PutComesCloser
<1> DEFINE Closer == Searching /\ Searching' =>
              \A f \in Frames : ~buffer_descriptors_layer[f].lock => TurnsTo(f)' = TurnsTo(f) - 1
<1>1. ASSUME IInv, Next, Searching, Searching'
      PROVE  SkipLocked \/ SpendUsage
  <2>1. ~Idle /\ request' # NoRequest /\ ~aborted'
    BY <1>1 DEF Searching, Idle
  <2>2. ~Replace /\ ~ReadFails
    BY <2>1 DEF Replace, ReadFails
  <2>3. /\ \A fd \in FDs : /\ ~ReleaseFile(fd) /\ ~AllocPage(fd)
                           /\ \A inode \in Inodes : ~OpenFile(fd, inode)
        /\ ~Restart
    BY <2>1 DEF OpenFile, ReleaseFile, AllocPage, Restart
  <2>4. \A h \in Holders : /\ \A id \in PageIDs : ~GetCached(h, id) /\ ~GetUncached(h, id)
                           /\ \A value \in PageValues : ~WritePage(h, value)
                           /\ ~ReleasePage(h)
    BY <2>1 DEF GetCached, GetUncached, WritePage, ReleasePage
  <2> QED BY <1>1, <2>2, <2>3, <2>4 DEF Next, Search
<1>2. IInv /\ Next => Closer
  <2> SUFFICES ASSUME IInv, Next, Searching, Searching', NEW f \in Frames,
                      ~buffer_descriptors_layer[f].lock
               PROVE  TurnsTo(f)' = TurnsTo(f) - 1
    OBVIOUS
  <2> QED BY <1>1, StepOfHand DEF IInv
<1>3. IInv /\ [Next]_vars => [Closer]_vars
  BY <1>2
<1> QED BY <1>3, Invariance, PTL DEF Spec, PutComesCloser

-----------------------------------------------------------------------------
(* The end of a file *)

\* No File object knows of pages that are not on disk, and a page is asked for
\* only if its File knows of it.
SizesOnDisk ==
    /\ \A fd \in Alive : files[fd].size <= Len(disk[files[fd].inode])
    /\ request # NoRequest => request.id[2] < files[request.id[1]].size
    /\ ~aborted

\* Only a fallocate that fails breaks it.
LEMMA SizesOnDiskStep ==
  ASSUME IInv, SizesOnDisk, ~DiskMayFill, [Next]_vars
  PROVE  SizesOnDisk'
<1> USE DEF cacheVars
<1>0. TypeOK /\ FilesWellFormed /\ DiskBounded /\ RequestWellFormed
  BY DEF IInv
<1>1. ASSUME \A fd \in FDs : files'[fd] \in {files[fd], ClosedFile},
             \A inode \in Inodes : Len(disk'[inode]) = Len(disk[inode]),
             request' = NoRequest, aborted' = aborted
      PROVE  SizesOnDisk'
  <2>1. \A fd \in FDs : fd \in Alive' => fd \in Alive /\ files'[fd] = files[fd]
    BY <1>1 DEF Alive
  <2>2. Alive' \subseteq FDs
    BY DEF Alive
  <2> QED BY <1>0, <1>1, <2>1, <2>2 DEF SizesOnDisk, FilesWellFormed
<1>2. CASE UNCHANGED <<disk, files, aborted>> /\ request' \in {request, NoRequest}
  BY <1>2 DEF SizesOnDisk, Alive
<1>3. ASSUME NEW fd \in FDs, NEW inode \in Inodes, OpenFile(fd, inode)
      PROVE  SizesOnDisk'
  <2>1. /\ files' = [files EXCEPT ![fd] = [inode |-> inode, size |-> Len(disk[inode])]]
        /\ request = NoRequest /\ UNCHANGED <<disk, request, aborted>>
    BY <1>3 DEF OpenFile, Idle
  <2>2. /\ files'[fd].inode = inode /\ files'[fd].size = Len(disk[inode])
        /\ \A other \in FDs : other # fd => files'[other] = files[other]
        /\ Len(disk[inode]) \in Nat
    BY <1>0, <2>1, LenProperties DEF TypeOK
  <2>3. \A other \in Alive' : files'[other].size <= Len(disk[files'[other].inode])
    BY <2>2 DEF SizesOnDisk, Alive
  <2> QED BY <2>1, <2>3 DEF SizesOnDisk
<1>4. ASSUME NEW fd \in FDs, ReleaseFile(fd)
      PROVE  SizesOnDisk'
  BY <1>0, <1>1, <1>4, FilesHeldType DEF ReleaseFile, Idle
<1>5. ASSUME NEW fd \in FDs, AllocPage(fd)
      PROVE  SizesOnDisk'
  <2>1. /\ fd \in Alive /\ files[fd].size < MaxPages /\ files[fd].inode \in Inodes
        /\ files[fd].size \in Nat
        /\ files' = [files EXCEPT ![fd].size = @ + 1] /\ disk' = ZeroRange(fd)
        /\ request = NoRequest /\ UNCHANGED <<request, aborted>>
    BY <1>0, <1>5, ConstantsAssumed DEF AllocPage, Idle, FilesWellFormed, TypeOK, Assumptions
  <2>2. /\ \A other \in FDs : files'[other].inode = files[other].inode
        /\ \A other \in FDs : other # fd => files'[other] = files[other]
        /\ files'[fd].size = files[fd].size + 1
    BY <1>0, <2>1 DEF TypeOK
  <2>3. \A inode \in Inodes :
          /\ Len(disk[inode]) \in Nat
          /\ Len(disk[inode]) <= Len(disk'[inode])
          /\ inode = files[fd].inode => files[fd].size + 1 <= Len(disk'[inode])
    <3>1. \A inode \in Inodes : Len(disk[inode]) \in Nat
      BY <1>0, LenProperties DEF TypeOK
    <3> QED BY <1>0, <2>1, <3>1, ZeroRangeType DEF Max2
  <2>4. ASSUME NEW other \in Alive'
        PROVE  files'[other].size <= Len(disk'[files'[other].inode])
    <3>1. CASE other = fd
      BY <2>1, <2>2, <2>3, <3>1 DEF Alive
    <3>2. CASE other # fd
      <4>1. other \in Alive /\ other \in FDs /\ files'[other] = files[other]
        BY <2>2, <3>2 DEF Alive
      <4>2. files[other].inode \in Inodes /\ files[other].size <= Len(disk[files[other].inode])
        BY <1>0, <4>1 DEF FilesWellFormed, SizesOnDisk
      <4>3. files[other].size \in Int /\ Len(disk'[files[other].inode]) \in Int
        BY <4>1, <4>2, <1>0, <1>5, TypeStep, LenProperties, ConstantsAssumed
           DEF TypeOK, Assumptions
      <4> QED BY <2>3, <4>1, <4>2, <4>3
    <3> QED BY <3>1, <3>2
  <2> QED BY <2>1, <2>4 DEF SizesOnDisk
<1>6. ASSUME NEW h \in Holders, NEW id \in PageIDs, GetUncached(h, id)
      PROVE  SizesOnDisk'
  BY <1>6 DEF GetUncached, SizesOnDisk, Alive
<1>7. CASE Replace
  <2>1. /\ disk' = Dumped(cursor) /\ cursor \in Frames /\ request' = NoRequest
        /\ files' = FilesHeld(frames', connected) /\ aborted' = aborted
    BY <1>7, ReplaceEffect DEF Replace
  <2> QED BY <1>0, <1>1, <2>1, DumpedType, FilesHeldType
<1>8. CASE ReadFails
  <2>1. /\ request # NoRequest
        /\ request.id[2] >= Len(Dumped(cursor)[files[request.id[1]].inode])
    BY <1>8 DEF ReadFails, Found, Searching
  <2>2. request.id[1] \in Alive /\ files[request.id[1]].inode \in Inodes /\ cursor \in Frames
    BY <1>0, <2>1 DEF RequestWellFormed, FilesWellFormed, TypeOK
  <2>3. /\ Len(disk[files[request.id[1]].inode]) \in Nat
        /\ Len(Dumped(cursor)[files[request.id[1]].inode]) = Len(disk[files[request.id[1]].inode])
    BY <1>0, <2>2, DumpedType, LenProperties DEF TypeOK
  <2>4. request.id[2] \in Nat /\ files[request.id[1]].size \in Nat
    <3>1. request.id[1] \in FDs /\ request.id[2] \in PageIndexes
      BY <1>0, <2>1, RequestType, PageIDParts
    <3>2. MaxPages \in Nat
      BY ConstantsAssumed DEF Assumptions
    <3>3. files[request.id[1]].size \in 0..MaxPages
      BY <1>0, <3>1 DEF TypeOK
    <3>4. request.id[2] \in 0..(MaxPages - 1)
      BY <3>1 DEF PageIndexes
    <3> QED BY <3>2, <3>3, <3>4
  <2>5. /\ files[request.id[1]].size <= Len(disk[files[request.id[1]].inode])
        /\ request.id[2] < files[request.id[1]].size
    BY <2>1, <2>2 DEF SizesOnDisk
  <2> QED BY <2>1, <2>3, <2>4, <2>5
<1>9. CASE Restart
  BY <1>0, <1>1, <1>9, AllDumpedType DEF Restart, Idle
<1> QED
  BY <1>2, <1>3, <1>4, <1>5, <1>6, <1>7, <1>8, <1>9
     DEF Next, Search, vars, GetCached, SkipLocked, SpendUsage, WritePage, ReleasePage

\* As long as no fallocate fails, no page is read beyond the end of its file,
\* also if files are opened anew while frames hold them.
THEOREM ReadsAreWhole == ~DiskMayFill => (Spec => []ReadsWholePages)
<1> SUFFICES ASSUME ~DiskMayFill PROVE Spec => []ReadsWholePages
  OBVIOUS
<1>1. Init => SizesOnDisk
  BY DEF Init, SizesOnDisk, Alive
<1>2. IInv /\ SizesOnDisk /\ [Next]_vars => SizesOnDisk'
  BY SizesOnDiskStep
<1>3. SizesOnDisk => ReadsWholePages
  BY DEF SizesOnDisk, ReadsWholePages
<1> QED BY <1>1, <1>2, <1>3, Invariance, PTL DEF Spec
=============================================================================
