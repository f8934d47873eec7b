------------------------ MODULE BufferPoolRefinement ------------------------
(***************************************************************************)
(* Proof that BufferPool implements PagedFiles, for any number of frames,  *)
(* files and holders, as long as no file is opened anew while frames still *)
(* hold a File object of it (~Reopens): the first two parts of RInv fail   *)
(* without that, and with them the promise.                                *)
(*                                                                         *)
(* Then a page of a file is in at most one frame, so what it holds is      *)
(* either that frame's data or, if there is none, what is on disk; and     *)
(* every step either moves a page between the two, or is one of the steps  *)
(* of PagedFiles.                                                          *)
(***************************************************************************)
EXTENDS BufferPoolProofs

\* There is one File object for each file that is open.
OneFileEach ==
    \A fd, other \in Alive : files[fd].inode = files[other].inode => fd = other

\* That File object knows of every page.
SizesCover == \A fd \in Alive : Len(disk[files[fd].inode]) <= files[fd].size

\* Pages in frames are pages on disk.
CachedOnDisk ==
    \A f \in Frames : frames[f].owner # NoFile
        => frames[f].page_index < Len(disk[files[frames[f].owner].inode])

RInv == OneFileEach /\ SizesCover /\ CachedOnDisk

\* Frame f holds page p of the file.
CachedIn(f, inode, p) ==
    /\ frames[f].owner # NoFile
    /\ files[frames[f].owner].inode = inode
    /\ frames[f].page_index + 1 = p

\* The variables of PagedFiles.
content == [inode \in Inodes |-> [p \in DOMAIN disk[inode] |-> Content(inode, p)]]
held == [h \in Holders |-> IF pages[h] = NoPage THEN <<>>
                           ELSE <<files[pages[h].id[1]].inode, pages[h].id[2] + 1>>]

-----------------------------------------------------------------------------
(* The invariant *)

\* What owns a frame is alive, and its inode and page are those of the tag.
LEMMA OwnerIsAlive ==
  ASSUME IInv, NEW f \in Frames, frames[f].owner # NoFile
  PROVE  /\ frames[f].owner \in Alive
         /\ files[frames[f].owner].inode \in Inodes
         /\ frames[f].page_index \in Nat
         /\ buffer_descriptors_layer[f].tag = <<frames[f].owner, frames[f].page_index>>
         /\ buffer_descriptors_layer[f].tag \in PageIDs
         /\ buffer_table_layer[buffer_descriptors_layer[f].tag] = f
<1>1. TypeOK /\ LayersAgree /\ DescriptorsNotReused /\ FilesWellFormed
  BY DEF IInv
<1>2. frames[f].owner \in Alive /\ files[frames[f].owner].inode \in Inodes
  BY <1>1 DEF DescriptorsNotReused, FilesWellFormed
<1>3. frames[f].page_index \in Nat
  BY <1>1, ConstantsAssumed DEF TypeOK, PageIndexes, Assumptions
<1>4. /\ buffer_descriptors_layer[f].tag = <<frames[f].owner, frames[f].page_index>>
      /\ buffer_descriptors_layer[f].tag # UnusedTag
  BY <1>1 DEF LayersAgree
<1>5. buffer_descriptors_layer[f].tag \in PageIDs
  BY <1>1, <1>4 DEF TypeOK
<1> QED BY <1>1, <1>2, <1>3, <1>4, <1>5 DEF LayersAgree

\* Lengths of files are numbers.
LEMMA DiskLength ==
  ASSUME TypeOK, NEW inode \in Inodes
  PROVE  /\ disk[inode] \in Seq(PageValues)
         /\ Len(disk[inode]) \in Nat
         /\ DOMAIN disk[inode] = 1..Len(disk[inode])
<1>1. disk[inode] \in Seq(PageValues)
  BY DEF TypeOK
<1> QED BY <1>1, LenProperties

\* It holds of a pool that was just made, over whatever files.
LEMMA FreshRInv ==
  ASSUME files = [fd \in FDs |-> ClosedFile], frames = [f \in Frames |-> EmptyFrame]
  PROVE  RInv
<1>1. Alive = {} /\ \A f \in Frames : frames[f].owner = NoFile
  BY DEF Alive, EmptyFrame
<1> QED BY <1>1 DEF RInv, OneFileEach, SizesCover, CachedOnDisk

\* So it does at first ...
LEMMA InitRInv == Init => RInv
  BY FreshRInv DEF Init

\* ... and after a crash.
LEMMA CrashRInv == Crash => RInv'
<1>1. files = [fd \in FDs |-> ClosedFile] /\ frames = [f \in Frames |-> EmptyFrame] => RInv
  BY FreshRInv
<1>2. Crash => (files = [fd \in FDs |-> ClosedFile] /\ frames = [f \in Frames |-> EmptyFrame])'
  BY DEF Crash
<1> QED BY <1>1, <1>2, PTL

\* A step that closes Files at most, forgets no length and keeps owners keeps it.
LEMMA QuietRInv ==
  ASSUME IInv, RInv,
         \A fd \in FDs : files'[fd] \in {files[fd], ClosedFile},
         \A inode \in Inodes : Len(disk'[inode]) = Len(disk[inode]),
         \A f \in Frames : frames'[f].owner # NoFile =>
           /\ files'[frames'[f].owner] = files[frames'[f].owner]
           /\ files[frames'[f].owner].inode \in Inodes
           /\ \/ frames'[f].page_index < Len(disk[files[frames'[f].owner].inode])
              \/ /\ frames'[f].owner = frames[f].owner
                 /\ frames'[f].page_index = frames[f].page_index
  PROVE  RInv'
<1>1. \A fd \in FDs : fd \in Alive' => fd \in Alive /\ files'[fd] = files[fd]
  BY DEF Alive
<1>2. Alive' \subseteq FDs
  BY DEF Alive
<1>3. OneFileEach'
  BY <1>1, <1>2 DEF OneFileEach, RInv
<1>4. \A fd \in Alive : files[fd].inode \in Inodes
  BY DEF IInv, FilesWellFormed
<1>5. SizesCover'
  BY <1>1, <1>2, <1>4 DEF SizesCover, RInv
<1>6. CachedOnDisk'
  BY DEF CachedOnDisk, RInv
<1> QED BY <1>3, <1>5, <1>6 DEF RInv

\* No step breaks it, unless files are opened anew while frames hold them.
LEMMA RInvStep ==
  ASSUME IInv, RInv, ~Reopens, [Next]_vars
  PROVE  RInv'
<1> USE DEF cacheVars
<1>0. TypeOK /\ FilesWellFormed /\ DiskBounded /\ PagesWellFormed
  BY DEF IInv
<1>1. ASSUME UNCHANGED disk, \A fd \in FDs : files'[fd] \in {files[fd], ClosedFile},
             \A f \in Frames : /\ frames'[f].owner = frames[f].owner
                               /\ frames'[f].page_index = frames[f].page_index
                               /\ frames[f].owner # NoFile =>
                                    files'[frames[f].owner] = files[frames[f].owner]
      PROVE  RInv'
  BY <1>1, QuietRInv, OwnerIsAlive
<1>2. CASE UNCHANGED <<disk, files, frames>>
  BY <1>1, <1>2
<1>3. ASSUME NEW fd \in FDs, NEW inode \in Inodes, OpenFile(fd, inode)
      PROVE  RInv'
  <2>1. /\ fd \notin Alive
        /\ \A other \in Alive : files[other].inode # inode
        /\ files'[fd] = [inode |-> inode, size |-> Len(disk[inode])]
        /\ \A other \in FDs : other # fd => files'[other] = files[other]
        /\ UNCHANGED <<disk, frames>>
    BY <1>0, <1>3 DEF OpenFile, TypeOK
  <2>2. files'[fd].inode = inode /\ files'[fd].size = Len(disk[inode])
    BY <2>1
  <2>3. Alive' \subseteq Alive \union {fd} /\ Alive' \subseteq FDs
    BY <2>1 DEF Alive
  <2>4. OneFileEach'
    BY <2>1, <2>2, <2>3 DEF OneFileEach, RInv
  <2>5. SizesCover'
    <3>1. Len(disk[inode]) \in Nat
      BY <1>0, DiskLength
    <3> QED BY <2>1, <2>2, <2>3, <3>1 DEF SizesCover, RInv
  <2>6. CachedOnDisk'
    <3>1. \A f \in Frames : frames[f].owner # NoFile =>
            files'[frames[f].owner] = files[frames[f].owner]
      BY <2>1, OwnerIsAlive DEF Alive
    <3> QED BY <2>1, <3>1 DEF CachedOnDisk, RInv
  <2> QED BY <2>4, <2>5, <2>6 DEF RInv
<1>4. ASSUME NEW fd \in FDs, ReleaseFile(fd)
      PROVE  RInv'
  <2>1. \A f \in Frames : frames[f].owner # NoFile =>
          files'[frames[f].owner] = files[frames[f].owner]
    BY <1>0, <1>4, FilesHeldType, OwnerIsAlive DEF ReleaseFile, Alive
  <2> QED BY <1>0, <1>1, <1>4, <2>1, FilesHeldType DEF ReleaseFile
<1>5. ASSUME NEW fd \in FDs, AllocPage(fd)
      PROVE  RInv'
  <2>1. /\ fd \in Alive /\ files[fd].size < MaxPages
        /\ files[fd].size \in Nat /\ files[fd].inode \in Inodes
        /\ files' = [files EXCEPT ![fd].size = files[fd].size + 1]
        /\ UNCHANGED frames
    BY <1>0, <1>5, ConstantsAssumed DEF AllocPage, FilesWellFormed, TypeOK, Assumptions
  <2>2. /\ \A other \in FDs : files'[other].inode = files[other].inode
        /\ \A other \in FDs : other # fd => files'[other] = files[other]
        /\ files'[fd].size = files[fd].size + 1
    BY <1>0, <2>1 DEF TypeOK
  <2>3. Alive' \subseteq Alive
    BY <2>1, <2>2 DEF Alive
  <2>4. \A inode \in Inodes :
          /\ Len(disk[inode]) \in Nat
          /\ Len(disk[inode]) <= Len(disk'[inode])
          /\ inode # files[fd].inode => Len(disk'[inode]) = Len(disk[inode])
    <3>1. CASE disk' = disk
      BY <1>0, <3>1, DiskLength
    <3>2. CASE disk' = ZeroRange(fd)
      BY <1>0, <2>1, <3>2, ZeroRangeType, DiskLength DEF Max2
    <3> QED BY <1>5, <3>1, <3>2 DEF AllocPage
  <2>5. Len(disk'[files[fd].inode]) <= files[fd].size + 1
    <3>1. Len(disk[files[fd].inode]) <= files[fd].size
      BY <2>1 DEF RInv, SizesCover
    <3>2. CASE disk' = disk
      BY <2>1, <2>4, <3>1, <3>2
    <3>3. CASE disk' = ZeroRange(fd)
      BY <1>0, <2>1, <2>4, <3>1, <3>3, ZeroRangeType DEF Max2
    <3> QED BY <1>5, <3>2, <3>3 DEF AllocPage
  <2>6. OneFileEach'
    BY <2>2, <2>3 DEF OneFileEach, RInv, Alive
  <2>7. SizesCover'
    <3>1. ASSUME NEW other \in Alive, other # fd
          PROVE  Len(disk'[files'[other].inode]) <= files'[other].size
      <4>1. files[other].inode \in Inodes /\ files[other].inode # files[fd].inode
        BY <1>0, <2>1, <3>1 DEF FilesWellFormed, RInv, OneFileEach
      <4> QED BY <2>2, <2>4, <3>1, <4>1 DEF RInv, SizesCover, Alive
    <3> QED BY <2>1, <2>2, <2>3, <2>5, <3>1 DEF SizesCover, Alive
  <2>8. CachedOnDisk'
    <3>1. ASSUME NEW f \in Frames, frames'[f].owner # NoFile
          PROVE  frames'[f].page_index < Len(disk'[files'[frames'[f].owner].inode])
      <4>1. /\ frames[f].owner \in FDs /\ files[frames[f].owner].inode \in Inodes
            /\ frames[f].page_index \in Nat
            /\ frames[f].page_index < Len(disk[files[frames[f].owner].inode])
        BY <2>1, <3>1, OwnerIsAlive DEF Alive, RInv, CachedOnDisk
      <4>2. Len(disk'[files[frames[f].owner].inode]) \in Nat
        BY <4>1, TypeStep, LenProperties DEF TypeOK
      <4>3. PICK inode \in Inodes : inode = files[frames[f].owner].inode
        BY <4>1
      <4>4. frames'[f] = frames[f] /\ files'[frames[f].owner].inode = inode
        BY <2>1, <2>2, <4>1, <4>3
      <4>5. Len(disk[inode]) \in Nat /\ Len(disk[inode]) <= Len(disk'[inode])
        BY <2>4
      <4> QED BY <4>1, <4>2, <4>3, <4>4, <4>5
    <3> QED BY <3>1 DEF CachedOnDisk
  <2> QED BY <2>6, <2>7, <2>8 DEF RInv
<1>6. ASSUME NEW h \in Holders, NEW id \in PageIDs, GetCached(h, id)
      PROVE  RInv'
  <2>1. frames \in [Frames -> FrameType] /\ buffer_table_layer[id] \in Frames
    BY <1>0, <1>6 DEF GetCached, TypeOK, FrameType
  <2>2. frames' = [frames EXCEPT ![buffer_table_layer[id]] = Referred(@)]
        /\ UNCHANGED <<disk, files>>
    BY <1>6 DEF GetCached
  <2> QED BY <1>1, <2>1, <2>2, ReferredType
<1>7. ASSUME NEW h \in Holders, NEW value \in PageValues, WritePage(h, value)
      PROVE  RInv'
  BY <1>0, <1>1, <1>7 DEF WritePage, TypeOK, PagesWellFormed
<1>8. ASSUME NEW h \in Holders, ReleasePage(h)
      PROVE  RInv'
  BY <1>0, <1>1, <1>8 DEF ReleasePage, TypeOK, PagesWellFormed
<1>9. CASE Replace
  <2>1. \A inode \in Inodes : Len(disk'[inode]) = Len(disk[inode])
    BY <1>0, <1>9, ReplaceEffect, DumpedType
  <2>2. \A fd \in FDs : files'[fd] \in {files[fd], ClosedFile}
    BY <1>0, <1>9, ReplaceEffect, FilesHeldType
  <2>3. \A f \in Frames : frames'[f].owner # NoFile => frames'[f].owner \in FDs
    BY <1>9, TypeStep DEF TypeOK
  <2>4. \A f \in Frames : frames'[f].owner # NoFile =>
          files'[frames'[f].owner] = files[frames'[f].owner]
    <3>1. files' = FilesHeld(frames', connected)
      BY <1>9, ReplaceEffect
    <3>2. TypeOK
      BY <1>0
    <3> QED BY <2>3, <3>1, <3>2, FilesHeldType
  <2>5. request.id[1] \in Alive /\ files[request.id[1]].inode \in Inodes
    BY <1>0, <1>9, ReplaceEffect DEF FilesWellFormed
  <2>6. request.id[2] < Len(disk[files[request.id[1]].inode])
    <3>1. request.id[2] < Len(Dumped(cursor)[files[request.id[1]].inode])
      BY <1>9 DEF Replace
    <3>2. TypeOK /\ cursor \in Frames
      BY <1>0, <1>9, ReplaceEffect
    <3> QED BY <2>5, <3>1, <3>2, DumpedType
  <2>7. frames'[cursor].owner = request.id[1] /\ frames'[cursor].page_index = request.id[2]
    BY <1>9, ReplaceEffect
  <2>8. ASSUME NEW f \in Frames, frames'[f].owner # NoFile
        PROVE  /\ files[frames'[f].owner].inode \in Inodes
               /\ \/ frames'[f].page_index < Len(disk[files[frames'[f].owner].inode])
                  \/ /\ frames'[f].owner = frames[f].owner
                     /\ frames'[f].page_index = frames[f].page_index
    <3>1. CASE f = cursor
      BY <2>5, <2>6, <2>7, <3>1
    <3>2. CASE f # cursor
      BY <1>9, <2>8, <3>2, ReplaceEffect, OwnerIsAlive
    <3> QED BY <3>1, <3>2
  <2> QED BY <2>1, <2>2, <2>4, <2>8, QuietRInv
<1>10. CASE Restart
  <2>1. Alive' = {} /\ \A f \in Frames : frames'[f].owner = NoFile
    BY <1>10 DEF Restart, Alive, EmptyFrame
  <2> QED BY <2>1 DEF RInv, OneFileEach, SizesCover, CachedOnDisk
<1>11. CASE ReadFails
  <2>1. cursor \in Frames /\ disk' = Dumped(cursor) /\ UNCHANGED <<files, frames>>
    BY <1>0, <1>11 DEF ReadFails, TypeOK
  <2>2. \A inode \in Inodes : Len(disk'[inode]) = Len(disk[inode])
    BY <1>0, <2>1, DumpedType
  <2> QED BY <2>1, <2>2, OwnerIsAlive, QuietRInv
<1>12. QED
  BY <1>2, <1>3, <1>4, <1>5, <1>6, <1>7, <1>8, <1>9, <1>10, <1>11
     DEF Next, Search, vars, GetUncached, SkipLocked, SpendUsage

-----------------------------------------------------------------------------
(* What a page holds *)

\* A page is in at most one frame, and then it holds what that frame does.
LEMMA ContentOfCached ==
  ASSUME IInv, RInv, NEW inode, NEW p, NEW f \in Frames, CachedIn(f, inode, p)
  PROVE  Content(inode, p) = frames[f].data
<1> DEFINE caching == {g \in Frames : CachedIn(g, inode, p)}
<1>1. ASSUME NEW g \in Frames, CachedIn(g, inode, p)
      PROVE  g = f
  <2>1. /\ frames[f].owner \in Alive /\ frames[g].owner \in Alive
        /\ frames[f].page_index \in Nat /\ frames[g].page_index \in Nat
    BY <1>1, OwnerIsAlive DEF CachedIn
  <2>2. frames[f].owner = frames[g].owner
    BY <1>1, <2>1 DEF CachedIn, RInv, OneFileEach
  <2>3. frames[f].page_index = frames[g].page_index
    BY <1>1, <2>1 DEF CachedIn
  <2>4. buffer_descriptors_layer[f].tag = buffer_descriptors_layer[g].tag
    BY <1>1, <2>2, <2>3, OwnerIsAlive DEF CachedIn
  <2> QED BY <1>1, <2>4, OwnerIsAlive DEF CachedIn
<1>2. caching = {f}
  BY <1>1
<1>3. Content(inode, p) = IF caching = {} THEN disk[inode][p]
                          ELSE frames[CHOOSE g \in caching : TRUE].data
  BY DEF Content, CachedIn
<1> HIDE DEF caching
<1>4. (CHOOSE g \in caching : TRUE) = f
  BY <1>2
<1> QED BY <1>2, <1>3, <1>4

\* A page that is in no frame holds what is on disk.
LEMMA ContentOfUncached ==
  ASSUME NEW inode, NEW p, \A f \in Frames : ~CachedIn(f, inode, p)
  PROVE  Content(inode, p) = disk[inode][p]
<1>1. {f \in Frames : /\ frames[f].owner # NoFile
                      /\ files[frames[f].owner].inode = inode
                      /\ frames[f].page_index + 1 = p} = {}
  BY DEF CachedIn
<1> QED BY <1>1 DEF Content

\* Both, of every page.
ContentCorrect ==
    \A inode, p :
        /\ \A f \in Frames : CachedIn(f, inode, p) => Content(inode, p) = frames[f].data
        /\ (\A f \in Frames : ~CachedIn(f, inode, p)) => Content(inode, p) = disk[inode][p]

\* That is so before a step ...
LEMMA ContentBefore == IInv /\ RInv => ContentCorrect
  BY ContentOfCached, ContentOfUncached DEF ContentCorrect

\* ... and after it.
LEMMA ContentAfter == (IInv /\ RInv)' => ContentCorrect'
  BY ContentBefore, PTL

\* Who holds a page holds a frame of its File.
LEMMA HeldPage ==
  ASSUME IInv, RInv, NEW h \in Holders, pages[h] # NoPage
  PROVE  /\ pages[h].frame \in Frames
         /\ pages[h].id = <<frames[pages[h].frame].owner, frames[pages[h].frame].page_index>>
         /\ frames[pages[h].frame].owner # NoFile
         /\ pages[h].id[1] \in Alive
         /\ files[pages[h].id[1]].inode \in Inodes
         /\ pages[h].id[2] + 1 \in DOMAIN disk[files[pages[h].id[1]].inode]
         /\ CachedIn(pages[h].frame, files[pages[h].id[1]].inode, pages[h].id[2] + 1)
<1> DEFINE f == pages[h].frame
<1>1. f \in Frames /\ pages[h].id \in PageIDs /\ buffer_table_layer[pages[h].id] = f
  BY DEF IInv, PagesWellFormed, HeldPagesStay
<1>2. buffer_descriptors_layer[f].tag = pages[h].id
  BY <1>1 DEF IInv, LayersAgree
<1>3. pages[h].id = <<frames[f].owner, frames[f].page_index>>
  BY <1>1, <1>2, UnusedTagIsNone DEF IInv, LayersAgree
<1>4. frames[f].owner \in FDs
  BY <1>1, <1>3, PageIDParts
<1>5. frames[f].owner # NoFile
  BY <1>4, NothingIsNothing
<1>6. /\ frames[f].owner \in Alive /\ files[frames[f].owner].inode \in Inodes
      /\ frames[f].page_index \in Nat
  BY <1>1, <1>5, OwnerIsAlive
<1>7. frames[f].page_index < Len(disk[files[frames[f].owner].inode])
  BY <1>1, <1>5 DEF RInv, CachedOnDisk
<1>8. frames[f].page_index + 1 \in DOMAIN disk[files[frames[f].owner].inode]
  BY <1>6, <1>7, DiskLength DEF IInv
<1>9. pages[h].id[1] = frames[f].owner /\ pages[h].id[2] = frames[f].page_index
  BY <1>3
<1> QED BY <1>1, <1>3, <1>5, <1>6, <1>8, <1>9 DEF CachedIn

\* Files are sequences of pages.
LEMMA ContentIsSequence ==
  ASSUME TypeOK, NEW inode \in Inodes
  PROVE  /\ DOMAIN content[inode] = 1..Len(disk[inode])
         /\ \A p \in 1..Len(disk[inode]) : content[inode][p] = Content(inode, p)
  BY DiskLength DEF content

\* Two states with the same lengths and pages have the same files.
LEMMA ContentKept ==
  ASSUME TypeOK, TypeOK',
         \A inode \in Inodes : Len(disk'[inode]) = Len(disk[inode]),
         \A inode \in Inodes : \A p \in 1..Len(disk[inode]) :
           Content(inode, p)' = Content(inode, p)
  PROVE  content' = content
<1>1. \A inode \in Inodes : /\ DOMAIN disk[inode] = 1..Len(disk[inode])
                            /\ DOMAIN disk'[inode] = 1..Len(disk[inode])
  BY LenProperties DEF TypeOK
<1> QED BY <1>1 DEF content

\* Steps that touch no page and no inode keep every page.
LEMMA QuietContent ==
  ASSUME IInv, RInv, IInv', RInv', UNCHANGED disk,
         \A f \in Frames :
           /\ frames'[f].owner = frames[f].owner
           /\ frames'[f].page_index = frames[f].page_index
           /\ frames'[f].data = frames[f].data
           /\ frames[f].owner # NoFile =>
                files'[frames[f].owner].inode = files[frames[f].owner].inode
  PROVE  content' = content
<1>1. \A inode, p : \A f \in Frames : CachedIn(f, inode, p)' <=> CachedIn(f, inode, p)
  BY DEF CachedIn
<1>2. ContentCorrect /\ ContentCorrect'
  BY ContentBefore, ContentAfter
<1>3. ASSUME NEW inode, NEW p
      PROVE  Content(inode, p)' = Content(inode, p)
  <2>1. CASE \A f \in Frames : ~CachedIn(f, inode, p)
    BY <1>1, <1>2, <2>1 DEF ContentCorrect
  <2>2. ASSUME NEW f \in Frames, CachedIn(f, inode, p)
        PROVE  Content(inode, p)' = Content(inode, p)
    BY <1>1, <1>2, <2>2 DEF ContentCorrect
  <2> QED BY <2>1, <2>2
<1> QED BY <1>3, ContentKept DEF IInv

\* dump_frame writes the page the frame holds, and no other.
LEMMA DumpedPages ==
  ASSUME IInv, NEW f \in Frames, NEW inode \in Inodes, NEW p \in 1..Len(disk[inode])
  PROVE  Dumped(f)[inode][p] = IF CachedIn(f, inode, p) THEN frames[f].data ELSE disk[inode][p]
<1>1. disk \in [Inodes -> Seq(PageValues)] /\ DOMAIN disk[inode] = 1..Len(disk[inode])
  BY DiskLength DEF IInv, TypeOK
<1>2. CASE frames[f].owner = NoFile
  BY <1>2 DEF Dumped, CachedIn
<1>3. CASE frames[f].owner # NoFile
  <2>1. Dumped(f) = [disk EXCEPT ![files[frames[f].owner].inode][frames[f].page_index + 1] =
                       frames[f].data]
    BY <1>3 DEF Dumped
  <2> QED BY <1>1, <1>3, <2>1 DEF CachedIn
<1> QED BY <1>2, <1>3

\* ~FramePool leaves on disk what the pages held.
LEMMA AllDumpedPages ==
  ASSUME IInv, RInv, NEW inode \in Inodes, NEW p \in 1..Len(disk[inode])
  PROVE  AllDumped[inode][p] = Content(inode, p)
<1> DEFINE holding == {f \in Frames : CachedIn(f, inode, p)}
           last == CHOOSE f \in holding : \A g \in holding : g <= f
<1>1. AllDumped[inode][p] = IF holding = {} THEN disk[inode][p] ELSE frames[last].data
  BY DiskLength DEF AllDumped, CachedIn, IInv
<1>2. CASE holding = {}
  BY <1>1, <1>2, ContentOfUncached
<1>3. CASE holding # {}
  <2>1. last \in holding
    <3>1. \E f \in holding : \A g \in holding : g <= f
      BY <1>3, LastFrame
    <3> HIDE DEF holding
    <3> QED BY <3>1
  <2>2. last \in Frames /\ CachedIn(last, inode, p)
    <3> HIDE DEF last
    <3> QED BY <2>1
  <2> HIDE DEF last
  <2> QED BY <1>1, <1>3, <2>2, ContentOfCached
<1> QED BY <1>2, <1>3

\* Eviction and reload change no page: what leaves its frame goes to disk, and
\* what comes was in no frame, under no descriptor.
LEMMA ReplaceContent ==
  ASSUME IInv, RInv, IInv', RInv', Replace
  PROVE  content' = content
<1>0. ContentCorrect /\ ContentCorrect' /\ TypeOK /\ TypeOK'
  BY ContentBefore, ContentAfter DEF IInv
<1>1. PICK c \in Frames : c = cursor
  BY ReplaceEffect
<1>2. PICK id \in PageIDs : id = request.id
  BY ReplaceEffect
<1>3. id[1] \in Alive /\ files[id[1]].inode \in Inodes /\ id[1] \in connected /\ id[1] \in FDs
  BY <1>2, ReplaceEffect DEF IInv, FilesWellFormed, Alive
<1> DEFINE inode0 == files[id[1]].inode
           p0 == id[2] + 1
<1>4. \A g \in Frames : g # c => frames'[g] = frames[g]
  BY <1>1, ReplaceEffect
<1>5. /\ frames'[c].owner = id[1] /\ frames'[c].page_index = id[2]
      /\ frames'[c].data = Dumped(c)[inode0][p0]
      /\ disk' = Dumped(c)
  BY <1>1, <1>2, ReplaceEffect
<1>6. \A f \in Frames : frames'[f].owner # NoFile =>
        files'[frames'[f].owner] = files[frames'[f].owner]
  <2>1. \A f \in Frames : frames'[f].owner # NoFile => frames'[f].owner \in FDs
    BY <1>0 DEF TypeOK
  <2> QED BY <1>0, <2>1, ReplaceEffect, FilesHeldType
<1>7. \A g \in Frames : ~CachedIn(g, inode0, p0)
  <2> SUFFICES ASSUME NEW g \in Frames, CachedIn(g, inode0, p0) PROVE FALSE
    OBVIOUS
  <2>1. /\ frames[g].owner \in Alive /\ frames[g].page_index \in Nat
        /\ buffer_descriptors_layer[g].tag = <<frames[g].owner, frames[g].page_index>>
        /\ buffer_table_layer[buffer_descriptors_layer[g].tag] = g
    BY OwnerIsAlive DEF CachedIn
  <2>2. frames[g].owner = id[1]
    BY <1>3, <2>1 DEF CachedIn, RInv, OneFileEach
  <2>3. id[2] \in Nat /\ id = <<id[1], id[2]>>
    BY PageIDParts, ConstantsAssumed DEF PageIndexes, Assumptions
  <2>4. frames[g].page_index = id[2]
    BY <2>1, <2>3 DEF CachedIn
  <2>5. buffer_table_layer[id] = g
    BY <2>1, <2>2, <2>3, <2>4
  <2> QED BY <1>2, <2>5, ReplaceEffect, NothingIsNothing
<1>8. ASSUME NEW inode, NEW p
      PROVE  /\ \A g \in Frames : g # c => (CachedIn(g, inode, p)' <=> CachedIn(g, inode, p))
             /\ CachedIn(c, inode, p)' <=> inode = inode0 /\ p = p0
  <2>1. id[1] # NoFile
    BY <1>3, NothingIsNothing
  <2> QED BY <1>4, <1>5, <1>6, <2>1 DEF CachedIn
<1>9. ASSUME NEW inode \in Inodes, NEW p \in 1..Len(disk[inode])
      PROVE  Content(inode, p)' = Content(inode, p)
  <2>1. disk'[inode][p] = IF CachedIn(c, inode, p) THEN frames[c].data ELSE disk[inode][p]
    BY <1>5, DumpedPages
  <2> HIDE DEF inode0, p0
  <2>2. CASE inode = inode0 /\ p = p0
    BY <1>0, <1>5, <1>7, <1>8, <2>1, <2>2 DEF ContentCorrect
  <2>3. ASSUME NEW g \in Frames, g # c, CachedIn(g, inode, p)
        PROVE  Content(inode, p)' = Content(inode, p)
    BY <1>0, <1>4, <1>8, <2>3 DEF ContentCorrect
  <2>4. CASE /\ ~(inode = inode0 /\ p = p0)
             /\ \A g \in Frames : g # c => ~CachedIn(g, inode, p)
    <3>1. \A g \in Frames : ~CachedIn(g, inode, p)'
      BY <1>8, <2>4
    <3>2. Content(inode, p)' = disk'[inode][p]
      BY <1>0, <3>1 DEF ContentCorrect
    <3> QED BY <1>0, <2>1, <2>4, <3>2 DEF ContentCorrect
  <2> QED BY <2>2, <2>3, <2>4
<1>10. \A inode \in Inodes : Len(disk'[inode]) = Len(disk[inode])
  BY <1>0, <1>5, DumpedType
<1> QED BY <1>0, <1>9, <1>10, ContentKept

\* So does the write-back alone, where the page that was to come is not there.
LEMMA ReadFailsContent ==
  ASSUME IInv, RInv, IInv', RInv', ReadFails
  PROVE  content' = content
<1>0. ContentCorrect /\ ContentCorrect' /\ TypeOK /\ TypeOK'
  BY ContentBefore, ContentAfter DEF IInv
<1>1. PICK c \in Frames : c = cursor
  BY <1>0 DEF TypeOK
<1>2. disk' = Dumped(c) /\ UNCHANGED <<files, frames>>
  BY <1>1 DEF ReadFails
<1>3. \A inode, p : \A f \in Frames : CachedIn(f, inode, p)' <=> CachedIn(f, inode, p)
  BY <1>2 DEF CachedIn
<1>4. ASSUME NEW inode \in Inodes, NEW p \in 1..Len(disk[inode])
      PROVE  Content(inode, p)' = Content(inode, p)
  <2>1. CASE \A f \in Frames : ~CachedIn(f, inode, p)
    <3>1. disk'[inode][p] = disk[inode][p]
      BY <1>2, <2>1, DumpedPages
    <3> QED BY <1>0, <1>3, <2>1, <3>1 DEF ContentCorrect
  <2>2. ASSUME NEW f \in Frames, CachedIn(f, inode, p)
        PROVE  Content(inode, p)' = Content(inode, p)
    BY <1>0, <1>2, <1>3, <2>2 DEF ContentCorrect
  <2> QED BY <2>1, <2>2
<1>5. \A inode \in Inodes : Len(disk'[inode]) = Len(disk[inode])
  BY <1>0, <1>2, DumpedType
<1> QED BY <1>0, <1>4, <1>5, ContentKept

\* Stores that are made anew find every page as it was.
LEMMA RestartContent ==
  ASSUME IInv, RInv, IInv', RInv', Restart
  PROVE  content' = content
<1>1. ContentCorrect' /\ TypeOK /\ TypeOK'
  BY ContentAfter DEF IInv
<1>2. disk' = AllDumped /\ \A f \in Frames : frames'[f].owner = NoFile
  BY DEF Restart, EmptyFrame
<1>3. \A inode, p : \A f \in Frames : ~CachedIn(f, inode, p)'
  BY <1>2 DEF CachedIn
<1>4. \A inode, p : Content(inode, p)' = disk'[inode][p]
  BY <1>1, <1>3 DEF ContentCorrect
<1>5. \A inode \in Inodes : Len(disk'[inode]) = Len(disk[inode])
  BY <1>1, <1>2, AllDumpedType
<1>6. \A inode \in Inodes : \A p \in 1..Len(disk[inode]) : Content(inode, p)' = Content(inode, p)
  BY <1>2, <1>4, AllDumpedPages
<1> QED BY <1>1, <1>5, <1>6, ContentKept

\* The files are sequences of page values, as long as on disk.
ContentTyped ==
    /\ content \in [Inodes -> Seq(PageValues)]
    /\ \A inode \in Inodes : /\ Len(content[inode]) = Len(disk[inode])
                             /\ Len(disk[inode]) \in Nat
                             /\ \A p \in 1..Len(disk[inode]) :
                                  content[inode][p] = Content(inode, p)

\* That is so before a step ...
LEMMA ContentTypedBefore == IInv /\ RInv => ContentTyped
<1> SUFFICES ASSUME IInv, RInv PROVE ContentTyped
  OBVIOUS
<1>1. ASSUME NEW inode \in Inodes
      PROVE  /\ content[inode] \in Seq(PageValues)
             /\ Len(content[inode]) = Len(disk[inode])
             /\ Len(disk[inode]) \in Nat
             /\ \A p \in 1..Len(disk[inode]) : content[inode][p] = Content(inode, p)
  <2> DEFINE n == Len(disk[inode])
             s == [p \in 1..n |-> Content(inode, p)]
  <2>1. /\ n \in Nat /\ DOMAIN disk[inode] = 1..n
        /\ \A p \in 1..n : disk[inode][p] \in PageValues
    BY DiskLength, ElementOfSeq DEF IInv
  <2>2. \A f \in Frames : frames[f].data \in PageValues
    BY DEF IInv, TypeOK
  <2>3. \A p \in 1..n : Content(inode, p) \in PageValues
    <3> HIDE DEF n
    <3> QED BY <2>1, <2>2, ContentBefore DEF ContentCorrect
  <2>4. content[inode] = s
    BY <2>1 DEF content
  <2>5. s \in [1..n -> PageValues]
    <3> HIDE DEF n
    <3> QED BY <2>3
  <2>6. s \in Seq(PageValues)
    <3> HIDE DEF s, n
    <3> QED BY <2>1, <2>5, SeqDef
  <2>7. Len(s) = n
    <3> HIDE DEF s, n
    <3> QED BY <2>1, <2>5, <2>6, LenProperties
  <2>8. \A p \in 1..n : s[p] = Content(inode, p)
    OBVIOUS
  <2> HIDE DEF s
  <2> QED BY <2>1, <2>4, <2>6, <2>7, <2>8
<1>2. content = [inode \in Inodes |-> content[inode]]
  BY DEF content
<1> QED BY <1>1, <1>2 DEF ContentTyped

\* ... and after it.
LEMMA ContentTypedAfter == (IInv /\ RInv)' => ContentTyped'
  BY ContentTypedBefore, PTL

\* The steps of which PagedFiles knows only that somebody holds a page, or no
\* longer does: those that are neither WritePage nor AllocPage.
Keeps ==
    \/ \E fd \in FDs : (\E inode \in Inodes : OpenFile(fd, inode)) \/ ReleaseFile(fd)
    \/ \E h \in Holders : \/ \E id \in PageIDs : GetCached(h, id) \/ GetUncached(h, id)
                          \/ ReleasePage(h)
    \/ Search
    \/ Restart

\* They keep what every page holds, wherever it is.
LEMMA KeepsContent ==
  ASSUME IInv, RInv, IInv', RInv', Keeps
  PROVE  content' = content
<1> USE DEF cacheVars
<1>0. TypeOK /\ FilesWellFormed /\ PagesWellFormed
  BY DEF IInv
<1>1. CASE UNCHANGED <<disk, files, frames, pages>>
  BY <1>1, QuietContent
<1>2. ASSUME NEW fd \in FDs, NEW inode \in Inodes, OpenFile(fd, inode)
      PROVE  content' = content
  <2>1. UNCHANGED <<disk, frames>> /\ \A other \in Alive : files'[other] = files[other]
    BY <1>0, <1>2 DEF OpenFile, TypeOK, Alive
  <2> QED BY <2>1, QuietContent, OwnerIsAlive
<1>3. ASSUME NEW fd \in FDs, ReleaseFile(fd)
      PROVE  content' = content
  <2>1. \A f \in Frames : frames[f].owner # NoFile =>
          files'[frames[f].owner] = files[frames[f].owner]
    BY <1>0, <1>3, FilesHeldType, OwnerIsAlive DEF ReleaseFile, Alive
  <2>2. UNCHANGED <<disk, frames>>
    BY <1>3 DEF ReleaseFile
  <2> QED BY <2>1, <2>2, QuietContent
<1>4. ASSUME NEW h \in Holders, NEW id \in PageIDs, GetCached(h, id)
      PROVE  content' = content
  <2>1. PICK f \in Frames : f = buffer_table_layer[id]
    BY <1>0, <1>4 DEF GetCached, TypeOK
  <2>2. /\ UNCHANGED <<disk, files>>
        /\ frames \in [Frames -> FrameType] /\ frames' = [frames EXCEPT ![f] = Referred(@)]
    BY <1>0, <1>4, <2>1 DEF GetCached, TypeOK, FrameType
  <2> QED BY <2>2, QuietContent, ReferredType
<1>5. ASSUME NEW h \in Holders, ReleasePage(h)
      PROVE  content' = content
  <2>1. PICK f \in Frames : f = pages[h].frame
    BY <1>0, <1>5 DEF ReleasePage, PagesWellFormed
  <2>2. /\ UNCHANGED <<disk, files>>
        /\ frames' = [frames EXCEPT ![f].ref_count = @ - 1]
    BY <1>5, <2>1 DEF ReleasePage
  <2> QED BY <1>0, <2>2, QuietContent DEF TypeOK
<1> QED
  BY <1>1, <1>2, <1>3, <1>4, <1>5, ReplaceContent, ReadFailsContent, RestartContent
     DEF Keeps, Search, GetUncached, SkipLocked, SpendUsage

\* What a page holds stays as it is, and is all that may replace what is on
\* disk of it; pages that come to a file are zeros after all others.
PagesKept ==
    \A inode \in Inodes :
        /\ Len(disk[inode]) <= Len(disk'[inode])
        /\ \A p \in 1..Len(disk[inode]) :
             /\ Content(inode, p)' = Content(inode, p)
             /\ disk'[inode][p] \in {disk[inode][p], Content(inode, p)}
        /\ \A p \in 1..Len(disk'[inode]) :
             p > Len(disk[inode]) => Content(inode, p)' = Zero /\ disk'[inode][p] = Zero

\* A new page does nothing else, also where it comes with others.
LEMMA AllocKeepsPages ==
  ASSUME IInv, RInv, IInv', RInv', NEW fd \in FDs, AllocPage(fd), disk' = ZeroRange(fd)
  PROVE  /\ PagesKept
         /\ files[fd].inode \in Inodes /\ files[fd].size \in Nat /\ files[fd].size < MaxPages
         /\ Len(disk'[files[fd].inode]) = files[fd].size + 1
         /\ Len(disk[files[fd].inode]) <= files[fd].size
         /\ \A inode \in Inodes : inode # files[fd].inode => disk'[inode] = disk[inode]
<1>0. ContentCorrect /\ ContentCorrect' /\ TypeOK /\ FilesWellFormed /\ DiskBounded
      /\ ContentTyped /\ ContentTyped'
  BY ContentBefore, ContentAfter, ContentTypedBefore, ContentTypedAfter DEF IInv
<1>1. /\ fd \in Alive /\ files[fd].size < MaxPages /\ files[fd].size \in Nat
      /\ files[fd].inode \in Inodes /\ UNCHANGED frames
      /\ files' = [files EXCEPT ![fd].size = @ + 1]
  BY <1>0, ConstantsAssumed DEF AllocPage, FilesWellFormed, TypeOK, Assumptions
<1>2. PICK inode0 \in Inodes : inode0 = files[fd].inode
  BY <1>1
<1> DEFINE old == Len(disk[inode0])
           page == files[fd].size + 1
<1>3. old \in Nat /\ old < page /\ page \in Nat
  BY <1>0, <1>1, <1>2 DEF ContentTyped, RInv, SizesCover
<1>4. /\ Len(disk'[inode0]) = page
      /\ \A inode \in Inodes : inode # inode0 => disk'[inode] = disk[inode]
      /\ \A p \in 1..page : disk'[inode0][p] = IF p <= old THEN disk[inode0][p] ELSE Zero
  <2>1. disk' = [disk EXCEPT ![inode0] =
                   [p \in 1..Max2(old, page) |->
                      IF p <= old /\ p # page THEN disk[inode0][p] ELSE Zero]]
    BY <1>1, <1>2 DEF ZeroRange
  <2>2. Max2(old, page) = page
    BY <1>3 DEF Max2
  <2>3. Len(disk'[inode0]) = page
    BY <1>0, <1>1, <1>2, <2>2, ZeroRangeType
  <2> HIDE DEF old, page
  <2> QED BY <1>0, <1>3, <2>1, <2>2, <2>3 DEF TypeOK
<1>5. \A inode, p : \A f \in Frames : CachedIn(f, inode, p)' <=> CachedIn(f, inode, p)
  <2>1. \A other \in FDs : files'[other].inode = files[other].inode
    BY <1>0, <1>1 DEF TypeOK
  <2>2. \A f \in Frames : frames[f].owner # NoFile => frames[f].owner \in FDs
    BY <1>0 DEF TypeOK
  <2> QED BY <1>1, <2>1, <2>2 DEF CachedIn
<1>6. \A f \in Frames : \A p : CachedIn(f, inode0, p) => p <= old
  BY <1>0, <1>3, OwnerIsAlive DEF CachedIn, RInv, CachedOnDisk, ContentTyped
<1>7. \A inode \in Inodes : \A p \in 1..Len(disk[inode]) :
        disk'[inode][p] = disk[inode][p] /\ Content(inode, p)' = Content(inode, p)
  <2> SUFFICES ASSUME NEW inode \in Inodes, NEW p \in 1..Len(disk[inode])
               PROVE  disk'[inode][p] = disk[inode][p] /\ Content(inode, p)' = Content(inode, p)
    OBVIOUS
  <2>1. disk'[inode][p] = disk[inode][p]
    BY <1>3, <1>4
  <2>2. CASE \A f \in Frames : ~CachedIn(f, inode, p)
    BY <1>0, <1>5, <2>1, <2>2 DEF ContentCorrect
  <2>3. ASSUME NEW f \in Frames, CachedIn(f, inode, p)
        PROVE  Content(inode, p)' = Content(inode, p)
    BY <1>0, <1>1, <1>5, <2>3 DEF ContentCorrect
  <2> QED BY <2>1, <2>2, <2>3
<1>8. \A p \in 1..page : p > old => Content(inode0, p)' = Zero /\ disk'[inode0][p] = Zero
  <2> SUFFICES ASSUME NEW p \in 1..page, p > old
               PROVE  Content(inode0, p)' = Zero /\ disk'[inode0][p] = Zero
    OBVIOUS
  <2>1. \A f \in Frames : ~CachedIn(f, inode0, p)
    BY <1>3, <1>6
  <2>2. Content(inode0, p)' = disk'[inode0][p]
    BY <1>0, <1>5, <2>1 DEF ContentCorrect
  <2>3. disk'[inode0][p] = Zero
    BY <1>3, <1>4
  <2> QED BY <2>2, <2>3
<1>9. PagesKept
  <2>1. \A inode \in Inodes : /\ Len(disk[inode]) \in Nat
                              /\ inode # inode0 => Len(disk'[inode]) = Len(disk[inode])
    BY <1>0, <1>4 DEF ContentTyped
  <2> QED BY <1>3, <1>4, <1>7, <1>8, <2>1 DEF PagesKept
<1>10. old <= files[fd].size
  BY <1>1, <1>3
<1> QED BY <1>1, <1>2, <1>4, <1>9, <1>10

\* A new page comes after all others, with whatever was missing before it.
LEMMA AllocContent ==
  ASSUME IInv, RInv, IInv', RInv', NEW fd \in FDs, AllocPage(fd), disk' # disk
  PROVE  \E count \in 1..MaxPages :
           content' = [content EXCEPT ![files[fd].inode] = @ \o [p \in 1..count |-> Zero]]
<1>0. ContentTyped /\ ContentTyped'
  BY ContentTypedBefore, ContentTypedAfter
<1>1. disk' = ZeroRange(fd)
  BY DEF AllocPage
<1>2. PICK inode0 \in Inodes : inode0 = files[fd].inode
  BY <1>1, AllocKeepsPages
<1> DEFINE old == Len(disk[inode0])
           page == files[fd].size + 1
           count == page - old
<1>3. old \in Nat /\ old < page /\ page \in Nat /\ page <= MaxPages
  BY <1>0, <1>1, <1>2, AllocKeepsPages, ConstantsAssumed DEF ContentTyped, Assumptions
<1>4. /\ Len(disk'[inode0]) = page
      /\ \A inode \in Inodes : inode # inode0 => disk'[inode] = disk[inode]
  BY <1>1, <1>2, AllocKeepsPages
<1>5. \A inode \in Inodes : \A p \in 1..Len(disk[inode]) : Content(inode, p)' = Content(inode, p)
  BY <1>1, AllocKeepsPages DEF PagesKept
<1>6. \A p \in 1..page : p > old => Content(inode0, p)' = Zero
  BY <1>1, <1>4, AllocKeepsPages DEF PagesKept
<1>7. count \in 1..MaxPages
  BY <1>3, ConstantsAssumed DEF Assumptions
<1>8. content'[inode0] = content[inode0] \o [p \in 1..count |-> Zero]
  <2> DEFINE zeros == [p \in 1..count |-> Zero]
             s == content[inode0]
             t == s \o zeros
  <2>1. zeros \in [1..count -> PageValues] /\ count \in Nat
    BY <1>3, ConstantsAssumed DEF Assumptions
  <2>2. zeros \in Seq(PageValues)
    <3> HIDE DEF count, zeros
    <3> QED BY <2>1, SeqDef
  <2>3. Len(zeros) = count
    <3> HIDE DEF count, zeros
    <3> QED BY <2>1, <2>2, LenProperties
  <2>4. /\ s \in Seq(PageValues) /\ Len(s) = old
        /\ \A p \in 1..old : s[p] = Content(inode0, p)
    BY <1>0 DEF ContentTyped
  <2>5. /\ t \in Seq(PageValues) /\ Len(t) = old + count
        /\ \A p \in 1..old + count : t[p] = IF p <= old THEN s[p] ELSE zeros[p - old]
    <3> HIDE DEF s, zeros, count, old
    <3> QED BY <2>2, <2>3, <2>4, ConcatProperties
  <2>6. \A p \in 1..page : t[p] = IF p <= old THEN Content(inode0, p) ELSE Zero
    <3>1. \A p \in 1..page : p > old => zeros[p - old] = Zero
      BY <1>3
    <3>2. old + count = page
      BY <1>3
    <3> HIDE DEF t, s, zeros, count, old, page
    <3> QED BY <1>3, <2>4, <2>5, <3>1, <3>2
  <2>7. /\ content'[inode0] \in Seq(PageValues) /\ Len(content'[inode0]) = page
        /\ \A p \in 1..page : content'[inode0][p] = Content(inode0, p)'
    BY <1>0, <1>4 DEF ContentTyped
  <2>8. \A p \in 1..page : content'[inode0][p] = t[p]
    <3> HIDE DEF t, page
    <3> QED BY <1>3, <1>5, <1>6, <2>6, <2>7
  <2>9. Len(t) = page
    BY <1>3, <2>5
  <2> HIDE DEF t, page
  <2>10. content'[inode0] = t
    BY <2>5, <2>7, <2>8, <2>9, SeqEqual
  <2> QED BY <2>10 DEF t
<1>9. ASSUME NEW inode \in Inodes, inode # inode0
       PROVE  content'[inode] = content[inode]
  <2>1. Len(disk'[inode]) = Len(disk[inode])
    BY <1>4, <1>9
  <2> QED BY <1>0, <1>5, <2>1, SeqEqual DEF ContentTyped
<1>10. content' = [content EXCEPT ![inode0] = content[inode0] \o [p \in 1..count |-> Zero]]
  <2>1. content \in [Inodes -> Seq(PageValues)] /\ content' \in [Inodes -> Seq(PageValues)]
    BY <1>0 DEF ContentTyped
  <2> DEFINE t == content[inode0] \o [p \in 1..count |-> Zero]
  <2>2. content'[inode0] = t
    BY <1>8
  <2> HIDE DEF t
  <2>3. content' = [content EXCEPT ![inode0] = t]
    BY <1>9, <2>1, <2>2
  <2> QED BY <2>3 DEF t
<1> HIDE DEF count
<1> QED BY <1>2, <1>7, <1>10

\* All steps but those that write to a page: eviction and the end of a pool save
\* what is in the frames, and nothing else gets to the disk.
LEMMA KeepsPages ==
  ASSUME IInv, RInv, IInv', RInv', Keeps \/ \E fd \in FDs : AllocPage(fd)
  PROVE  PagesKept
<1>0. ContentCorrect /\ ContentCorrect' /\ TypeOK /\ ContentTyped /\ ContentTyped'
  BY ContentBefore, ContentAfter, ContentTypedBefore, ContentTypedAfter DEF IInv
<1>1. ASSUME content' = content,
             \A inode \in Inodes : \A p \in 1..Len(disk[inode]) :
               disk'[inode][p] \in {disk[inode][p], Content(inode, p)}
      PROVE  PagesKept
  <2>1. \A inode \in Inodes : Len(disk'[inode]) = Len(disk[inode]) /\ Len(disk[inode]) \in Nat
    BY <1>0, <1>1 DEF ContentTyped
  <2>2. \A inode \in Inodes : \A p \in 1..Len(disk[inode]) : Content(inode, p)' = Content(inode, p)
    BY <1>0, <1>1, <2>1 DEF ContentTyped
  <2> QED BY <1>1, <2>1, <2>2 DEF PagesKept
<1>2. ASSUME NEW fd \in FDs, AllocPage(fd)
      PROVE  PagesKept
  <2>1. CASE disk' = ZeroRange(fd)
    BY <1>2, <2>1, AllocKeepsPages
  <2>2. CASE disk' = disk
    <3>1. /\ fd \in Alive /\ files[fd].size \in Nat /\ UNCHANGED frames
          /\ files' = [files EXCEPT ![fd].size = @ + 1]
      BY <1>0, <1>2, ConstantsAssumed DEF AllocPage, FilesWellFormed, TypeOK, Assumptions, IInv
    <3>2. \A other \in FDs : files'[other].inode = files[other].inode
      BY <1>0, <3>1 DEF TypeOK
    <3>3. \A f \in Frames : frames[f].owner # NoFile => frames[f].owner \in FDs
      BY <1>0 DEF TypeOK
    <3>4. content' = content
      BY <2>2, <3>1, <3>2, <3>3, QuietContent
    <3> QED BY <1>1, <2>2, <3>4
  <2> QED BY <1>2, <2>1, <2>2 DEF AllocPage
<1>3. CASE Keeps
  <2>1. content' = content
    BY <1>3, KeepsContent
  <2>2. CASE disk' = disk
    BY <1>1, <2>1, <2>2
  <2>3. CASE Replace \/ ReadFails
    <3>1. cursor \in Frames /\ disk' = Dumped(cursor)
      BY <1>0, <2>3 DEF Replace, ReadFails, TypeOK
    <3>2. \A inode \in Inodes : \A p \in 1..Len(disk[inode]) :
            disk'[inode][p] \in {disk[inode][p], Content(inode, p)}
      BY <1>0, <3>1, DumpedPages DEF ContentCorrect
    <3> QED BY <1>1, <2>1, <3>2
  <2>4. CASE Restart
    <3>1. \A inode \in Inodes : \A p \in 1..Len(disk[inode]) : disk'[inode][p] = Content(inode, p)
      BY <2>4, AllDumpedPages DEF Restart
    <3> QED BY <1>1, <2>1, <3>1
  <2> QED
    BY <1>3, <2>2, <2>3, <2>4
       DEF Keeps, Search, OpenFile, ReleaseFile, GetCached, GetUncached, ReleasePage,
           SkipLocked, SpendUsage
<1> QED BY <1>2, <1>3

\* Who writes to a page changes this page of this file only.
LEMMA WriteContent ==
  ASSUME IInv, RInv, IInv', RInv', NEW h \in Holders, NEW value \in PageValues,
         WritePage(h, value)
  PROVE  content' = [content EXCEPT ![held[h][1]][held[h][2]] = value]
<1>0. ContentCorrect /\ ContentCorrect' /\ TypeOK /\ ContentTyped /\ ContentTyped'
  BY ContentBefore, ContentAfter, ContentTypedBefore, ContentTypedAfter DEF IInv
<1>1. pages[h] # NoPage /\ UNCHANGED <<disk, files>>
      /\ frames' = [frames EXCEPT ![pages[h].frame].data = value]
  BY DEF WritePage
<1>2. PICK f \in Frames : f = pages[h].frame
  BY <1>1, HeldPage
<1>3. PICK inode0 \in Inodes : inode0 = files[pages[h].id[1]].inode
  BY <1>1, HeldPage
<1>4. PICK p0 \in DOMAIN disk[inode0] : p0 = pages[h].id[2] + 1
  BY <1>1, <1>3, HeldPage
<1>5. CachedIn(f, inode0, p0) /\ p0 \in 1..Len(disk[inode0])
  BY <1>0, <1>1, <1>2, <1>3, <1>4, HeldPage, DiskLength
<1>6. /\ frames'[f].data = value
      /\ \A g \in Frames : /\ frames'[g].owner = frames[g].owner
                           /\ frames'[g].page_index = frames[g].page_index
                           /\ g # f => frames'[g].data = frames[g].data
  BY <1>0, <1>1, <1>2 DEF TypeOK
<1>7. \A inode, p : \A g \in Frames : CachedIn(g, inode, p)' <=> CachedIn(g, inode, p)
  BY <1>1, <1>6 DEF CachedIn
<1>8. Content(inode0, p0)' = value
  BY <1>0, <1>5, <1>6, <1>7 DEF ContentCorrect
<1>9. ASSUME NEW inode, NEW p, ~(inode = inode0 /\ p = p0)
      PROVE  Content(inode, p)' = Content(inode, p)
  <2>1. CASE \A g \in Frames : ~CachedIn(g, inode, p)
    BY <1>0, <1>1, <1>7, <2>1 DEF ContentCorrect
  <2>2. ASSUME NEW g \in Frames, CachedIn(g, inode, p)
        PROVE  Content(inode, p)' = Content(inode, p)
    <3>1. g # f
      <4>1. CachedIn(f, inode, p) => inode = inode0 /\ p = p0
        BY <1>5 DEF CachedIn
      <4> QED BY <1>9, <2>2, <4>1
    <3> QED BY <1>0, <1>6, <1>7, <2>2, <3>1 DEF ContentCorrect
  <2> QED BY <2>1, <2>2
<1>10. held[h] = <<inode0, p0>>
  BY <1>1, <1>3, <1>4 DEF held
<1>11. content' = [content EXCEPT ![inode0][p0] = value]
  <2>1. /\ content = [inode \in Inodes |-> [p \in DOMAIN disk[inode] |-> Content(inode, p)]]
        /\ content' = [inode \in Inodes |-> [p \in DOMAIN disk[inode] |-> Content(inode, p)']]
    BY <1>1 DEF content
  <2> QED BY <1>8, <1>9, <2>1
<1> QED BY <1>10, <1>11

-----------------------------------------------------------------------------
(* The steps *)

\* Holders hold what they held if pages and the Files they are of stay.
LEMMA HeldKept ==
  ASSUME IInv, RInv, UNCHANGED pages,
         \A fd \in Alive : files'[fd].inode = files[fd].inode \/ files'[fd] = ClosedFile,
         \A f \in Frames : frames[f].owner # NoFile => files'[frames[f].owner] # ClosedFile
  PROVE  held' = held
<1>1. \A h \in Holders : pages[h] # NoPage
        => files'[pages[h].id[1]].inode = files[pages[h].id[1]].inode
  BY HeldPage
<1> QED BY <1>1 DEF held

\* Who gets a page from the pool takes hold of it, and nobody lets go.
LEMMA HoldRefines ==
  ASSUME IInv, RInv, NEW h \in Holders, NEW f \in Frames, NEW id \in PageIDs,
         pages[h] = NoPage,
         pages' = [pages EXCEPT ![h] = [frame |-> f, id |-> id]],
         files[id[1]].inode \in Inodes,
         id[2] < Len(disk[files[id[1]].inode]),
         files'[id[1]].inode = files[id[1]].inode,
         \A x \in Holders : pages[x] # NoPage
           => files'[pages[x].id[1]].inode = files[pages[x].id[1]].inode,
         content' = content
  PROVE  PF!Next
<1> DEFINE inode == files[id[1]].inode
           page == id[2] + 1
<1>0. TypeOK /\ DiskBounded
  BY DEF IInv
<1>1. id[2] \in Nat
  BY PageIDParts, ConstantsAssumed DEF PageIndexes, Assumptions
<1>2. page \in DOMAIN disk[inode] /\ page \in 1..MaxPages
  <2>1. /\ Len(disk[inode]) \in Nat /\ Len(disk[inode]) <= MaxPages
        /\ DOMAIN disk[inode] = 1..Len(disk[inode])
    BY <1>0, DiskLength DEF DiskBounded
  <2>2. MaxPages \in Nat
    BY ConstantsAssumed DEF Assumptions
  <2> QED BY <1>1, <2>1, <2>2
<1>3. page \in DOMAIN content[inode]
  BY <1>2 DEF content
<1>4. held[h] = <<>>
  BY DEF held
<1>5. [frame |-> f, id |-> id] # NoPage
  BY NothingIsNothing DEF NoPage
<1>6. held' = [held EXCEPT ![h] = <<inode, page>>]
  BY <1>0, <1>5 DEF held, TypeOK
<1>7. PF!Hold(h, inode, page)
  BY <1>3, <1>4, <1>6 DEF PF!Hold, content, held
<1> QED BY <1>2, <1>7 DEF PF!Next

\* Every step of the pool is a step of PagedFiles or none.
LEMMA StepRefines ==
  ASSUME IInv, RInv, IInv', RInv', [Next]_vars
  PROVE  [PF!Next]_(PF!vars)
<1> USE DEF cacheVars
<1>0. TypeOK /\ FilesWellFormed /\ PagesWellFormed
  BY DEF IInv
<1>a. ASSUME content' = content, held' = held
      PROVE  [PF!Next]_(PF!vars)
  BY <1>a DEF PF!vars, content, held
<1>1. CASE UNCHANGED <<disk, files, frames, pages>>
  <2>1. content' = content
    BY <1>1, QuietContent
  <2>2. held' = held
    BY <1>1 DEF held
  <2> QED BY <1>a, <2>1, <2>2
<1>2. ASSUME NEW fd \in FDs, NEW inode \in Inodes, OpenFile(fd, inode)
      PROVE  [PF!Next]_(PF!vars)
  <2>1. UNCHANGED <<disk, frames, pages>> /\ \A other \in Alive : files'[other] = files[other]
    BY <1>0, <1>2 DEF OpenFile, TypeOK, Alive
  <2>2. content' = content
    BY <1>2, KeepsContent DEF Keeps
  <2>3. held' = held
    BY <2>1, HeldKept, OwnerIsAlive DEF Alive
  <2> QED BY <1>a, <2>2, <2>3
<1>3. ASSUME NEW fd \in FDs, ReleaseFile(fd)
      PROVE  [PF!Next]_(PF!vars)
  <2>1. \A f \in Frames : frames[f].owner # NoFile =>
          files'[frames[f].owner] = files[frames[f].owner]
    BY <1>0, <1>3, FilesHeldType, OwnerIsAlive DEF ReleaseFile, Alive
  <2>2. UNCHANGED <<disk, frames, pages>> /\ \A other \in FDs : files'[other] \in {files[other], ClosedFile}
    BY <1>0, <1>3, FilesHeldType DEF ReleaseFile
  <2>3. content' = content
    BY <1>3, KeepsContent DEF Keeps
  <2>4. held' = held
    BY <2>1, <2>2, HeldKept, OwnerIsAlive DEF Alive
  <2> QED BY <1>a, <2>3, <2>4
<1>4. ASSUME NEW fd \in FDs, AllocPage(fd)
      PROVE  [PF!Next]_(PF!vars)
  <2>1. UNCHANGED <<frames, pages>> /\ \A other \in FDs : files'[other].inode = files[other].inode
    BY <1>0, <1>4 DEF AllocPage, TypeOK
  <2>2. held' = held
    <3>1. \A x \in Holders : pages[x] # NoPage => pages[x].id[1] \in FDs
      BY HeldPage DEF Alive
    <3> QED BY <2>1, <3>1 DEF held
  <2>3. CASE disk' = disk
    <3>1. \A f \in Frames : frames[f].owner # NoFile => frames[f].owner \in FDs
      BY <1>0 DEF TypeOK
    <3>2. content' = content
      BY <2>1, <2>3, <3>1, QuietContent
    <3> QED BY <1>a, <2>2, <3>2
  <2>4. CASE disk' # disk
    <3>1. PICK count \in 1..MaxPages :
            content' = [content EXCEPT ![files[fd].inode] = @ \o [p \in 1..count |-> Zero]]
      BY <1>4, <2>4, AllocContent
    <3>2. files[fd].inode \in Inodes
      BY <1>0, <1>4 DEF AllocPage, FilesWellFormed
    <3>3. PF!Extend(files[fd].inode, count)
      BY <2>2, <3>1 DEF PF!Extend, content, held
    <3> QED BY <3>2, <3>3 DEF PF!Next
  <2> QED BY <2>3, <2>4
<1>5. ASSUME NEW h \in Holders, NEW id \in PageIDs, GetCached(h, id)
      PROVE  [PF!Next]_(PF!vars)
  <2>1. PICK f \in Frames : f = buffer_table_layer[id]
    BY <1>0, <1>5 DEF GetCached, TypeOK
  <2>2. /\ pages[h] = NoPage /\ UNCHANGED files
        /\ pages' = [pages EXCEPT ![h] = [frame |-> f, id |-> id]]
    BY <1>5, <2>1 DEF GetCached
  <2>3. content' = content
    BY <1>5, KeepsContent DEF Keeps
  <2>4. id[1] \in connected /\ files[id[1]].inode \in Inodes
    BY <1>0, <1>5 DEF GetCached, FilesWellFormed
  <2>5. id[2] < Len(disk[files[id[1]].inode])
    <3>1. buffer_descriptors_layer[f].tag = id
      BY <2>1 DEF IInv, LayersAgree
    <3>2. id = <<frames[f].owner, frames[f].page_index>>
      BY <3>1, UnusedTagIsNone DEF IInv, LayersAgree
    <3>3. frames[f].owner = id[1] /\ frames[f].page_index = id[2] /\ frames[f].owner # NoFile
      BY <3>2, PageIDParts, NothingIsNothing
    <3> QED BY <3>3 DEF RInv, CachedOnDisk
  <2>6. PF!Next
    BY <2>2, <2>3, <2>4, <2>5, HoldRefines
  <2> QED BY <2>6
<1>6. ASSUME NEW h \in Holders, NEW value \in PageValues, WritePage(h, value)
      PROVE  [PF!Next]_(PF!vars)
  <2>1. content' = [content EXCEPT ![held[h][1]][held[h][2]] = value]
    BY <1>6, WriteContent
  <2>2. pages[h] # NoPage /\ UNCHANGED <<files, pages>>
    BY <1>6 DEF WritePage
  <2>3. held' = held /\ held[h] # <<>>
    BY <2>2 DEF held
  <2>4. PF!Write(h, value)
    BY <2>1, <2>3 DEF PF!Write, content, held
  <2> QED BY <2>4 DEF PF!Next
<1>7. ASSUME NEW h \in Holders, ReleasePage(h)
      PROVE  [PF!Next]_(PF!vars)
  <2>1. /\ pages[h] # NoPage /\ UNCHANGED files
        /\ pages' = [pages EXCEPT ![h] = NoPage]
    BY <1>7 DEF ReleasePage
  <2>2. content' = content
    BY <1>7, KeepsContent DEF Keeps
  <2>3. held[h] # <<>> /\ held' = [held EXCEPT ![h] = <<>>]
    BY <1>0, <2>1 DEF held, TypeOK
  <2>4. PF!Release(h)
    BY <2>2, <2>3 DEF PF!Release, content, held
  <2> QED BY <2>4 DEF PF!Next
<1>8. CASE SpendUsage
  BY <1>1, <1>8 DEF SpendUsage
<1>9. CASE Replace
  <2>1. content' = content
    BY <1>9, KeepsContent DEF Keeps, Search
  <2>2. PICK id \in PageIDs : id = request.id
    BY <1>9, ReplaceEffect
  <2>3. PICK h \in Holders : h = request.holder
    BY <1>9, ReplaceEffect
  <2>4. PICK f \in Frames : f = cursor
    BY <1>9, ReplaceEffect
  <2>5. pages[h] = NoPage /\ pages' = [pages EXCEPT ![h] = [frame |-> f, id |-> id]]
        /\ id[1] \in connected /\ files' = FilesHeld(frames', connected)
    BY <1>9, <2>2, <2>3, <2>4, ReplaceEffect
  <2>6. files[id[1]].inode \in Inodes /\ files'[id[1]] = files[id[1]]
    BY <1>0, <2>5, FilesHeldType DEF FilesWellFormed, Alive
  <2>7. id[2] < Len(disk[files[id[1]].inode])
    BY <1>0, <1>9, <2>2, <2>4, <2>6, DumpedType DEF Replace
  <2>8. ASSUME NEW x \in Holders, pages[x] # NoPage
        PROVE  files'[pages[x].id[1]].inode = files[pages[x].id[1]].inode
    <3>1. pages[x].frame # f
      BY <1>9, <2>4, ReplaceEffect DEF HoldersOf
    <3>2. pages[x].frame \in Frames /\ frames[pages[x].frame].owner = pages[x].id[1]
          /\ pages[x].id[1] \in FDs
      BY <2>8, HeldPage DEF Alive
    <3>3. frames'[pages[x].frame] = frames[pages[x].frame]
      BY <1>9, <2>4, <3>1, <3>2, ReplaceEffect
    <3>4. files' = FilesHeld(frames', connected) /\ TypeOK
      BY <1>0, <2>5
    <3>5. files'[pages[x].id[1]] = files[pages[x].id[1]]
      BY <3>2, <3>3, <3>4, FilesHeldType
    <3> QED BY <3>5
  <2>9. PF!Next
    BY <2>1, <2>5, <2>6, <2>7, <2>8, HoldRefines
  <2> QED BY <2>9
<1>10. CASE Restart
  <2>1. content' = content
    BY <1>10, KeepsContent DEF Keeps
  <2>2. held' = held
    BY <1>10 DEF Restart, held
  <2> QED BY <1>a, <2>1, <2>2
<1>11. CASE ReadFails
  <2>1. content' = content
    BY <1>11, ReadFailsContent
  <2>2. held' = held
    BY <1>11 DEF ReadFails, held
  <2> QED BY <1>a, <2>1, <2>2
<1>12. QED
  BY <1>1, <1>2, <1>3, <1>4, <1>5, <1>6, <1>7, <1>8, <1>9, <1>10, <1>11
     DEF Next, Search, vars, GetUncached, SkipLocked

\* A pool that was just made holds nothing of empty files.
LEMMA InitRefines == Init => PF!Init
<1> SUFFICES ASSUME Init PROVE PF!Init
  OBVIOUS
<1>1. \A inode \in Inodes : [p \in DOMAIN disk[inode] |-> Content(inode, p)] = <<>>
  BY DEF Init
<1>2. \A h \in Holders : pages[h] = NoPage
  BY DEF Init
<1> QED BY <1>1, <1>2 DEF PF!Init

\* Without files that are opened anew, nothing the pool does of its own accord
\* (eviction, write-back, reload, the destructor's flush) changes what a page
\* holds, and new pages are zeros at the end of their file.
THEOREM PoolImplementsFiles == ~Reopens => (Spec => ImplementsPagedFiles)
<1> SUFFICES ASSUME ~Reopens PROVE Spec => ImplementsPagedFiles
  OBVIOUS
<1>1. Init => RInv
  BY InitRInv
<1>2. IInv /\ RInv /\ [Next]_vars => RInv'
  BY RInvStep
<1>3. IInv /\ RInv /\ IInv' /\ RInv' /\ [Next]_vars => [PF!Next]_(PF!vars)
  BY StepRefines
<1> QED BY <1>1, <1>2, <1>3, InitRefines, Invariance, PTL
        DEF Spec, ImplementsPagedFiles, PF!Spec
=============================================================================
