---------------------------- MODULE StoreProofs ----------------------------
(***************************************************************************)
(* Proofs about Store, for any number of frames, files, pages and rows.    *)
(*                                                                         *)
(* Two things carry them.  A slot is apart from every other, so a row that *)
(* is written changes no row beside it; and the pool implements files, so  *)
(* no step but WritePage changes what is on a page, wherever the page is.  *)
(* What remains is the row that insert_row has written and not yet told    *)
(* of, and what a crash leaves.                                            *)
(***************************************************************************)
EXTENDS Store, FiniteSetTheorems, SequenceTheorems, Recursion, TLAPS

\* What a byte of a page may be.
Bytes == {0, 1} \union UNION {{serialize_row(row)[b] : b \in DOMAIN serialize_row(row)} : row \in Rows}

\* What a table may write to a page.
Pages == [0..(PageSize - 1) -> Bytes]

\* The pool, and what is proved of it.
BPP == INSTANCE BufferPoolRefinement WITH
    PageValues <- Pages,
    Zero <- EmptyPage,
    Holders <- {"table"}

\* The assumptions of BufferPool hold of it.
LEMMA PoolConstants ==
  /\ FrameCount \in Nat \ {0} /\ FDs \subseteq Nat \ {0} /\ "none" \notin Inodes
  /\ MaxPages \in Nat /\ EmptyPage \in Pages
  /\ BPP!IsFiniteSet({"table"}) /\ "none" \notin {"table"}
  /\ Reopens \in BOOLEAN /\ DiskMayFill \in BOOLEAN
<1>1. EmptyPage \in Pages
  BY DEF EmptyPage, Pages, Bytes
<1>2. BPP!IsFiniteSet({"table"})
  BY FS_Singleton DEF IsFiniteSet, BPP!IsFiniteSet
<1> QED BY <1>1, <1>2, PoolAssumption

-----------------------------------------------------------------------------
(* Sums of sizes *)

\* Totals adds one size after the other.
LEMMA TotalsAre ==
  ASSUME NEW sizes \in Seq(Nat)
  PROVE  /\ Totals(sizes) \in [0..Len(sizes) -> Nat]
         /\ Totals(sizes)[0] = 0
         /\ \A n \in 1..Len(sizes) : Totals(sizes)[n] = Totals(sizes)[n - 1] + sizes[n]
<1> DEFINE n == Len(sizes)
           step == [i \in 1..n |-> [sum \in Nat |-> sum + sizes[i]]]
           total[i \in 0..n] == IF i = 0 THEN 0 ELSE total[i - 1] + sizes[i]
           T == {i \in 0..n : total[i] \in Nat}
<1>1. n \in Nat /\ \A i \in 1..n : sizes[i] \in Nat
  OBVIOUS
<1>2. step \in [1..n -> [Nat -> Nat]]
  BY <1>1
<1>3. \E f \in [0..n -> Nat] : Iterates(f, n, 0, step)
  <2> HIDE DEF step, n, total
  <2> QED BY <1>1, <1>2, LoopExists
<1>4. PICK f \in [0..n -> Nat] : f[0] = 0 /\ \A i \in 1..n : f[i] = f[i - 1] + sizes[i]
  <2>1. PICK f \in [0..n -> Nat] : f[0] = 0 /\ \A i \in 1..n : f[i] = step[i][f[i - 1]]
    BY <1>3 DEF Iterates
  <2>2. \A i \in 1..n : f[i - 1] \in Nat
    <3> HIDE DEF n, step, total
    <3>1. \A i \in 1..n : i - 1 \in 0..n
      BY <1>1
    <3> QED BY <3>1
  <2>3. \A i \in 1..n : step[i][f[i - 1]] = f[i - 1] + sizes[i]
    BY <2>2
  <2> QED BY <2>1, <2>3
<1>5. f = [i \in 0..n |-> IF i = 0 THEN 0 ELSE f[i - 1] + sizes[i]]
  BY <1>4
<1>6. total = [i \in 0..n |-> IF i = 0 THEN 0 ELSE total[i - 1] + sizes[i]]
  BY <1>5
<1>7. Totals(sizes) = total
  BY DEF Totals
<1> HIDE DEF total
<1>8. total[0] = 0 /\ \A i \in 1..n : total[i] = total[i - 1] + sizes[i]
  <2> HIDE DEF n
  <2>1. 0 \in 0..n /\ \A i \in 1..n : i \in 0..n /\ i # 0
    BY <1>1
  <2> QED BY <1>6, <2>1
<1>9. ASSUME NEW i \in 0..(n - 1), i \in T
      PROVE  i + 1 \in T
  <2>1. i + 1 \in 1..n /\ i + 1 \in 0..n /\ (i + 1) - 1 = i
    BY <1>1
  <2>2. total[i + 1] = total[i] + sizes[i + 1] /\ sizes[i + 1] \in Nat /\ total[i] \in Nat
    BY <1>1, <1>8, <1>9, <2>1
  <2> QED BY <2>1, <2>2
<1>10. 0..n \subseteq T
  <2>1. 0 \in T
    BY <1>1, <1>8
  <2> HIDE DEF T, n
  <2> QED BY <1>1, <1>9, <2>1, InductionUpTo
<1>11. total \in [0..n -> Nat]
  BY <1>6, <1>10
<1> QED BY <1>7, <1>8, <1>11

\* More sizes make no smaller sum.
LEMMA TotalsGrow ==
  ASSUME NEW sizes \in Seq(Nat), NEW j \in 0..Len(sizes), NEW i \in 0..j
  PROVE  Totals(sizes)[i] <= Totals(sizes)[j]
<1> DEFINE n == Len(sizes)
           total == Totals(sizes)
           T == {k \in 0..j : i <= k => total[i] <= total[k]}
<1>1. /\ n \in Nat /\ total \in [0..n -> Nat]
      /\ \A k \in 1..n : total[k] = total[k - 1] + sizes[k] /\ sizes[k] \in Nat
      /\ j \in Nat /\ j <= n /\ i \in Nat /\ i <= j
  BY TotalsAre
<1> HIDE DEF total, n
<1>2. 0 \in T
  BY <1>1
<1>3. ASSUME NEW k \in 0..(j - 1), k \in T
      PROVE  k + 1 \in T
  <2>1. k + 1 \in 1..n /\ (k + 1) - 1 = k /\ k \in 0..n /\ i \in 0..n
    BY <1>1
  <2>2. total[k + 1] = total[k] + sizes[k + 1] /\ sizes[k + 1] \in Nat
    BY <1>1, <2>1
  <2>3. total[k] \in Nat /\ total[i] \in Nat
    BY <1>1, <2>1
  <2>4. k + 1 \in 0..j /\ k \in Nat /\ (i <= k + 1 => i <= k \/ i = k + 1)
    BY <1>1
  <2>5. i <= k => total[i] <= total[k]
    BY <1>3
  <2>6. CASE i <= k
    BY <2>2, <2>3, <2>4, <2>5, <2>6
  <2>7. CASE i = k + 1
    BY <2>2, <2>3, <2>4, <2>7
  <2> QED BY <2>4, <2>6, <2>7
<1>4. 0..j \subseteq T
  <2> HIDE DEF T
  <2> QED BY <1>1, <1>2, <1>3, InductionUpTo
<1>5. j \in T
  BY <1>1, <1>4
<1> QED BY <1>5 DEF total

\* Smaller sizes make no greater sum.
LEMMA TotalsBelow ==
  ASSUME NEW sizes \in Seq(Nat), NEW lengths \in Seq(Nat), Len(sizes) <= Len(lengths),
         \A i \in DOMAIN sizes : sizes[i] <= lengths[i]
  PROVE  \A n \in 0..Len(sizes) : Totals(sizes)[n] <= Totals(lengths)[n]
<1> DEFINE total == Totals(sizes)
           space == Totals(lengths)
           T == {k \in 0..Len(sizes) : total[k] <= space[k]}
<1>1. /\ Len(sizes) \in Nat /\ total \in [0..Len(sizes) -> Nat] /\ total[0] = 0
      /\ \A k \in 1..Len(sizes) : total[k] = total[k - 1] + sizes[k] /\ sizes[k] \in Nat
  <2>1. Len(sizes) \in Nat /\ \A k \in 1..Len(sizes) : sizes[k] \in Nat
    OBVIOUS
  <2>2. /\ total \in [0..Len(sizes) -> Nat] /\ total[0] = 0
        /\ \A k \in 1..Len(sizes) : total[k] = total[k - 1] + sizes[k]
    BY TotalsAre
  <2> QED BY <2>1, <2>2
<1>2. /\ Len(lengths) \in Nat /\ space \in [0..Len(lengths) -> Nat] /\ space[0] = 0
      /\ \A k \in 1..Len(lengths) : space[k] = space[k - 1] + lengths[k] /\ lengths[k] \in Nat
  <2>1. Len(lengths) \in Nat /\ \A k \in 1..Len(lengths) : lengths[k] \in Nat
    OBVIOUS
  <2>2. /\ space \in [0..Len(lengths) -> Nat] /\ space[0] = 0
        /\ \A k \in 1..Len(lengths) : space[k] = space[k - 1] + lengths[k]
    BY TotalsAre
  <2> QED BY <2>1, <2>2
<1> HIDE DEF total, space
<1>3. 0 \in T
  BY <1>1, <1>2
<1>4. ASSUME NEW k \in 0..(Len(sizes) - 1), k \in T
      PROVE  k + 1 \in T
  <2>1. /\ k + 1 \in 1..Len(sizes) /\ k + 1 \in 1..Len(lengths) /\ (k + 1) - 1 = k
        /\ k \in 0..Len(sizes) /\ k \in 0..Len(lengths) /\ k + 1 \in DOMAIN sizes
    <3> HIDE DEF T
    <3>1. Len(sizes) \in Nat /\ Len(lengths) \in Nat /\ DOMAIN sizes = 1..Len(sizes)
      BY <1>1, <1>2
    <3> QED BY <3>1
  <2>2. /\ total[k + 1] = total[k] + sizes[k + 1] /\ sizes[k + 1] \in Nat
        /\ space[k + 1] = space[k] + lengths[k + 1] /\ lengths[k + 1] \in Nat
    BY <1>1, <1>2, <2>1
  <2>3. total[k] \in Nat /\ space[k] \in Nat /\ total[k] <= space[k]
    BY <1>1, <1>2, <1>4, <2>1
  <2>4. sizes[k + 1] <= lengths[k + 1]
    BY <2>1
  <2>5. total[k] + sizes[k + 1] <= space[k] + lengths[k + 1]
    BY <2>2, <2>3, <2>4
  <2>6. k + 1 \in 0..Len(sizes) /\ total[k + 1] <= space[k + 1]
    BY <1>1, <2>1, <2>2, <2>5
  <2> QED BY <2>6
<1>5. 0..Len(sizes) \subseteq T
  <2> HIDE DEF T
  <2> QED BY <1>1, <1>3, <1>4, InductionUpTo
<1> QED BY <1>5 DEF total, space

\* What a sequence is made of.
LEMMA SequenceElements ==
  ASSUME NEW S, NEW s \in Seq(S)
  PROVE  /\ Len(s) \in Nat /\ DOMAIN s = 1..Len(s)
         /\ \A i \in DOMAIN s : s[i] \in S
OBVIOUS

\* Positions behind a first ones.
LEMMA Positions ==
  ASSUME NEW a \in Nat, NEW l \in Nat, NEW b \in 1..l
  PROVE  /\ a + b \in 1..(a + l) /\ ~(a + b <= a) /\ (a + b) - a = b
         /\ \A m \in Nat : a + l <= m => a + b \in 1..m
OBVIOUS

\* How long each of some sequences is.
LengthsOf(seqs) == [c \in DOMAIN seqs |-> Len(seqs[c])]

\* What lies where in sequences laid one after the other.
LEMMA FlattenedSequences ==
  ASSUME NEW S, NEW seqs \in Seq(Seq(S)), seqs # <<>>
  PROVE  /\ LengthsOf(seqs) \in Seq(Nat) /\ Len(LengthsOf(seqs)) = Len(seqs)
         /\ FlattenSeq(seqs) \in Seq(S)
         /\ Len(FlattenSeq(seqs)) = Totals(LengthsOf(seqs))[Len(seqs)]
         /\ \A c \in DOMAIN seqs : \A b \in 1..Len(seqs[c]) :
              FlattenSeq(seqs)[Totals(LengthsOf(seqs))[c - 1] + b] = seqs[c][b]
<1> DEFINE n == Len(seqs)
           sizes == LengthsOf(seqs)
           step == [i \in 1..n |-> [flat \in Seq(S) |-> flat \o seqs[i]]]
           flatten[i \in 1..n] == IF i = 1 THEN seqs[i] ELSE flatten[i - 1] \o seqs[i]
           total == Totals(sizes)
           Laid(i, flat) ==
             /\ flat \in Seq(S)
             /\ Len(flat) = total[i]
             /\ \A c \in 1..i : \A b \in 1..Len(seqs[c]) : flat[total[c - 1] + b] = seqs[c][b]
           T == {i \in 0..n : i = 0 \/ Laid(i, flatten[i])}
<1>1. n \in Nat /\ n # 0 /\ DOMAIN seqs = 1..n /\ \A i \in 1..n : seqs[i] \in Seq(S)
  OBVIOUS
<1> HIDE DEF n
<1>2. sizes \in Seq(Nat) /\ Len(sizes) = n /\ \A i \in 1..n : sizes[i] = Len(seqs[i])
  <2>1. \A i \in 1..n : Len(seqs[i]) \in Nat
    BY <1>1
  <2> QED BY <1>1, <2>1 DEF LengthsOf
<1> HIDE DEF sizes
<1>3. /\ total \in [0..n -> Nat] /\ total[0] = 0
      /\ \A i \in 1..n : total[i] = total[i - 1] + Len(seqs[i])
  BY <1>1, <1>2, TotalsAre
<1>4. step \in [1..n -> [Seq(S) -> Seq(S)]]
  BY <1>1
<1>5. \E f \in [0..n -> Seq(S)] : Iterates(f, n, <<>>, step)
  <2>1. <<>> \in Seq(S)
    OBVIOUS
  <2> HIDE DEF step, n, flatten
  <2> QED BY <1>1, <1>4, <2>1, LoopExists
<1>6. PICK f \in [0..n -> Seq(S)] : f[0] = <<>> /\ \A i \in 1..n : f[i] = f[i - 1] \o seqs[i]
  <2>1. PICK f \in [0..n -> Seq(S)] : f[0] = <<>> /\ \A i \in 1..n : f[i] = step[i][f[i - 1]]
    BY <1>5 DEF Iterates
  <2>2. \A i \in 1..n : f[i - 1] \in Seq(S)
    BY <1>1
  <2>3. \A i \in 1..n : step[i][f[i - 1]] = f[i - 1] \o seqs[i]
    BY <2>2
  <2> QED BY <2>1, <2>3
<1> DEFINE g == [i \in 1..n |-> f[i]]
<1>7. g = [i \in 1..n |-> IF i = 1 THEN seqs[i] ELSE g[i - 1] \o seqs[i]]
  <2>1. f[1] = seqs[1]
    <3>1. 1 \in 1..n /\ 1 - 1 = 0
      BY <1>1
    <3>2. f[1] = <<>> \o seqs[1] /\ seqs[1] \in Seq(S)
      BY <1>1, <1>6, <3>1
    <3> QED BY <3>2
  <2>2. \A i \in 1..n : i # 1 => i - 1 \in 1..n
    BY <1>1
  <2> QED BY <1>6, <2>1, <2>2
<1> HIDE DEF g
<1>8. flatten = [i \in 1..n |-> IF i = 1 THEN seqs[i] ELSE flatten[i - 1] \o seqs[i]]
  BY <1>7
<1>9. FlattenSeq(seqs) = flatten[n]
  BY <1>1 DEF FlattenSeq, n
<1> HIDE DEF flatten, total
<1>10. 0 \in T
  BY <1>1
<1>11. ASSUME NEW i \in 0..(n - 1), i \in T
       PROVE  i + 1 \in T
  <2> DEFINE j == i + 1
  <2>1. j \in 1..n /\ j - 1 = i /\ i \in 0..n /\ i \in Nat /\ j = i + 1
    BY <1>1
  <2> HIDE DEF j
  <2>2. seqs[j] \in Seq(S) /\ total[j] = total[i] + Len(seqs[j]) /\ total[i] \in Nat
    BY <1>1, <1>3, <2>1
  <2>3. CASE i = 0
    <3>1. j = 1 /\ flatten[1] = seqs[1]
      BY <1>1, <1>8, <2>1, <2>3
    <3>2. total[1] = Len(seqs[1])
      BY <1>3, <2>2, <2>3, <3>1
    <3>3. \A c \in 1..1 : \A b \in 1..Len(seqs[c]) : flatten[1][total[c - 1] + b] = seqs[c][b]
      BY <1>3, <3>1
    <3> QED BY <2>1, <2>2, <3>1, <3>2, <3>3
  <2>4. CASE i # 0
    <3>1. flatten[j] = flatten[i] \o seqs[j]
      <4>1. j # 1 /\ j \in 1..n
        BY <2>1, <2>4
      <4>2. flatten[j] = flatten[j - 1] \o seqs[j]
        BY <1>8, <4>1
      <4> QED BY <2>1, <4>2
    <3>2. Laid(i, flatten[i])
      BY <1>11, <2>4
    <3>3. /\ flatten[j] \in Seq(S) /\ Len(flatten[j]) = total[j]
          /\ \A b \in 1..total[i] : flatten[j][b] = flatten[i][b]
          /\ \A b \in 1..Len(seqs[j]) : flatten[j][total[i] + b] = seqs[j][b]
      <4>1. flatten[i] \in Seq(S) /\ Len(flatten[i]) = total[i] /\ Len(seqs[j]) \in Nat
        BY <2>2, <3>2
      <4>2. /\ flatten[j] \in Seq(S) /\ Len(flatten[j]) = total[j]
            /\ \A b \in 1..total[j] : flatten[j][b] =
                 IF b <= total[i] THEN flatten[i][b] ELSE seqs[j][b - total[i]]
        <5>1. /\ flatten[i] \o seqs[j] \in Seq(S)
              /\ Len(flatten[i] \o seqs[j]) = Len(flatten[i]) + Len(seqs[j])
              /\ \A b \in 1..Len(flatten[i]) + Len(seqs[j]) : (flatten[i] \o seqs[j])[b] =
                   IF b <= Len(flatten[i]) THEN flatten[i][b]
                   ELSE seqs[j][b - Len(flatten[i])]
          BY <2>2, <4>1, ConcatProperties
        <5> QED BY <2>2, <3>1, <4>1, <5>1
      <4>3. \A b \in 1..total[i] : b \in 1..total[j] /\ b <= total[i]
        BY <2>2, <4>1
      <4>4. \A b \in 1..Len(seqs[j]) : /\ total[i] + b \in 1..total[j]
                                       /\ ~(total[i] + b <= total[i])
                                       /\ (total[i] + b) - total[i] = b
        <5>1. PICK a \in Nat, l \in Nat : a = total[i] /\ l = Len(seqs[j])
          BY <2>2, <4>1
        <5>2. total[j] = a + l
          BY <2>2, <5>1
        <5>3. ASSUME NEW b \in 1..l
              PROVE  a + b \in 1..(a + l) /\ ~(a + b <= a) /\ (a + b) - a = b
          OBVIOUS
        <5> QED BY <5>1, <5>2, <5>3
      <4>5. \A b \in 1..total[i] : flatten[j][b] = flatten[i][b]
        BY <4>2, <4>3
      <4>6. ASSUME NEW b \in 1..Len(seqs[j])
            PROVE  flatten[j][total[i] + b] = seqs[j][b]
        <5>1. PICK at : at = total[i] + b
          OBVIOUS
        <5>2. at \in 1..total[j] /\ ~(at <= total[i]) /\ at - total[i] = b
          BY <4>4, <5>1
        <5>3. flatten[j][at] = seqs[j][at - total[i]]
          BY <4>2, <5>2
        <5> QED BY <5>1, <5>2, <5>3
      <4> QED BY <4>2, <4>5, <4>6
    <3>4. ASSUME NEW c \in 1..j, NEW b \in 1..Len(seqs[c])
          PROVE  flatten[j][total[c - 1] + b] = seqs[c][b]
      <4>1. CASE c = j
        BY <2>1, <3>3, <4>1
      <4>2. CASE c # j
        <5>1. c \in 1..i /\ c - 1 \in 0..n /\ c \in 1..n /\ c \in 0..i
          BY <1>1, <2>1, <4>2
        <5>2. total[c] = total[c - 1] + Len(seqs[c]) /\ Len(seqs[c]) \in Nat
              /\ total[c - 1] \in Nat
          BY <1>1, <1>3, <5>1
        <5>3. total[c] <= total[i]
          BY <1>2, <2>1, <5>1, TotalsGrow DEF total
        <5>4. total[c - 1] + b \in 1..total[i]
          <6>1. PICK a \in Nat, l \in Nat, m \in Nat :
                  a = total[c - 1] /\ l = Len(seqs[c]) /\ m = total[i]
            BY <2>2, <5>2
          <6>2. b \in 1..l /\ a + l <= m
            BY <5>2, <5>3, <6>1
          <6>3. a + b \in 1..m
            BY <6>2, Positions
          <6> QED BY <6>1, <6>3
        <5> QED BY <3>2, <3>3, <5>1, <5>4
      <4> QED BY <4>1, <4>2
    <3> QED BY <2>1, <3>3, <3>4
  <2> QED BY <2>3, <2>4
<1>12. Laid(n, flatten[n])
  <2>1. 0..n \subseteq T
    <3> HIDE DEF T, n
    <3> QED BY <1>1, <1>10, <1>11, InductionUpTo
  <2> QED BY <1>1, <2>1
<1> QED BY <1>1, <1>2, <1>9, <1>12 DEF total, n, sizes

-----------------------------------------------------------------------------
(* Layout *)

\* Rows are written, and columns read, within the space of a slot.
BytesFit ==
    /\ fixed_row_space \in Nat
    /\ \A row \in Rows : DOMAIN serialize_row(row) \subseteq 1..fixed_row_space
    /\ \A c \in DOMAIN schema :
         /\ column_start[c] \in Nat
         /\ SizeOf[schema[c].type] \in Nat
         /\ column_start[c] + SizeOf[schema[c].type] <= fixed_row_space

\* What is read where the schema has its columns is what was written there.
BytesMarshal ==
    \A row \in Rows :
        /\ \A c \in DOMAIN schema :
             (column_start[c] + 1)..(column_start[c] + SizeOf[schema[c].type])
               \subseteq DOMAIN serialize_row(row)
        /\ deserialize_row(serialize_row(row), 1) = row

\* The sizes of the columns' types, and the lengths declared for them.
TypeSizes == [c \in DOMAIN schema |-> SizeOf[schema[c].type]]
Lengths == [c \in DOMAIN schema |-> schema[c].length]

\* Every type has a size.
LEMMA SizesOfTypes ==
  /\ DOMAIN SizeOf = {"boolean", "uint64", "null"}
  /\ \A type \in DOMAIN SizeOf : SizeOf[type] \in Nat
BY DEF SizeOf

\* Columns have sizes and lengths.
LEMMA ColumnSizes ==
  /\ Len(schema) \in Nat /\ DOMAIN schema = 1..Len(schema)
  /\ TypeSizes \in Seq(Nat) /\ Len(TypeSizes) = Len(schema)
  /\ Lengths \in Seq(Nat) /\ Len(Lengths) = Len(schema)
<1>1. /\ Len(schema) \in Nat /\ DOMAIN schema = 1..Len(schema)
      /\ \A c \in DOMAIN schema : schema[c].type \in DOMAIN SizeOf /\ schema[c].length \in Nat
  <2>1. schema \in Seq([type : {"boolean", "uint64"}, length : Nat])
    BY SchemaAssumption
  <2>2. /\ Len(schema) \in Nat /\ DOMAIN schema = 1..Len(schema)
        /\ \A c \in DOMAIN schema : schema[c] \in [type : {"boolean", "uint64"}, length : Nat]
    BY <2>1, SequenceElements
  <2> QED BY <2>1, <2>2, SizesOfTypes
<1>2. \A c \in DOMAIN schema : SizeOf[schema[c].type] \in Nat
  BY <1>1, SizesOfTypes
<1> QED BY <1>1, <1>2 DEF TypeSizes, Lengths

\* The sizes of the values of a row.
SizesOf(row) == [c \in DOMAIN row |-> SizeOf[row[c].type]]

\* The bytes of a row lie where the sizes of its values put them.
LEMMA RowBytes ==
  ASSUME NEW row \in Rows
  PROVE  /\ Len(row) \in Nat /\ DOMAIN row = 1..Len(row)
         /\ SizesOf(row) \in Seq(Nat) /\ Len(SizesOf(row)) = Len(row)
         /\ serialize_row(row) \in Seq(Byte)
         /\ Len(serialize_row(row)) = Totals(SizesOf(row))[Len(row)]
         /\ \A c \in DOMAIN row :
              /\ row[c] \in [type : DOMAIN SizeOf, bytes : Seq(Byte)]
              /\ Len(row[c].bytes) = SizesOf(row)[c]
              /\ \A b \in 1..SizesOf(row)[c] :
                   serialize_row(row)[Totals(SizesOf(row))[c - 1] + b] = row[c].bytes[b]
<1> DEFINE sizes == SizesOf(row)
           seqs == [c \in DOMAIN row |-> row[c].bytes]
           Value == [type : DOMAIN SizeOf, bytes : Seq(Byte)]
<1>1. /\ row \in Seq(Value) /\ row # <<>>
      /\ \A c \in DOMAIN row : Len(row[c].bytes) = SizeOf[row[c].type]
  BY RowsAssumption DEF EmptyRow
<1>2. \A c \in DOMAIN row : row[c] \in Value
  <2> HIDE DEF Value
  <2> QED BY <1>1, SequenceElements
<1>3. \A c \in DOMAIN row : row[c].bytes \in Seq(Byte) /\ row[c].type \in DOMAIN SizeOf
  BY <1>2
<1>4. Len(row) \in Nat /\ DOMAIN row = 1..Len(row) /\ Len(row) # 0
  BY <1>1
<1>5. /\ seqs \in Seq(Seq(Byte)) /\ Len(seqs) = Len(row) /\ DOMAIN seqs = DOMAIN row
      /\ \A c \in DOMAIN row : seqs[c] = row[c].bytes
  BY <1>3, <1>4
<1>6. seqs # <<>>
  BY <1>4, <1>5
<1>7. sizes = LengthsOf(seqs)
  BY <1>1, <1>5 DEF SizesOf, LengthsOf
<1>8. serialize_row(row) = FlattenSeq(seqs)
  BY DEF serialize_row
<1>9. \A c \in DOMAIN row : sizes[c] = Len(seqs[c])
  BY <1>5, <1>7 DEF LengthsOf
<1> HIDE DEF seqs, Value, sizes
<1>10. /\ sizes \in Seq(Nat) /\ Len(sizes) = Len(seqs)
       /\ FlattenSeq(seqs) \in Seq(Byte)
       /\ Len(FlattenSeq(seqs)) = Totals(sizes)[Len(seqs)]
       /\ \A c \in DOMAIN seqs : \A b \in 1..Len(seqs[c]) :
            FlattenSeq(seqs)[Totals(sizes)[c - 1] + b] = seqs[c][b]
  BY <1>5, <1>6, <1>7, FlattenedSequences
<1> QED BY <1>2, <1>4, <1>5, <1>8, <1>9, <1>10 DEF Value, sizes

\* Lengths that suffice for the values leave room for the bytes.
LEMMA LayoutIsFit == LayoutFits => BytesFit
<1> SUFFICES ASSUME LayoutFits PROVE BytesFit
  OBVIOUS
<1> DEFINE n == Len(schema)
<1>1. /\ n \in Nat /\ DOMAIN schema = 1..n
      /\ TypeSizes \in Seq(Nat) /\ Len(TypeSizes) = n
      /\ Lengths \in Seq(Nat) /\ Len(Lengths) = n
  BY ColumnSizes
<1> HIDE DEF n
<1>2. /\ Totals(TypeSizes) \in [0..n -> Nat]
      /\ \A c \in 1..n : Totals(TypeSizes)[c] = Totals(TypeSizes)[c - 1] + TypeSizes[c]
  BY <1>1, TotalsAre
<1>3. Totals(Lengths) \in [0..n -> Nat]
  BY <1>1, TotalsAre
<1>4. fixed_row_space = Totals(Lengths)[n] /\ fixed_row_space \in Nat
  BY <1>1, <1>3 DEF fixed_row_space, Lengths, n
<1>5. \A c \in 1..n : column_start[c] = Totals(TypeSizes)[c - 1] /\ TypeSizes[c] = SizeOf[schema[c].type]
  BY <1>1 DEF column_start, TypeSizes
<1>6. ASSUME NEW row \in Rows
      PROVE  DOMAIN serialize_row(row) \subseteq 1..fixed_row_space
  <2> DEFINE sizes == SizesOf(row)
  <2>1. /\ Len(row) \in Nat /\ DOMAIN row = 1..Len(row)
        /\ sizes \in Seq(Nat) /\ Len(sizes) = Len(row)
        /\ serialize_row(row) \in Seq(Byte)
        /\ Len(serialize_row(row)) = Totals(sizes)[Len(row)]
    BY RowBytes
  <2>2. Len(row) <= n /\ \A c \in DOMAIN row : SizeOf[row[c].type] <= schema[c].length
    BY DEF LayoutFits, n
  <2>3. \A c \in DOMAIN sizes : sizes[c] <= Lengths[c]
    BY <1>1, <2>1, <2>2 DEF Lengths, SizesOf
  <2> HIDE DEF sizes
  <2>4. Totals(sizes)[Len(row)] <= Totals(Lengths)[Len(row)]
    <3>1. \A k \in 0..Len(sizes) : Totals(sizes)[k] <= Totals(Lengths)[k]
      BY <1>1, <2>1, <2>2, <2>3, TotalsBelow
    <3> QED BY <2>1, <3>1
  <2>5. Totals(Lengths)[Len(row)] <= Totals(Lengths)[n]
    <3>1. Lengths \in Seq(Nat) /\ n \in 0..Len(Lengths) /\ Len(row) \in 0..n
      BY <1>1, <2>1, <2>2
    <3> QED BY <3>1, TotalsGrow
  <2>6. Totals(Lengths)[Len(row)] \in Nat /\ Totals(sizes)[Len(row)] \in Nat
    BY <1>1, <1>3, <2>1, <2>2, TotalsAre
  <2> QED BY <1>4, <2>1, <2>4, <2>5, <2>6
<1>7. ASSUME NEW c \in DOMAIN schema
      PROVE  /\ column_start[c] \in Nat
             /\ SizeOf[schema[c].type] \in Nat
             /\ column_start[c] + SizeOf[schema[c].type] <= fixed_row_space
  <2>1. c \in 1..n /\ c \in 0..n /\ c - 1 \in 0..n
    BY <1>1
  <2>2. /\ column_start[c] = Totals(TypeSizes)[c - 1] /\ TypeSizes[c] = SizeOf[schema[c].type]
        /\ TypeSizes[c] \in Nat
    BY <1>1, <1>5, <2>1
  <2>3. \A d \in DOMAIN TypeSizes : TypeSizes[d] <= Lengths[d]
    BY <1>1 DEF LayoutFits, TypeSizes, Lengths
  <2>4. Totals(TypeSizes)[c] <= Totals(Lengths)[c]
    <3>1. \A k \in 0..Len(TypeSizes) : Totals(TypeSizes)[k] <= Totals(Lengths)[k]
      BY <1>1, <2>3, TotalsBelow
    <3> QED BY <1>1, <2>1, <3>1
  <2>5. Totals(Lengths)[c] <= Totals(Lengths)[n]
    <3>1. Lengths \in Seq(Nat) /\ n \in 0..Len(Lengths) /\ c \in 0..n
      BY <1>1, <2>1
    <3> QED BY <3>1, TotalsGrow
  <2>6. Totals(TypeSizes)[c] = column_start[c] + SizeOf[schema[c].type]
    BY <1>2, <2>1, <2>2
  <2>7. column_start[c] \in Nat /\ Totals(Lengths)[c] \in Nat /\ Totals(Lengths)[n] \in Nat
    BY <1>2, <1>3, <2>1, <2>2, <1>1
  <2> QED BY <1>4, <2>2, <2>4, <2>5, <2>6, <2>7
<1> QED BY <1>4, <1>6, <1>7 DEF BytesFit

\* Values of the types of their columns are read where they were written.
LEMMA SchemaMarshals == RowsOfSchema => BytesMarshal
<1> SUFFICES ASSUME RowsOfSchema, NEW row \in Rows
             PROVE  /\ \A c \in DOMAIN schema :
                         (column_start[c] + 1)..(column_start[c] + SizeOf[schema[c].type])
                           \subseteq DOMAIN serialize_row(row)
                    /\ deserialize_row(serialize_row(row), 1) = row
  BY DEF BytesMarshal
<1> DEFINE n == Len(schema)
           bytes == serialize_row(row)
           total == Totals(TypeSizes)
           Value == [type : DOMAIN SizeOf, bytes : Seq(Byte)]
<1>1. /\ n \in Nat /\ DOMAIN schema = 1..n
      /\ TypeSizes \in Seq(Nat) /\ Len(TypeSizes) = n
  BY ColumnSizes
<1> HIDE DEF n
<1>2. Len(row) = n /\ \A c \in 1..n : row[c].type = schema[c].type
  BY <1>1 DEF RowsOfSchema, n
<1>3. Len(row) \in Nat /\ DOMAIN row = 1..Len(row)
  BY RowBytes
<1>4. TypeSizes = SizesOf(row)
  BY <1>1, <1>2, <1>3 DEF TypeSizes, SizesOf
<1>5. /\ bytes \in Seq(Byte) /\ Len(bytes) = total[n]
      /\ \A c \in 1..n : /\ row[c] \in Value
                         /\ Len(row[c].bytes) = TypeSizes[c]
                         /\ \A b \in 1..TypeSizes[c] : bytes[total[c - 1] + b] = row[c].bytes[b]
  <2> HIDE DEF Value, bytes
  <2>1. /\ bytes \in Seq(Byte) /\ Len(bytes) = total[Len(row)]
        /\ \A c \in DOMAIN row :
             /\ row[c] \in Value
             /\ Len(row[c].bytes) = TypeSizes[c]
             /\ \A b \in 1..TypeSizes[c] : bytes[total[c - 1] + b] = row[c].bytes[b]
    BY <1>4, RowBytes DEF Value, bytes
  <2> QED BY <1>2, <1>3, <2>1
<1>6. /\ total \in [0..n -> Nat]
      /\ \A c \in 1..n : total[c] = total[c - 1] + TypeSizes[c]
  BY <1>1, TotalsAre
<1>7. \A c \in 1..n : total[c] <= total[n]
  BY <1>1, TotalsGrow
<1>8. \A c \in 1..n : /\ column_start[c] = total[c - 1] /\ TypeSizes[c] = SizeOf[schema[c].type]
                      /\ total[c - 1] \in Nat /\ TypeSizes[c] \in Nat
  <2> HIDE DEF total
  <2>1. \A c \in 1..n : c - 1 \in 0..n
    BY <1>1
  <2>2. \A c \in 1..n : column_start[c] = total[c - 1] /\ TypeSizes[c] = SizeOf[schema[c].type]
    BY <1>1 DEF column_start, TypeSizes, total
  <2>3. \A c \in 1..n : TypeSizes[c] \in Nat
    BY <1>1
  <2> QED BY <1>6, <2>1, <2>2, <2>3
<1> HIDE DEF bytes, total
<1>9. ASSUME NEW c \in 1..n
      PROVE  (column_start[c] + 1)..(column_start[c] + SizeOf[schema[c].type]) \subseteq DOMAIN bytes
  <2>1. total[c] = total[c - 1] + TypeSizes[c] /\ total[c] <= total[n]
    BY <1>6, <1>7
  <2>2. total[n] \in Nat /\ DOMAIN bytes = 1..total[n]
    BY <1>1, <1>5, <1>6
  <2> QED BY <1>8, <2>1, <2>2
<1> DEFINE value(c) == [type |-> schema[c].type,
                        bytes |-> [b \in 1..SizeOf[schema[c].type] |->
                                     bytes[1 + column_start[c] + b - 1]]]
<1>10. ASSUME NEW c \in 1..n
       PROVE  value(c) = row[c]
  <2>1. row[c] \in Value /\ row[c].bytes \in Seq(Byte) /\ Len(row[c].bytes) = TypeSizes[c]
    BY <1>5
  <2>2. row[c].bytes = [b \in 1..TypeSizes[c] |-> row[c].bytes[b]]
    BY <2>1
  <2>3. \A b \in 1..TypeSizes[c] : bytes[1 + column_start[c] + b - 1] = row[c].bytes[b]
    <3>1. \A b \in 1..TypeSizes[c] : 1 + column_start[c] + b - 1 = total[c - 1] + b
      BY <1>8
    <3>2. \A b \in 1..TypeSizes[c] : bytes[total[c - 1] + b] = row[c].bytes[b]
      BY <1>5
    <3> QED BY <3>1, <3>2
  <2>4. value(c).bytes = row[c].bytes
    BY <1>8, <2>2, <2>3
  <2>5. value(c).type = row[c].type
    BY <1>2
  <2> QED BY <2>1, <2>4, <2>5
<1>11. deserialize_row(bytes, 1) = [c \in 1..n |-> value(c)]
  BY <1>1 DEF deserialize_row
<1>12. row = [c \in 1..n |-> row[c]]
  <2>1. row \in Seq(Value)
    BY RowsAssumption
  <2> QED BY <1>2, <2>1
<1> HIDE DEF value
<1>13. deserialize_row(bytes, 1) = row
  BY <1>10, <1>11, <1>12
<1> QED BY <1>1, <1>9, <1>13 DEF n, bytes

-----------------------------------------------------------------------------
(* Pages *)

\* The bytes of slot index; its header is the first.
SlotBytes(index) == data_by_index(index)..(data_by_index(index) + fixed_row_space)

\* A slot ends before the next one begins.
LEMMA SlotsInOrder ==
  ASSUME NEW i \in Nat, NEW j \in Nat, NEW w \in Nat, i < j
  PROVE  i * w + w <= j * w
<1>1. PICK d \in Nat : j = i + 1 + d
  <2>1. j = i + 1 + (j - i - 1) /\ j - i - 1 \in Nat
    OBVIOUS
  <2> QED BY <2>1
<1>2. j * w = i * w + w + d * w
  BY <1>1
<1>3. d * w \in Nat
  OBVIOUS
<1>4. i * w \in Nat
  OBVIOUS
<1> QED BY <1>2, <1>3, <1>4

\* A quotient is one: it does not exceed what it is of.
LEMMA QuotientFits ==
  ASSUME NEW n \in Nat, NEW w \in Nat \ {0}
  PROVE  (n \div w) \in Nat /\ (n \div w) * w <= n
OBVIOUS

\* Slots lie in the page, and apart.
LEMMA SlotsApart ==
  ASSUME BytesFit
  PROVE  /\ RowIndexes \subseteq Nat /\ 0 \in RowIndexes
         /\ \A index \in RowIndexes :
              /\ data_by_index(index) \in Nat
              /\ SlotBytes(index) \subseteq 0..(PageSize - 1)
         /\ \A index, other \in RowIndexes :
              index # other => SlotBytes(index) \cap SlotBytes(other) = {}
<1> DEFINE w == 1 + fixed_row_space
<1>1. w \in Nat \ {0} /\ PageSize \in Nat
  BY PageSizeAssumption DEF BytesFit
<1>2. max_row_index \in Nat /\ max_row_index * w <= PageSize
  BY <1>1, QuotientFits DEF max_row_index
<1>3. RowIndexes \subseteq Nat /\ 0 \in RowIndexes
  BY <1>2, SlotsAssumption DEF RowIndexes
<1>4. ASSUME NEW index \in RowIndexes
      PROVE  /\ data_by_index(index) \in Nat
             /\ data_by_index(index) + w <= PageSize
  <2>1. index \in Nat /\ index < max_row_index
    BY <1>2 DEF RowIndexes
  <2>2. data_by_index(index) = index * w
    BY DEF data_by_index
  <2> HIDE DEF w
  <2>3. index * w \in Nat /\ max_row_index * w \in Nat
    BY <1>1, <1>2, <2>1
  <2>4. index * w + w <= max_row_index * w
    BY <1>1, <1>2, <2>1, SlotsInOrder
  <2> QED BY <1>1, <1>2, <2>2, <2>3, <2>4
<1>5. ASSUME NEW index \in RowIndexes, NEW other \in RowIndexes, index < other
      PROVE  data_by_index(index) + w <= data_by_index(other)
  <2>1. /\ data_by_index(index) = index * w /\ data_by_index(other) = other * w
        /\ index \in Nat /\ other \in Nat
    BY <1>3 DEF data_by_index
  <2> HIDE DEF w
  <2> QED BY <1>1, <1>5, <2>1, SlotsInOrder
<1>6. ASSUME NEW index \in RowIndexes
      PROVE  SlotBytes(index) \subseteq 0..(PageSize - 1)
  BY <1>1, <1>4 DEF SlotBytes, BytesFit
<1>7. ASSUME NEW index \in RowIndexes, NEW other \in RowIndexes, index # other
      PROVE  SlotBytes(index) \cap SlotBytes(other) = {}
  <2>1. index < other \/ other < index
    BY <1>3, <1>7
  <2>2. data_by_index(index) \in Nat /\ data_by_index(other) \in Nat
    BY <1>4
  <2>3. CASE index < other
    BY <1>5, <2>2, <2>3 DEF SlotBytes, BytesFit
  <2>4. CASE other < index
    BY <1>5, <2>2, <2>4 DEF SlotBytes, BytesFit
  <2> QED BY <2>1, <2>3, <2>4
<1> QED BY <1>3, <1>4, <1>6, <1>7

\* A new page has no rows.
LEMMA EmptyPageHasNoRows ==
  ASSUME BytesFit
  PROVE  \A index \in RowIndexes : get_row(EmptyPage, index) = EmptyRow
<1>1. ASSUME NEW index \in RowIndexes
      PROVE  data_by_index(index) \in 0..(PageSize - 1)
  BY SlotsApart DEF SlotBytes, BytesFit
<1> QED BY <1>1 DEF EmptyPage, get_row

\* get_row reads the bytes of its slot, and no others.
LEMMA RowIsInSlot ==
  ASSUME BytesFit, NEW page, NEW other, NEW index \in RowIndexes,
         \A b \in SlotBytes(index) : other[b] = page[b]
  PROVE  get_row(other, index) = get_row(page, index)
<1> DEFINE h == data_by_index(index)
           size(c) == SizeOf[schema[c].type]
           value(p, c) == [b \in 1..size(c) |-> p[h + 1 + column_start[c] + b - 1]]
<1>1. h \in Nat /\ fixed_row_space \in Nat
  BY SlotsApart DEF BytesFit
<1>2. other[h] = page[h]
  BY <1>1 DEF SlotBytes
<1>3. ASSUME NEW c \in DOMAIN schema
      PROVE  value(other, c) = value(page, c)
  <2>1. /\ column_start[c] \in Nat /\ size(c) \in Nat
        /\ column_start[c] + size(c) <= fixed_row_space
    BY DEF BytesFit
  <2>2. ASSUME NEW b \in 1..size(c)
        PROVE  h + 1 + column_start[c] + b - 1 \in SlotBytes(index)
    <3> HIDE DEF size
    <3> QED BY <1>1, <2>1, <2>2 DEF SlotBytes
  <2> QED BY <2>2
<1>4. \A p : deserialize_row(p, h + 1) =
               [c \in DOMAIN schema |-> [type |-> schema[c].type, bytes |-> value(p, c)]]
  BY DEF deserialize_row
<1> HIDE DEF value
<1>5. deserialize_row(other, h + 1) = deserialize_row(page, h + 1)
  BY <1>3, <1>4
<1> QED BY <1>2, <1>5 DEF get_row

\* insert_row leaves a page a table may write, and the other rows as they were.
LEMMA RowBesideRow ==
  ASSUME BytesFit, NEW page \in Pages, NEW index \in RowIndexes, NEW row \in Rows
  PROVE  /\ WithRow(page, index, row) \in Pages
         /\ \A other \in RowIndexes : other # index =>
              get_row(WithRow(page, index, row), other) = get_row(page, other)
<1> DEFINE h == data_by_index(index)
           bytes == serialize_row(row)
           written == WithRow(page, index, row)
<1>1. h \in Nat /\ fixed_row_space \in Nat /\ DOMAIN bytes \subseteq 1..fixed_row_space
  BY SlotsApart DEF BytesFit
<1>2. \A b \in DOMAIN bytes : bytes[b] \in Bytes
  BY DEF Bytes
<1>3. 1 \in Bytes
  BY DEF Bytes
<1>4. DOMAIN page = 0..(PageSize - 1) /\ \A b \in DOMAIN page : page[b] \in Bytes
  BY DEF Pages
<1>5. written = [b \in DOMAIN page |-> IF b = h THEN 1
                                      ELSE IF b - h \in DOMAIN bytes THEN bytes[b - h]
                                      ELSE page[b]]
  BY DEF WithRow
<1> HIDE DEF written, h, bytes
<1>6. written \in Pages
  <2>1. \A b \in DOMAIN page : written[b] \in Bytes
    BY <1>2, <1>3, <1>4, <1>5
  <2> QED BY <1>4, <1>5, <2>1 DEF Pages
<1>7. ASSUME NEW other \in RowIndexes, other # index
      PROVE  get_row(written, other) = get_row(page, other)
  <2>1. SlotBytes(other) \subseteq DOMAIN page /\ SlotBytes(index) \cap SlotBytes(other) = {}
    BY <1>4, <1>7, SlotsApart
  <2>2. ASSUME NEW b \in SlotBytes(other)
        PROVE  written[b] = page[b]
    <3>1. b \in Int /\ b \in DOMAIN page /\ b \notin SlotBytes(index)
      BY <1>4, <2>1, <2>2
    <3>2. b # h /\ b - h \notin 1..fixed_row_space
      BY <1>1, <3>1 DEF SlotBytes, h
    <3> QED BY <1>1, <1>5, <3>1, <3>2
  <2> QED BY <2>2, RowIsInSlot
<1> QED BY <1>6, <1>7 DEF written

\* A row of the schema reads back from the slot it was written to.
LEMMA RowReadsBack ==
  ASSUME BytesFit, BytesMarshal, NEW page \in Pages, NEW index \in RowIndexes, NEW row \in Rows
  PROVE  get_row(WithRow(page, index, row), index) = row
<1> DEFINE h == data_by_index(index)
           bytes == serialize_row(row)
           written == WithRow(page, index, row)
           size(c) == SizeOf[schema[c].type]
           value(p, d, c) == [b \in 1..size(c) |-> p[d + column_start[c] + b - 1]]
<1>1. /\ h \in Nat /\ fixed_row_space \in Nat /\ DOMAIN bytes \subseteq 1..fixed_row_space
      /\ h..(h + fixed_row_space) \subseteq 0..(PageSize - 1)
  BY SlotsApart DEF BytesFit, SlotBytes
<1>2. DOMAIN page = 0..(PageSize - 1)
  BY DEF Pages
<1>3. written = [b \in DOMAIN page |-> IF b = h THEN 1
                                      ELSE IF b - h \in DOMAIN bytes THEN bytes[b - h]
                                      ELSE page[b]]
  BY DEF WithRow
<1>4. \A p, d : deserialize_row(p, d) =
                 [c \in DOMAIN schema |-> [type |-> schema[c].type, bytes |-> value(p, d, c)]]
  BY DEF deserialize_row
<1>5. deserialize_row(bytes, 1) = row
  BY DEF BytesMarshal
<1>6. \A c \in DOMAIN schema :
        /\ column_start[c] \in Nat /\ size(c) \in Nat
        /\ (column_start[c] + 1)..(column_start[c] + size(c)) \subseteq DOMAIN bytes
  BY DEF BytesFit, BytesMarshal
<1>7. get_row(written, index) = IF written[h] = 0 THEN EmptyRow
                                ELSE deserialize_row(written, h + 1)
  BY DEF get_row
<1> HIDE DEF h, bytes, written, size
<1>8. written[h] = 1
  <2>1. h \in DOMAIN page
    BY <1>1, <1>2
  <2> QED BY <1>3, <2>1
<1>9. ASSUME NEW b \in DOMAIN bytes
      PROVE  b \in Nat /\ written[h + b] = bytes[b]
  <2>1. b \in 1..fixed_row_space
    BY <1>1
  <2>2. h + b \in h..(h + fixed_row_space) /\ h + b # h /\ (h + b) - h = b
    BY <1>1, <2>1
  <2>3. h + b \in DOMAIN page
    BY <1>1, <1>2, <2>2
  <2> QED BY <1>1, <1>3, <2>1, <2>2, <2>3
<1>10. ASSUME NEW c \in DOMAIN schema
       PROVE  value(written, h + 1, c) = value(bytes, 1, c)
  <2>1. ASSUME NEW b \in 1..size(c)
        PROVE  written[h + 1 + column_start[c] + b - 1] = bytes[1 + column_start[c] + b - 1]
    <3>1. column_start[c] + b \in (column_start[c] + 1)..(column_start[c] + size(c))
      BY <1>6, <2>1
    <3>2. column_start[c] + b \in DOMAIN bytes
      BY <1>6, <3>1
    <3>3. /\ h + 1 + column_start[c] + b - 1 = h + (column_start[c] + b)
          /\ 1 + column_start[c] + b - 1 = column_start[c] + b
      BY <1>1, <1>6, <2>1
    <3> QED BY <1>9, <3>2, <3>3
  <2> QED BY <2>1
<1> HIDE DEF value
<1>11. deserialize_row(written, h + 1) = deserialize_row(bytes, 1)
  BY <1>4, <1>10
<1>12. get_row(written, index) = row
  BY <1>5, <1>7, <1>8, <1>11
<1> QED BY <1>12 DEF written

\* find_free_slot finds the slot of no row.
LEMMA FreeSlotFound ==
  ASSUME BytesFit, NEW page, FreeSlots(page) # {}
  PROVE  /\ find_free_slot(page) \in RowIndexes
         /\ get_row(page, find_free_slot(page)) = EmptyRow
<1>1. FreeSlots(page) \subseteq Nat
  BY SlotsApart DEF FreeSlots
<1>2. \E index \in FreeSlots(page) : \A other \in FreeSlots(page) : index <= other
  BY <1>1, LeastNatural
<1>3. find_free_slot(page) \in FreeSlots(page)
  BY <1>2 DEF find_free_slot
<1> QED BY <1>3 DEF FreeSlots, get_row

-----------------------------------------------------------------------------
(* The invariant *)

\* Operations are of connected tables, and of slots there are.
OperationTyped ==
    /\ operation \in {NoOperation}
         \union [kind : {"insert"}, fd : FDs, row : Rows]
         \union [kind : {"inserted"}, fd : FDs, row : Rows, id : RowIDs]
         \union [kind : {"get"}, fd : FDs, id : RowIDs]
    /\ operation # NoOperation => operation.fd \in connected
    /\ current_page_index \in [FDs -> Nat]

\* The page a table holds, or waits for, is the one its operation is at.
PageIsOperations ==
    /\ Holding => operation # NoOperation /\ pages["table"].id = <<operation.fd, PageAt>>
    /\ request # BP!NoRequest => operation # NoOperation /\ request.id = <<operation.fd, PageAt>>
    /\ operation.kind = "inserted" => Holding

\* What is in a file of a row is the row, or nothing yet.
RowsSaved ==
    \A inode \in Inodes, id \in RowIDs : SavedRow(inode, id) \in {EmptyRow, RowAt(inode, id)}

\* An insertion that has not returned has written a row nobody was told of, into
\* a slot that was free, and nothing of it can be in the file: the page is held.
InsertedRow ==
    operation.kind = "inserted" =>
        LET inode == files[operation.fd].inode
        IN  /\ RowAt(inode, operation.id) = operation.row
            /\ SavedRow(inode, operation.id) = EmptyRow
            /\ \A t \in told : ~(t.inode = inode /\ t.id = operation.id)

\* What is inductive of the tables alone, whatever files are opened.
TableInv == BPP!IInv /\ OperationTyped /\ PageIsOperations

\* What is inductive where no file is opened anew while frames hold it.
StoreInv ==
    /\ BPP!IInv /\ BPP!RInv
    /\ OperationTyped
    /\ PageIsOperations
    /\ RowsSaved
    /\ InsertedRow
    /\ RowsAreWhatWasInserted

\* The second has all of the first.
LEMMA TableInvHolds == StoreInv => TableInv
BY DEF StoreInv, TableInv

-----------------------------------------------------------------------------
(* The pool *)

\* Store speaks of the pool of the proofs.
LEMMA SamePool ==
  /\ BP!Init <=> BPP!Init
  /\ \A fd, inode : BP!OpenFile(fd, inode) <=> BPP!OpenFile(fd, inode)
  /\ \A fd : BP!ReleaseFile(fd) <=> BPP!ReleaseFile(fd)
  /\ \A fd : BP!AllocPage(fd) <=> BPP!AllocPage(fd)
  /\ \A h, id : BP!GetCached(h, id) <=> BPP!GetCached(h, id)
  /\ \A h, id : BP!GetUncached(h, id) <=> BPP!GetUncached(h, id)
  /\ BP!Search <=> BPP!Search
  /\ \A h, value : BP!WritePage(h, value) <=> BPP!WritePage(h, value)
  /\ \A h : BP!ReleasePage(h) <=> BPP!ReleasePage(h)
  /\ BP!Restart <=> BPP!Restart
  /\ BP!Crash <=> BPP!Crash
<1> USE DEF BP!Idle, BPP!Idle, BP!NoRequest, BPP!NoRequest, BP!NoPage, BPP!NoPage,
            BP!NoFrame, BPP!NoFrame, BP!NoFile, BPP!NoFile, BP!UnusedTag, BPP!UnusedTag,
            BP!ClosedFile, BPP!ClosedFile, BP!NoInode, BPP!NoInode, BP!Frames, BPP!Frames,
            BP!PageIDs, BPP!PageIDs, BP!PageIndexes, BPP!PageIndexes, BP!Alive, BPP!Alive,
            BP!cacheVars, BPP!cacheVars, BP!EmptyFrame, BPP!EmptyFrame,
            BP!UnusedDescriptor, BPP!UnusedDescriptor
<1>1. BP!Init <=> BPP!Init
  BY DEF BP!Init, BPP!Init
<1>2. \A fd, inode : BP!OpenFile(fd, inode) <=> BPP!OpenFile(fd, inode)
  BY DEF BP!OpenFile, BPP!OpenFile
<1>3. \A new_frames, tables : BP!FilesHeld(new_frames, tables) = BPP!FilesHeld(new_frames, tables)
  BY DEF BP!FilesHeld, BPP!FilesHeld
<1>4. \A fd : BP!ReleaseFile(fd) <=> BPP!ReleaseFile(fd)
  BY <1>3 DEF BP!ReleaseFile, BPP!ReleaseFile
<1>5. \A fd : BP!AllocPage(fd) <=> BPP!AllocPage(fd)
  BY DEF BP!AllocPage, BPP!AllocPage, BP!ZeroRange, BPP!ZeroRange, BP!Max2, BPP!Max2
<1>6. \A h, id : BP!GetCached(h, id) <=> BPP!GetCached(h, id)
  BY DEF BP!GetCached, BPP!GetCached, BP!Referred, BPP!Referred
<1>7. \A h, id : BP!GetUncached(h, id) <=> BPP!GetUncached(h, id)
  BY DEF BP!GetUncached, BPP!GetUncached
<1>8. BP!Search <=> BPP!Search
  <2>1. /\ \A f : BP!Dumped(f) = BPP!Dumped(f)
        /\ \A id, f : BP!TableWith(id, f) = BPP!TableWith(id, f)
        /\ \A frame : BP!Referred(frame) = BPP!Referred(frame)
        /\ BP!NextCursor = BPP!NextCursor
        /\ BP!AtLocked <=> BPP!AtLocked
        /\ BP!Searching <=> BPP!Searching
        /\ BP!Found <=> BPP!Found
    BY DEF BP!Dumped, BPP!Dumped, BP!TableWith, BPP!TableWith, BP!Referred, BPP!Referred,
           BP!NextCursor, BPP!NextCursor, BP!AtLocked, BPP!AtLocked, BP!Searching,
           BPP!Searching, BP!Found, BPP!Found
  <2>2. BP!SkipLocked <=> BPP!SkipLocked
    BY <2>1 DEF BP!SkipLocked, BPP!SkipLocked
  <2>3. BP!SpendUsage <=> BPP!SpendUsage
    BY <2>1 DEF BP!SpendUsage, BPP!SpendUsage
  <2>4. BP!Replace <=> BPP!Replace
    BY <1>3, <2>1 DEF BP!Replace, BPP!Replace
  <2>5. BP!ReadFails <=> BPP!ReadFails
    BY <2>1 DEF BP!ReadFails, BPP!ReadFails
  <2> QED BY <2>2, <2>3, <2>4, <2>5 DEF BP!Search, BPP!Search
<1>9. \A h, value : BP!WritePage(h, value) <=> BPP!WritePage(h, value)
  BY DEF BP!WritePage, BPP!WritePage
<1>10. \A h : BP!ReleasePage(h) <=> BPP!ReleasePage(h)
  BY DEF BP!ReleasePage, BPP!ReleasePage
<1>11. BP!Restart <=> BPP!Restart
  <2>1. BP!AllDumped = BPP!AllDumped
    BY DEF BP!AllDumped, BPP!AllDumped
  <2> QED BY <2>1 DEF BP!Restart, BPP!Restart
<1>12. BP!Crash <=> BPP!Crash
  BY DEF BP!Crash, BPP!Crash
<1> QED BY <1>1, <1>2, <1>4, <1>5, <1>6, <1>7, <1>8, <1>9, <1>10, <1>11, <1>12

\* The pool keeps its invariant through steps of its own, ...
LEMMA PoolInv ==
  ASSUME BPP!IInv, BPP!RInv, ~Reopens,
         \/ BPP!Keeps
         \/ \E fd \in FDs : BPP!AllocPage(fd)
         \/ \E value \in Pages : BPP!WritePage("table", value)
         \/ UNCHANGED poolVars
  PROVE  BPP!IInv' /\ BPP!RInv'
<1>1. [BPP!Next]_(BPP!vars)
  BY DEF BPP!Next, BPP!Keeps, BPP!vars, poolVars
<1>2. BPP!IInv'
  BY <1>1, BPP!NextIInv, PoolConstants
<1> QED BY <1>1, <1>2, BPP!RInvStep, PoolConstants

\* ... and where an assert of the table ends the program, and nothing else happens.
LEMMA AbortKeepsPool ==
  ASSUME BPP!IInv, aborted' = TRUE,
         UNCHANGED <<disk, files, connected, frames, buffer_table_layer,
                     buffer_descriptors_layer, cursor, pages, request>>
  PROVE  BPP!IInv'
<1>1. BPP!TypeOK'
  BY DEF BPP!IInv, BPP!TypeOK
<1>2. BPP!LayersAgree' /\ BPP!DescriptorsNotReused' /\ BPP!FilesWellFormed'
  BY DEF BPP!IInv, BPP!LayersAgree, BPP!DescriptorsNotReused, BPP!FilesWellFormed, BPP!Alive
<1>3. BPP!HeldPagesStay'
  BY DEF BPP!IInv, BPP!HeldPagesStay
<1>4. BPP!DiskBounded' /\ BPP!PagesWellFormed' /\ BPP!RequestWellFormed'
  BY DEF BPP!IInv, BPP!DiskBounded, BPP!PagesWellFormed, BPP!RequestWellFormed
<1> QED BY <1>1, <1>2, <1>3, <1>4 DEF BPP!IInv

\* So do the files.
LEMMA AbortInv ==
  ASSUME BPP!IInv, BPP!RInv, aborted' = TRUE,
         UNCHANGED <<disk, files, connected, frames, buffer_table_layer,
                     buffer_descriptors_layer, cursor, pages, request>>
  PROVE  BPP!IInv' /\ BPP!RInv'
<1>1. BPP!RInv'
  BY DEF BPP!RInv, BPP!OneFileEach, BPP!SizesCover, BPP!CachedOnDisk, BPP!Alive
<1> QED BY <1>1, AbortKeepsPool

-----------------------------------------------------------------------------
(* The rows *)

\* What RowAt and SavedRow say, in terms of the page the row is on.
RowsArePages ==
    \A inode \in Inodes, id \in RowIDs :
        /\ Len(disk[inode]) \in Nat /\ id[1] \in Nat /\ id[2] \in RowIndexes
        /\ id = <<id[1], id[2]>>
        /\ id[1] < Len(disk[inode]) => id[1] + 1 \in 1..Len(disk[inode])
        /\ RowAt(inode, id) = IF id[1] < Len(disk[inode])
                              THEN get_row(BPP!Content(inode, id[1] + 1), id[2]) ELSE EmptyRow
        /\ SavedRow(inode, id) = IF id[1] < Len(disk[inode])
                                 THEN get_row(disk[inode][id[1] + 1], id[2]) ELSE EmptyRow

\* That is so before a step ...
LEMMA RowsBefore == BPP!IInv => RowsArePages
<1> SUFFICES ASSUME BPP!IInv, NEW inode \in Inodes, NEW id \in RowIDs
             PROVE  /\ Len(disk[inode]) \in Nat /\ id[1] \in Nat /\ id[2] \in RowIndexes
                    /\ id = <<id[1], id[2]>>
                    /\ id[1] < Len(disk[inode]) => id[1] + 1 \in 1..Len(disk[inode])
                    /\ RowAt(inode, id) = IF id[1] < Len(disk[inode])
                                          THEN get_row(BPP!Content(inode, id[1] + 1), id[2])
                                          ELSE EmptyRow
                    /\ SavedRow(inode, id) = IF id[1] < Len(disk[inode])
                                             THEN get_row(disk[inode][id[1] + 1], id[2])
                                             ELSE EmptyRow
  BY DEF RowsArePages
<1>1. Len(disk[inode]) \in Nat /\ DOMAIN disk[inode] = 1..Len(disk[inode])
  BY BPP!DiskLength, PoolConstants DEF BPP!IInv
<1>2. id[1] \in Nat /\ id[2] \in RowIndexes /\ id = <<id[1], id[2]>>
  BY PoolConstants DEF RowIDs
<1>3. id[1] < Len(disk[inode]) => id[1] + 1 \in 1..Len(disk[inode])
  BY <1>1, <1>2
<1>4. \A p : BP!Content(inode, p) = BPP!Content(inode, p)
  BY DEF BP!Content, BPP!Content, BP!Frames, BPP!Frames, BP!NoFile, BPP!NoFile
<1>5. RowAt(inode, id) = IF id[1] < Len(disk[inode])
                         THEN get_row(BPP!Content(inode, id[1] + 1), id[2]) ELSE EmptyRow
  BY <1>1, <1>3, <1>4 DEF RowAt, RowOn
<1>6. SavedRow(inode, id) = IF id[1] < Len(disk[inode])
                            THEN get_row(disk[inode][id[1] + 1], id[2]) ELSE EmptyRow
  BY DEF SavedRow, RowOn
<1> QED BY <1>1, <1>2, <1>3, <1>5, <1>6

\* ... and after it.
LEMMA RowsAfter == BPP!IInv' => RowsArePages'
  BY RowsBefore, PTL

\* What a step leaves of the rows that does not write to a page: it may save
\* some, and that is all.
RowsKept ==
    \A inode \in Inodes, id \in RowIDs :
        /\ RowAt(inode, id)' = RowAt(inode, id)
        /\ SavedRow(inode, id)' \in {SavedRow(inode, id), RowAt(inode, id)}

\* Pages that are kept keep their rows, and new ones have none.
LEMMA PagesKeepRows ==
  ASSUME BytesFit, BPP!IInv, BPP!IInv', BPP!PagesKept
  PROVE  RowsKept
<1> SUFFICES ASSUME NEW inode \in Inodes, NEW id \in RowIDs
             PROVE  /\ RowAt(inode, id)' = RowAt(inode, id)
                    /\ SavedRow(inode, id)' \in {SavedRow(inode, id), RowAt(inode, id)}
  BY DEF RowsKept
<1>1. RowsArePages /\ RowsArePages'
  BY RowsBefore, RowsAfter
<1> DEFINE old == Len(disk[inode])
           new == Len(disk'[inode])
           p == id[1] + 1
<1>2. old \in Nat /\ new \in Nat /\ id[1] \in Nat /\ id[2] \in RowIndexes /\ old <= new
  BY <1>1 DEF RowsArePages, BPP!PagesKept
<1>3. CASE id[1] < old
  <2>1. p \in 1..old /\ id[1] < new
    BY <1>2, <1>3
  <2>2. /\ BPP!Content(inode, p)' = BPP!Content(inode, p)
        /\ disk'[inode][p] \in {disk[inode][p], BPP!Content(inode, p)}
    BY <2>1 DEF BPP!PagesKept
  <2> QED BY <1>1, <1>3, <2>1, <2>2 DEF RowsArePages
<1>4. CASE ~(id[1] < old) /\ id[1] < new
  <2>1. p \in 1..new /\ p > old
    BY <1>2, <1>4
  <2>2. BPP!Content(inode, p)' = EmptyPage /\ disk'[inode][p] = EmptyPage
    BY <2>1 DEF BPP!PagesKept
  <2>3. get_row(EmptyPage, id[2]) = EmptyRow
    BY <1>2, EmptyPageHasNoRows
  <2> QED BY <1>1, <1>4, <2>2, <2>3 DEF RowsArePages
<1>5. CASE ~(id[1] < new)
  <2>1. ~(id[1] < old)
    BY <1>2, <1>5
  <2> QED BY <1>1, <1>5, <2>1 DEF RowsArePages
<1> QED BY <1>3, <1>4, <1>5

\* Steps of the pool of which a table knows nothing keep all rows.
LEMMA PoolKeepsRows ==
  ASSUME BytesFit, ~Reopens, BPP!IInv, BPP!RInv,
         \/ BPP!Keeps
         \/ \E fd \in FDs : BPP!AllocPage(fd)
         \/ UNCHANGED poolVars
  PROVE  BPP!IInv' /\ BPP!RInv' /\ RowsKept
<1>1. BPP!IInv' /\ BPP!RInv'
  BY PoolInv
<1>2. CASE BPP!Keeps \/ \E fd \in FDs : BPP!AllocPage(fd)
  BY <1>1, <1>2, BPP!KeepsPages, PagesKeepRows, PoolConstants
<1>3. CASE UNCHANGED poolVars
  <2>1. \A inode, p : BPP!Content(inode, p)' = BPP!Content(inode, p)
    BY <1>3 DEF poolVars, BPP!Content
  <2>2. disk' = disk
    BY <1>3 DEF poolVars
  <2>3. RowsArePages /\ RowsArePages'
    BY <1>1, RowsBefore, RowsAfter
  <2> QED BY <1>1, <2>1, <2>2, <2>3 DEF RowsArePages, RowsKept
<1> QED BY <1>1, <1>2, <1>3

-----------------------------------------------------------------------------
(* The invariant: steps that write to no page and tell of no row *)

\* Operations by their kinds.
LEMMA OperationKinds ==
  ASSUME OperationTyped
  PROVE  /\ operation = NoOperation <=> operation.kind = "none"
         /\ operation # NoOperation => operation.kind \in {"insert", "inserted", "get"}
         /\ operation # NoOperation => operation.fd \in FDs /\ operation.fd \in connected
         /\ operation.kind = "insert" => operation \in [kind : {"insert"}, fd : FDs, row : Rows]
         /\ operation.kind = "inserted"
              => operation \in [kind : {"inserted"}, fd : FDs, row : Rows, id : RowIDs]
         /\ operation.kind = "get" => operation \in [kind : {"get"}, fd : FDs, id : RowIDs]
BY DEF OperationTyped, NoOperation

\* What nobody holds and nobody waits for.
LEMMA NobodyHolds ==
  ASSUME BPP!IInv, OperationTyped, PageIsOperations
  PROVE  /\ operation = NoOperation => ~Holding /\ request = BPP!NoRequest
         /\ request # BPP!NoRequest => ~Holding
         /\ BP!NoPage = BPP!NoPage /\ BP!NoRequest = BPP!NoRequest
<1>1. BP!NoPage = BPP!NoPage /\ BP!NoRequest = BPP!NoRequest
  BY DEF BP!NoPage, BPP!NoPage, BP!NoRequest, BPP!NoRequest, BP!NoFrame, BPP!NoFrame,
         BP!UnusedTag, BPP!UnusedTag
<1>2. request # BPP!NoRequest => request.holder = "table" /\ pages[request.holder] = BPP!NoPage
  BY DEF BPP!IInv, BPP!TypeOK, BPP!RequestWellFormed
<1> QED BY <1>1, <1>2 DEF PageIsOperations, Holding

\* A step that inserts no row and tells of none: the pool moves pages, or makes
\* a new one, and the table goes on to where it is.
QuietStep ==
    /\ OperationTyped' /\ PageIsOperations' /\ told' = told
    /\ operation.kind # "inserted" /\ (operation.kind # "inserted")'
    /\ \/ BPP!Keeps
       \/ \E fd \in FDs : BPP!AllocPage(fd)
       \/ UNCHANGED poolVars

\* They keep the invariant, since all rows stay.
LEMMA QuietStepInv ==
  ASSUME BytesFit, ~Reopens, StoreInv, QuietStep
  PROVE  StoreInv' /\ RowsKept
<1>1. BPP!IInv' /\ BPP!RInv' /\ RowsKept
  BY PoolKeepsRows DEF StoreInv, QuietStep
<1>2. RowsSaved'
  BY <1>1 DEF RowsKept, RowsSaved, StoreInv
<1>3. InsertedRow'
  BY DEF QuietStep, InsertedRow
<1>4. RowsAreWhatWasInserted'
  BY <1>1 DEF RowsKept, RowsAreWhatWasInserted, StoreInv, QuietStep
<1> QED BY <1>1, <1>2, <1>3, <1>4 DEF StoreInv, QuietStep

\* A step while no operation runs, which begins one or none.
LEMMA BeginsQuietly ==
  ASSUME TableInv, operation = NoOperation, UNCHANGED <<pages, request, told>>,
         OperationTyped', (operation.kind # "inserted")',
         BPP!Keeps \/ UNCHANGED poolVars
  PROVE  QuietStep
<1>1. ~Holding /\ request = BP!NoRequest
  BY NobodyHolds DEF TableInv
<1>2. ~Holding' /\ (request = BP!NoRequest)'
  BY <1>1 DEF Holding, BP!NoPage, BP!NoRequest, BP!NoFrame, BP!UnusedTag
<1>3. PageIsOperations'
  BY <1>2 DEF PageIsOperations
<1> QED BY <1>3 DEF QuietStep, NoOperation

\* Store::connect_table, ~Table, Store::drop and the end of a store.
LEMMA OutsideQuiet ==
  ASSUME TableInv,
         \/ \E fd \in FDs, name \in Names : Connect(fd, name)
         \/ \E fd \in FDs : Disconnect(fd)
         \/ \E name \in Names : Drop(name)
         \/ Restart
  PROVE  QuietStep
<1>0. current_page_index \in [FDs -> Nat] /\ operation = NoOperation
  BY DEF TableInv, OperationTyped, Connect, Disconnect, Drop, Restart
<1>1. ASSUME operation' = operation, UNCHANGED <<pages, request, told>>,
             current_page_index' \in [FDs -> Nat], BPP!Keeps \/ UNCHANGED poolVars
      PROVE  QuietStep
  <2>1. OperationTyped' /\ (operation.kind # "inserted")'
    BY <1>0, <1>1 DEF OperationTyped, NoOperation
  <2> QED BY <1>0, <1>1, <2>1, BeginsQuietly
<1>2. ASSUME NEW fd \in FDs, NEW name \in Names, Connect(fd, name)
      PROVE  QuietStep
  <2>1. PICK inode \in Inodes : BPP!OpenFile(fd, inode)
    BY <1>2, SamePool DEF Connect, NewFile
  <2>2. BPP!Keeps /\ UNCHANGED <<pages, request>>
    BY <2>1 DEF BPP!Keeps, BPP!OpenFile
  <2> QED BY <1>0, <1>1, <1>2, <2>2 DEF Connect
<1>3. ASSUME NEW fd \in FDs, Disconnect(fd)
      PROVE  QuietStep
  <2>1. BPP!Keeps /\ UNCHANGED <<pages, request>>
    BY <1>3, SamePool DEF Disconnect, BPP!Keeps, BPP!ReleaseFile
  <2> QED BY <1>0, <1>1, <1>3, <2>1 DEF Disconnect, BPP!vars
<1>4. ASSUME NEW name \in Names, Drop(name)
      PROVE  QuietStep
  BY <1>0, <1>1, <1>4 DEF Drop, poolVars
<1>5. CASE Restart
  <2>1. BPP!Keeps /\ UNCHANGED <<pages, request>>
    BY <1>5, SamePool DEF Restart, BPP!Keeps, BPP!Restart
  <2> QED BY <1>0, <1>1, <1>5, <2>1 DEF Restart
<1> QED BY <1>2, <1>3, <1>4, <1>5

\* The beginning of insert_row and get_row.
LEMMA CallQuiet ==
  ASSUME TableInv, NEW fd \in FDs,
         \/ \E row \in Rows : InsertRow(fd, row)
         \/ \E id \in RowIDs : GetRow(fd, id)
  PROVE  QuietStep
<1>1. /\ operation = NoOperation /\ fd \in connected /\ UNCHANGED <<poolVars, told>>
      /\ current_page_index' = current_page_index
      /\ operation' \in [kind : {"insert"}, fd : {fd}, row : Rows]
           \union [kind : {"get"}, fd : {fd}, id : RowIDs]
  BY DEF InsertRow, GetRow
<1>2. OperationTyped' /\ (operation.kind # "inserted")'
  BY <1>1 DEF OperationTyped, TableInv, poolVars
<1> QED BY <1>1, <1>2, BeginsQuietly DEF poolVars

\* Table::get_table_page: the pool is asked for the page the operation is at.
LEMMA GetTablePageQuiet ==
  ASSUME TableInv, GetTablePage
  PROVE  QuietStep
<1> DEFINE id == <<operation.fd, PageAt>>
<1>1. /\ operation # NoOperation /\ ~Holding
      /\ BPP!GetCached("table", id) \/ BPP!GetUncached("table", id)
      /\ UNCHANGED <<operation, current_page_index, told>>
  BY SamePool DEF GetTablePage, tableVars
<1>2. /\ operation.kind \in {"insert", "get"} /\ operation.fd \in FDs
      /\ PageAt \in Nat
  <2>1. operation.kind # "inserted"
    BY <1>1 DEF TableInv, PageIsOperations
  <2>2. operation.kind \in {"insert", "get"} /\ operation.fd \in FDs
    BY <1>1, <2>1, OperationKinds DEF TableInv
  <2>3. operation.kind = "get" => operation.id[1] \in Nat
    BY OperationKinds, PoolConstants DEF TableInv, RowIDs
  <2>4. operation.kind = "insert" => current_page_index[operation.fd] \in Nat
    BY <2>2 DEF TableInv, OperationTyped
  <2> QED BY <2>2, <2>3, <2>4 DEF PageAt
<1>3. id \in BPP!PageIDs
  <2>1. files[operation.fd].size \in 0..MaxPages /\ PageAt < files[operation.fd].size
    BY <1>1, <1>2 DEF TableInv, BPP!IInv, BPP!TypeOK, BPP!GetCached, BPP!GetUncached
  <2>2. PageAt \in 0..(MaxPages - 1)
    BY <1>2, <2>1, PoolConstants
  <2> QED BY <1>2, <2>2 DEF BPP!PageIDs, BPP!PageIndexes
<1>4. BPP!Keeps
  BY <1>1, <1>3 DEF BPP!Keeps
<1>5. PageAt' = PageAt /\ connected' = connected /\ (operation.kind # "inserted")'
  BY <1>1, <1>2 DEF PageAt, BPP!GetCached, BPP!GetUncached
<1>6. OperationTyped'
  BY <1>1, <1>5 DEF TableInv, OperationTyped
<1>7. PageIsOperations'
  <2>1. CASE BPP!GetCached("table", id)
    <3>1. request' = BPP!NoRequest
      BY <2>1 DEF BPP!GetCached, BPP!Idle
    <3>2. pages'["table"].id = id
      <4>1. pages' = [pages EXCEPT !["table"] = [frame |-> buffer_table_layer[id], id |-> id]]
        BY <2>1 DEF BPP!GetCached
      <4>2. "table" \in DOMAIN pages
        BY DEF TableInv, BPP!IInv, BPP!TypeOK
      <4> QED BY <4>1, <4>2
    <3> QED BY <1>1, <1>5, <3>1, <3>2, NobodyHolds DEF TableInv, PageIsOperations
  <2>2. CASE BPP!GetUncached("table", id)
    <3>1. pages' = pages /\ request' = [holder |-> "table", id |-> id]
      BY <2>2 DEF BPP!GetUncached
    <3>2. ~Holding'
      BY <1>1, <3>1 DEF Holding, BP!NoPage, BP!NoFrame, BP!UnusedTag
    <3> QED BY <1>1, <1>5, <3>1, <3>2 DEF PageIsOperations
  <2> QED BY <1>1, <2>1, <2>2
<1> QED BY <1>1, <1>2, <1>4, <1>5, <1>6, <1>7 DEF QuietStep

\* ClockCache::put goes on: in the end it gives the table the page it waits for.
LEMMA FillFrameQuiet ==
  ASSUME TableInv, FillFrame
  PROVE  QuietStep
<1>1. BPP!Search /\ UNCHANGED <<operation, current_page_index, told>>
  BY SamePool DEF FillFrame, tableVars
<1>2. request # BPP!NoRequest /\ connected' = connected
  BY <1>1 DEF BPP!Search, BPP!SkipLocked, BPP!SpendUsage, BPP!Replace, BPP!ReadFails,
              BPP!Found, BPP!Searching
<1>3. /\ operation # NoOperation /\ request.id = <<operation.fd, PageAt>> /\ ~Holding
      /\ operation.kind # "inserted"
  BY <1>2, NobodyHolds DEF TableInv, PageIsOperations
<1>4. PageAt' = PageAt
  BY <1>1 DEF PageAt
<1>5. OperationTyped'
  BY <1>1, <1>2 DEF TableInv, OperationTyped
<1>6. PageIsOperations'
  <2>1. CASE UNCHANGED <<pages, request>>
    <3>1. Holding' = Holding
      BY <2>1 DEF Holding, BP!NoPage, BP!NoFrame, BP!UnusedTag
    <3> QED BY <1>1, <1>3, <1>4, <2>1, <3>1 DEF PageIsOperations
  <2>2. CASE BPP!Replace
    <3>1. /\ request.holder = "table" /\ request' = BPP!NoRequest
          /\ pages' = [pages EXCEPT ![request.holder] = [frame |-> cursor, id |-> request.id]]
      BY <1>2, <2>2 DEF BPP!Replace, TableInv, BPP!IInv, BPP!TypeOK
    <3>2. pages'["table"].id = request.id
      <4>1. "table" \in DOMAIN pages
        BY DEF TableInv, BPP!IInv, BPP!TypeOK
      <4> QED BY <3>1, <4>1
    <3>3. (request # BP!NoRequest)' => FALSE
      BY <3>1, NobodyHolds DEF TableInv, BP!NoRequest, BPP!NoRequest, BP!UnusedTag, BPP!UnusedTag
    <3> QED BY <1>1, <1>3, <1>4, <3>2, <3>3 DEF PageIsOperations
  <2> QED
    BY <1>1, <2>1, <2>2 DEF BPP!Search, BPP!SkipLocked, BPP!SpendUsage, BPP!ReadFails
<1> QED BY <1>1, <1>3, <1>5, <1>6 DEF QuietStep, BPP!Keeps

\* A step after which nobody holds a page or waits for one.
LEMMA LetsGoQuietly ==
  ASSUME ~Holding', request' = BPP!NoRequest, (operation.kind # "inserted")'
  PROVE  PageIsOperations'
<1>1. (request = BP!NoRequest)'
  BY DEF BP!NoRequest, BPP!NoRequest, BP!UnusedTag, BPP!UnusedTag
<1> QED BY <1>1 DEF PageIsOperations

\* ~PoolPage, of the page the table holds.
LEMMA TableReleases ==
  ASSUME BPP!IInv, BP!ReleasePage("table")
  PROVE  /\ BPP!Keeps /\ ~Holding' /\ request' = BPP!NoRequest /\ connected' = connected
         /\ UNCHANGED <<disk, files>>
<1>1. BPP!ReleasePage("table")
  BY SamePool
<1>2. "table" \in DOMAIN pages
  BY DEF BPP!IInv, BPP!TypeOK
<1>3. pages'["table"] = BPP!NoPage
  BY <1>1, <1>2 DEF BPP!ReleasePage
<1>4. ~Holding'
  BY <1>3 DEF Holding, BP!NoPage, BPP!NoPage, BP!NoFrame, BPP!NoFrame, BP!UnusedTag, BPP!UnusedTag
<1> QED BY <1>1, <1>4 DEF BPP!Keeps, BPP!ReleasePage, BPP!Idle

\* insert_row goes on to another page, or makes one; get_row returns.
LEMMA GoesOnQuietly ==
  ASSUME TableInv, InsertAllocates \/ InsertSkipsPage \/ GetReturns
  PROVE  QuietStep
<1>0. /\ operation \in [kind : {"insert"}, fd : FDs, row : Rows] \union [kind : {"get"}, fd : FDs, id : RowIDs]
      /\ operation.fd \in connected /\ operation.fd \in FDs
      /\ current_page_index \in [FDs -> Nat]
  BY OperationKinds DEF TableInv, OperationTyped, InsertAllocates, InsertSkipsPage, GetReturns
<1>1. ASSUME operation' \in {operation, NoOperation}, told' = told, connected' = connected,
             current_page_index' \in [FDs -> Nat],
             ~Holding', request' = BPP!NoRequest,
             BPP!Keeps \/ \E fd \in FDs : BPP!AllocPage(fd)
      PROVE  QuietStep
  <2>1. operation.kind # "inserted" /\ (operation.kind # "inserted")'
    BY <1>0, <1>1 DEF NoOperation
  <2>2. OperationTyped'
    BY <1>0, <1>1 DEF OperationTyped, NoOperation
  <2> QED BY <1>1, <2>1, <2>2, LetsGoQuietly DEF QuietStep
<1>2. CASE InsertAllocates
  <2>1. /\ BPP!AllocPage(operation.fd) /\ ~Holding /\ UNCHANGED <<operation, told>>
        /\ current_page_index' =
             [current_page_index EXCEPT ![operation.fd] = files[operation.fd].size]
    BY <1>2, SamePool DEF InsertAllocates
  <2>2. files[operation.fd].size \in Nat
    <3>1. \A fd \in FDs : files[fd].size \in 0..MaxPages
      BY DEF TableInv, BPP!IInv, BPP!TypeOK
    <3>2. operation.fd \in FDs
      BY <1>0
    <3>3. MaxPages \in Nat
      BY PoolConstants
    <3> QED BY <3>1, <3>2, <3>3
  <2>3. request' = BPP!NoRequest /\ connected' = connected /\ pages' = pages
    BY <2>1 DEF BPP!AllocPage, BPP!Idle
  <2>4. ~Holding'
    BY <2>1, <2>3 DEF Holding, BP!NoPage, BP!NoFrame, BP!UnusedTag
  <2> QED BY <1>0, <1>1, <2>1, <2>2, <2>3, <2>4
<1>3. CASE InsertSkipsPage
  <2>1. /\ UNCHANGED <<operation, told>>
        /\ current_page_index' = [current_page_index EXCEPT ![operation.fd] = @ + 1]
    BY <1>3 DEF InsertSkipsPage
  <2>2. current_page_index' \in [FDs -> Nat]
    BY <1>0, <2>1
  <2> QED BY <1>1, <1>3, <2>1, <2>2, TableReleases DEF InsertSkipsPage, TableInv
<1>4. CASE GetReturns
  BY <1>0, <1>1, <1>4, TableReleases DEF GetReturns, TableInv
<1> QED BY <1>2, <1>3, <1>4

-----------------------------------------------------------------------------
(* The invariant: insertions *)

\* The page a table holds is the one its operation is at, and holds what the
\* file does there.
LEMMA HeldPageIs ==
  ASSUME StoreInv, Holding
  PROVE  /\ operation.fd \in FDs /\ operation.fd \in connected
         /\ files[operation.fd].inode \in Inodes
         /\ PageAt \in 0..(MaxPages - 1) /\ PageAt < Len(disk[files[operation.fd].inode])
         /\ Page = BPP!Content(files[operation.fd].inode, PageAt + 1)
         /\ Page \in Pages
         /\ pages["table"] # BPP!NoPage /\ pages["table"].id = <<operation.fd, PageAt>>
<1>1. /\ operation # NoOperation /\ pages["table"] # BPP!NoPage
      /\ pages["table"].id = <<operation.fd, PageAt>>
  BY NobodyHolds DEF StoreInv, PageIsOperations, Holding
<1>2. operation.fd \in FDs /\ operation.fd \in connected
  BY <1>1, OperationKinds DEF StoreInv
<1>3. PICK f \in BPP!Frames : f = pages["table"].frame
  BY <1>1, BPP!HeldPage, PoolConstants DEF StoreInv
<1>4. PICK inode \in Inodes : inode = files[operation.fd].inode
  BY <1>1, BPP!HeldPage, PoolConstants DEF StoreInv
<1>5. pages["table"].id[1] = operation.fd /\ pages["table"].id[2] = PageAt
  BY <1>1
<1>6. BPP!CachedIn(f, inode, PageAt + 1) /\ PageAt + 1 \in DOMAIN disk[inode]
  BY <1>1, <1>3, <1>4, <1>5, BPP!HeldPage, PoolConstants DEF StoreInv
<1>7. Page = BPP!Content(inode, PageAt + 1)
  BY <1>3, <1>6, BPP!ContentOfCached, PoolConstants DEF StoreInv, Page
<1>8. Page \in Pages
  BY <1>3 DEF Page, StoreInv, BPP!IInv, BPP!TypeOK
<1>9. PageAt \in 0..(MaxPages - 1)
  <2>1. pages["table"].id \in BPP!PageIDs
    BY <1>1 DEF StoreInv, BPP!IInv, BPP!PagesWellFormed
  <2> QED BY <1>5, <2>1 DEF BPP!PageIDs, BPP!PageIndexes
<1>10. PageAt < Len(disk[inode])
  <2>1. DOMAIN disk[inode] = 1..Len(disk[inode]) /\ Len(disk[inode]) \in Nat
    BY BPP!DiskLength, PoolConstants DEF StoreInv, BPP!IInv
  <2>2. PageAt \in Nat
    BY <1>9, PoolConstants
  <2> QED BY <1>6, <2>1, <2>2
<1> QED BY <1>1, <1>2, <1>4, <1>7, <1>8, <1>9, <1>10

\* What a table writes is on that page, and on no other.
LEMMA TableWrites ==
  ASSUME StoreInv, ~Reopens, Holding, NEW written \in Pages, BP!WritePage("table", written)
  PROVE  /\ BPP!IInv' /\ BPP!RInv'
         /\ UNCHANGED <<disk, files, connected, pages, request>>
         /\ request = BPP!NoRequest
         /\ \A inode \in Inodes : \A p \in 1..Len(disk[inode]) :
              BPP!Content(inode, p)' =
                IF inode = files[operation.fd].inode /\ p = PageAt + 1 THEN written
                ELSE BPP!Content(inode, p)
<1>1. BPP!WritePage("table", written)
  BY SamePool
<1>2. BPP!IInv' /\ BPP!RInv'
  BY <1>1, PoolInv DEF StoreInv
<1>3. /\ UNCHANGED <<disk, files, connected, pages, request>>
      /\ request = BPP!NoRequest
  BY <1>1 DEF BPP!WritePage, BPP!Idle
<1>4. PICK inode0 \in Inodes : inode0 = files[operation.fd].inode
  BY HeldPageIs
<1>5. PICK p0 : p0 = PageAt + 1
  OBVIOUS
<1>6. BPP!held["table"] = <<inode0, p0>>
  <2>1. pages["table"] # BPP!NoPage /\ pages["table"].id = <<operation.fd, PageAt>>
    BY HeldPageIs
  <2> QED BY <1>4, <1>5, <2>1 DEF BPP!held
<1>7. BPP!content' = [BPP!content EXCEPT ![BPP!held["table"][1]][BPP!held["table"][2]] = written]
  BY <1>1, <1>2, BPP!WriteContent, PoolConstants DEF StoreInv
<1>8. BPP!content' = [BPP!content EXCEPT ![inode0][p0] = written]
  BY <1>6, <1>7
<1>9. BPP!ContentTyped /\ BPP!ContentTyped'
  BY <1>2, BPP!ContentTypedBefore, BPP!ContentTypedAfter, PoolConstants DEF StoreInv
<1>10. ASSUME NEW inode \in Inodes, NEW p \in 1..Len(disk[inode])
       PROVE  BPP!Content(inode, p)' = IF inode = inode0 /\ p = p0 THEN written
                                       ELSE BPP!Content(inode, p)
  <2>1. /\ BPP!content[inode][p] = BPP!Content(inode, p)
        /\ BPP!content'[inode][p] = BPP!Content(inode, p)'
    BY <1>3, <1>9 DEF BPP!ContentTyped
  <2>2. /\ BPP!content \in [Inodes -> Seq(Pages)]
        /\ p \in DOMAIN BPP!content[inode]
    <3>1. BPP!content \in [Inodes -> Seq(Pages)] /\ Len(BPP!content[inode]) = Len(disk[inode])
      BY <1>9 DEF BPP!ContentTyped
    <3> QED BY <3>1
  <2> QED BY <1>8, <2>1, <2>2
<1> QED BY <1>2, <1>3, <1>4, <1>5, <1>10

\* insert_row writes its row to a slot that was free, and no other row.
LEMMA SlotIsInserted ==
  ASSUME BytesFit, ~Reopens, StoreInv, InsertIntoSlot
  PROVE  /\ BPP!IInv' /\ BPP!RInv'
         /\ UNCHANGED <<files, connected, pages, request>>
         /\ request = BPP!NoRequest /\ Holding
         /\ \E inode \in Inodes, id \in RowIDs :
              /\ inode = files[operation.fd].inode /\ operation.kind = "insert"
              /\ operation' = [kind |-> "inserted", fd |-> operation.fd,
                               row |-> operation.row, id |-> id]
              /\ id[1] = PageAt
              /\ RowAt(inode, id) = EmptyRow
              /\ RowAt(inode, id)' = operation.row
              /\ \A i \in Inodes, d \in RowIDs : ~(i = inode /\ d = id) => RowAt(i, d)' = RowAt(i, d)
              /\ \A i \in Inodes, d \in RowIDs : SavedRow(i, d)' = SavedRow(i, d)
<1>1. PICK inode \in Inodes : inode = files[operation.fd].inode
  BY HeldPageIs DEF InsertIntoSlot
<1>2. PICK slot : slot = find_free_slot(Page)
  OBVIOUS
<1>3. PICK row \in Rows : row = operation.row
  BY OperationKinds DEF StoreInv, InsertIntoSlot
<1>4. PICK written : written = WithRow(Page, slot, row)
  OBVIOUS
<1>5. PICK at : at = PageAt
  OBVIOUS
<1>6. /\ at \in 0..(MaxPages - 1) /\ at < Len(disk[inode]) /\ at \in Nat
      /\ Page = BPP!Content(inode, at + 1) /\ Page \in Pages /\ Holding
  BY <1>1, <1>5, HeldPageIs, PoolConstants DEF InsertIntoSlot
<1>7. slot \in RowIndexes /\ get_row(Page, slot) = EmptyRow
  BY <1>2, FreeSlotFound DEF InsertIntoSlot
<1>8. /\ written \in Pages
      /\ \A other \in RowIndexes : other # slot => get_row(written, other) = get_row(Page, other)
  BY <1>4, <1>6, <1>7, RowBesideRow
<1>9. /\ get_row(written, slot) = row
      /\ BP!WritePage("table", written)
      /\ operation' = [kind |-> "inserted", fd |-> operation.fd, row |-> row, id |-> <<at, slot>>]
  BY <1>2, <1>3, <1>4, <1>5 DEF InsertIntoSlot
<1>10. <<at, slot>> \in RowIDs
  BY <1>6, <1>7 DEF RowIDs
<1>11. /\ BPP!IInv' /\ BPP!RInv'
       /\ UNCHANGED <<disk, files, connected, pages, request>>
       /\ request = BPP!NoRequest
       /\ \A i \in Inodes : \A p \in 1..Len(disk[i]) :
            BPP!Content(i, p)' = IF i = inode /\ p = at + 1 THEN written ELSE BPP!Content(i, p)
  BY <1>1, <1>5, <1>6, <1>8, <1>9, TableWrites
<1>12. RowsArePages /\ RowsArePages'
  BY <1>11, RowsBefore, RowsAfter DEF StoreInv
<1>13. RowAt(inode, <<at, slot>>) = EmptyRow
  BY <1>6, <1>7, <1>10, <1>12 DEF RowsArePages
<1>14. ASSUME NEW i \in Inodes, NEW d \in RowIDs
       PROVE  RowAt(i, d)' = IF i = inode /\ d = <<at, slot>> THEN row ELSE RowAt(i, d)
  <2>1. d = <<d[1], d[2]>> /\ d[1] \in Nat /\ d[2] \in RowIndexes
    BY <1>12 DEF RowsArePages
  <2>2. CASE d[1] < Len(disk[i])
    <3>1. /\ RowAt(i, d) = get_row(BPP!Content(i, d[1] + 1), d[2])
          /\ RowAt(i, d)' = get_row(BPP!Content(i, d[1] + 1)', d[2])
          /\ d[1] + 1 \in 1..Len(disk[i])
      BY <1>11, <1>12, <2>2 DEF RowsArePages
    <3>2. BPP!Content(i, d[1] + 1)' = IF i = inode /\ d[1] + 1 = at + 1 THEN written
                                      ELSE BPP!Content(i, d[1] + 1)
      BY <1>11, <3>1
    <3>3. CASE i = inode /\ d[1] = at
      <4>1. RowAt(i, d)' = get_row(written, d[2]) /\ RowAt(i, d) = get_row(Page, d[2])
        BY <1>6, <3>1, <3>2, <3>3
      <4>2. d = <<at, slot>> <=> d[2] = slot
        BY <2>1, <3>3
      <4> QED BY <1>8, <1>9, <2>1, <3>3, <4>1, <4>2
    <3>4. CASE ~(i = inode /\ d[1] = at)
      <4>1. ~(i = inode /\ d[1] + 1 = at + 1)
        BY <1>6, <2>1, <3>4
      <4>2. ~(i = inode /\ d = <<at, slot>>)
        BY <3>4
      <4> QED BY <3>1, <3>2, <4>1, <4>2
    <3> QED BY <3>3, <3>4
  <2>3. CASE ~(d[1] < Len(disk[i]))
    <3>1. RowAt(i, d) = EmptyRow /\ RowAt(i, d)' = EmptyRow
      BY <1>11, <1>12, <2>3 DEF RowsArePages
    <3>2. ~(i = inode /\ d = <<at, slot>>)
      BY <1>6, <2>3
    <3> QED BY <3>1, <3>2
  <2> QED BY <2>2, <2>3
<1>15. \A i \in Inodes, d \in RowIDs : SavedRow(i, d)' = SavedRow(i, d)
  BY <1>11, <1>12 DEF RowsArePages
<1>16. operation.kind = "insert" /\ <<at, slot>>[1] = PageAt
  BY <1>5 DEF InsertIntoSlot
<1>17. \A i \in Inodes, d \in RowIDs : ~(i = inode /\ d = <<at, slot>>) => RowAt(i, d)' = RowAt(i, d)
  BY <1>14
<1>18. RowAt(inode, <<at, slot>>)' = row
  BY <1>10, <1>14
<1>19. PICK id \in RowIDs : id = <<at, slot>>
  BY <1>10
<1>20. /\ operation.kind = "insert" /\ id[1] = PageAt
       /\ operation' = [kind |-> "inserted", fd |-> operation.fd, row |-> operation.row, id |-> id]
  BY <1>3, <1>9, <1>16, <1>19
<1>21. /\ RowAt(inode, id) = EmptyRow /\ RowAt(inode, id)' = operation.row
       /\ \A i \in Inodes, d \in RowIDs : ~(i = inode /\ d = id) => RowAt(i, d)' = RowAt(i, d)
  BY <1>3, <1>13, <1>17, <1>18, <1>19
<1>22. /\ BPP!IInv' /\ BPP!RInv'
       /\ UNCHANGED <<files, connected, pages, request>>
       /\ request = BPP!NoRequest /\ Holding
  BY <1>6, <1>11
<1> QED BY <1>1, <1>15, <1>20, <1>21, <1>22

\* After it, the invariant holds of the row that is in its slot.
LEMMA InsertIntoSlotInv ==
  ASSUME BytesFit, ~Reopens, StoreInv, InsertIntoSlot
  PROVE  StoreInv'
<1>1. PICK inode \in Inodes, id \in RowIDs :
        /\ inode = files[operation.fd].inode /\ operation.kind = "insert"
        /\ operation' = [kind |-> "inserted", fd |-> operation.fd,
                         row |-> operation.row, id |-> id]
        /\ id[1] = PageAt
        /\ RowAt(inode, id) = EmptyRow
        /\ RowAt(inode, id)' = operation.row
        /\ \A i \in Inodes, d \in RowIDs : ~(i = inode /\ d = id) => RowAt(i, d)' = RowAt(i, d)
        /\ \A i \in Inodes, d \in RowIDs : SavedRow(i, d)' = SavedRow(i, d)
  BY SlotIsInserted
<1>2. /\ BPP!IInv' /\ BPP!RInv'
      /\ UNCHANGED <<files, connected, pages, request>>
      /\ request = BPP!NoRequest /\ Holding
  BY SlotIsInserted
<1>3. UNCHANGED <<told, current_page_index>>
  BY DEF InsertIntoSlot
<1>4. /\ operation.fd \in FDs /\ operation.fd \in connected /\ operation.row \in Rows
      /\ pages["table"].id = <<operation.fd, PageAt>>
  BY <1>1, <1>2, OperationKinds, HeldPageIs DEF StoreInv
<1>5. /\ operation'.kind = "inserted" /\ operation'.fd = operation.fd
      /\ operation'.row = operation.row /\ operation'.id = id
  BY <1>1
<1>6. OperationTyped'
  <2>1. operation' \in [kind : {"inserted"}, fd : FDs, row : Rows, id : RowIDs]
    BY <1>1, <1>4
  <2> QED BY <1>2, <1>3, <1>4, <1>5, <2>1 DEF OperationTyped, StoreInv
<1>7. PageIsOperations'
  <2>1. PageAt' = id[1]
    BY <1>5 DEF PageAt
  <2>2. pages'["table"].id = <<operation'.fd, PageAt'>>
    BY <1>1, <1>2, <1>4, <1>5, <2>1
  <2>3. Holding' /\ (request = BP!NoRequest)'
    BY <1>2 DEF Holding, BP!NoPage, BP!NoFrame, BP!NoRequest, BPP!NoRequest, BP!UnusedTag,
                BPP!UnusedTag
  <2>4. operation' # NoOperation
    BY <1>5 DEF NoOperation
  <2> QED BY <2>2, <2>3, <2>4 DEF PageIsOperations
<1>8. SavedRow(inode, id) = EmptyRow
  BY <1>1 DEF StoreInv, RowsSaved
<1>9. RowsSaved'
  BY <1>1, <1>8 DEF StoreInv, RowsSaved
<1>10. \A i \in Inodes, d \in RowIDs :
         {t.row : t \in {x \in told : x.inode = i /\ x.id = d}} = {RowAt(i, d)} \ {EmptyRow}
  BY <1>1 DEF StoreInv, RowsAreWhatWasInserted
<1>11. InsertedRow'
  <2>1. \A t \in told : ~(t.inode = inode /\ t.id = id)
    <3>1. {t.row : t \in {x \in told : x.inode = inode /\ x.id = id}} = {}
      BY <1>1, <1>10
    <3> QED BY <3>1
  <2>2. files'[operation'.fd].inode = inode
    BY <1>1, <1>2, <1>5
  <2> QED BY <1>1, <1>3, <1>5, <1>8, <2>1, <2>2 DEF InsertedRow
<1>12. RowsAreWhatWasInserted'
  <2> SUFFICES ASSUME NEW i \in Inodes, NEW d \in RowIDs
               PROVE  \/ operation'.kind = "inserted" /\ operation'.id = d /\ files'[operation'.fd].inode = i
                      \/ {t.row : t \in {x \in told' : x.inode = i /\ x.id = d}}
                           = {RowAt(i, d)'} \ {EmptyRow}
    BY DEF RowsAreWhatWasInserted
  <2>1. CASE i = inode /\ d = id
    BY <1>1, <1>2, <1>5, <2>1
  <2>2. CASE ~(i = inode /\ d = id)
    BY <1>1, <1>3, <1>10, <2>2
  <2> QED BY <2>1, <2>2
<1> QED BY <1>2, <1>6, <1>7, <1>9, <1>11, <1>12 DEF StoreInv

\* insert_row returns: the row that was written is the row that is told.
LEMMA InsertReturnsInv ==
  ASSUME BytesFit, ~Reopens, StoreInv, InsertReturns
  PROVE  StoreInv' /\ RowsKept
<1>1. /\ operation.kind = "inserted" /\ operation' = NoOperation
      /\ BPP!Keeps /\ ~Holding' /\ request' = BPP!NoRequest /\ connected' = connected
      /\ current_page_index' = current_page_index
  BY TableReleases DEF InsertReturns, StoreInv
<1>2. BPP!IInv' /\ BPP!RInv' /\ RowsKept
  BY <1>1, PoolKeepsRows DEF StoreInv
<1>3. OperationTyped' /\ (operation.kind # "inserted")'
  BY <1>1 DEF OperationTyped, StoreInv, NoOperation
<1>4. PageIsOperations'
  BY <1>1, <1>3, LetsGoQuietly
<1>5. RowsSaved'
  BY <1>2 DEF RowsKept, RowsSaved, StoreInv
<1>6. InsertedRow'
  BY <1>3 DEF InsertedRow
<1>7. PICK inode : inode = files[operation.fd].inode
  OBVIOUS
<1>8. PICK id : id = operation.id
  OBVIOUS
<1>9. PICK row \in Rows : row = operation.row
  BY <1>1, OperationKinds DEF StoreInv
<1>10. told' = told \union {[inode |-> inode, id |-> id, row |-> row]}
  BY <1>7, <1>8, <1>9 DEF InsertReturns
<1>11. /\ RowAt(inode, id) = row /\ row # EmptyRow
       /\ \A t \in told : ~(t.inode = inode /\ t.id = id)
  BY <1>1, <1>7, <1>8, <1>9, RowsAssumption DEF StoreInv, InsertedRow
<1>12. RowsAreWhatWasInserted'
  <2> SUFFICES ASSUME NEW i \in Inodes, NEW d \in RowIDs
               PROVE  {t.row : t \in {x \in told' : x.inode = i /\ x.id = d}}
                        = {RowAt(i, d)'} \ {EmptyRow}
    BY DEF RowsAreWhatWasInserted
  <2>1. RowAt(i, d)' = RowAt(i, d)
    BY <1>2 DEF RowsKept
  <2>2. CASE i = inode /\ d = id
    <3>1. {x \in told' : x.inode = i /\ x.id = d} = {[inode |-> inode, id |-> id, row |-> row]}
      BY <1>10, <1>11, <2>2
    <3>2. \A entry : {t.row : t \in {entry}} = {entry.row}
      OBVIOUS
    <3>3. {t.row : t \in {x \in told' : x.inode = i /\ x.id = d}} = {row}
      BY <3>1, <3>2
    <3> QED BY <1>11, <2>1, <2>2, <3>3
  <2>3. CASE ~(i = inode /\ d = id)
    <3>1. {x \in told' : x.inode = i /\ x.id = d} = {x \in told : x.inode = i /\ x.id = d}
      BY <1>10, <2>3
    <3>2. {t.row : t \in {x \in told : x.inode = i /\ x.id = d}} = {RowAt(i, d)} \ {EmptyRow}
      BY <1>7, <1>8, <2>3 DEF StoreInv, RowsAreWhatWasInserted
    <3> QED BY <2>1, <3>1, <3>2
  <2> QED BY <2>2, <2>3
<1> QED BY <1>2, <1>3, <1>4, <1>5, <1>6, <1>12 DEF StoreInv

\* The assert of insert_row, where the row does not read back.
LEMMA InsertFailsInv ==
  ASSUME BytesFit, StoreInv, InsertFails
  PROVE  StoreInv' /\ RowsKept
<1>1. /\ UNCHANGED <<disk, files, connected, frames, buffer_table_layer,
                     buffer_descriptors_layer, cursor, pages, request>>
      /\ UNCHANGED <<operation, told, current_page_index>>
      /\ aborted' = TRUE
  BY DEF InsertFails, tableVars
<1>2. BPP!IInv' /\ BPP!RInv'
  BY <1>1, AbortInv DEF StoreInv
<1>3. \A inode, id : /\ RowAt(inode, id)' = RowAt(inode, id)
                     /\ SavedRow(inode, id)' = SavedRow(inode, id)
  BY <1>1 DEF RowAt, SavedRow, RowOn, BP!Content
<1>4. OperationTyped' /\ PageIsOperations'
  <2>1. OperationTyped'
    BY <1>1 DEF StoreInv, OperationTyped
  <2>2. PageAt' = PageAt /\ Holding' = Holding
    BY <1>1 DEF PageAt, Holding, BP!NoPage, BP!NoFrame, BP!UnusedTag
  <2> QED BY <1>1, <2>1, <2>2 DEF StoreInv, PageIsOperations
<1>5. RowsSaved' /\ InsertedRow' /\ RowsAreWhatWasInserted'
  BY <1>1, <1>3 DEF StoreInv, RowsSaved, InsertedRow, RowsAreWhatWasInserted
<1> QED BY <1>2, <1>3, <1>4, <1>5 DEF StoreInv, RowsKept

\* A crash leaves of the rows what is in the files, and that is all that the
\* rows told are.
LEMMA CrashInv ==
  ASSUME BytesFit, StoreInv, Crash
  PROVE  /\ StoreInv'
         /\ \A inode \in Inodes, id \in RowIDs :
              /\ RowAt(inode, id)' = SavedRow(inode, id)
              /\ SavedRow(inode, id)' = SavedRow(inode, id)
<1>1. BPP!Crash
  BY SamePool DEF Crash
<1>2. BPP!IInv' /\ BPP!RInv'
  BY <1>1, BPP!CrashIInv, BPP!CrashRInv, PoolConstants DEF StoreInv
<1>3. RowsArePages /\ RowsArePages' /\ disk' = disk
  BY <1>1, <1>2, RowsBefore, RowsAfter DEF StoreInv, BPP!Crash
<1>4. \A inode, p : BPP!Content(inode, p)' = disk'[inode][p]
  <2>1. BPP!ContentCorrect'
    BY <1>2, BPP!ContentAfter, PoolConstants
  <2>2. \A f \in BPP!Frames : frames'[f].owner = BPP!NoFile
    BY <1>1 DEF BPP!Crash, BPP!EmptyFrame
  <2> QED BY <2>1, <2>2 DEF BPP!ContentCorrect, BPP!CachedIn
<1>5. \A inode \in Inodes, id \in RowIDs :
        /\ RowAt(inode, id)' = SavedRow(inode, id)
        /\ SavedRow(inode, id)' = SavedRow(inode, id)
  BY <1>3, <1>4 DEF RowsArePages
<1>6. /\ operation' = NoOperation /\ current_page_index' = [fd \in FDs |-> 0]
      /\ told' = {t \in told : SavedRow(t.inode, t.id)' = t.row}
  BY DEF Crash
<1>7. OperationTyped' /\ (operation.kind # "inserted")'
  BY <1>6 DEF OperationTyped, NoOperation
<1>8. PageIsOperations'
  <2>1. pages'["table"] = BPP!NoPage /\ request' = BPP!NoRequest
    BY <1>1 DEF BPP!Crash
  <2>2. ~Holding'
    BY <2>1 DEF Holding, BP!NoPage, BPP!NoPage, BP!NoFrame, BPP!NoFrame, BP!UnusedTag, BPP!UnusedTag
  <2> QED BY <1>7, <2>1, <2>2, LetsGoQuietly
<1>9. RowsSaved'
  BY <1>5 DEF RowsSaved
<1>10. InsertedRow'
  BY <1>7 DEF InsertedRow
<1>11. RowsAreWhatWasInserted'
  <2> SUFFICES ASSUME NEW inode \in Inodes, NEW id \in RowIDs
               PROVE  {t.row : t \in {x \in told' : x.inode = inode /\ x.id = id}}
                        = {RowAt(inode, id)'} \ {EmptyRow}
    BY DEF RowsAreWhatWasInserted
  <2> DEFINE here == {x \in told : x.inode = inode /\ x.id = id}
             there == {x \in told' : x.inode = inode /\ x.id = id}
             saved == SavedRow(inode, id)
  <2>1. there = {x \in here : x.row = saved}
    BY <1>5, <1>6
  <2>2. \/ {t.row : t \in here} = {RowAt(inode, id)} \ {EmptyRow}
        \/ here = {} /\ saved = EmptyRow
    <3>1. CASE operation.kind = "inserted" /\ operation.id = id /\ files[operation.fd].inode = inode
      BY <3>1 DEF StoreInv, InsertedRow
    <3>2. CASE ~(operation.kind = "inserted" /\ operation.id = id /\ files[operation.fd].inode = inode)
      BY <3>2 DEF StoreInv, RowsAreWhatWasInserted
    <3> QED BY <3>1, <3>2
  <2>3. saved \in {EmptyRow, RowAt(inode, id)}
    BY DEF StoreInv, RowsSaved
  <2>4. RowAt(inode, id)' = saved
    BY <1>5
  <2> HIDE DEF saved, here, there
  <2>5. {t.row : t \in there} = {saved} \ {EmptyRow}
    <3>1. CASE here = {} /\ saved = EmptyRow
      BY <2>1, <3>1
    <3>2. CASE {t.row : t \in here} = {RowAt(inode, id)} \ {EmptyRow}
      <4>1. \A t \in here : t.row = RowAt(inode, id) /\ t.row # EmptyRow
        BY <3>2
      <4>2. CASE saved = EmptyRow
        <5>1. there = {}
          BY <2>1, <4>1, <4>2
        <5> QED BY <4>2, <5>1
      <4>3. CASE saved # EmptyRow
        <5>1. saved = RowAt(inode, id)
          BY <2>3, <4>3
        <5>2. there = here
          BY <2>1, <4>1, <5>1
        <5> QED BY <3>2, <5>1, <5>2
      <4> QED BY <4>2, <4>3
    <3> QED BY <2>2, <3>1, <3>2
  <2> QED BY <2>4, <2>5 DEF there
<1> QED BY <1>2, <1>5, <1>7, <1>8, <1>9, <1>10, <1>11 DEF StoreInv

\* It holds of a store that has no tables yet.
LEMMA InitStoreInv == Init => StoreInv
<1> SUFFICES ASSUME Init PROVE StoreInv
  OBVIOUS
<1>1. BPP!Init
  BY SamePool DEF Init
<1>2. BPP!IInv /\ BPP!RInv
  BY <1>1, BPP!InitIInv, BPP!InitRInv, PoolConstants
<1>3. /\ operation = NoOperation /\ told = {} /\ current_page_index = [fd \in FDs |-> 0]
      /\ ~Holding /\ request = BP!NoRequest
  BY DEF Init, BP!Init, Holding
<1>4. OperationTyped /\ PageIsOperations /\ InsertedRow
  BY <1>3 DEF OperationTyped, PageIsOperations, InsertedRow, NoOperation
<1>5. \A inode \in Inodes, id \in RowIDs :
        RowAt(inode, id) = EmptyRow /\ SavedRow(inode, id) = EmptyRow
  <2>1. \A inode \in Inodes : Len(disk[inode]) = 0
    BY <1>1 DEF BPP!Init
  <2> QED BY <1>2, <2>1, RowsBefore DEF RowsArePages
<1>6. RowsSaved /\ RowsAreWhatWasInserted
  BY <1>3, <1>5 DEF RowsSaved, RowsAreWhatWasInserted
<1> QED BY <1>2, <1>4, <1>6 DEF StoreInv

\* Every step is one of those above.
LEMMA StepKinds ==
  ASSUME TableInv, Next
  PROVE  \/ QuietStep
         \/ InsertIntoSlot
         \/ InsertFails
         \/ InsertReturns
         \/ Crash
BY OutsideQuiet, CallQuiet, GetTablePageQuiet, FillFrameQuiet, GoesOnQuietly
   DEF Next, OperationStep

\* No step breaks the invariant.
LEMMA NextStoreInv ==
  ASSUME BytesFit, ~Reopens, StoreInv, [Next]_vars
  PROVE  StoreInv'
<1>1. CASE UNCHANGED vars
  <2>1. UNCHANGED poolVars /\ UNCHANGED <<operation, told, current_page_index>>
    BY <1>1 DEF vars, tableVars
  <2>2. BPP!IInv' /\ BPP!RInv'
    BY <2>1, PoolInv DEF StoreInv
  <2>3. \A inode, id : /\ RowAt(inode, id)' = RowAt(inode, id)
                       /\ SavedRow(inode, id)' = SavedRow(inode, id)
    BY <2>1 DEF RowAt, SavedRow, RowOn, BP!Content, poolVars
  <2>4. OperationTyped'
    BY <2>1 DEF StoreInv, OperationTyped, poolVars
  <2>5. PageIsOperations'
    <3>1. PageAt' = PageAt /\ Holding' = Holding
      BY <2>1 DEF PageAt, Holding, poolVars, BP!NoPage, BP!NoFrame, BP!UnusedTag
    <3> QED BY <2>1, <3>1 DEF StoreInv, PageIsOperations, poolVars
  <2>6. RowsSaved' /\ InsertedRow' /\ RowsAreWhatWasInserted'
    BY <2>1, <2>3 DEF StoreInv, RowsSaved, InsertedRow, RowsAreWhatWasInserted, poolVars
  <2> QED BY <2>2, <2>4, <2>5, <2>6 DEF StoreInv
<1>2. CASE Next
  BY <1>2, StepKinds, TableInvHolds, QuietStepInv, InsertIntoSlotInv, InsertFailsInv, InsertReturnsInv, CrashInv
<1> QED BY <1>1, <1>2

-----------------------------------------------------------------------------
(* The steps of RowStore *)

\* get_row returns the row that its id names.
LEMMA GetReturnsRow ==
  ASSUME StoreInv, GetReturns
  PROVE  /\ operation.id \in RowIDs /\ files[operation.fd].inode \in Inodes
         /\ operation.kind = "get"
         /\ answer' = [file |-> files[operation.fd].inode, id |-> operation.id,
                       row |-> RowAt(files[operation.fd].inode, operation.id)]
<1>1. /\ operation.kind = "get" /\ Holding
      /\ answer' = [file |-> files[operation.fd].inode, id |-> operation.id,
                    row |-> get_row(Page, operation.id[2])]
  BY DEF GetReturns
<1>2. PICK id \in RowIDs : id = operation.id
  BY <1>1, OperationKinds DEF StoreInv
<1>3. PICK inode \in Inodes : inode = files[operation.fd].inode
  BY <1>1, HeldPageIs
<1>4. PageAt = id[1]
  BY <1>1, <1>2 DEF PageAt
<1>5. id[1] < Len(disk[inode]) /\ Page = BPP!Content(inode, id[1] + 1)
  BY <1>1, <1>3, <1>4, HeldPageIs
<1>6. RowAt(inode, id) = get_row(Page, id[2])
  BY <1>5, RowsBefore DEF StoreInv, RowsArePages
<1> QED BY <1>1, <1>2, <1>3, <1>6

\* The variables of RowStore.
rows == [inode \in Inodes |-> [id \in RowIDs |-> RowAt(inode, id)]]
saved == [inode \in Inodes |-> {id \in RowIDs : SavedRow(inode, id) # EmptyRow}]

\* Where rows are kept, more of them may be saved.
LEMMA KeptRowsAreSaved ==
  ASSUME StoreInv, RowsKept
  PROVE  rows' = rows /\ RS!Saves(saved, saved', rows)
<1>1. rows' = rows
  BY DEF rows, RowsKept
<1>2. ASSUME NEW inode \in Inodes, NEW id \in RowIDs
      PROVE  /\ SavedRow(inode, id) # EmptyRow => SavedRow(inode, id)' # EmptyRow
             /\ SavedRow(inode, id)' # EmptyRow => RowAt(inode, id) # EmptyRow
  BY DEF StoreInv, RowsSaved, RowsKept
<1> QED BY <1>1, <1>2 DEF RS!Saves, rows, saved

\* Every step of the store is a step of RowStore or none.
LEMMA StoreStepRefines ==
  ASSUME BytesFit, ~Reopens, StoreInv, [Next]_vars
  PROVE  [RS!Next]_(RS!vars)
<1>a. ASSUME RowsKept, answer' \in {answer, NoAnswer}, crashes' = crashes
      PROVE  [RS!Next]_(RS!vars)
  <2>1. rows' = rows /\ RS!Saves(saved, saved', rows)
    BY <1>a, KeptRowsAreSaved
  <2>2. RS!Save
    BY <1>a, <2>1 DEF RS!Save, rows, saved
  <2> QED BY <2>2 DEF RS!Next
<1>1. CASE GetReturns
  <2>1. RowsKept /\ disk' = disk /\ crashes' = crashes
    <3>1. QuietStep
      BY <1>1, GoesOnQuietly, TableInvHolds
    <3>2. RowsKept
      BY <3>1, QuietStepInv
    <3> QED BY <1>1, <3>2, TableReleases DEF GetReturns, StoreInv, outsideVars
  <2>2. rows' = rows
    BY <2>1, KeptRowsAreSaved
  <2>3. saved' = saved
    BY <2>1 DEF saved, SavedRow, RowOn
  <2>4. PICK inode \in Inodes, id \in RowIDs :
          answer' = [file |-> inode, id |-> id, row |-> RowAt(inode, id)]
    BY <1>1, GetReturnsRow
  <2>5. RowAt(inode, id) = rows[inode][id]
    BY DEF rows
  <2>6. RS!Get
    BY <2>1, <2>2, <2>3, <2>4, <2>5 DEF RS!Get, rows, saved
  <2> QED BY <2>6 DEF RS!Next
<1>2. CASE InsertIntoSlot
  <2>1. PICK inode \in Inodes, id \in RowIDs :
          /\ RowAt(inode, id) = EmptyRow
          /\ RowAt(inode, id)' = operation.row
          /\ \A i \in Inodes, d \in RowIDs : ~(i = inode /\ d = id) => RowAt(i, d)' = RowAt(i, d)
          /\ \A i \in Inodes, d \in RowIDs : SavedRow(i, d)' = SavedRow(i, d)
          /\ operation.kind = "insert"
    BY <1>2, SlotIsInserted
  <2>2. PICK row \in Rows : row = operation.row
    BY <2>1, OperationKinds DEF StoreInv
  <2>3. rows' = [rows EXCEPT ![inode][id] = row] /\ rows[inode][id] = EmptyRow
    BY <2>1, <2>2 DEF rows
  <2>4. saved' = saved
    BY <2>1 DEF saved
  <2>5. UNCHANGED <<answer, crashes>>
    BY <1>2 DEF InsertIntoSlot, outsideVars
  <2>6. RS!Insert
    <3>1. \E file \in Inodes, d \in RowIDs, r \in Rows :
            rows[file][d] = EmptyRow /\ rows' = [rows EXCEPT ![file][d] = r]
      BY <2>3
    <3> QED BY <2>4, <2>5, <3>1 DEF RS!Insert, rows, saved
  <2> QED BY <2>6 DEF RS!Next
<1>3. CASE Crash
  <2>1. \A inode \in Inodes, id \in RowIDs :
          /\ RowAt(inode, id)' = SavedRow(inode, id)
          /\ SavedRow(inode, id)' = SavedRow(inode, id)
          /\ SavedRow(inode, id) \in {EmptyRow, RowAt(inode, id)}
    BY <1>3, CrashInv DEF StoreInv, RowsSaved
  <2>2. saved' = saved
    BY <2>1 DEF saved
  <2>3. RS!Saves(saved, saved', rows)
    BY <2>1, <2>2 DEF RS!Saves, rows, saved
  <2>4. rows' = [inode \in Inodes |-> [id \in RowIDs |->
                   IF id \in saved'[inode] THEN rows[inode][id] ELSE EmptyRow]]
    BY <2>1, <2>2 DEF rows, saved
  <2>5. RS!Crash
    BY <1>3, <2>3, <2>4 DEF RS!Crash, rows, saved, Crash
  <2> QED BY <2>5 DEF RS!Next
<1>4. CASE InsertFails \/ InsertReturns
  <2>1. RowsKept
    BY <1>4, InsertFailsInv, InsertReturnsInv
  <2>2. answer' = answer /\ crashes' = crashes
    BY <1>4 DEF InsertFails, InsertReturns, tableVars, outsideVars
  <2> QED BY <1>a, <2>1, <2>2
<1>5. CASE QuietStep /\ Next /\ ~GetReturns /\ ~InsertIntoSlot /\ ~Crash
  <2>1. RowsKept
    BY <1>5, QuietStepInv
  <2>2. answer' \in {answer, NoAnswer} /\ crashes' = crashes
    BY <1>5 DEF Next, OperationStep, Connect, Disconnect, Drop, Restart, InsertRow, GetRow,
                GetTablePage, FillFrame, InsertAllocates, InsertSkipsPage, InsertFails,
                InsertReturns, tableVars, outsideVars
  <2> QED BY <1>a, <2>1, <2>2
<1>6. CASE UNCHANGED vars
  BY <1>6 DEF RS!vars, vars, poolVars, tableVars, outsideVars, RowAt, SavedRow, RowOn, BP!Content
<1> QED BY <1>1, <1>2, <1>3, <1>4, <1>5, <1>6, StepKinds, TableInvHolds

-----------------------------------------------------------------------------
(* Theorems *)

\* Of any number of frames, files and pages, if the layout of the rows fits
\* their slots and no file is opened anew while frames hold it.
THEOREM Invariance == LayoutFits /\ ~Reopens => (Spec => []StoreInv)
<1> SUFFICES ASSUME LayoutFits, BytesFit, ~Reopens PROVE Spec => []StoreInv
  BY LayoutIsFit
<1>1. StoreInv /\ [Next]_vars => StoreInv'
  BY NextStoreInv
<1> QED BY <1>1, InitStoreInv, PTL DEF Spec

\* Every row is where insert_row said, and there are no others.
THEOREM RowsAreInserted == LayoutFits /\ ~Reopens => (Spec => []RowsAreWhatWasInserted)
<1>1. StoreInv => RowsAreWhatWasInserted
  BY DEF StoreInv
<1> QED BY <1>1, Invariance, PTL

\* get_row returns the row insert_row was given for the id.
THEOREM GetsAreOfInserted == LayoutFits /\ ~Reopens => (Spec => GetsWhatWasInserted)
<1> SUFFICES ASSUME LayoutFits, BytesFit, ~Reopens PROVE Spec => GetsWhatWasInserted
  BY LayoutIsFit
<1>1. ASSUME StoreInv, NEW t \in told, GetReturns,
             t.inode = files[operation.fd].inode, t.id = operation.id
      PROVE  answer'.row = t.row
  <2>1. PICK inode \in Inodes, id \in RowIDs :
          /\ inode = files[operation.fd].inode /\ id = operation.id
          /\ answer'.row = RowAt(inode, id)
    BY <1>1, GetReturnsRow
  <2>2. operation.kind # "inserted"
    BY <1>1, GetReturnsRow
  <2>3. {x.row : x \in {y \in told : y.inode = inode /\ y.id = id}} = {RowAt(inode, id)} \ {EmptyRow}
    BY <1>1, <2>2 DEF StoreInv, RowsAreWhatWasInserted
  <2> QED BY <1>1, <2>1, <2>3
<1>2. StoreInv => [\A t \in told :
                     GetReturns /\ t.inode = files[operation.fd].inode /\ t.id = operation.id
                       => answer'.row = t.row]_vars
  BY <1>1
<1> QED BY <1>2, Invariance, PTL DEF GetsWhatWasInserted

\* A table keeps rows, whatever happens to its pages: eviction and reload, new
\* pages, tables that are dropped, and crashes, which take only what is in no
\* file.
THEOREM StoreImplementsRowStore == LayoutFits /\ ~Reopens => (Spec => ImplementsRowStore)
<1> SUFFICES ASSUME LayoutFits, BytesFit, ~Reopens PROVE Spec => ImplementsRowStore
  BY LayoutIsFit
<1>1. Init => RS!Init
  <2> SUFFICES ASSUME Init PROVE RS!Init
    OBVIOUS
  <2>1. \A inode \in Inodes : Len(disk[inode]) = 0
    BY DEF Init, BP!Init
  <2>2. \A inode \in Inodes, id \in RowIDs :
          RowAt(inode, id) = EmptyRow /\ SavedRow(inode, id) = EmptyRow
    BY <2>1, InitStoreInv, RowsBefore DEF StoreInv, RowsArePages
  <2> QED BY <2>2 DEF RS!Init, Init
<1>2. StoreInv /\ [Next]_vars => [RS!Next]_(RS!vars)
  BY StoreStepRefines
<1> QED BY <1>1, <1>2, Invariance, PTL DEF Spec, ImplementsRowStore, RS!Spec
-----------------------------------------------------------------------------
(* The pages behind a table *)

\* Where a Table has been, no slot is free, and one that is not connected has
\* been nowhere.
PagesBehindFull ==
    \A fd \in FDs, id \in RowIDs :
        id[1] < current_page_index[fd]
          => fd \in connected /\ RowAt(files[fd].inode, id) # EmptyRow

\* A Table has been nowhere but in its file.
TableInFile ==
    \A fd \in FDs : current_page_index[fd] # 0
        => fd \in connected /\ current_page_index[fd] <= files[fd].size

\* A page on which find_free_slot finds none is full.
LEMMA FullPageHasRows ==
  ASSUME NEW page, FreeSlots(page) = {}, NEW index \in RowIndexes
  PROVE  get_row(page, index) # EmptyRow
<1>1. page[data_by_index(index)] # 0
  BY DEF FreeSlots
<1>2. DOMAIN schema # {}
  BY SchemaAssumption, EmptySeq
<1>3. deserialize_row(page, data_by_index(index) + 1) # EmptyRow
  <2>1. DOMAIN deserialize_row(page, data_by_index(index) + 1) = DOMAIN schema
    BY DEF deserialize_row
  <2>2. DOMAIN EmptyRow = {}
    BY DEF EmptyRow
  <2> QED BY <1>2, <2>1, <2>2
<1> QED BY <1>1, <1>3 DEF get_row

\* A table that stays connected stays with its file, and that gets no shorter.
LEMMA TablesKeepFiles ==
  ASSUME BPP!IInv, BPP!Keeps \/ (\E fd \in FDs : BPP!AllocPage(fd)) \/ UNCHANGED poolVars,
         NEW table \in FDs, table \in connected, table \in connected'
  PROVE  files'[table].inode = files[table].inode /\ files[table].size <= files'[table].size
<1>1. /\ files \in [FDs -> [inode : Inodes \union {BPP!NoInode}, size : 0..MaxPages]]
      /\ table \in BPP!Alive /\ files[table].size \in Nat
  BY PoolConstants DEF BPP!IInv, BPP!TypeOK, BPP!FilesWellFormed
<1> SUFFICES ASSUME files'[table] # files[table]
             PROVE  files'[table].inode = files[table].inode /\ files[table].size <= files'[table].size
  BY <1>1
<1>2. ASSUME NEW fd \in FDs, NEW inode \in Inodes, BPP!OpenFile(fd, inode)
      PROVE  FALSE
  BY <1>1, <1>2 DEF BPP!OpenFile
<1>3. ASSUME NEW fd \in FDs, BPP!ReleaseFile(fd)
      PROVE  FALSE
  BY <1>3 DEF BPP!ReleaseFile, BPP!FilesHeld
<1>4. CASE BPP!Replace
  BY <1>4 DEF BPP!Replace, BPP!FilesHeld
<1>5. CASE BPP!Restart
  BY <1>5 DEF BPP!Restart
<1>6. ASSUME NEW fd \in FDs, BPP!AllocPage(fd)
      PROVE  files'[table].inode = files[table].inode /\ files[table].size <= files'[table].size
  <2>1. files' = [files EXCEPT ![fd].size = @ + 1]
    BY <1>6 DEF BPP!AllocPage
  <2> QED BY <1>1, <2>1
<1>7. CASE UNCHANGED files
  BY <1>7
<1> QED
  BY <1>2, <1>3, <1>4, <1>5, <1>6, <1>7
     DEF BPP!Keeps, BPP!Search, BPP!SkipLocked, BPP!SpendUsage, BPP!ReadFails, BPP!GetCached,
         BPP!GetUncached, BPP!ReleasePage, poolVars

\* No row is lost by a quiet step, so all that matters is where the tables are.
LEMMA QuietStepsStayBehind ==
  ASSUME BytesFit, ~Reopens, StoreInv, TableInFile, PagesBehindFull, QuietStep,
         \A fd \in FDs : \/ current_page_index'[fd] = 0
                         \/ /\ current_page_index'[fd] = current_page_index[fd]
                            /\ fd \in connected => fd \in connected'
  PROVE  TableInFile' /\ PagesBehindFull'
<1>0. ASSUME NEW fd \in FDs, current_page_index'[fd] # 0
      PROVE  fd \in connected' /\ current_page_index'[fd] <= files'[fd].size
  <2>1. /\ current_page_index'[fd] = current_page_index[fd]
        /\ fd \in connected /\ fd \in connected' /\ current_page_index[fd] <= files[fd].size
    BY <1>0 DEF TableInFile
  <2>2. files[fd].size <= files'[fd].size
    BY <2>1, TablesKeepFiles DEF StoreInv, QuietStep
  <2>3. current_page_index[fd] \in Nat /\ files[fd].size \in Nat
    BY PoolConstants DEF StoreInv, OperationTyped, BPP!IInv, BPP!TypeOK
  <2>4. files'[fd].size \in Nat
    <3>1. BPP!TypeOK'
      BY QuietStepInv DEF StoreInv, BPP!IInv
    <3>2. files'[fd].size \in 0..MaxPages
      BY <3>1 DEF BPP!TypeOK
    <3> QED BY <3>2, PoolConstants
  <2> QED BY <2>1, <2>2, <2>3, <2>4
<1> SUFFICES ASSUME NEW fd \in FDs, NEW id \in RowIDs, id[1] < current_page_index'[fd]
             PROVE  fd \in connected' /\ RowAt(files[fd].inode, id)' # EmptyRow
  BY <1>0 DEF PagesBehindFull, TableInFile
<1>1. id[1] \in Nat
  BY PoolConstants DEF RowIDs
<1>2. /\ current_page_index'[fd] = current_page_index[fd]
      /\ fd \in connected => fd \in connected'
  BY <1>1
<1>3. fd \in connected /\ fd \in connected' /\ RowAt(files[fd].inode, id) # EmptyRow
  BY <1>2 DEF PagesBehindFull
<1>4. files'[fd].inode = files[fd].inode
  BY <1>3, TablesKeepFiles DEF StoreInv, QuietStep
<1>5. PICK inode \in Inodes : inode = files[fd].inode
  BY <1>3 DEF StoreInv, BPP!IInv, BPP!FilesWellFormed
<1>6. RowAt(inode, id)' = RowAt(inode, id)
  BY QuietStepInv DEF RowsKept
<1> QED BY <1>3, <1>4, <1>5, <1>6

\* insert_row leaves a page behind when it is full.
LEMMA SkippedPageIsFull ==
  ASSUME BytesFit, ~Reopens, StoreInv, TableInFile, PagesBehindFull, InsertSkipsPage
  PROVE  TableInFile' /\ PagesBehindFull'
<1>1. QuietStep /\ RowsKept
  BY GoesOnQuietly, TableInvHolds, QuietStepInv
<1>2. /\ Holding /\ FreeSlots(Page) = {} /\ operation.kind = "insert"
      /\ current_page_index' = [current_page_index EXCEPT ![operation.fd] = @ + 1]
  BY DEF InsertSkipsPage
<1>3. connected' = connected /\ files' = files
  BY TableReleases DEF InsertSkipsPage, StoreInv
<1>4. current_page_index \in [FDs -> Nat]
  BY DEF StoreInv, OperationTyped
<1>5. PICK table \in FDs : table = operation.fd /\ table \in connected
  BY <1>2, HeldPageIs
<1>6. PICK inode \in Inodes : inode = files[table].inode
  BY <1>2, <1>5, HeldPageIs
<1>7. PICK at : at = current_page_index[table]
  OBVIOUS
<1>8. at \in Nat /\ at < Len(disk[inode]) /\ Page = BPP!Content(inode, at + 1)
  BY <1>2, <1>4, <1>5, <1>6, <1>7, HeldPageIs DEF PageAt
<1>9. ASSUME NEW id \in RowIDs, id[1] = at
      PROVE  RowAt(inode, id) # EmptyRow
  <2>1. id[2] \in RowIndexes /\ RowAt(inode, id) = get_row(Page, id[2])
    BY <1>8, <1>9, RowsBefore DEF StoreInv, RowsArePages
  <2> QED BY <1>2, <2>1, FullPageHasRows
<1>10. ASSUME NEW fd \in FDs, NEW id \in RowIDs, id[1] < current_page_index'[fd]
       PROVE  fd \in connected /\ RowAt(files[fd].inode, id) # EmptyRow
  <2>1. id[1] \in Nat
    BY PoolConstants DEF RowIDs
  <2>2. CASE id[1] < current_page_index[fd]
    BY <2>2 DEF PagesBehindFull
  <2>3. CASE ~(id[1] < current_page_index[fd])
    <3>1. fd = table /\ id[1] = at
      BY <1>2, <1>4, <1>5, <1>7, <1>10, <2>1, <2>3
    <3> QED BY <1>5, <1>6, <1>9, <3>1
  <2> QED BY <2>2, <2>3
<1>11. ASSUME NEW fd \in FDs, NEW id \in RowIDs, id[1] < current_page_index'[fd]
       PROVE  fd \in connected' /\ RowAt(files[fd].inode, id)' # EmptyRow
  <2>1. fd \in connected /\ RowAt(files[fd].inode, id) # EmptyRow
    BY <1>10, <1>11
  <2>2. files[fd].inode \in Inodes
    BY <2>1 DEF StoreInv, BPP!IInv, BPP!FilesWellFormed
  <2>3. RowAt(files[fd].inode, id)' = RowAt(files[fd].inode, id)
    BY <1>1, <1>3, <2>2 DEF RowsKept
  <2> QED BY <1>3, <2>1, <2>3
<1>12. at < files[table].size
  <2>1. Len(disk[inode]) <= files[table].size
    BY <1>5, <1>6 DEF StoreInv, BPP!RInv, BPP!SizesCover, BPP!IInv, BPP!FilesWellFormed
  <2>2. Len(disk[inode]) \in Nat /\ files[table].size \in Nat
    BY BPP!DiskLength, PoolConstants DEF StoreInv, BPP!IInv, BPP!TypeOK
  <2> QED BY <1>8, <2>1, <2>2
<1>13. ASSUME NEW fd \in FDs, current_page_index'[fd] # 0
       PROVE  fd \in connected' /\ current_page_index'[fd] <= files'[fd].size
  <2>1. files[table].size \in Nat
    BY PoolConstants DEF StoreInv, BPP!IInv, BPP!TypeOK
  <2>2. CASE fd = table
    <3>1. current_page_index'[fd] = at + 1
      BY <1>2, <1>4, <1>5, <1>7, <2>2
    <3> QED BY <1>3, <1>5, <1>8, <1>12, <2>1, <2>2, <3>1
  <2>3. CASE fd # table
    <3>1. current_page_index'[fd] = current_page_index[fd]
      BY <1>2, <1>4, <1>5, <2>3
    <3> QED BY <1>3, <1>13, <3>1 DEF TableInFile
  <2> QED BY <2>2, <2>3
<1> QED BY <1>11, <1>13 DEF PagesBehindFull, TableInFile

\* No step leaves a free slot behind a table, or takes it out of its file.
LEMMA StepStaysBehind ==
  ASSUME BytesFit, ~Reopens, StoreInv, TableInFile, PagesBehindFull, [Next]_vars
  PROVE  TableInFile' /\ PagesBehindFull'
<1>0. /\ current_page_index \in [FDs -> Nat]
      /\ \A id \in RowIDs : id[1] \in Nat
      /\ \A fd \in connected : files[fd].inode \in Inodes
  BY PoolConstants DEF StoreInv, OperationTyped, RowIDs, BPP!IInv, BPP!FilesWellFormed
<1>1. ASSUME UNCHANGED <<current_page_index, files, connected>>,
             \A inode \in Inodes, id \in RowIDs :
               RowAt(inode, id) # EmptyRow => RowAt(inode, id)' # EmptyRow
      PROVE  TableInFile' /\ PagesBehindFull'
  BY <1>0, <1>1 DEF PagesBehindFull, TableInFile
<1>2. ASSUME QuietStep, current_page_index' = current_page_index, connected \subseteq connected'
      PROVE  TableInFile' /\ PagesBehindFull'
  BY <1>2, QuietStepsStayBehind
<1>3. ASSUME NEW fd \in FDs, NEW name \in Names, Connect(fd, name)
      PROVE  TableInFile' /\ PagesBehindFull'
  <2>1. connected \subseteq connected' /\ current_page_index' = current_page_index
    BY <1>3 DEF Connect, BP!OpenFile
  <2> QED BY <1>2, <1>3, <2>1, OutsideQuiet, TableInvHolds
<1>4. ASSUME NEW fd \in FDs, Disconnect(fd)
      PROVE  TableInFile' /\ PagesBehindFull'
  <2>1. /\ connected' = connected \ {fd}
        /\ current_page_index' = [current_page_index EXCEPT ![fd] = 0]
    BY <1>4 DEF Disconnect, BP!ReleaseFile
  <2>2. \A other \in FDs : \/ current_page_index'[other] = 0
                           \/ /\ current_page_index'[other] = current_page_index[other]
                              /\ other \in connected => other \in connected'
    BY <1>0, <2>1
  <2> QED BY <1>4, <2>2, OutsideQuiet, TableInvHolds, QuietStepsStayBehind
<1>5. CASE (\E name \in Names : Drop(name)) \/ Restart
  <2>1. connected' = connected /\ current_page_index' = current_page_index
    BY <1>5 DEF Drop, Restart, BP!Restart, poolVars
  <2> QED BY <1>2, <1>5, <2>1, OutsideQuiet, TableInvHolds
<1>6. ASSUME NEW fd \in FDs,
             (\E row \in Rows : InsertRow(fd, row)) \/ (\E id \in RowIDs : GetRow(fd, id))
      PROVE  TableInFile' /\ PagesBehindFull'
  <2>1. connected' = connected /\ current_page_index' = current_page_index
    BY <1>6 DEF InsertRow, GetRow, poolVars
  <2> QED BY <1>2, <1>6, <2>1, CallQuiet, TableInvHolds
<1>7. CASE GetTablePage
  <2>1. connected' = connected /\ current_page_index' = current_page_index
    BY <1>7 DEF GetTablePage, BP!GetCached, BP!GetUncached, tableVars
  <2> QED BY <1>2, <1>7, <2>1, GetTablePageQuiet, TableInvHolds
<1>8. CASE FillFrame
  <2>1. connected' = connected /\ current_page_index' = current_page_index
    BY <1>8 DEF FillFrame, BP!Search, BP!SkipLocked, BP!SpendUsage, BP!Replace, BP!ReadFails, tableVars
  <2> QED BY <1>2, <1>8, <2>1, FillFrameQuiet, TableInvHolds
<1>9. CASE InsertAllocates
  <2>1. /\ operation.kind = "insert" /\ PageAt = files[operation.fd].size
        /\ current_page_index' =
             [current_page_index EXCEPT ![operation.fd] = files[operation.fd].size]
        /\ connected' = connected
    BY <1>9 DEF InsertAllocates, BP!AllocPage
  <2>2. current_page_index[operation.fd] = files[operation.fd].size
    BY <2>1 DEF PageAt
  <2>3. current_page_index' = current_page_index
    BY <1>0, <2>1, <2>2
  <2> QED BY <1>2, <1>9, <2>1, <2>3, GoesOnQuietly, TableInvHolds
<1>10. CASE InsertIntoSlot
  <2>1. UNCHANGED <<current_page_index, files, connected>>
    BY <1>10, SlotIsInserted DEF InsertIntoSlot
  <2>2. PICK inode \in Inodes, id \in RowIDs :
          /\ operation.kind = "insert" /\ RowAt(inode, id)' = operation.row
          /\ \A i \in Inodes, d \in RowIDs : ~(i = inode /\ d = id) => RowAt(i, d)' = RowAt(i, d)
    BY <1>10, SlotIsInserted
  <2>3. operation.row # EmptyRow
    BY <2>2, OperationKinds, RowsAssumption DEF StoreInv
  <2> QED BY <1>1, <2>1, <2>2, <2>3
<1>11. CASE InsertFails
  <2>1. UNCHANGED <<current_page_index, files, connected>>
    BY <1>11 DEF InsertFails, tableVars
  <2> QED BY <1>1, <1>11, <2>1, InsertFailsInv DEF RowsKept
<1>12. CASE InsertReturns
  <2>1. UNCHANGED <<current_page_index, files, connected>>
    BY <1>12, TableReleases DEF InsertReturns, StoreInv
  <2> QED BY <1>1, <1>12, <2>1, InsertReturnsInv DEF RowsKept
<1>13. CASE InsertSkipsPage
  BY <1>13, SkippedPageIsFull
<1>14. CASE GetReturns
  <2>1. connected' = connected /\ current_page_index' = current_page_index
    BY <1>14, TableReleases DEF GetReturns, StoreInv
  <2> QED BY <1>2, <1>14, <2>1, GoesOnQuietly, TableInvHolds
<1>15. CASE Crash
  <2>1. \A fd \in FDs : current_page_index'[fd] = 0
    BY <1>15 DEF Crash
  <2> QED BY <1>0, <2>1 DEF PagesBehindFull, TableInFile
<1>16. CASE UNCHANGED vars
  <2>1. UNCHANGED <<current_page_index, files, connected, disk, frames>>
    BY <1>16 DEF vars, poolVars, tableVars
  <2>2. \A inode \in Inodes, id \in RowIDs : RowAt(inode, id)' = RowAt(inode, id)
    BY <2>1 DEF RowAt, RowOn, BP!Content
  <2> QED BY <1>1, <2>1, <2>2
<1> QED BY <1>3, <1>4, <1>5, <1>6, <1>7, <1>8, <1>9, <1>10, <1>11, <1>12, <1>13, <1>14, <1>15, <1>16
        DEF Next, OperationStep

\* A Table begins at the first page.
LEMMA InitBehind == Init => TableInFile /\ PagesBehindFull
BY PoolConstants DEF Init, PagesBehindFull, TableInFile, RowIDs

\* insert_row makes a file longer only when all of its slots are taken.
THEOREM FilesHaveNoHoles == LayoutFits /\ ~Reopens => (Spec => GrowsOnlyWhenFull)
<1> SUFFICES ASSUME LayoutFits, BytesFit, ~Reopens PROVE Spec => GrowsOnlyWhenFull
  BY LayoutIsFit
<1>1. StoreInv /\ TableInFile /\ PagesBehindFull /\ [Next]_vars => TableInFile' /\ PagesBehindFull'
  BY StepStaysBehind
<1>2. ASSUME StoreInv, PagesBehindFull, InsertAllocates,
             NEW id \in RowIDs, id[1] < files[operation.fd].size
      PROVE  RowAt(files[operation.fd].inode, id) # EmptyRow
  <2>1. operation.kind = "insert" /\ PageAt = files[operation.fd].size
    BY <1>2 DEF InsertAllocates
  <2>2. operation.fd \in FDs /\ current_page_index[operation.fd] = files[operation.fd].size
    BY <1>2, <2>1, OperationKinds DEF StoreInv, PageAt
  <2> QED BY <1>2, <2>2 DEF PagesBehindFull
<1>3. StoreInv /\ PagesBehindFull
        => [InsertAllocates =>
              \A id \in RowIDs : id[1] < files[operation.fd].size
                => RowAt(files[operation.fd].inode, id) # EmptyRow]_vars
  BY <1>2
<1> QED BY <1>1, <1>3, InitBehind, Invariance, PTL DEF Spec, GrowsOnlyWhenFull

-----------------------------------------------------------------------------
(* What is left of a call *)

\* Where an insertion is: in the file of its table, and where it holds a page,
\* on a page of the file.
LEMMA InsertionIsInFile ==
  ASSUME StoreInv, TableInFile, operation.kind = "insert"
  PROVE  /\ operation.fd \in FDs /\ operation.fd \in connected
         /\ files[operation.fd].inode \in Inodes
         /\ files[operation.fd].size \in 0..MaxPages
         /\ PageAt = current_page_index[operation.fd]
         /\ PageAt \in Nat /\ PageAt <= files[operation.fd].size
         /\ Holding => PageAt < files[operation.fd].size
         /\ Len(disk[files[operation.fd].inode]) <= files[operation.fd].size
         /\ Len(disk[files[operation.fd].inode]) \in Nat
<1>1. PICK fd \in FDs : fd = operation.fd /\ fd \in connected
  BY OperationKinds DEF StoreInv
<1>2. PICK inode \in Inodes : inode = files[fd].inode
  BY <1>1 DEF StoreInv, BPP!IInv, BPP!FilesWellFormed
<1>3. files[fd].size \in 0..MaxPages
  BY DEF StoreInv, BPP!IInv, BPP!TypeOK
<1>4. Len(disk[inode]) <= files[fd].size
  BY <1>1, <1>2 DEF StoreInv, BPP!RInv, BPP!SizesCover, BPP!IInv, BPP!FilesWellFormed
<1>5. Len(disk[inode]) \in Nat
  BY BPP!DiskLength, PoolConstants DEF StoreInv, BPP!IInv
<1>6. PageAt = current_page_index[fd] /\ PageAt \in Nat
  BY <1>1 DEF PageAt, StoreInv, OperationTyped
<1>7. PageAt <= files[fd].size
  BY <1>3, <1>6, PoolConstants DEF TableInFile
<1>8. Holding => PageAt < files[fd].size
  <2>1. Holding => PageAt < Len(disk[inode])
    BY <1>1, <1>2, HeldPageIs
  <2> QED BY <1>3, <1>4, <1>5, <1>6, <2>1, PoolConstants
<1> QED BY <1>1, <1>2, <1>3, <1>4, <1>5, <1>6, <1>7, <1>8

\* The steps left, by the kind of the operation.
LEMMA StepsLeftAre ==
  /\ StepsOnPage \in 1..3
  /\ operation.kind = "none" => StepsLeft = 0
  /\ operation.kind = "inserted" => StepsLeft = 1
  /\ operation.kind = "get" => StepsLeft = StepsOnPage
  /\ operation.kind = "insert" =>
       StepsLeft = 3 * (files[operation.fd].size - PageAt) + StepsOnPage
                     + IF RoomAhead THEN 0 ELSE 4
BY DEF StepsLeft, StepsOnPage

\* The same after a step.
LEMMA StepsLeftWillBe ==
  /\ StepsOnPage' \in 1..3
  /\ operation'.kind = "none" => StepsLeft' = 0
  /\ operation'.kind = "inserted" => StepsLeft' = 1
  /\ operation'.kind = "get" => StepsLeft' = StepsOnPage'
  /\ operation'.kind = "insert" =>
       StepsLeft' = 3 * (files'[operation'.fd].size - PageAt') + StepsOnPage'
                     + IF RoomAhead' THEN 0 ELSE 4
BY DEF StepsLeft, StepsOnPage

\* A table that lets go of its page, or asks for one, has neither or waits.
LEMMA StepsOnPageAre ==
  /\ Holding => StepsOnPage = 1
  /\ ~Holding /\ request # BPP!NoRequest => StepsOnPage = 2
  /\ ~Holding /\ request = BPP!NoRequest => StepsOnPage = 3
  /\ Holding' => StepsOnPage' = 1
  /\ ~Holding' /\ request' # BPP!NoRequest => StepsOnPage' = 2
  /\ ~Holding' /\ request' = BPP!NoRequest => StepsOnPage' = 3
BY DEF StepsOnPage, BP!NoRequest, BPP!NoRequest, BP!UnusedTag, BPP!UnusedTag

\* Room is where it was, as long as rows, files and the table stay.
LEMMA RoomStays ==
  ASSUME RowsKept, operation.kind = "insert", operation' = operation,
         PageAt' = PageAt, files'[operation.fd] = files[operation.fd],
         files[operation.fd].inode \in Inodes
  PROVE  RoomAhead' <=> RoomAhead
<1>1. PICK inode \in Inodes : inode = files[operation.fd].inode
  OBVIOUS
<1>2. \A id \in RowIDs : RowAt(inode, id)' = RowAt(inode, id)
  BY DEF RowsKept
<1>3. files'[operation'.fd].inode = inode /\ files'[operation'.fd].size = files[operation.fd].size
  BY <1>1
<1> QED BY <1>1, <1>2, <1>3 DEF RoomAhead

\* The steps left are a number.
LEMMA StepsLeftCount == StoreInv /\ TableInFile => StepsLeft \in Nat
<1> SUFFICES ASSUME StoreInv, TableInFile PROVE StepsLeft \in Nat
  OBVIOUS
<1>1. operation.kind \in {"none", "inserted", "get", "insert"}
  BY OperationKinds DEF StoreInv, NoOperation
<1>2. CASE operation.kind = "insert"
  <2>1. files[operation.fd].size \in Nat /\ PageAt \in Nat /\ PageAt <= files[operation.fd].size
    BY <1>2, InsertionIsInFile, PoolConstants
  <2> QED BY <1>2, <2>1, StepsLeftAre
<1> QED BY <1>1, <1>2, StepsLeftAre

\* So they are after a step.
LEMMA StepsLeftCountThen == StoreInv' /\ TableInFile' => (StepsLeft \in Nat)'
  BY StepsLeftCount, PTL

\* Table::get_table_page: the page is there, or waited for.
LEMMA GetTablePageCloser ==
  ASSUME BytesFit, ~Reopens, StoreInv, TableInFile, GetTablePage
  PROVE  StepsLeft' = StepsLeft - 1 \/ StepsLeft' = StepsLeft - 2
<1> DEFINE id == <<operation.fd, PageAt>>
<1>1. /\ operation # NoOperation /\ ~Holding
      /\ BPP!GetCached("table", id) \/ BPP!GetUncached("table", id)
      /\ UNCHANGED <<operation, current_page_index>>
  BY SamePool DEF GetTablePage, tableVars
<1>2. operation.kind \in {"insert", "get"}
  BY <1>1, OperationKinds DEF StoreInv, PageIsOperations
<1>3. request = BPP!NoRequest /\ files' = files
  BY <1>1 DEF BPP!GetCached, BPP!GetUncached, BPP!Idle
<1>4. Holding' \/ (~Holding' /\ request' # BPP!NoRequest)
  <2>1. CASE BPP!GetCached("table", id)
    <3>1. pages' = [pages EXCEPT !["table"] = [frame |-> buffer_table_layer[id], id |-> id]]
      BY <2>1 DEF BPP!GetCached
    <3>2. pages'["table"].frame = buffer_table_layer[id]
      BY <3>1 DEF StoreInv, BPP!IInv, BPP!TypeOK
    <3>3. buffer_table_layer[id] # BPP!NoFrame
      BY <2>1 DEF BPP!GetCached
    <3> QED BY <3>2, <3>3 DEF Holding, BP!NoPage, BP!NoFrame, BPP!NoFrame
  <2>2. CASE BPP!GetUncached("table", id)
    <3>1. pages' = pages /\ request' = [holder |-> "table", id |-> id]
      BY <2>2 DEF BPP!GetUncached
    <3> QED BY <1>1, <1>3, <3>1 DEF BPP!GetUncached, BPP!NoRequest, BPP!UnusedTag, Holding, BP!NoPage,
                                     BP!NoFrame, BP!UnusedTag
  <2> QED BY <1>1, <2>1, <2>2
<1>5. StepsOnPage = 3 /\ StepsOnPage' \in {1, 2}
  BY <1>1, <1>3, <1>4, StepsOnPageAre
<1>6. CASE operation.kind = "get"
  BY <1>1, <1>5, <1>6, StepsLeftAre, StepsLeftWillBe
<1>7. CASE operation.kind = "insert"
  <2>1. PageAt' = PageAt
    BY <1>1 DEF PageAt
  <2>2. RowsKept
    BY GetTablePageQuiet, TableInvHolds, QuietStepInv
  <2>3. RoomAhead' <=> RoomAhead
    BY <1>1, <1>3, <1>7, <2>1, <2>2, InsertionIsInFile, RoomStays
  <2>4. files[operation.fd].size \in Nat /\ PageAt \in Nat
    BY <1>7, InsertionIsInFile, PoolConstants
  <2> QED BY <1>1, <1>3, <1>5, <1>7, <2>1, <2>3, <2>4, StepsLeftAre, StepsLeftWillBe
<1> QED BY <1>2, <1>6, <1>7

\* ClockCache::put: the hand moves on, or the page is there, or cannot be read.
LEMMA FillFrameCloser ==
  ASSUME BytesFit, ~Reopens, StoreInv, TableInFile, FillFrame
  PROVE  \/ StepsLeft' = StepsLeft - 1
         \/ aborted'
         \/ StepsLeft' = StepsLeft /\ (BPP!SkipLocked \/ BPP!SpendUsage)
<1>1. BPP!Search /\ UNCHANGED <<operation, current_page_index>>
  BY SamePool DEF FillFrame, tableVars
<1>2. request # BPP!NoRequest
  BY <1>1 DEF BPP!Search, BPP!SkipLocked, BPP!SpendUsage, BPP!Replace, BPP!ReadFails,
              BPP!Found, BPP!Searching
<1>3. operation # NoOperation /\ ~Holding /\ operation.kind \in {"insert", "get"}
  BY <1>2, NobodyHolds, OperationKinds DEF StoreInv, PageIsOperations
<1>4. CASE BPP!ReadFails
  BY <1>4 DEF BPP!ReadFails
<1>5. ASSUME files'[operation.fd] = files[operation.fd], StepsOnPage \in 1..3
      PROVE  StepsLeft' = StepsLeft + StepsOnPage' - StepsOnPage
  <2>1. CASE operation.kind = "get"
    <3>1. StepsLeft = StepsOnPage
      BY <2>1, StepsLeftAre
    <3>2. StepsLeft' = StepsOnPage' /\ StepsOnPage' \in 1..3
      BY <1>1, <2>1, StepsLeftWillBe
    <3>3. \A n, m \in 1..3 : m = n + m - n
      OBVIOUS
    <3> QED BY <1>5, <3>1, <3>2, <3>3, Zenon
  <2>2. CASE operation.kind = "insert"
    <3>1. PageAt' = PageAt
      BY <1>1 DEF PageAt
    <3>2. RowsKept
      BY FillFrameQuiet, TableInvHolds, QuietStepInv
    <3>3. RoomAhead' <=> RoomAhead
      BY <1>1, <1>5, <2>2, <3>1, <3>2, InsertionIsInFile, RoomStays
    <3>4. files[operation.fd].size \in Nat /\ PageAt \in Nat
      BY <2>2, InsertionIsInFile, PoolConstants
    <3> QED BY <1>1, <1>5, <2>2, <3>1, <3>3, <3>4, StepsLeftAre, StepsLeftWillBe
  <2> QED BY <1>3, <2>1, <2>2
<1>6. StepsOnPage = 2 /\ StepsLeft \in Nat
  BY <1>2, <1>3, StepsOnPageAre, StepsLeftCount
<1>7. BP!NoPage = BPP!NoPage
  BY NobodyHolds DEF StoreInv
<1>8. CASE BPP!SkipLocked \/ BPP!SpendUsage
  <2>1. UNCHANGED <<files, pages, request>>
    BY <1>8 DEF BPP!SkipLocked, BPP!SpendUsage
  <2>2. StepsOnPage' = StepsOnPage
    BY <2>1 DEF StepsOnPage, Holding, BP!NoPage, BP!NoRequest, BP!NoFrame, BP!UnusedTag
  <2> QED BY <1>5, <1>6, <1>8, <2>1, <2>2
<1>9. CASE BPP!Replace
  <2>1. files'[operation.fd] = files[operation.fd]
    BY <1>3, <1>9, OperationKinds DEF BPP!Replace, BPP!FilesHeld, StoreInv
  <2>2. pages'["table"].frame \in BPP!Frames
    <3>1. request.holder = "table" /\ cursor \in BPP!Frames /\ "table" \in DOMAIN pages
      BY <1>2 DEF StoreInv, BPP!IInv, BPP!TypeOK
    <3>2. pages' = [pages EXCEPT ![request.holder] = [frame |-> cursor, id |-> request.id]]
      BY <1>9 DEF BPP!Replace
    <3> QED BY <3>1, <3>2
  <2>3. Holding'
    BY <1>7, <2>2, PoolConstants DEF Holding, BPP!NoPage, BPP!NoFrame, BPP!Frames
  <2>4. StepsOnPage' = 1
    BY <2>3, StepsOnPageAre
  <2> QED BY <1>5, <1>6, <2>1, <2>4
<1> QED BY <1>1, <1>4, <1>8, <1>9 DEF BPP!Search

\* insert_row makes a page, and has all of it ahead.
LEMMA InsertAllocatesCloser ==
  ASSUME BytesFit, ~Reopens, StoreInv, TableInFile, InsertAllocates
  PROVE  StepsLeft' = StepsLeft - 1
<1>1. /\ operation.kind = "insert" /\ ~Holding /\ BPP!AllocPage(operation.fd)
      /\ operation' = operation
      /\ PageAt = files[operation.fd].size
      /\ current_page_index' =
           [current_page_index EXCEPT ![operation.fd] = files[operation.fd].size]
  BY SamePool DEF InsertAllocates
<1>2. PICK fd \in FDs : fd = operation.fd
  BY <1>1, InsertionIsInFile
<1>3. PICK inode \in Inodes : inode = files[fd].inode
  BY <1>1, <1>2, InsertionIsInFile
<1>4. PICK size : size = files[fd].size
  OBVIOUS
<1>5. size \in Nat /\ size < MaxPages /\ Len(disk[inode]) \in Nat /\ Len(disk[inode]) <= size
  BY <1>1, <1>2, <1>3, <1>4, InsertionIsInFile, PoolConstants DEF BPP!AllocPage
<1>6. files'[fd].size = size + 1 /\ files'[fd].inode = inode /\ pages' = pages
  <2>1. files' = [files EXCEPT ![fd].size = @ + 1] /\ pages' = pages
    BY <1>1, <1>2 DEF BPP!AllocPage
  <2> QED BY <1>2, <1>3, <1>4, <2>1 DEF StoreInv, BPP!IInv, BPP!TypeOK
<1>7. PageAt = size /\ PageAt' = size
  <2>1. PageAt' = current_page_index'[fd]
    BY <1>1, <1>2 DEF PageAt
  <2> QED BY <1>1, <1>2, <1>4, <2>1 DEF StoreInv, OperationTyped
<1>8. StepsOnPage = 3 /\ StepsOnPage' = 3
  <2>1. request = BPP!NoRequest /\ request' = BPP!NoRequest
    BY <1>1 DEF BPP!AllocPage, BPP!Idle
  <2>2. ~Holding'
    BY <1>1, <1>6 DEF Holding, BP!NoPage, BP!NoFrame, BP!UnusedTag
  <2> QED BY <1>1, <2>1, <2>2, StepsOnPageAre
<1>9. ~RoomAhead
  <2>1. \A id \in RowIDs : id[1] \in Nat
    BY PoolConstants DEF RowIDs
  <2> QED BY <1>2, <1>4, <1>5, <1>7, <2>1 DEF RoomAhead
<1>10. RoomAhead'
  <2>1. <<size, 0>> \in RowIDs
    BY <1>5, PoolConstants, SlotsApart DEF RowIDs
  <2>2. RowAt(inode, <<size, 0>>) = EmptyRow
    BY <1>5, <2>1, RowsBefore DEF StoreInv, RowsArePages
  <2>3. RowsKept
    BY GoesOnQuietly, TableInvHolds, QuietStepInv
  <2>4. RowAt(inode, <<size, 0>>)' = EmptyRow
    BY <2>1, <2>2, <2>3 DEF RowsKept
  <2> QED BY <1>1, <1>2, <1>5, <1>6, <1>7, <2>1, <2>4 DEF RoomAhead
<1>11. StepsLeft = 7
  <2>1. StepsLeft = 3 * (files[operation.fd].size - PageAt) + 3 + 4
    BY <1>1, <1>8, <1>9, StepsLeftAre
  <2>2. files[operation.fd].size - PageAt = 0
    BY <1>2, <1>4, <1>5, <1>7
  <2> QED BY <2>1, <2>2
<1>12. StepsLeft' = 6
  <2>1. operation'.kind = "insert" /\ operation'.fd = fd
    BY <1>1, <1>2
  <2>2. StepsLeft' = 3 * (files'[fd].size - PageAt') + 3 + 0
    BY <1>8, <1>10, <2>1, StepsLeftWillBe
  <2>3. files'[fd].size - PageAt' = 1
    BY <1>5, <1>6, <1>7
  <2> QED BY <2>2, <2>3
<1> QED BY <1>11, <1>12

\* insert_row has found a page full, and has one less ahead.
LEMMA InsertSkipsPageCloser ==
  ASSUME BytesFit, ~Reopens, StoreInv, TableInFile, PagesBehindFull, InsertSkipsPage
  PROVE  StepsLeft' = StepsLeft - 1
<1>1. /\ operation.kind = "insert" /\ Holding /\ operation' = operation
      /\ current_page_index' = [current_page_index EXCEPT ![operation.fd] = @ + 1]
  BY DEF InsertSkipsPage
<1>2. ~Holding' /\ request' = BPP!NoRequest /\ files' = files
  BY TableReleases DEF InsertSkipsPage, StoreInv
<1>3. PICK fd \in FDs : fd = operation.fd
  BY <1>1, InsertionIsInFile
<1>4. PICK inode \in Inodes : inode = files[fd].inode
  BY <1>1, <1>3, InsertionIsInFile
<1>5. PageAt = current_page_index[fd] /\ PageAt \in Nat /\ files[fd].size \in Nat
  BY <1>1, <1>3, InsertionIsInFile, PoolConstants
<1>6. PageAt' = PageAt + 1 /\ current_page_index'[fd] = PageAt + 1
  <2>1. PageAt' = current_page_index'[fd]
    BY <1>1, <1>3 DEF PageAt
  <2> QED BY <1>1, <1>3, <1>5, <2>1 DEF StoreInv, OperationTyped
<1>7. StepsOnPage = 1 /\ StepsOnPage' = 3
  BY <1>1, <1>2, StepsOnPageAre
<1>8. RoomAhead' <=> RoomAhead
  <2>1. QuietStep /\ RowsKept /\ PagesBehindFull'
    BY GoesOnQuietly, TableInvHolds, QuietStepInv, SkippedPageIsFull
  <2>2. \A id \in RowIDs : RowAt(inode, id)' = RowAt(inode, id)
    BY <2>1 DEF RowsKept
  <2>3. \A id \in RowIDs : id[1] < PageAt + 1 => RowAt(inode, id)' # EmptyRow
    BY <1>2, <1>4, <1>6, <2>1 DEF PagesBehindFull
  <2>4. \A id \in RowIDs : id[1] \in Nat
    BY PoolConstants DEF RowIDs
  <2>5. \A id \in RowIDs : RowAt(inode, id) = EmptyRow => (PageAt <= id[1] <=> PageAt + 1 <= id[1])
    BY <1>5, <2>2, <2>3, <2>4
  <2> QED BY <1>1, <1>2, <1>3, <1>4, <1>6, <2>2, <2>5 DEF RoomAhead
<1>9. StepsLeft = 3 * (files[fd].size - PageAt) + 1 + IF RoomAhead THEN 0 ELSE 4
  BY <1>1, <1>3, <1>7, StepsLeftAre
<1>10. StepsLeft' = 3 * (files[fd].size - (PageAt + 1)) + 3 + IF RoomAhead THEN 0 ELSE 4
  BY <1>1, <1>2, <1>3, <1>6, <1>7, <1>8, StepsLeftWillBe
<1> QED BY <1>5, <1>9, <1>10

\* A table that waits for a page holds none, and so every frame is unlocked.
LEMMA NoFrameIsLocked ==
  ASSUME StoreInv, request # BPP!NoRequest, NEW f \in BPP!Frames
  PROVE  ~buffer_descriptors_layer[f].lock
<1>1. pages["table"] = BPP!NoPage
  BY NobodyHolds DEF StoreInv, Holding
<1>2. f # BPP!NoFrame
  BY PoolConstants DEF BPP!Frames, BPP!NoFrame
<1>3. {h \in {"table"} : pages[h].frame = f} = {}
  BY <1>1, <1>2 DEF BPP!NoPage
<1> QED BY <1>3 DEF StoreInv, BPP!IInv, BPP!HeldPagesStay

\* The hand draws nearer to every frame, by numbers.
LEMMA ClockComesCloser ==
  ASSUME StoreInv, StoreInv', BPP!SkipLocked \/ BPP!SpendUsage, NEW f \in BP!Frames
  PROVE  BP!TurnsTo(f)' \in 0..(BP!TurnsTo(f) - 1)
<1>1. f \in BPP!Frames /\ BPP!TypeOK /\ BPP!TypeOK'
  BY DEF StoreInv, BPP!IInv, BP!Frames, BPP!Frames
<1>2. ~buffer_descriptors_layer[f].lock
  BY <1>1, NoFrameIsLocked DEF BPP!SkipLocked, BPP!SpendUsage, BPP!Searching
<1>3. BPP!TurnsTo(f)' = BPP!TurnsTo(f) - 1
  BY <1>1, <1>2, BPP!StepOfHand, PoolConstants
<1>4. BPP!TurnsTo(f) \in Nat
  <2>1. buffer_descriptors_layer[f].usage \in Nat /\ FrameCount \in Nat
    BY <1>1, PoolConstants DEF BPP!TypeOK
  <2>2. FrameCount * buffer_descriptors_layer[f].usage \in Nat
    BY <2>1
  <2>3. f \in 0..(FrameCount - 1) /\ cursor \in 0..(FrameCount - 1)
    BY <1>1 DEF BPP!TypeOK, BPP!Frames
  <2> QED BY <2>1, <2>2, <2>3 DEF BPP!TurnsTo
<1>5. BPP!TurnsTo(f)' \in Nat
  <2>1. buffer_descriptors_layer'[f].usage \in Nat /\ FrameCount \in Nat
    BY <1>1, PoolConstants DEF BPP!TypeOK
  <2>2. FrameCount * buffer_descriptors_layer'[f].usage \in Nat
    BY <2>1
  <2>3. f \in 0..(FrameCount - 1) /\ cursor' \in 0..(FrameCount - 1)
    BY <1>1 DEF BPP!TypeOK, BPP!Frames
  <2> QED BY <2>1, <2>2, <2>3 DEF BPP!TurnsTo
<1>6. BP!TurnsTo(f) = BPP!TurnsTo(f) /\ BP!TurnsTo(f)' = BPP!TurnsTo(f)'
  BY DEF BP!TurnsTo, BPP!TurnsTo
<1> QED BY <1>3, <1>4, <1>5, <1>6

\* Every step of a call brings its end nearer.
LEMMA StepComesCloser ==
  ASSUME BytesFit, ~Reopens, StoreInv, TableInFile, PagesBehindFull, OperationStep,
         StoreInv', TableInFile'
  PROVE  \/ StepsLeft' \in 0..(StepsLeft - 1)
         \/ aborted'
         \/ /\ StepsLeft' = StepsLeft
            /\ \A f \in BP!Frames : BP!TurnsTo(f)' \in 0..(BP!TurnsTo(f) - 1)
<1>1. StepsLeft \in Nat
  BY StepsLeftCount
<1>2. StepsLeft' \in Nat
  BY StepsLeftCountThen
<1>3. ASSUME StepsLeft' <= StepsLeft - 1
      PROVE  StepsLeft' \in 0..(StepsLeft - 1)
  BY <1>1, <1>2, <1>3
<1>4. CASE GetTablePage
  BY <1>1, <1>3, <1>4, GetTablePageCloser
<1>5. CASE FillFrame
  BY <1>1, <1>3, <1>5, FillFrameCloser, ClockComesCloser
<1>6. CASE InsertAllocates
  BY <1>1, <1>3, <1>6, InsertAllocatesCloser
<1>7. CASE InsertIntoSlot
  <2>1. operation.kind = "insert" /\ Holding /\ operation'.kind = "inserted"
    BY <1>7 DEF InsertIntoSlot
  <2>2. /\ files[operation.fd].size \in Nat /\ PageAt \in Nat
        /\ PageAt < files[operation.fd].size
    BY <2>1, InsertionIsInFile, PoolConstants
  <2>3. StepsLeft >= 4
    BY <2>1, <2>2, StepsLeftAre
  <2>4. StepsLeft' = 1
    BY <2>1, StepsLeftWillBe
  <2> QED BY <1>1, <1>3, <2>3, <2>4
<1>8. CASE InsertFails
  BY <1>8 DEF InsertFails
<1>9. CASE InsertReturns
  <2>1. StepsLeft = 1 /\ StepsLeft' = 0
    BY <1>9, StepsLeftAre, StepsLeftWillBe DEF InsertReturns, NoOperation
  <2> QED BY <1>3, <2>1
<1>10. CASE InsertSkipsPage
  BY <1>1, <1>3, <1>10, InsertSkipsPageCloser
<1>11. CASE GetReturns
  <2>1. StepsLeft = 1 /\ StepsLeft' = 0
    BY <1>11, StepsLeftAre, StepsLeftWillBe, StepsOnPageAre DEF GetReturns, NoOperation
  <2> QED BY <1>3, <2>1
<1> QED BY <1>4, <1>5, <1>6, <1>7, <1>8, <1>9, <1>10, <1>11 DEF OperationStep

\* insert_row and get_row come to an end, however many pages, frames and rows
\* there are: the pair of StepsLeft and TurnsTo falls with every step.
THEOREM CallsDrawNearer == LayoutFits /\ ~Reopens => (Spec => CallsComeCloser)
<1> SUFFICES ASSUME LayoutFits, BytesFit, ~Reopens PROVE Spec => CallsComeCloser
  BY LayoutIsFit
<1> DEFINE Closer == \/ StepsLeft' \in 0..(StepsLeft - 1)
                     \/ aborted'
                     \/ /\ StepsLeft' = StepsLeft
                        /\ \A f \in BP!Frames : BP!TurnsTo(f)' \in 0..(BP!TurnsTo(f) - 1)
<1>1. StoreInv /\ TableInFile /\ PagesBehindFull /\ [Next]_vars
        => TableInFile' /\ PagesBehindFull'
  BY StepStaysBehind
<1>2. StoreInv /\ StoreInv' /\ TableInFile /\ TableInFile' /\ PagesBehindFull
        => [OperationStep => Closer]_vars
  BY StepComesCloser
<1> QED BY <1>1, <1>2, InitBehind, Invariance, PTL DEF Spec, CallsComeCloser

-----------------------------------------------------------------------------
(* What the program asserts *)

\* No assert of the pool fails, and none of a table.
NothingAborts == StoreInv /\ BPP!SizesOnDisk

\* A row that is of the schema passes the assert of insert_row.
LEMMA InsertDoesNotFail ==
  ASSUME BytesFit, BytesMarshal, StoreInv
  PROVE  ~InsertFails
<1> SUFFICES ASSUME InsertFails PROVE FALSE
  OBVIOUS
<1>1. Holding /\ Page \in Pages
  BY HeldPageIs DEF InsertFails
<1>2. operation.row \in Rows
  BY OperationKinds DEF StoreInv, InsertFails
<1>3. find_free_slot(Page) \in RowIndexes
  BY FreeSlotFound DEF InsertFails
<1> QED BY <1>1, <1>2, <1>3, RowReadsBack DEF InsertFails

\* No step ends the program.
LEMMA NothingAbortsStep ==
  ASSUME BytesFit, BytesMarshal, ~Reopens, ~DiskMayFill, NothingAborts, [Next]_vars
  PROVE  NothingAborts'
<1>1. StoreInv'
  BY NextStoreInv DEF NothingAborts
<1> SUFFICES BPP!SizesOnDisk'
  BY <1>1 DEF NothingAborts
<1>2. ASSUME [BPP!Next]_(BPP!vars)
      PROVE  BPP!SizesOnDisk'
  BY <1>2, BPP!SizesOnDiskStep, PoolConstants DEF NothingAborts, StoreInv
<1>3. CASE QuietStep
  BY <1>2, <1>3 DEF QuietStep, BPP!Keeps, BPP!Next, BPP!vars, poolVars
<1>4. CASE InsertIntoSlot
  <2>1. Holding /\ Page \in Pages /\ operation.row \in Rows
    BY <1>4, HeldPageIs, OperationKinds DEF InsertIntoSlot, NothingAborts, StoreInv
  <2>2. WithRow(Page, find_free_slot(Page), operation.row) \in Pages
    BY <1>4, <2>1, FreeSlotFound, RowBesideRow DEF InsertIntoSlot
  <2>3. BPP!WritePage("table", WithRow(Page, find_free_slot(Page), operation.row))
    BY <1>4, SamePool DEF InsertIntoSlot
  <2> QED BY <1>2, <2>2, <2>3 DEF BPP!Next
<1>5. CASE InsertFails
  BY <1>5, InsertDoesNotFail DEF NothingAborts
<1>6. CASE InsertReturns
  <2>1. BPP!Keeps
    BY <1>6, TableReleases DEF InsertReturns, NothingAborts, StoreInv
  <2> QED BY <1>2, <2>1 DEF BPP!Keeps, BPP!Next
<1>7. CASE Crash
  <2>1. BPP!Crash
    BY <1>7, SamePool DEF Crash
  <2>2. /\ \A fd \in FDs : files'[fd] = BPP!ClosedFile
        /\ request' = BPP!NoRequest /\ aborted' = FALSE
    BY <2>1 DEF BPP!Crash
  <2> QED BY <2>2 DEF BPP!SizesOnDisk, BPP!Alive
<1>8. CASE UNCHANGED vars
  BY <1>2, <1>8 DEF BPP!vars, vars, poolVars
<1> QED BY <1>3, <1>4, <1>5, <1>6, <1>7, <1>8, StepKinds, TableInvHolds DEF NothingAborts

\* fixed_table_page.cpp: assert(actual_row == row) holds of every row that is
\* of its schema, and File::read finds every page it is asked for, if the disk
\* does not fill.
THEOREM InsertedRowsReadBack ==
  LayoutFits /\ RowsOfSchema /\ ~Reopens /\ ~DiskMayFill => (Spec => []RowsReadBack)
<1> SUFFICES ASSUME BytesFit, BytesMarshal, ~Reopens, ~DiskMayFill
             PROVE  Spec => []RowsReadBack
  BY LayoutIsFit, SchemaMarshals
<1>1. Init => NothingAborts
  <2> SUFFICES ASSUME Init PROVE BPP!SizesOnDisk
    BY InitStoreInv DEF NothingAborts
  <2>1. BPP!Init
    BY SamePool DEF Init
  <2> QED BY <2>1 DEF BPP!Init, BPP!SizesOnDisk, BPP!Alive
<1>2. NothingAborts /\ [Next]_vars => NothingAborts'
  BY NothingAbortsStep
<1>3. NothingAborts => RowsReadBack
  BY DEF NothingAborts, BPP!SizesOnDisk, RowsReadBack
<1> QED BY <1>1, <1>2, <1>3, PTL DEF Spec

-----------------------------------------------------------------------------
(* Files opened anew *)

\* The frame of the page a table holds.
HeldFrame == pages["table"].frame

\* It is of the page the operation is at, also if the file has others of it.
LEMMA HeldFrameIs ==
  ASSUME TableInv, Holding
  PROVE  /\ operation.fd \in FDs /\ operation.fd \in connected
         /\ files[operation.fd].inode \in Inodes
         /\ HeldFrame \in BPP!Frames
         /\ PageAt \in 0..(MaxPages - 1)
         /\ frames[HeldFrame].owner = operation.fd /\ frames[HeldFrame].page_index = PageAt
         /\ frames[HeldFrame].owner # BPP!NoFile
         /\ Page = frames[HeldFrame].data /\ Page \in Pages
         /\ pages["table"].id = <<operation.fd, PageAt>>
<1>1. /\ operation # NoOperation /\ pages["table"] # BPP!NoPage
      /\ pages["table"].id = <<operation.fd, PageAt>>
  BY NobodyHolds DEF TableInv, PageIsOperations, Holding
<1>2. /\ operation.fd \in FDs /\ operation.fd \in connected
      /\ files[operation.fd].inode \in Inodes
  BY <1>1, OperationKinds DEF TableInv, BPP!IInv, BPP!FilesWellFormed
<1>3. HeldFrame \in BPP!Frames /\ pages["table"].id \in BPP!PageIDs
  BY <1>1 DEF TableInv, BPP!IInv, BPP!PagesWellFormed, HeldFrame
<1>4. buffer_table_layer[pages["table"].id] = HeldFrame
  BY <1>1 DEF TableInv, BPP!IInv, BPP!HeldPagesStay, HeldFrame
<1>5. buffer_descriptors_layer[HeldFrame].tag = pages["table"].id
  BY <1>3, <1>4 DEF TableInv, BPP!IInv, BPP!LayersAgree
<1>6. pages["table"].id # BPP!UnusedTag
  BY <1>1, <1>2, PoolConstants DEF BPP!UnusedTag
<1>7. pages["table"].id = <<frames[HeldFrame].owner, frames[HeldFrame].page_index>>
  BY <1>3, <1>5, <1>6 DEF TableInv, BPP!IInv, BPP!LayersAgree
<1>8. frames[HeldFrame].owner = operation.fd /\ frames[HeldFrame].page_index = PageAt
  BY <1>1, <1>7
<1>9. frames[HeldFrame].owner # BPP!NoFile
  BY <1>2, <1>8, PoolConstants DEF BPP!NoFile
<1>10. Page = frames[HeldFrame].data /\ Page \in Pages
  BY <1>3 DEF Page, HeldFrame, TableInv, BPP!IInv, BPP!TypeOK
<1>11. PageAt \in 0..(MaxPages - 1)
  BY <1>1, <1>3 DEF BPP!PageIDs, BPP!PageIndexes
<1> QED BY <1>1, <1>2, <1>3, <1>8, <1>9, <1>10, <1>11

\* The invariant of the tables goes through every step.
LEMMA TableInvStep ==
  ASSUME BytesFit, TableInv, [Next]_vars
  PROVE  TableInv'
<1>1. ASSUME [BPP!Next]_(BPP!vars)
      PROVE  BPP!IInv'
  BY <1>1, BPP!NextIInv, PoolConstants DEF TableInv
<1>2. CASE QuietStep
  <2>1. [BPP!Next]_(BPP!vars)
    BY <1>2 DEF QuietStep, BPP!Next, BPP!Keeps, BPP!vars, poolVars
  <2> QED BY <1>1, <1>2, <2>1 DEF QuietStep, TableInv
<1>3. CASE InsertIntoSlot
  <2>1. operation.kind = "insert" /\ Holding
    BY <1>3 DEF InsertIntoSlot
  <2>2. /\ operation.fd \in FDs /\ operation.fd \in connected
        /\ PageAt \in 0..(MaxPages - 1) /\ Page \in Pages
        /\ pages["table"].id = <<operation.fd, PageAt>>
    BY <2>1, HeldFrameIs
  <2>3. operation.row \in Rows
    BY <2>1, OperationKinds DEF TableInv
  <2>4. PICK slot \in RowIndexes : slot = find_free_slot(Page)
    BY <1>3, FreeSlotFound DEF InsertIntoSlot
  <2>5. PICK written \in Pages : written = WithRow(Page, slot, operation.row)
    BY <2>2, <2>3, <2>4, RowBesideRow
  <2>6. /\ BPP!WritePage("table", written)
        /\ operation' = [kind |-> "inserted", fd |-> operation.fd,
                         row |-> operation.row, id |-> <<PageAt, slot>>]
        /\ UNCHANGED current_page_index
    BY <1>3, <2>4, <2>5, SamePool DEF InsertIntoSlot
  <2>7. BPP!IInv'
    BY <1>1, <2>6 DEF BPP!Next
  <2>8. UNCHANGED <<connected, pages, request>> /\ request = BPP!NoRequest
    BY <2>6 DEF BPP!WritePage, BPP!Idle
  <2>9. OperationTyped'
    <3>1. operation' \in [kind : {"inserted"}, fd : FDs, row : Rows, id : RowIDs]
      BY <2>2, <2>3, <2>6 DEF RowIDs
    <3> QED BY <2>2, <2>6, <2>8, <3>1 DEF OperationTyped, TableInv
  <2>10. PageIsOperations'
    <3>1. PageAt' = PageAt
      BY <2>6 DEF PageAt
    <3>2. Holding' /\ (request = BP!NoRequest)'
      BY <2>1, <2>8 DEF Holding, BP!NoPage, BP!NoFrame, BP!NoRequest, BPP!NoRequest, BP!UnusedTag,
                        BPP!UnusedTag
    <3> QED BY <2>2, <2>6, <2>8, <3>1, <3>2 DEF PageIsOperations, NoOperation
  <2> QED BY <2>7, <2>9, <2>10 DEF TableInv
<1>4. CASE InsertReturns
  <2>1. /\ operation.kind = "inserted" /\ operation' = NoOperation
        /\ BPP!Keeps /\ ~Holding' /\ request' = BPP!NoRequest /\ connected' = connected
        /\ current_page_index' = current_page_index
    BY <1>4, TableReleases DEF InsertReturns, TableInv
  <2>2. BPP!IInv'
    BY <1>1, <2>1 DEF BPP!Next, BPP!Keeps
  <2>3. OperationTyped' /\ (operation.kind # "inserted")'
    BY <2>1 DEF OperationTyped, TableInv, NoOperation
  <2> QED BY <2>1, <2>2, <2>3, LetsGoQuietly DEF TableInv
<1>5. CASE InsertFails
  <2>1. /\ UNCHANGED <<disk, files, connected, frames, buffer_table_layer,
                       buffer_descriptors_layer, cursor, pages, request>>
        /\ UNCHANGED <<operation, current_page_index>>
        /\ aborted' = TRUE
    BY <1>5 DEF InsertFails, tableVars
  <2>2. BPP!IInv'
    BY <2>1, AbortKeepsPool DEF TableInv
  <2>3. PageAt' = PageAt /\ Holding' = Holding
    BY <2>1 DEF PageAt, Holding, BP!NoPage, BP!NoFrame, BP!UnusedTag
  <2> QED BY <2>1, <2>2, <2>3 DEF TableInv, OperationTyped, PageIsOperations
<1>6. CASE Crash
  <2>1. BPP!Crash /\ operation' = NoOperation /\ current_page_index' = [fd \in FDs |-> 0]
    BY <1>6, SamePool DEF Crash
  <2>2. BPP!IInv'
    BY <2>1, BPP!CrashIInv, PoolConstants DEF TableInv
  <2>3. pages'["table"] = BPP!NoPage /\ request' = BPP!NoRequest
    BY <2>1 DEF BPP!Crash
  <2>4. ~Holding'
    BY <2>3 DEF Holding, BP!NoPage, BPP!NoPage, BP!NoFrame, BPP!NoFrame, BP!UnusedTag, BPP!UnusedTag
  <2>5. OperationTyped' /\ (operation.kind # "inserted")'
    BY <2>1 DEF OperationTyped, NoOperation
  <2> QED BY <2>2, <2>3, <2>4, <2>5, LetsGoQuietly DEF TableInv
<1>7. CASE UNCHANGED vars
  <2>1. UNCHANGED BPP!vars /\ UNCHANGED <<operation, current_page_index, connected, pages, request>>
    BY <1>7 DEF vars, poolVars, tableVars, BPP!vars
  <2>2. PageAt' = PageAt /\ Holding' = Holding
    BY <2>1 DEF PageAt, Holding, BP!NoPage, BP!NoFrame, BP!UnusedTag
  <2> QED BY <1>1, <2>1, <2>2 DEF TableInv, OperationTyped, PageIsOperations
<1> QED BY <1>2, <1>3, <1>4, <1>5, <1>6, <1>7, StepKinds


\* The rows insert_row has returned a slot for.
ToldOf(inode, page_index, index) ==
    {t.row : t \in {x \in told : x.inode = inode /\ x.id = <<page_index, index>>}}

\* The row that is in a slot of a frame, and not yet returned.
Writing(f, index) ==
    IF operation.kind = "inserted" /\ f = HeldFrame /\ operation.id[2] = index
    THEN {operation.row} ELSE {}

\* There is no row in a file that was not inserted there.
DiskOnlyTold ==
    \A inode \in Inodes : \A p \in 1..Len(disk[inode]) : \A index \in RowIndexes :
        get_row(disk[inode][p], index) \in {EmptyRow} \union ToldOf(inode, p - 1, index)

\* The same of the frames, but for the row that is being written to one.
FramesOnlyTold ==
    \A f \in BPP!Frames : \A index \in RowIndexes :
        frames[f].owner # BPP!NoFile =>
            get_row(frames[f].data, index)
              \in {EmptyRow} \union Writing(f, index)
                    \union ToldOf(files[frames[f].owner].inode, frames[f].page_index, index)

\* What is inductive of the rows, whatever files are opened.
OnlyTold == TableInv /\ DiskOnlyTold /\ FramesOnlyTold

\* It says the same as long as nothing is told.
LEMMA ToldStays ==
  ASSUME told' = told
  PROVE  \A inode, page_index, index :
           ToldOf(inode, page_index, index)' = ToldOf(inode, page_index, index)
BY DEF ToldOf

\* What the frames are of, while no row is being written.
LEMMA QuietFrames ==
  ASSUME TableInv, FramesOnlyTold, operation.kind # "inserted",
         NEW f \in BPP!Frames, frames[f].owner # BPP!NoFile
  PROVE  /\ frames[f].owner \in FDs /\ files[frames[f].owner].inode \in Inodes
         /\ frames[f].owner \in BPP!Alive
         /\ frames[f].page_index \in Nat
         /\ \A index \in RowIndexes :
              get_row(frames[f].data, index)
                \in {EmptyRow} \union ToldOf(files[frames[f].owner].inode, frames[f].page_index, index)
<1>1. \A index : Writing(f, index) = {}
  BY DEF Writing
<1>2. frames[f].owner \in BPP!Alive /\ files[frames[f].owner].inode \in Inodes
  BY DEF TableInv, BPP!IInv, BPP!DescriptorsNotReused, BPP!FilesWellFormed
<1>3. frames[f].owner \in FDs /\ frames[f].page_index \in Nat
  BY PoolConstants DEF TableInv, BPP!IInv, BPP!TypeOK, BPP!PageIndexes
<1> QED BY <1>1, <1>2, <1>3 DEF FramesOnlyTold

\* A frame that is written back brings its rows to their own slots.
LEMMA DumpedOnlyTold ==
  ASSUME TableInv, DiskOnlyTold, FramesOnlyTold, operation.kind # "inserted",
         NEW f \in BPP!Frames
  PROVE  \A inode \in Inodes :
           /\ Len(BPP!Dumped(f)[inode]) = Len(disk[inode])
           /\ \A p \in 1..Len(disk[inode]) : \A index \in RowIndexes :
                get_row(BPP!Dumped(f)[inode][p], index) \in {EmptyRow} \union ToldOf(inode, p - 1, index)
<1> SUFFICES ASSUME NEW inode \in Inodes
             PROVE  /\ Len(BPP!Dumped(f)[inode]) = Len(disk[inode])
                    /\ \A p \in 1..Len(disk[inode]) : \A index \in RowIndexes :
                         get_row(BPP!Dumped(f)[inode][p], index)
                           \in {EmptyRow} \union ToldOf(inode, p - 1, index)
  OBVIOUS
<1>1. disk \in [Inodes -> Seq(Pages)]
  BY DEF TableInv, BPP!IInv, BPP!TypeOK
<1>2. CASE frames[f].owner = BPP!NoFile
  BY <1>2 DEF BPP!Dumped, DiskOnlyTold
<1>3. CASE frames[f].owner # BPP!NoFile
  <2>1. PICK inode0 \in Inodes : inode0 = files[frames[f].owner].inode
    BY <1>3, QuietFrames
  <2>2. PICK p0 \in Nat : p0 = frames[f].page_index
    BY <1>3, QuietFrames
  <2>3. BPP!Dumped(f) = [disk EXCEPT ![inode0][p0 + 1] = frames[f].data]
    BY <1>3, <2>1, <2>2 DEF BPP!Dumped
  <2>4. CASE inode # inode0
    <3>1. BPP!Dumped(f)[inode] = disk[inode]
      BY <1>1, <2>3, <2>4
    <3> QED BY <3>1 DEF DiskOnlyTold
  <2>5. CASE inode = inode0
    <3>1. BPP!Dumped(f)[inode] = [disk[inode] EXCEPT ![p0 + 1] = frames[f].data]
      BY <1>1, <2>3, <2>5
    <3>2. disk[inode] \in Seq(Pages)
      BY <1>1
    <3>3. Len(BPP!Dumped(f)[inode]) = Len(disk[inode])
      BY <3>1, <3>2
    <3>4. ASSUME NEW p \in 1..Len(disk[inode]), NEW index \in RowIndexes
          PROVE  get_row(BPP!Dumped(f)[inode][p], index) \in {EmptyRow} \union ToldOf(inode, p - 1, index)
      <4>1. BPP!Dumped(f)[inode][p] = IF p = p0 + 1 THEN frames[f].data ELSE disk[inode][p]
        BY <3>1, <3>2
      <4>2. CASE p = p0 + 1
        <5>1. p - 1 = p0
          BY <2>2, <4>2
        <5> QED BY <1>3, <2>1, <2>2, <2>5, <4>1, <4>2, <5>1, QuietFrames
      <4>3. CASE p # p0 + 1
        BY <4>1, <4>3 DEF DiskOnlyTold
      <4> QED BY <4>2, <4>3
    <3> QED BY <3>3, <3>4
  <2> QED BY <2>4, <2>5
<1> QED BY <1>2, <1>3

\* So does every frame that is written back when the pool ends.
LEMMA AllDumpedOnlyTold ==
  ASSUME TableInv, DiskOnlyTold, FramesOnlyTold, operation.kind # "inserted",
         disk' = BPP!AllDumped, told' = told
  PROVE  DiskOnlyTold'
<1>1. disk \in [Inodes -> Seq(Pages)]
  BY DEF TableInv, BPP!IInv, BPP!TypeOK
<1> SUFFICES ASSUME NEW inode \in Inodes, NEW p \in 1..Len(disk'[inode]), NEW index \in RowIndexes
             PROVE  get_row(disk'[inode][p], index) \in {EmptyRow} \union ToldOf(inode, p - 1, index)
  BY ToldStays DEF DiskOnlyTold
<1> DEFINE holding == {f \in BPP!Frames : /\ frames[f].owner # BPP!NoFile
                                          /\ files[frames[f].owner].inode = inode
                                          /\ frames[f].page_index + 1 = p}
           last == CHOOSE f \in holding : \A g \in holding : g <= f
<1>2. Len(disk'[inode]) = Len(disk[inode])
  BY BPP!AllDumpedType, PoolConstants DEF TableInv, BPP!IInv
<1>3. p \in DOMAIN disk[inode] /\ p \in 1..Len(disk[inode])
  <2>1. disk[inode] \in Seq(Pages)
    BY <1>1
  <2> QED BY <1>2, <2>1
<1>4. disk'[inode][p] = IF holding = {} THEN disk[inode][p] ELSE frames[last].data
  BY <1>3 DEF BPP!AllDumped
<1>5. CASE holding = {}
  BY <1>3, <1>4, <1>5 DEF DiskOnlyTold
<1>6. CASE holding # {}
  <2>1. last \in holding
    <3>1. \E f \in holding : \A g \in holding : g <= f
      BY <1>6, BPP!LastFrame, PoolConstants
    <3> HIDE DEF holding
    <3> QED BY <3>1
  <2>2. /\ last \in BPP!Frames /\ frames[last].owner # BPP!NoFile
        /\ files[frames[last].owner].inode = inode
        /\ frames[last].page_index + 1 = p
    <3> HIDE DEF last
    <3> QED BY <2>1
  <2> HIDE DEF last, holding
  <2>3. frames[last].page_index \in Nat
    BY <2>2, QuietFrames
  <2>4. frames[last].page_index = p - 1
    BY <2>2, <2>3
  <2> QED BY <1>4, <1>6, <2>2, <2>4, QuietFrames
<1> QED BY <1>5, <1>6

\* A page that is made has no rows, and neither has what lies between it and
\* the former end of the file.
LEMMA ZeroRangeOnlyTold ==
  ASSUME BytesFit, TableInv, DiskOnlyTold, NEW fd \in connected, files[fd].size < MaxPages,
         disk' = BPP!ZeroRange(fd), told' = told
  PROVE  DiskOnlyTold'
<1> SUFFICES ASSUME NEW inode \in Inodes, NEW p \in 1..Len(disk'[inode]), NEW index \in RowIndexes
             PROVE  get_row(disk'[inode][p], index) \in {EmptyRow} \union ToldOf(inode, p - 1, index)
  BY ToldStays DEF DiskOnlyTold
<1>1. PICK inode0 \in Inodes : inode0 = files[fd].inode
  BY DEF TableInv, BPP!IInv, BPP!FilesWellFormed
<1>2. PICK page \in Nat : page = files[fd].size + 1
  BY PoolConstants DEF TableInv, BPP!IInv, BPP!TypeOK
<1>3. disk \in [Inodes -> Seq(Pages)]
  BY DEF TableInv, BPP!IInv, BPP!TypeOK
<1> DEFINE last == BPP!Max2(Len(disk[inode0]), page)
           zeroed == [q \in 1..last |-> IF q <= Len(disk[inode0]) /\ q # page
                                        THEN disk[inode0][q] ELSE EmptyPage]
<1>4. disk' = [disk EXCEPT ![inode0] = zeroed]
  BY <1>1, <1>2 DEF BPP!ZeroRange
<1> HIDE DEF zeroed
<1>5. CASE inode # inode0
  <2>1. disk'[inode] = disk[inode]
    BY <1>3, <1>4, <1>5
  <2> QED BY <2>1 DEF DiskOnlyTold
<1>6. CASE inode = inode0
  <2>1. disk'[inode] = zeroed
    BY <1>3, <1>4, <1>6
  <2>2. Len(zeroed) = last /\ last \in Nat
    <3>1. Len(disk[inode0]) \in Nat
      BY <1>3
    <3>2. last \in Nat
      BY <1>2, <3>1 DEF BPP!Max2
    <3> QED BY <3>2 DEF zeroed
  <2>3. p \in 1..last /\ p \in Nat
    BY <2>1, <2>2
  <2>4. zeroed[p] = IF p <= Len(disk[inode0]) /\ p # page THEN disk[inode0][p] ELSE EmptyPage
    BY <2>3 DEF zeroed
  <2>5. CASE p <= Len(disk[inode0]) /\ p # page
    <3>1. Len(disk[inode0]) \in Nat
      BY <1>3
    <3>2. p \in 1..Len(disk[inode])
      BY <1>6, <2>3, <2>5, <3>1
    <3> QED BY <1>6, <2>1, <2>4, <2>5, <3>2 DEF DiskOnlyTold
  <2>6. CASE ~(p <= Len(disk[inode0]) /\ p # page)
    BY <2>1, <2>4, <2>6, EmptyPageHasNoRows
  <2> QED BY <2>5, <2>6
<1> QED BY <1>5, <1>6


\* ~PoolPage changes a count, and nothing a frame is of.
LEMMA ReleaseKeepsData ==
  ASSUME TableInv, NEW h, BPP!ReleasePage(h)
  PROVE  /\ UNCHANGED <<disk, files>>
         /\ \A f \in BPP!Frames : /\ frames'[f].owner = frames[f].owner
                                  /\ frames'[f].page_index = frames[f].page_index
                                  /\ frames'[f].data = frames[f].data
<1>1. /\ UNCHANGED <<disk, files>>
      /\ frames' = [frames EXCEPT ![pages[h].frame].ref_count = @ - 1]
  BY DEF BPP!ReleasePage
<1>2. frames \in [BPP!Frames -> [owner : FDs \union {BPP!NoFile}, page_index : BPP!PageIndexes \union {0},
                                 data : Pages, ref_count : Nat]]
  BY DEF TableInv, BPP!IInv, BPP!TypeOK
<1> QED BY <1>1, <1>2


\* A frame that stays what it is, of a File that stays open, tells no more rows.
StaysOfItsFile(f) ==
    frames'[f].owner # BPP!NoFile =>
        /\ frames[f].owner # BPP!NoFile
        /\ files'[frames'[f].owner].inode = files[frames[f].owner].inode
        /\ frames'[f].page_index = frames[f].page_index
        /\ frames'[f].data = frames[f].data

\* So it is enough to look at the frame that is filled, if one is.
LEMMA FramesStay ==
  ASSUME TableInv, FramesOnlyTold, operation.kind # "inserted", (operation.kind # "inserted")',
         told' = told,
         \A f \in BPP!Frames :
           \/ StaysOfItsFile(f)
           \/ \A index \in RowIndexes :
                get_row(frames'[f].data, index)
                  \in {EmptyRow} \union ToldOf(files'[frames'[f].owner].inode, frames'[f].page_index, index)
  PROVE  FramesOnlyTold'
<1>1. ASSUME NEW f \in BPP!Frames, NEW index \in RowIndexes, frames'[f].owner # BPP!NoFile
      PROVE  get_row(frames'[f].data, index)
               \in {EmptyRow} \union ToldOf(files'[frames'[f].owner].inode, frames'[f].page_index, index)
  <2>1. CASE StaysOfItsFile(f)
    BY <1>1, <2>1, QuietFrames DEF StaysOfItsFile
  <2>2. CASE ~StaysOfItsFile(f)
    BY <1>1, <2>2
  <2> QED BY <2>1, <2>2
<1>2. \A inode, page_index, index : ToldOf(inode, page_index, index)' = ToldOf(inode, page_index, index)
  BY ToldStays
<1> QED BY <1>1, <1>2 DEF FramesOnlyTold

\* Where the disk and the frames are left alone, but for the counts, ...
LEMMA NothingMoves ==
  ASSUME TableInv, DiskOnlyTold, FramesOnlyTold,
         operation.kind # "inserted", (operation.kind # "inserted")',
         told' = told, disk' = disk,
         \A f \in BPP!Frames : /\ frames'[f].owner = frames[f].owner
                               /\ frames'[f].page_index = frames[f].page_index
                               /\ frames'[f].data = frames[f].data,
         \A f \in BPP!Frames : frames[f].owner # BPP!NoFile =>
             files'[frames[f].owner].inode = files[frames[f].owner].inode
  PROVE  DiskOnlyTold' /\ FramesOnlyTold'
<1>1. DiskOnlyTold'
  BY ToldStays DEF DiskOnlyTold
<1>2. \A f \in BPP!Frames : StaysOfItsFile(f)
  BY DEF StaysOfItsFile
<1> QED BY <1>1, <1>2, FramesStay

\* ... where the clock fills a frame, ...
LEMMA ReplaceOnlyTold ==
  ASSUME TableInv, DiskOnlyTold, FramesOnlyTold,
         operation.kind # "inserted", (operation.kind # "inserted")',
         told' = told, BPP!Replace
  PROVE  DiskOnlyTold' /\ FramesOnlyTold'
<1>1. PICK f \in BPP!Frames : f = cursor
  BY DEF TableInv, BPP!IInv, BPP!TypeOK
<1>2. PICK id \in BPP!PageIDs : id = request.id
  BY DEF BPP!Replace, BPP!Found, BPP!Searching, TableInv, BPP!IInv, BPP!TypeOK
<1>3. id[1] \in connected /\ files[id[1]].inode \in Inodes
  BY <1>2 DEF BPP!Replace, BPP!Found, BPP!Searching, TableInv, BPP!IInv, BPP!RequestWellFormed,
              BPP!FilesWellFormed
<1>4. PICK inode \in Inodes : inode = files[id[1]].inode
  BY <1>3
<1> DEFINE data == BPP!Dumped(f)[inode][id[2] + 1]
           filled == [owner |-> id[1], page_index |-> id[2], data |-> data, ref_count |-> 1]
<1> DEFINE read == [owner |-> id[1], page_index |-> id[2], data |-> data, ref_count |-> 0]
<1> HIDE DEF data
<1>5. /\ id[2] < Len(BPP!Dumped(f)[inode])
      /\ disk' = BPP!Dumped(f)
      /\ frames' = [frames EXCEPT ![f] = filled]
      /\ files' = BPP!FilesHeld(frames', connected)
  <2>1. /\ id[2] < Len(BPP!Dumped(f)[inode])
        /\ disk' = BPP!Dumped(f)
        /\ frames' = [frames EXCEPT ![f] = BPP!Referred(read)]
        /\ files' = BPP!FilesHeld(frames', connected)
    BY <1>1, <1>2, <1>4 DEF BPP!Replace, data
  <2>2. BPP!Referred(read) = filled
    BY DEF BPP!Referred
  <2> QED BY <2>1, <2>2
<1>6. DOMAIN frames = BPP!Frames
  BY DEF TableInv, BPP!IInv, BPP!TypeOK
<1>7. id[2] + 1 \in 1..Len(disk[inode]) /\ id[2] \in Nat /\ (id[2] + 1) - 1 = id[2]
  <2>1. Len(BPP!Dumped(f)[inode]) = Len(disk[inode])
    BY DumpedOnlyTold
  <2>2. Len(disk[inode]) \in Nat
    BY DEF TableInv, BPP!IInv, BPP!TypeOK
  <2>3. id[2] \in Nat
    BY PoolConstants DEF BPP!PageIDs, BPP!PageIndexes
  <2> QED BY <1>5, <2>1, <2>2, <2>3
<1>8. DiskOnlyTold'
  BY <1>5, DumpedOnlyTold, ToldStays DEF DiskOnlyTold
<1>9. files'[id[1]] = files[id[1]]
  <2>1. id[1] \in FDs
    BY DEF BPP!PageIDs
  <2> QED BY <1>3, <1>5, <2>1 DEF BPP!FilesHeld
<1>10. \A index \in RowIndexes :
         get_row(frames'[f].data, index)
           \in {EmptyRow} \union ToldOf(files'[frames'[f].owner].inode, frames'[f].page_index, index)
  <2>1. frames'[f].owner = id[1] /\ frames'[f].page_index = id[2] /\ frames'[f].data = data
    BY <1>5, <1>6
  <2>2. \A index \in RowIndexes : get_row(data, index) \in {EmptyRow} \union ToldOf(inode, id[2], index)
    BY <1>7, DumpedOnlyTold DEF data
  <2> QED BY <1>4, <1>9, <2>1, <2>2
<1>11. ASSUME NEW g \in BPP!Frames, g # f
       PROVE  StaysOfItsFile(g)
  <2>1. frames'[g] = frames[g]
    BY <1>5, <1>6, <1>11
  <2>2. frames[g].owner # BPP!NoFile => files'[frames[g].owner] = files[frames[g].owner]
    BY <1>5, <2>1, QuietFrames DEF BPP!FilesHeld
  <2> QED BY <2>1, <2>2 DEF StaysOfItsFile
<1> QED BY <1>8, <1>10, <1>11, FramesStay

\* ... and so in every step in which nothing is inserted or told.
LEMMA QuietOnlyTold ==
  ASSUME BytesFit, TableInv, DiskOnlyTold, FramesOnlyTold, QuietStep
  PROVE  DiskOnlyTold' /\ FramesOnlyTold'
<1>0. /\ operation.kind # "inserted" /\ (operation.kind # "inserted")' /\ told' = told
      /\ \/ BPP!Keeps
         \/ \E fd \in FDs : BPP!AllocPage(fd)
         \/ UNCHANGED poolVars
  BY DEF QuietStep
<1>1. CASE UNCHANGED <<disk, files, frames>>
  BY <1>0, <1>1, NothingMoves
<1>2. ASSUME NEW fd \in FDs, NEW inode \in Inodes, BPP!OpenFile(fd, inode)
      PROVE  DiskOnlyTold' /\ FramesOnlyTold'
  <2>1. /\ UNCHANGED <<disk, frames>> /\ fd \notin BPP!Alive
        /\ files' = [files EXCEPT ![fd] = [inode |-> inode, size |-> Len(disk[inode])]]
    BY <1>2 DEF BPP!OpenFile
  <2>2. DOMAIN files = FDs
    BY DEF TableInv, BPP!IInv, BPP!TypeOK
  <2>3. \A f \in BPP!Frames : frames[f].owner # BPP!NoFile =>
          files'[frames[f].owner] = files[frames[f].owner]
    BY <1>0, <2>1, <2>2, QuietFrames
  <2> QED BY <1>0, <2>1, <2>3, NothingMoves
<1>3. ASSUME NEW fd \in FDs, BPP!ReleaseFile(fd)
      PROVE  DiskOnlyTold' /\ FramesOnlyTold'
  <2>1. UNCHANGED <<disk, frames>> /\ files' = BPP!FilesHeld(frames, connected \ {fd})
    BY <1>3 DEF BPP!ReleaseFile
  <2>2. \A f \in BPP!Frames : frames[f].owner # BPP!NoFile =>
          files'[frames[f].owner] = files[frames[f].owner]
    BY <1>0, <2>1, QuietFrames DEF BPP!FilesHeld
  <2> QED BY <1>0, <2>1, <2>2, NothingMoves
<1>4. ASSUME NEW h, NEW id, BPP!GetCached(h, id)
      PROVE  DiskOnlyTold' /\ FramesOnlyTold'
  <2>1. /\ UNCHANGED <<disk, files>>
        /\ frames' = [frames EXCEPT ![buffer_table_layer[id]] = BPP!Referred(@)]
    BY <1>4 DEF BPP!GetCached
  <2>2. \A f \in BPP!Frames : frames'[f] = frames[f] \/ frames'[f] = BPP!Referred(frames[f])
    BY <2>1 DEF TableInv, BPP!IInv, BPP!TypeOK
  <2>3. \A f \in BPP!Frames : /\ frames'[f].owner = frames[f].owner
                              /\ frames'[f].page_index = frames[f].page_index
                              /\ frames'[f].data = frames[f].data
    <3>1. frames \in [BPP!Frames -> [owner : FDs \union {BPP!NoFile},
                                     page_index : BPP!PageIndexes \union {0},
                                     data : Pages, ref_count : Nat]]
      BY DEF TableInv, BPP!IInv, BPP!TypeOK
    <3>2. \A f \in BPP!Frames : LET referred == BPP!Referred(frames[f])
                                IN  /\ referred.owner = frames[f].owner
                                    /\ referred.page_index = frames[f].page_index
                                    /\ referred.data = frames[f].data
      BY <3>1 DEF BPP!Referred
    <3> QED BY <2>2, <3>2
  <2> QED BY <1>0, <2>1, <2>3, NothingMoves
<1>5. ASSUME NEW h, BPP!ReleasePage(h)
      PROVE  DiskOnlyTold' /\ FramesOnlyTold'
  BY <1>0, <1>5, ReleaseKeepsData, NothingMoves
<1>6. CASE BPP!Search
  <2>1. CASE BPP!Replace
    BY <1>0, <2>1, ReplaceOnlyTold
  <2>2. CASE BPP!ReadFails
    <3>1. /\ disk' = BPP!Dumped(cursor) /\ cursor \in BPP!Frames
          /\ UNCHANGED <<files, frames>>
      BY <2>2 DEF BPP!ReadFails, TableInv, BPP!IInv, BPP!TypeOK
    <3>2. DiskOnlyTold'
      BY <1>0, <3>1, DumpedOnlyTold, ToldStays DEF DiskOnlyTold
    <3>3. \A f \in BPP!Frames : StaysOfItsFile(f)
      BY <3>1 DEF StaysOfItsFile
    <3> QED BY <1>0, <3>2, <3>3, FramesStay
  <2> QED BY <1>1, <1>6, <2>1, <2>2 DEF BPP!Search, BPP!SkipLocked, BPP!SpendUsage
<1>7. CASE BPP!Restart
  <2>1. disk' = BPP!AllDumped /\ frames' = [f \in BPP!Frames |-> BPP!EmptyFrame]
    BY <1>7 DEF BPP!Restart
  <2>2. DiskOnlyTold'
    BY <1>0, <2>1, AllDumpedOnlyTold
  <2>3. \A f \in BPP!Frames : StaysOfItsFile(f)
    BY <2>1 DEF StaysOfItsFile, BPP!EmptyFrame
  <2> QED BY <1>0, <2>2, <2>3, FramesStay
<1>8. ASSUME NEW fd \in FDs, BPP!AllocPage(fd)
      PROVE  DiskOnlyTold' /\ FramesOnlyTold'
  <2>1. /\ fd \in connected /\ files[fd].size < MaxPages /\ frames' = frames
        /\ disk' = BPP!ZeroRange(fd) \/ disk' = disk
        /\ files' = [files EXCEPT ![fd].size = @ + 1]
    BY <1>8 DEF BPP!AllocPage
  <2>2. DiskOnlyTold'
    <3>1. CASE disk' = BPP!ZeroRange(fd)
      BY <1>0, <2>1, <3>1, ZeroRangeOnlyTold
    <3>2. CASE disk' = disk
      BY <1>0, <3>2, ToldStays DEF DiskOnlyTold
    <3> QED BY <2>1, <3>1, <3>2
  <2>3. \A other \in FDs : files'[other].inode = files[other].inode
    BY <2>1 DEF TableInv, BPP!IInv, BPP!TypeOK
  <2>4. \A f \in BPP!Frames : StaysOfItsFile(f)
    BY <1>0, <2>1, <2>3, QuietFrames DEF StaysOfItsFile
  <2> QED BY <1>0, <2>2, <2>4, FramesStay
<1>9. CASE UNCHANGED poolVars
  BY <1>1, <1>9 DEF poolVars
<1>10. ASSUME NEW h, NEW id, BPP!GetUncached(h, id)
       PROVE  DiskOnlyTold' /\ FramesOnlyTold'
  BY <1>1, <1>10 DEF BPP!GetUncached
<1> QED BY <1>0, <1>2, <1>3, <1>4, <1>5, <1>6, <1>7, <1>8, <1>9, <1>10 DEF BPP!Keeps


\* insert_row writes to one slot of the page it holds.
LEMMA SlotOnlyTold ==
  ASSUME BytesFit, TableInv, DiskOnlyTold, FramesOnlyTold, InsertIntoSlot
  PROVE  DiskOnlyTold' /\ FramesOnlyTold'
<1>1. operation.kind = "insert" /\ Holding
  BY DEF InsertIntoSlot
<1>2. PICK held \in BPP!Frames : held = HeldFrame
  BY <1>1, HeldFrameIs
<1>3. Page = frames[held].data /\ Page \in Pages
  BY <1>1, <1>2, HeldFrameIs
<1>4. PICK row \in Rows : row = operation.row
  BY <1>1, OperationKinds DEF TableInv
<1>5. PICK slot \in RowIndexes : slot = find_free_slot(Page)
  BY FreeSlotFound DEF InsertIntoSlot
<1>6. PICK written : written = WithRow(Page, slot, row)
  OBVIOUS
<1>7. /\ get_row(written, slot) = row
      /\ BPP!WritePage("table", written)
      /\ operation' = [kind |-> "inserted", fd |-> operation.fd, row |-> row, id |-> <<PageAt, slot>>]
      /\ told' = told
  BY <1>4, <1>5, <1>6, SamePool DEF InsertIntoSlot
<1>8. \A other \in RowIndexes : other # slot => get_row(written, other) = get_row(Page, other)
  BY <1>3, <1>6, RowBesideRow
<1>9. /\ UNCHANGED <<disk, files, pages>>
      /\ frames' = [frames EXCEPT ![held].data = written]
  BY <1>2, <1>7 DEF BPP!WritePage, HeldFrame
<1>10. frames \in [BPP!Frames -> [owner : FDs \union {BPP!NoFile}, page_index : BPP!PageIndexes \union {0},
                                  data : Pages, ref_count : Nat]]
  BY DEF TableInv, BPP!IInv, BPP!TypeOK
<1>11. DiskOnlyTold'
  BY <1>7, <1>9, ToldStays DEF DiskOnlyTold
<1>12. HeldFrame' = held /\ \A f, index : Writing(f, index)' = IF f = held /\ index = slot THEN {row} ELSE {}
  <2>1. HeldFrame' = held
    BY <1>2, <1>9 DEF HeldFrame
  <2> QED BY <1>7, <2>1 DEF Writing
<1>13. ASSUME NEW f \in BPP!Frames, NEW index \in RowIndexes, frames'[f].owner # BPP!NoFile
       PROVE  get_row(frames'[f].data, index)
                \in {EmptyRow} \union Writing(f, index)'
                      \union ToldOf(files'[frames'[f].owner].inode, frames'[f].page_index, index)
  <2>1. frames'[f].owner = frames[f].owner /\ frames'[f].page_index = frames[f].page_index
    BY <1>9, <1>10
  <2>2. get_row(frames[f].data, index)
          \in {EmptyRow} \union ToldOf(files'[frames'[f].owner].inode, frames'[f].page_index, index)
    BY <1>1, <1>9, <1>13, <2>1, QuietFrames
  <2>3. CASE f = held
    <3>1. frames'[f].data = written
      BY <1>9, <1>10, <2>3
    <3>2. CASE index = slot
      BY <1>7, <1>12, <2>3, <3>1, <3>2
    <3>3. CASE index # slot
      BY <1>3, <1>8, <2>2, <2>3, <3>1, <3>3
    <3> QED BY <3>2, <3>3
  <2>4. CASE f # held
    <3>1. frames'[f].data = frames[f].data
      BY <1>9, <1>10, <2>4
    <3> QED BY <2>2, <3>1
  <2> QED BY <2>3, <2>4
<1>14. \A inode, page_index, index : ToldOf(inode, page_index, index)' = ToldOf(inode, page_index, index)
  BY <1>7, ToldStays
<1> QED BY <1>11, <1>13, <1>14 DEF FramesOnlyTold

\* What it then tells is the row that it wrote, by the id of the slot.
LEMMA ReturnOnlyTold ==
  ASSUME TableInv, DiskOnlyTold, FramesOnlyTold, InsertReturns
  PROVE  DiskOnlyTold' /\ FramesOnlyTold'
<1>1. operation.kind = "inserted" /\ Holding /\ operation' = NoOperation
  BY DEF InsertReturns, TableInv, PageIsOperations
<1>2. PICK inode \in Inodes : inode = files[operation.fd].inode
  BY <1>1, HeldFrameIs
<1>3. PICK id \in RowIDs : id = operation.id
  BY <1>1, OperationKinds DEF TableInv
<1>4. PICK row : row = operation.row
  OBVIOUS
<1>5. told' = told \union {[inode |-> inode, id |-> id, row |-> row]}
  BY <1>2, <1>3, <1>4 DEF InsertReturns
<1>6. /\ UNCHANGED <<disk, files>>
      /\ \A f \in BPP!Frames : /\ frames'[f].owner = frames[f].owner
                               /\ frames'[f].page_index = frames[f].page_index
                               /\ frames'[f].data = frames[f].data
  <2>1. BPP!ReleasePage("table")
    BY SamePool DEF InsertReturns
  <2> QED BY <2>1, ReleaseKeepsData
<1>7. /\ frames[HeldFrame].owner = operation.fd
      /\ frames[HeldFrame].page_index = id[1] /\ id = <<id[1], id[2]>>
  BY <1>1, <1>3, HeldFrameIs DEF PageAt, RowIDs
<1>8. \A i, p, x : ToldOf(i, p, x) \subseteq ToldOf(i, p, x)'
  <2> SUFFICES ASSUME NEW i, NEW p, NEW x, NEW r \in ToldOf(i, p, x)
               PROVE  r \in ToldOf(i, p, x)'
    OBVIOUS
  <2>1. PICK t \in told : t.inode = i /\ t.id = <<p, x>> /\ t.row = r
    BY DEF ToldOf
  <2> QED BY <1>5, <2>1 DEF ToldOf
<1>9. row \in ToldOf(inode, id[1], id[2])'
  <2>1. PICK t : t = [inode |-> inode, id |-> id, row |-> row]
    OBVIOUS
  <2>2. t \in told' /\ t.inode = inode /\ t.id = <<id[1], id[2]>> /\ t.row = row
    BY <1>5, <1>7, <2>1
  <2> QED BY <2>2 DEF ToldOf
<1>10. DiskOnlyTold'
  <2> SUFFICES ASSUME NEW i \in Inodes, NEW p \in 1..Len(disk'[i]), NEW index \in RowIndexes
               PROVE  get_row(disk'[i][p], index) \in {EmptyRow} \union ToldOf(i, p - 1, index)'
    BY DEF DiskOnlyTold
  <2>1. get_row(disk[i][p], index) \in {EmptyRow} \union ToldOf(i, p - 1, index)
    BY <1>6 DEF DiskOnlyTold
  <2> QED BY <1>6, <1>8, <2>1
<1>11. ASSUME NEW f \in BPP!Frames, NEW index \in RowIndexes, frames[f].owner # BPP!NoFile,
              NEW i, i = files[frames[f].owner].inode, NEW p, p = frames[f].page_index
       PROVE  get_row(frames[f].data, index) \in {EmptyRow} \union ToldOf(i, p, index)'
  <2>1. get_row(frames[f].data, index) \in {EmptyRow} \union Writing(f, index) \union ToldOf(i, p, index)
    BY <1>11 DEF FramesOnlyTold
  <2>2. CASE f = HeldFrame /\ id[2] = index
    <3>1. Writing(f, index) = {row} /\ i = inode /\ p = id[1]
      BY <1>1, <1>2, <1>3, <1>4, <1>7, <1>11, <2>2 DEF Writing
    <3>2. row \in ToldOf(i, p, index)'
      BY <1>9, <2>2, <3>1
    <3> QED BY <1>8, <2>1, <3>1, <3>2
  <2>3. CASE ~(f = HeldFrame /\ id[2] = index)
    <3>1. Writing(f, index) = {}
      BY <1>3, <2>3 DEF Writing
    <3> QED BY <1>8, <2>1, <3>1
  <2> QED BY <2>2, <2>3
<1>12. FramesOnlyTold'
  BY <1>6, <1>11 DEF FramesOnlyTold, Writing, NoOperation
<1> QED BY <1>10, <1>12

\* A crash forgets of the rows told those that are not on the disk.
LEMMA CrashOnlyTold ==
  ASSUME TableInv, DiskOnlyTold, Crash
  PROVE  DiskOnlyTold' /\ FramesOnlyTold'
<1>1. /\ disk' = disk /\ frames' = [f \in BPP!Frames |-> BPP!EmptyFrame]
      /\ told' = {t \in told : SavedRow(t.inode, t.id)' = t.row}
  BY SamePool DEF Crash, BPP!Crash
<1>2. FramesOnlyTold'
  BY <1>1 DEF FramesOnlyTold, BPP!EmptyFrame
<1>3. DiskOnlyTold'
  <2> SUFFICES ASSUME NEW inode \in Inodes, NEW p \in 1..Len(disk[inode]), NEW index \in RowIndexes
               PROVE  get_row(disk[inode][p], index) \in {EmptyRow} \union ToldOf(inode, p - 1, index)'
    BY <1>1 DEF DiskOnlyTold
  <2>1. Len(disk[inode]) \in Nat
    BY DEF TableInv, BPP!IInv, BPP!TypeOK
  <2>2. p - 1 < Len(disk[inode]) /\ (p - 1) + 1 = p
    BY <2>1
  <2>3. SavedRow(inode, <<p - 1, index>>)' = get_row(disk[inode][p], index)
    BY <1>1, <2>2 DEF SavedRow, RowOn
  <2>4. get_row(disk[inode][p], index) \in {EmptyRow} \union ToldOf(inode, p - 1, index)
    BY DEF DiskOnlyTold
  <2>5. CASE get_row(disk[inode][p], index) \in ToldOf(inode, p - 1, index)
    <3>1. PICK t \in told : /\ t.inode = inode /\ t.id = <<p - 1, index>>
                            /\ t.row = get_row(disk[inode][p], index)
      BY <2>5 DEF ToldOf
    <3>2. t \in told'
      BY <1>1, <2>3, <3>1
    <3> QED BY <3>1, <3>2 DEF ToldOf
  <2> QED BY <2>4, <2>5
<1> QED BY <1>2, <1>3

\* No step brings a row to a slot that was not inserted there.
LEMMA OnlyToldStep ==
  ASSUME BytesFit, OnlyTold, [Next]_vars
  PROVE  OnlyTold'
<1>1. TableInv'
  BY TableInvStep DEF OnlyTold
<1>2. ASSUME UNCHANGED <<disk, files, frames, pages, operation, told>>
      PROVE  DiskOnlyTold' /\ FramesOnlyTold'
  <2>1. DiskOnlyTold'
    BY <1>2, ToldStays DEF OnlyTold, DiskOnlyTold
  <2>2. \A f, index : Writing(f, index)' = Writing(f, index)
    BY <1>2 DEF Writing, HeldFrame
  <2> QED BY <1>2, <2>1, <2>2, ToldStays DEF OnlyTold, FramesOnlyTold
<1>3. CASE InsertFails
  BY <1>1, <1>2, <1>3 DEF InsertFails, tableVars, OnlyTold
<1>4. CASE UNCHANGED vars
  BY <1>1, <1>2, <1>4 DEF vars, poolVars, tableVars, OnlyTold
<1>5. CASE Next
  BY <1>1, <1>3, <1>5, StepKinds, QuietOnlyTold, SlotOnlyTold, ReturnOnlyTold, CrashOnlyTold DEF OnlyTold
<1> QED BY <1>4, <1>5

\* There are no rows to begin with.
LEMMA InitOnlyTold == Init => OnlyTold
<1> SUFFICES ASSUME Init PROVE OnlyTold
  OBVIOUS
<1>1. TableInv
  BY InitStoreInv, TableInvHolds
<1>2. BPP!Init
  BY SamePool DEF Init
<1>3. DiskOnlyTold /\ FramesOnlyTold
  BY <1>2 DEF BPP!Init, BPP!EmptyFrame, DiskOnlyTold, FramesOnlyTold
<1> QED BY <1>1, <1>3 DEF OnlyTold

\* get_row returns no row that insert_row did not return this id for, whatever
\* happens to the file: a name that is connected twice, a File that is opened
\* anew while frames hold pages of the one before, pages these frames write over
\* newer ones, a disk that is full, and crashes.  A row may be missing there,
\* but none appears that is of another slot, page, file or dropped table.
THEOREM NoForeignRows == LayoutFits => (Spec => GetsOnlyWhatWasInserted)
<1> SUFFICES ASSUME LayoutFits
             PROVE  Spec => GetsOnlyWhatWasInserted
  OBVIOUS
<1>1. BytesFit
  BY LayoutIsFit
<1>2. Init => OnlyTold
  BY InitOnlyTold
<1>3. OnlyTold /\ [Next]_vars => OnlyTold'
  BY <1>1, OnlyToldStep
<1>4. ASSUME OnlyTold, GetReturns
      PROVE  \/ answer'.row = EmptyRow
             \/ \E t \in told : t.inode = answer'.file /\ t.id = answer'.id /\ t.row = answer'.row
  <2>1. /\ operation.kind = "get" /\ Holding
        /\ answer' = [file |-> files[operation.fd].inode, id |-> operation.id,
                      row |-> get_row(Page, operation.id[2])]
    BY <1>4 DEF GetReturns
  <2>2. PICK id \in RowIDs : id = operation.id /\ id[2] \in RowIndexes /\ id = <<id[1], id[2]>>
    BY <1>4, <2>1, OperationKinds DEF OnlyTold, TableInv, RowIDs
  <2>3. PICK f \in BPP!Frames : f = HeldFrame
    BY <1>4, <2>1, HeldFrameIs DEF OnlyTold
  <2>4. /\ frames[f].owner = operation.fd /\ frames[f].owner # BPP!NoFile
        /\ frames[f].page_index = id[1] /\ Page = frames[f].data
    BY <1>4, <2>1, <2>2, <2>3, HeldFrameIs DEF OnlyTold, PageAt
  <2>5. get_row(Page, id[2]) \in {EmptyRow} \union ToldOf(files[operation.fd].inode, id[1], id[2])
    BY <1>4, <2>1, <2>2, <2>4, QuietFrames DEF OnlyTold
  <2> QED BY <2>1, <2>2, <2>5 DEF ToldOf
<1>5. ASSUME OnlyTold, [Next]_vars
      PROVE  [GetReturns =>
                \/ answer'.row = EmptyRow
                \/ \E t \in told : t.inode = answer'.file /\ t.id = answer'.id /\ t.row = answer'.row]_vars
  BY <1>4, <1>5
<1> QED BY <1>2, <1>3, <1>5, PTL DEF Spec, GetsOnlyWhatWasInserted
=============================================================================
