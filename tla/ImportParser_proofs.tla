-------------------------- MODULE ImportParser_proofs --------------------------
(***************************************************************************)
(* Theorems of ImportParser, for every set of lines and every numbering of *)
(* words.                                                                  *)
(***************************************************************************)
EXTENDS ImportParser, FiniteSetTheorems, SequenceTheorems, TLAPS

(***************************************************************************)
(* The identifiers of a table are its positions.                           *)
(***************************************************************************)
LEMMA TableDomains ==
    /\ DOMAIN MUTATION_NAME_TO_ID = 1 .. 10
    /\ DOMAIN CROSSOVER_NAME_TO_ID = 1 .. 4
    /\ DOMAIN SELECTION_NAME_TO_ID = 1 .. 2
<1>1. DOMAIN MUTATION_NAME_TO_ID = 1 .. 10
  BY DEF MUTATION_NAME_TO_ID
<1>2. DOMAIN CROSSOVER_NAME_TO_ID = 1 .. 4
  BY DEF CROSSOVER_NAME_TO_ID
<1>3. DOMAIN SELECTION_NAME_TO_ID = 1 .. 2
  BY DEF SELECTION_NAME_TO_ID
<1> QED
  BY <1>1, <1>2, <1>3

LEMMA IdType ==
    ASSUME NEW table, DOMAIN table \subseteq Int, NEW name, Has(table, name)
    PROVE  Id(table, name) \in Int
BY ParserAssumption DEF Has, Id

(***************************************************************************)
(* The kind of a line says which fields it has.                            *)
(***************************************************************************)
LEMMA CommentType ==
    ASSUME NEW line \in Lines, line.kind = "comment"
    PROVE  line.value \in Words
<1>1. line # [kind |-> "blank"] /\ line \notin Text
  BY DEF Text
<1> QED
  BY <1>1, ParserAssumption DEF Comment

LEMMA TextType ==
    ASSUME NEW line \in Lines, line.kind = "text"
    PROVE  line \in Text
<1>1. line # [kind |-> "blank"] /\ line \notin Comment
  BY DEF Comment
<1> QED
  BY <1>1, ParserAssumption

LEMMA BenchmarkId ==
    ASSUME NEW w, ValidBenchmark(w)
    PROVE  \E b \in 1 .. 10 : Number[w] = 100 * b /\ Number[w] \div 100 = b
<1> DEFINE n == Number[w]
           b == n \div 100
<1>1. n \in 100 .. 1000 /\ n % 100 = 0
  BY DEF ValidBenchmark, IsInteger
<1> HIDE DEF n
<1>2. b \in 1 .. 10 /\ n = 100 * b
  BY <1>1
<1> HIDE DEF b
<1>3. n = 100 * b /\ n \div 100 = b
  BY <1>2 DEF b
<1> QED
  BY <1>2, <1>3 DEF n

LEMMA ParsedRowType ==
    ASSUME NEW line \in Lines, line.kind = "text", Parses(line)
    PROVE  ParsedRow(line) \in Row
<1>1. line.benchmark \in Words /\ line.fitness \in Words
  BY TextType DEF Text
<1>2. ValidBenchmark(line.benchmark)
  BY DEF Parses
<1>3. Number[line.benchmark] \div 100 \in 1 .. 10
  BY <1>2, BenchmarkId
<1>4. Number[line.fitness] \in Int
  BY <1>1, ParserAssumption DEF Parses, ValidFitness
<1>5. /\ Id(MUTATION_NAME_TO_ID, SplitModel(line.model).mutation) \in Int
      /\ Id(CROSSOVER_NAME_TO_ID, SplitModel(line.model).crossover) \in Int
      /\ Id(SELECTION_NAME_TO_ID, SplitModel(line.model).selection) \in Int
  BY TableDomains, IdType DEF Parses, ValidModel
<1> QED
  BY <1>3, <1>4, <1>5 DEF ParsedRow, Row

LEMMA RowKeyType ==
    ASSUME NEW row \in Row
    PROVE  RowKey(row) \in Int \X Int \X Int \X (1 .. 10)
BY DEF Row, RowKey

(***************************************************************************)
(* Type correctness.                                                       *)
(***************************************************************************)
LEMMA InitType == Init => TypeOK
<1> SUFFICES ASSUME Init PROVE TypeOK
  OBVIOUS
<1>1. params \in [DOMAIN METADATA_RULES -> Int \cup {Unset}]
  BY DEF Init
<1>2. rows \in Seq(Row) /\ file \in Seq(Lines) /\ errors \in Seq(Nat \ {0})
  BY DEF Init
<1> QED
  BY <1>1, <1>2 DEF Init, TypeOK

LEMMA NextType == TypeOK /\ [Next]_vars => TypeOK'
<1> SUFFICES ASSUME TypeOK, [Next]_vars PROVE TypeOK'
  OBVIOUS
<1> USE DEF TypeOK
<1>1. ASSUME NEW line \in Lines, Read(line) PROVE file' \in Seq(Lines)
  BY <1>1 DEF Read
<1>2. Len(file) + 1 \in Nat \ {0}
  OBVIOUS
<1>3. Report => errors' \in Seq(Nat \ {0})
  BY <1>2 DEF Report
<1>4. ASSUME NEW line \in Lines, Skip(line) PROVE TypeOK'
  BY <1>1, <1>4 DEF Skip
<1>5. ASSUME NEW line \in Lines, Metadata(line) PROVE TypeOK'
  <2>1. line.kind = "comment" /\ Number[line.value] # NaN
    BY <1>5 DEF Metadata, IsMetadata, validateMetadata
  <2>2. Number[line.value] \in Int
    BY <2>1, CommentType, ParserAssumption
  <2> QED
    BY <1>1, <1>5, <2>2 DEF Metadata
<1>6. ASSUME NEW line \in Lines, BadMetadata(line) PROVE TypeOK'
  BY <1>1, <1>3, <1>6 DEF BadMetadata
<1>7. ASSUME NEW line \in Lines, ReadHeader(line) PROVE TypeOK'
  BY <1>1, <1>7 DEF ReadHeader
<1>8. ASSUME NEW line \in Lines, NoHeader(line) PROVE TypeOK'
  BY <1>1, <1>3, <1>8 DEF NoHeader
<1>9. ASSUME NEW line \in Lines, ReadRow(line) PROVE TypeOK'
  <2>1. ParsedRow(line) \in Row
    BY <1>9, ParsedRowType DEF ReadRow
  <2>2. RowKey(ParsedRow(line)) \in Int \X Int \X Int \X (1 .. 10)
    BY <2>1, RowKeyType
  <2> QED
    BY <1>1, <1>9, <2>1, <2>2 DEF ReadRow
<1>10. ASSUME NEW line \in Lines, BadRow(line) PROVE TypeOK'
  BY <1>1, <1>3, <1>10 DEF BadRow
<1>11. ASSUME EndOfFile PROVE TypeOK'
  BY <1>11 DEF EndOfFile
<1>12. CASE UNCHANGED vars
  BY <1>12 DEF vars
<1> QED
  BY <1>4, <1>5, <1>6, <1>7, <1>8, <1>9, <1>10, <1>11, <1>12 DEF Next

(***************************************************************************)
(* Every reachable state has the declared types.                           *)
(***************************************************************************)
THEOREM TypeCorrect == Spec => []TypeOK
BY InitType, NextType, PTL DEF Spec

-----------------------------------------------------------------------------
(***************************************************************************)
(* The parser knows the rows it has, and has none of them twice.           *)
(***************************************************************************)
RowsInv ==
    /\ seen = {RowKey(rows[n]) : n \in DOMAIN rows}
    /\ \A m \in DOMAIN rows, n \in DOMAIN rows :
          RowKey(rows[m]) = RowKey(rows[n]) => m = n

LEMMA NextRowsInv == TypeOK /\ RowsInv /\ [Next]_vars => RowsInv'
<1> SUFFICES ASSUME TypeOK, RowsInv, [Next]_vars PROVE RowsInv'
  OBVIOUS
<1> USE DEF RowsInv
<1>1. ASSUME UNCHANGED <<rows, seen>> PROVE RowsInv'
  BY <1>1
<1>2. ASSUME NEW line \in Lines, ReadRow(line) PROVE RowsInv'
  <2> DEFINE row == ParsedRow(line)
             last == Len(rows) + 1
  <2>1. rows \in Seq(Row) /\ row \in Row
    BY <1>2, ParsedRowType DEF ReadRow, TypeOK
  <2>2. rows' = Append(rows, row) /\ seen' = seen \cup {RowKey(row)}
        /\ RowKey(row) \notin seen
    BY <1>2 DEF ReadRow
  <2> HIDE DEF row
  <2>3. /\ DOMAIN rows = 1 .. Len(rows) /\ DOMAIN rows' = 1 .. last
        /\ rows'[last] = row
        /\ \A n \in DOMAIN rows : rows'[n] = rows[n]
    BY <2>1, <2>2
  <2>4. DOMAIN rows' = DOMAIN rows \cup {last} /\ last \notin DOMAIN rows
    BY <2>1, <2>3
  <2> HIDE DEF last
  <2>5. seen' = {RowKey(rows'[n]) : n \in DOMAIN rows'}
    BY <2>2, <2>3, <2>4
  <2>6. ASSUME NEW m \in DOMAIN rows', NEW n \in DOMAIN rows',
               RowKey(rows'[m]) = RowKey(rows'[n])
        PROVE  m = n
    BY <2>2, <2>3, <2>4, <2>6
  <2> QED
    BY <2>5, <2>6
<1>3. ASSUME NEW line \in Lines,
             Skip(line) \/ Metadata(line) \/ BadMetadata(line)
               \/ ReadHeader(line) \/ NoHeader(line) \/ BadRow(line)
      PROVE  RowsInv'
  BY <1>1, <1>3 DEF Skip, Metadata, BadMetadata, ReadHeader, NoHeader, BadRow
<1>4. CASE EndOfFile
  BY <1>1, <1>4 DEF EndOfFile
<1>5. CASE UNCHANGED vars
  BY <1>1, <1>5 DEF vars
<1> QED
  BY <1>2, <1>3, <1>4, <1>5 DEF Next

(***************************************************************************)
(* seen is exactly the keys of the rows, and no two rows have the same key *)
(* (the duplicate check of parseImportFile).                               *)
(***************************************************************************)
THEOREM RowsKnown == Spec => []RowsInv
<1>1. Init => RowsInv
  BY DEF Init, RowsInv
<1> QED
  BY <1>1, NextRowsInv, TypeCorrect, PTL DEF Spec

(***************************************************************************)
(* The range of a function on 1 .. n is finite.                            *)
(***************************************************************************)
LEMMA FiniteRange ==
    ASSUME NEW n \in Nat, NEW g, DOMAIN g = 1 .. n, g = [i \in 1 .. n |-> g[i]]
    PROVE  IsFiniteSet({g[i] : i \in 1 .. n})
<1>1. g \in Surjection(1 .. n, {g[i] : i \in 1 .. n})
  BY DEF Surjection
<1> QED
  BY <1>1, FS_Interval, FS_Surjection

LEMMA FiniteGrid ==
    ASSUME rows \in Seq(Row)
    PROVE  /\ IsFiniteSet(Grid.functions) /\ IsFiniteSet(Grid.mutation)
           /\ IsFiniteSet(Grid.crossover) /\ IsFiniteSet(Grid.selection)
<1> DEFINE n == Len(rows)
<1>1. n \in Nat /\ DOMAIN rows = 1 .. n
  OBVIOUS
<1> HIDE DEF n
<1>2. IsFiniteSet(Grid.functions)
  <2> DEFINE g == [i \in 1 .. n |-> rows[i].functionId]
  <2>1. IsFiniteSet({g[i] : i \in 1 .. n})
    <3> HIDE DEF g
    <3> QED  BY <1>1, FiniteRange DEF g
  <2> QED
    BY <1>1, <2>1 DEF Grid
<1>3. IsFiniteSet(Grid.mutation)
  <2> DEFINE g == [i \in 1 .. n |-> rows[i].mutationId]
  <2>1. IsFiniteSet({g[i] : i \in 1 .. n})
    <3> HIDE DEF g
    <3> QED  BY <1>1, FiniteRange DEF g
  <2> QED
    BY <1>1, <2>1 DEF Grid
<1>4. IsFiniteSet(Grid.crossover)
  <2> DEFINE g == [i \in 1 .. n |-> rows[i].crossoverId]
  <2>1. IsFiniteSet({g[i] : i \in 1 .. n})
    <3> HIDE DEF g
    <3> QED  BY <1>1, FiniteRange DEF g
  <2> QED
    BY <1>1, <2>1 DEF Grid
<1>5. IsFiniteSet(Grid.selection)
  <2> DEFINE g == [i \in 1 .. n |-> rows[i].selectionId]
  <2>1. IsFiniteSet({g[i] : i \in 1 .. n})
    <3> HIDE DEF g
    <3> QED  BY <1>1, FiniteRange DEF g
  <2> QED
    BY <1>1, <2>1 DEF Grid
<1> QED
  BY <1>2, <1>3, <1>4, <1>5

(***************************************************************************)
(* Rows without repetition fit their grid: the map from a row to its       *)
(* position in the grid is an injection.                                   *)
(***************************************************************************)
LEMMA DistinctRowsFit == TypeOK /\ RowsInv => ImportFitsGrid
<1> SUFFICES ASSUME TypeOK, RowsInv PROVE ImportFitsGrid
  OBVIOUS
<1> DEFINE n == Len(rows)
           FM == Grid.functions \X Grid.mutation
           CS == Grid.crossover \X Grid.selection
           place == [i \in 1 .. n |-> <<<<rows[i].functionId, rows[i].mutationId>>,
                                       <<rows[i].crossoverId, rows[i].selectionId>>>>]
<1>1. rows \in Seq(Row) /\ n \in Nat /\ DOMAIN rows = 1 .. n
  BY DEF TypeOK
<1>2. /\ IsFiniteSet(FM)
      /\ Cardinality(FM) = Cardinality(Grid.functions) * Cardinality(Grid.mutation)
  BY <1>1, FiniteGrid, FS_Product
<1>3. /\ IsFiniteSet(CS)
      /\ Cardinality(CS) = Cardinality(Grid.crossover) * Cardinality(Grid.selection)
  BY <1>1, FiniteGrid, FS_Product
<1>4. /\ IsFiniteSet(FM \X CS)
      /\ Cardinality(FM \X CS) = Cardinality(FM) * Cardinality(CS)
  BY <1>2, <1>3, FS_Product
<1>5. place \in Injection(1 .. n, FM \X CS)
  <2>1. place \in [1 .. n -> FM \X CS]
    <3>1. ASSUME NEW i \in 1 .. n PROVE place[i] \in FM \X CS
      BY <1>1 DEF Grid
    <3> QED
      BY <3>1
  <2>2. ASSUME NEW i \in 1 .. n, NEW j \in 1 .. n, place[i] = place[j]
        PROVE  i = j
    <3>1. RowKey(rows[i]) = RowKey(rows[j])
      BY <2>2 DEF RowKey
    <3> QED
      BY <1>1, <3>1 DEF RowsInv
  <2> QED
    BY <2>1, <2>2 DEF Injection, IsInjective
<1>6. n <= Cardinality(FM \X CS)
  <2> HIDE DEF n, FM, CS, place
  <2>1. Cardinality(1 .. n) = n
    BY <1>1, FS_Interval
  <2>2. Cardinality(1 .. n) <= Cardinality(FM \X CS)
    BY <1>4, <1>5, FS_Injection
  <2> QED
    BY <2>1, <2>2
<1>7. /\ Cardinality(Grid.functions) \in Nat /\ Cardinality(Grid.mutation) \in Nat
      /\ Cardinality(Grid.crossover) \in Nat /\ Cardinality(Grid.selection) \in Nat
  BY <1>1, FiniteGrid, FS_CardinalityType
<1>8. ASSUME NEW f \in Nat, NEW m \in Nat, NEW c \in Nat, NEW s \in Nat
      PROVE  (f * m) * (c * s) = f * m * c * s
  OBVIOUS
<1> QED
  BY <1>2, <1>3, <1>4, <1>6, <1>7, <1>8 DEF ImportFitsGrid, totalModels, computeTotalModels

(***************************************************************************)
(* The models an import claims are at most those of its grid.              *)
(***************************************************************************)
THEOREM ImportsFit == Spec => []ImportFitsGrid
BY TypeCorrect, RowsKnown, DistinctRowsFit, PTL

-----------------------------------------------------------------------------
(***************************************************************************)
(* Appending one part, and names of three parts, as sequences.             *)
(***************************************************************************)
LEMMA OnePart ==
    ASSUME NEW S, NEW a \in Seq(S), NEW x \in S
    PROVE  /\ a \o <<x>> \in Seq(S)
           /\ Len(a \o <<x>>) = Len(a) + 1
           /\ \A i \in 1 .. Len(a) : (a \o <<x>>)[i] = a[i]
           /\ (a \o <<x>>)[Len(a) + 1] = x
<1>1. <<x>> \in Seq(S) /\ Len(<<x>>) = 1 /\ <<x>>[1] = x
  OBVIOUS
<1> QED
  BY <1>1, ConcatProperties

LEMMA ThreeParts ==
    ASSUME NEW S, NEW x \in S, NEW y \in S, NEW z \in S
    PROVE  <<x, y, z>> \in Seq(S) /\ Len(<<x, y, z>>) = 3
<1>1. <<x, y, z>> \in [1 .. 3 -> S]
  OBVIOUS
<1> QED
  BY <1>1, SeqDef

(***************************************************************************)
(* The tables name nothing twice; a mutation has three parts, the other    *)
(* names have one.                                                         *)
(***************************************************************************)
LEMMA MutationNames ==
    /\ \A i \in 1 .. 10 : \E x, y, z : MUTATION_NAME_TO_ID[i] = <<x, y, z>>
    /\ \A i \in 1 .. 10, j \in 1 .. 10 :
          MUTATION_NAME_TO_ID[i] = MUTATION_NAME_TO_ID[j] => i = j
<1>1. ASSUME NEW i \in 1 .. 10
      PROVE  \E x, y, z : MUTATION_NAME_TO_ID[i] = <<x, y, z>>
  <2>1. \/ i = 1 \/ i = 2 \/ i = 3 \/ i = 4 \/ i = 5
        \/ i = 6 \/ i = 7 \/ i = 8 \/ i = 9 \/ i = 10
    OBVIOUS
  <2> QED
    BY <2>1 DEF MUTATION_NAME_TO_ID
<1>2. ASSUME NEW i \in 1 .. 10, NEW j \in 1 .. 10,
             MUTATION_NAME_TO_ID[i] = MUTATION_NAME_TO_ID[j]
      PROVE  i = j
  BY <1>2 DEF MUTATION_NAME_TO_ID
<1> QED
  BY <1>1, <1>2

LEMMA OtherNames ==
    /\ \A i \in 1 .. 4 : \E w : CROSSOVER_NAME_TO_ID[i] = <<w>>
    /\ \A i \in 1 .. 2 : \E w : SELECTION_NAME_TO_ID[i] = <<w>>
    /\ \A i \in 1 .. 4, j \in 1 .. 4 :
          CROSSOVER_NAME_TO_ID[i] = CROSSOVER_NAME_TO_ID[j] => i = j
    /\ \A i \in 1 .. 2, j \in 1 .. 2 :
          SELECTION_NAME_TO_ID[i] = SELECTION_NAME_TO_ID[j] => i = j
<1>1. \A i \in 1 .. 4 : \E w : CROSSOVER_NAME_TO_ID[i] = <<w>>
  <2>1. \A i \in 1 .. 4 : i = 1 \/ i = 2 \/ i = 3 \/ i = 4
    OBVIOUS
  <2> QED
    BY <2>1 DEF CROSSOVER_NAME_TO_ID
<1>2. \A i \in 1 .. 2 : \E w : SELECTION_NAME_TO_ID[i] = <<w>>
  <2>1. \A i \in 1 .. 2 : i = 1 \/ i = 2
    OBVIOUS
  <2> QED
    BY <2>1 DEF SELECTION_NAME_TO_ID
<1>3. \A i \in 1 .. 4, j \in 1 .. 4 :
        CROSSOVER_NAME_TO_ID[i] = CROSSOVER_NAME_TO_ID[j] => i = j
  BY DEF CROSSOVER_NAME_TO_ID
<1>4. \A i \in 1 .. 2, j \in 1 .. 2 :
        SELECTION_NAME_TO_ID[i] = SELECTION_NAME_TO_ID[j] => i = j
  BY DEF SELECTION_NAME_TO_ID
<1> QED
  BY <1>1, <1>2, <1>3, <1>4

(***************************************************************************)
(* Reading a model from the right is the inverse of joining its names.     *)
(***************************************************************************)
LEMMA SplitOfJoin ==
    ASSUME NEW S, NEW a \in Seq(S), NEW x \in S, NEW y \in S
    PROVE  /\ Len(a \o <<x>> \o <<y>>) = Len(a) + 2
           /\ SplitModel(a \o <<x>> \o <<y>>) =
                [mutation |-> a, crossover |-> <<x>>, selection |-> <<y>>]
<1> DEFINE ax == a \o <<x>>
           parts == ax \o <<y>>
<1>1. /\ ax \in Seq(S) /\ Len(ax) = Len(a) + 1 /\ ax[Len(a) + 1] = x
      /\ \A i \in 1 .. Len(a) : ax[i] = a[i]
  BY OnePart
<1> HIDE DEF ax
<1>2. /\ parts \in Seq(S) /\ Len(parts) = Len(ax) + 1 /\ parts[Len(ax) + 1] = y
      /\ \A i \in 1 .. Len(ax) : parts[i] = ax[i]
  BY <1>1, OnePart
<1> HIDE DEF parts
<1>3. Len(parts) = Len(a) + 2 /\ parts[Len(parts)] = y /\ parts[Len(parts) - 1] = x
  BY <1>1, <1>2
<1>4. SubSeq(parts, 1, Len(parts) - 2) = a
  <2>1. Len(parts) - 2 = Len(a) /\ Len(a) \in Nat
    BY <1>3
  <2>2. /\ SubSeq(parts, 1, Len(a)) \in Seq(S)
        /\ Len(SubSeq(parts, 1, Len(a))) = Len(a)
        /\ \A i \in 1 .. Len(a) : SubSeq(parts, 1, Len(a))[i] = parts[i]
    BY <1>2, <1>3
  <2>3. \A i \in 1 .. Len(a) : parts[i] = a[i]
    BY <1>1, <1>2
  <2>4. SubSeq(parts, 1, Len(a)) = a
    BY <2>2, <2>3, SeqEqual
  <2> QED
    BY <2>1, <2>4
<1>5. parts = a \o <<x>> \o <<y>>
  BY DEF parts, ax
<1> QED
  BY <1>3, <1>4, <1>5 DEF SplitModel

LEMMA JoinOfSplit ==
    ASSUME NEW S, NEW parts \in Seq(S), Len(parts) >= 3
    PROVE  parts = SplitModel(parts).mutation \o SplitModel(parts).crossover
                        \o SplitModel(parts).selection
<1> DEFINE n == Len(parts)
           a == SubSeq(parts, 1, n - 2)
           ax == a \o <<parts[n - 1]>>
           join == ax \o <<parts[n]>>
<1>1. /\ a \in Seq(S) /\ Len(a) = n - 2
      /\ \A i \in 1 .. n - 2 : a[i] = parts[i]
  OBVIOUS
<1> HIDE DEF a
<1>2. /\ ax \in Seq(S) /\ Len(ax) = n - 1 /\ ax[n - 1] = parts[n - 1]
      /\ \A i \in 1 .. n - 2 : ax[i] = a[i]
  BY <1>1, OnePart
<1> HIDE DEF ax
<1>3. /\ join \in Seq(S) /\ Len(join) = n /\ join[n] = parts[n]
      /\ \A i \in 1 .. n - 1 : join[i] = ax[i]
  BY <1>2, OnePart
<1> HIDE DEF join
<1>4. \A i \in 1 .. n : join[i] = parts[i]
  <2> TAKE i \in 1 .. n
  <2>1. n \in Nat /\ n >= 3
    OBVIOUS
  <2> HIDE DEF n
  <2>2. i = n \/ i = n - 1 \/ i \in 1 .. n - 2
    BY <2>1
  <2>3. CASE i = n
    BY <1>3, <2>3
  <2>4. CASE i = n - 1
    <3>1. i \in 1 .. n - 1
      BY <2>1, <2>4
    <3> QED
      BY <1>2, <1>3, <2>4, <3>1
  <2>5. CASE i \in 1 .. n - 2
    <3>1. i \in 1 .. n - 1
      BY <2>1, <2>5
    <3> QED
      BY <1>1, <1>2, <1>3, <2>5, <3>1
  <2> QED
    BY <2>2, <2>3, <2>4, <2>5
<1>5. join = parts
  BY <1>3, <1>4, SeqEqual
<1> QED
  BY <1>5 DEF join, ax, a, SplitModel

(***************************************************************************)
(* A line parses exactly if it gives a result, and to that result, when no *)
(* name is inherited.                                                      *)
(***************************************************************************)
EntryKey(e) == <<e.m, e.c, e.s, e.b>>

LEMMA IdOfName ==
    ASSUME NEW table, NEW i \in DOMAIN table,
           \A j \in DOMAIN table : table[j] = table[i] => j = i
    PROVE  Has(table, table[i]) /\ Id(table, table[i]) = i
BY DEF Has, Id

LEMMA ModelOfEntry ==
    ASSUME NEW e \in Entries, NEW parts,
           parts = MUTATION_NAME_TO_ID[e.m] \o CROSSOVER_NAME_TO_ID[e.c]
                        \o SELECTION_NAME_TO_ID[e.s]
    PROVE  /\ ValidModel(parts)
           /\ Id(MUTATION_NAME_TO_ID, SplitModel(parts).mutation) = e.m
           /\ Id(CROSSOVER_NAME_TO_ID, SplitModel(parts).crossover) = e.c
           /\ Id(SELECTION_NAME_TO_ID, SplitModel(parts).selection) = e.s
<1>1. e.m \in 1 .. 10 /\ e.c \in 1 .. 4 /\ e.s \in 1 .. 2
  BY TableDomains DEF Entries
<1>2. PICK x, y, z : MUTATION_NAME_TO_ID[e.m] = <<x, y, z>>
  BY <1>1, MutationNames
<1>3. PICK v : CROSSOVER_NAME_TO_ID[e.c] = <<v>>
  BY <1>1, OtherNames
<1>4. PICK w : SELECTION_NAME_TO_ID[e.s] = <<w>>
  BY <1>1, OtherNames
<1> DEFINE S == {x, y, z, v, w}
<1>5. <<x, y, z>> \in Seq(S) /\ Len(<<x, y, z>>) = 3
  BY ThreeParts
<1>6. /\ Len(parts) = 5
      /\ SplitModel(parts) = [mutation |-> <<x, y, z>>, crossover |-> <<v>>,
                               selection |-> <<w>>]
  <2>1. v \in S /\ w \in S
    OBVIOUS
  <2>2. parts = <<x, y, z>> \o <<v>> \o <<w>>
    BY <1>2, <1>3, <1>4
  <2> HIDE DEF S
  <2>3. \A a \in Seq(S) :
          /\ Len(a \o <<v>> \o <<w>>) = Len(a) + 2
          /\ SplitModel(a \o <<v>> \o <<w>>) =
               [mutation |-> a, crossover |-> <<v>>, selection |-> <<w>>]
    BY <2>1, SplitOfJoin, Zenon
  <2>4. /\ Len(parts) = Len(<<x, y, z>>) + 2
        /\ SplitModel(parts) = [mutation |-> <<x, y, z>>, crossover |-> <<v>>,
                                 selection |-> <<w>>]
    BY <1>5, <2>2, <2>3, Zenon
  <2> QED
    BY <1>5, <2>4
<1>7. /\ SplitModel(parts).mutation = MUTATION_NAME_TO_ID[e.m]
      /\ SplitModel(parts).crossover = CROSSOVER_NAME_TO_ID[e.c]
      /\ SplitModel(parts).selection = SELECTION_NAME_TO_ID[e.s]
  BY <1>2, <1>3, <1>4, <1>6
<1>8. /\ Has(MUTATION_NAME_TO_ID, MUTATION_NAME_TO_ID[e.m])
      /\ Id(MUTATION_NAME_TO_ID, MUTATION_NAME_TO_ID[e.m]) = e.m
  BY <1>1, TableDomains, MutationNames, IdOfName
<1>9. /\ Has(CROSSOVER_NAME_TO_ID, CROSSOVER_NAME_TO_ID[e.c])
      /\ Id(CROSSOVER_NAME_TO_ID, CROSSOVER_NAME_TO_ID[e.c]) = e.c
  BY <1>1, TableDomains, OtherNames, IdOfName
<1>10. /\ Has(SELECTION_NAME_TO_ID, SELECTION_NAME_TO_ID[e.s])
       /\ Id(SELECTION_NAME_TO_ID, SELECTION_NAME_TO_ID[e.s]) = e.s
  BY <1>1, TableDomains, OtherNames, IdOfName
<1> QED
  BY <1>6, <1>7, <1>8, <1>9, <1>10 DEF ValidModel

LEMMA GivenLineParses ==
    ASSUME NEW line \in Lines, NEW e \in Entries, Gives(line, e)
    PROVE  /\ Parses(line)
           /\ ParsedRow(line) = Result(line, e)
           /\ RowKey(ParsedRow(line)) = EntryKey(e)
<1>1. /\ ValidModel(line.model)
      /\ Id(MUTATION_NAME_TO_ID, SplitModel(line.model).mutation) = e.m
      /\ Id(CROSSOVER_NAME_TO_ID, SplitModel(line.model).crossover) = e.c
      /\ Id(SELECTION_NAME_TO_ID, SplitModel(line.model).selection) = e.s
  BY ModelOfEntry DEF Gives
<1>2. e.b \in 1 .. 10 /\ Number[line.benchmark] = 100 * e.b
  BY DEF Entries, Gives
<1>3. (100 * e.b) \div 100 = e.b /\ (100 * e.b) % 100 = 0 /\ 100 * e.b \in 100 .. 1000
  BY <1>2
<1>4. ValidBenchmark(line.benchmark)
  <2>1. NaN \notin Int
    BY ParserAssumption
  <2>2. 100 * e.b \in Int
    BY <1>2
  <2> QED
    BY <1>2, <1>3, <2>1, <2>2 DEF ValidBenchmark, IsInteger
<1>5. Parses(line)
  BY <1>1, <1>4 DEF Gives, Parses, ValidFitness
<1>6. ParsedRow(line) = Result(line, e)
  BY <1>1, <1>2, <1>3 DEF ParsedRow, Result
<1>7. RowKey(ParsedRow(line)) = EntryKey(e)
  BY <1>6 DEF RowKey, Result, EntryKey
<1> QED
  BY <1>5, <1>6, <1>7

LEMMA ParsedLineGives ==
    ASSUME DOMAIN Inherited = {}, NEW line \in Lines, line.kind = "text", Parses(line)
    PROVE  \E e \in Entries :
              /\ Gives(line, e)
              /\ ParsedRow(line) = Result(line, e)
              /\ RowKey(ParsedRow(line)) = EntryKey(e)
<1> DEFINE split == SplitModel(line.model)
<1>1. ValidModel(line.model) /\ line.model \in Seq(STRING)
  BY TextType DEF Parses, Text
<1>2. PICK m \in DOMAIN MUTATION_NAME_TO_ID : MUTATION_NAME_TO_ID[m] = split.mutation
  BY <1>1 DEF ValidModel, Has
<1>3. PICK c \in DOMAIN CROSSOVER_NAME_TO_ID : CROSSOVER_NAME_TO_ID[c] = split.crossover
  BY <1>1 DEF ValidModel, Has
<1>4. PICK s \in DOMAIN SELECTION_NAME_TO_ID : SELECTION_NAME_TO_ID[s] = split.selection
  BY <1>1 DEF ValidModel, Has
<1>5. PICK b \in 1 .. 10 : Number[line.benchmark] = 100 * b
  <2>1. ValidBenchmark(line.benchmark)
    BY DEF Parses
  <2> QED
    BY <2>1, BenchmarkId
<1>6. line.model = split.mutation \o split.crossover \o split.selection
  BY <1>1, JoinOfSplit DEF ValidModel
<1> DEFINE e == [m |-> m, c |-> c, s |-> s, b |-> b]
<1>7. e \in Entries
  BY DEF Entries
<1>8. Gives(line, e)
  BY <1>2, <1>3, <1>4, <1>5, <1>6 DEF Gives, Parses, ValidFitness
<1> QED
  BY <1>7, <1>8, GivenLineParses

LEMMA EntryKeyInjective ==
    ASSUME NEW d \in Entries, NEW e \in Entries, EntryKey(d) = EntryKey(e)
    PROVE  d = e
BY DEF Entries, EntryKey

LEMMA Hundreds ==
    ASSUME NEW n \in Int, NEW lo \in Nat, NEW hi \in Nat
    PROVE  n % 100 = 0 /\ n \in 100 * lo .. 100 * hi <=> n \in {100 * i : i \in lo .. hi}
<1>1. n % 100 = 0 => n = 100 * (n \div 100)
  OBVIOUS
<1>2. \A i \in lo .. hi : (100 * i) % 100 = 0
  OBVIOUS
<1> QED
  BY <1>1, <1>2

(***************************************************************************)
(* A parameter is valid exactly if it has one of the allowed values.       *)
(***************************************************************************)
LEMMA ValidIffSets ==
    ASSUME NEW line \in Lines, IsMetadata(line)
    PROVE  validateMetadata(line.key, line.value) <=> Sets(line, line.key)
<1> DEFINE n == Number[line.value]
<1>1. line.key \in {"np", "f", "cr", "gen", "dim"}
  BY DEF IsMetadata, METADATA_RULES
<1>2. n \in Int \cup {NaN} /\ (line.value = EmptyWord => n = 0)
  BY CommentType, ParserAssumption DEF IsMetadata
<1> HIDE DEF n
<1>z. n # 0 => line.value # EmptyWord
  BY <1>2
<1>3. validateMetadata(line.key, line.value) <=>
        /\ line.value # EmptyWord /\ n # NaN
        /\ METADATA_RULES[line.key].int => n # NaN /\ n % 100 = 0
        /\ n \in METADATA_RULES[line.key].range
  BY DEF validateMetadata, IsInteger, n
<1>4. Sets(line, line.key) <=> n \in Allowed[line.key]
  BY DEF Sets, n
<1>r. /\ METADATA_RULES["np"].int  /\ METADATA_RULES["np"].range = 1000 .. 4000
      /\ ~METADATA_RULES["f"].int  /\ METADATA_RULES["f"].range = 10 .. 200
      /\ ~METADATA_RULES["cr"].int /\ METADATA_RULES["cr"].range = 1 .. 100
      /\ METADATA_RULES["gen"].int /\ METADATA_RULES["gen"].range = {i \in Int : i >= 100}
      /\ METADATA_RULES["dim"].int /\ METADATA_RULES["dim"].range = 100 .. 3000
  BY DEF METADATA_RULES
<1>a. /\ Allowed["np"]  = {100 * i : i \in 10 .. 40}
      /\ Allowed["f"]   = 10 .. 200
      /\ Allowed["cr"]  = 1 .. 100
      /\ Allowed["gen"] = {i \in Int : i >= 100 /\ i % 100 = 0}
      /\ Allowed["dim"] = {100 * i : i \in 1 .. 30}
  BY DEF Allowed
<1>n. NaN \notin Int
  BY ParserAssumption
<1>5. CASE n = NaN
  <2>1. n \notin Allowed[line.key]
    BY <1>1, <1>a, <1>5, <1>n
  <2> QED
    BY <1>3, <1>4, <1>5, <2>1
<1>6. CASE n \in Int
  <2>1. n # NaN
    BY <1>6, <1>n
  <2>2. CASE line.key = "np"
    <3>1. n % 100 = 0 /\ n \in 100 * 10 .. 100 * 40 <=> n \in {100 * i : i \in 10 .. 40}
      BY <1>6, Hundreds
    <3>2. n \in {100 * i : i \in 10 .. 40} <=> n % 100 = 0 /\ n \in 1000 .. 4000
      BY <3>1
    <3>3. n \in 1000 .. 4000 => n # 0
      OBVIOUS
    <3> QED
      BY <1>3, <1>4, <1>r, <1>a, <2>1, <2>2, <3>2, <3>3, <1>z
  <2>3. CASE line.key = "f"
    BY <1>2, <1>3, <1>4, <1>r, <1>a, <2>1, <2>3
  <2>4. CASE line.key = "cr"
    BY <1>2, <1>3, <1>4, <1>r, <1>a, <2>1, <2>4
  <2>5. CASE line.key = "gen"
    BY <1>2, <1>3, <1>4, <1>r, <1>a, <2>1, <2>5
  <2>6. CASE line.key = "dim"
    <3>1. n % 100 = 0 /\ n \in 100 * 1 .. 100 * 30 <=> n \in {100 * i : i \in 1 .. 30}
      BY <1>6, Hundreds
    <3>2. n \in {100 * i : i \in 1 .. 30} <=> n % 100 = 0 /\ n \in 100 .. 3000
      BY <3>1
    <3>3. n \in 100 .. 3000 => n # 0
      OBVIOUS
    <3> QED
      BY <1>3, <1>4, <1>r, <1>a, <2>1, <2>6, <3>2, <3>3, <1>z
  <2> QED
    BY <1>1, <2>2, <2>3, <2>4, <2>5, <2>6
<1> QED
  BY <1>2, <1>5, <1>6

-----------------------------------------------------------------------------
(***************************************************************************)
(* What the parser remembers of the lines it has read.                     *)
(***************************************************************************)
HeaderSeen == headerFound <=> \E j \in DOMAIN file : file[j].kind = "text"

ParamsSeen ==
    \A key \in DOMAIN METADATA_RULES :
        params[key] # Unset <=>
            \E j \in DOMAIN file : BeforeHeader(file, j) /\ Sets(file[j], key)

ResultsSeen ==
    \A e \in Entries :
        EntryKey(e) \in seen <=> \E j \in DOMAIN file : Gives(file[j], e)

ErrorsExact ==
    /\ {errors[k] : k \in DOMAIN errors} = WrongLines(file)
    /\ \A k \in DOMAIN errors, l \in DOMAIN errors : k < l => errors[k] < errors[l]

ReadInv == answer = "reading" => HeaderSeen /\ ParamsSeen /\ ResultsSeen /\ ErrorsExact

(***************************************************************************)
(* One more line leaves what was said of the earlier ones as it was.       *)
(***************************************************************************)
LEMMA OneMoreLine ==
    ASSUME TypeOK, NEW line \in Lines, Read(line)
    PROVE  LET n == Len(file) + 1
           IN  /\ DOMAIN file = 1 .. n - 1 /\ n \in Nat
               /\ DOMAIN file' = DOMAIN file \cup {n}
               /\ file'[n] = line
               /\ \A j \in DOMAIN file : file'[j] = file[j]
               /\ \A j \in DOMAIN file : BeforeHeader(file', j) <=> BeforeHeader(file, j)
               /\ \A j \in DOMAIN file : WrongLine(file', j) <=> WrongLine(file, j)
               /\ BeforeHeader(file', n) <=> \A j \in DOMAIN file : file[j].kind # "text"
<1> DEFINE n == Len(file) + 1
<1>1. file \in Seq(Lines) /\ file' = Append(file, line)
  BY DEF TypeOK, Read
<1>2. /\ DOMAIN file = 1 .. n - 1 /\ n \in Nat /\ n \notin DOMAIN file
      /\ DOMAIN file' = DOMAIN file \cup {n}
      /\ file'[n] = line
      /\ \A j \in DOMAIN file : file'[j] = file[j]
  <2>1. DOMAIN file = 1 .. n - 1 /\ n \in Nat /\ DOMAIN file' = 1 .. n
    BY <1>1
  <2>2. file'[n] = line /\ \A j \in 1 .. n - 1 : file'[j] = file[j]
    BY <1>1
  <2> QED
    BY <2>1, <2>2
<1> HIDE DEF n
<1>3. \A j \in DOMAIN file : 1 .. j - 1 \subseteq DOMAIN file
  BY <1>2
<1>4. \A j \in DOMAIN file : BeforeHeader(file', j) <=> BeforeHeader(file, j)
  BY <1>2, <1>3 DEF BeforeHeader
<1>5. \A j \in DOMAIN file : WrongParameter(file', j) <=> WrongParameter(file, j)
  BY <1>2, <1>3 DEF WrongParameter
<1>6. \A j \in DOMAIN file : WrongRow(file', j) <=> WrongRow(file, j)
  BY <1>2, <1>3 DEF WrongRow
<1>7. \A j \in DOMAIN file : WrongLine(file', j) <=> WrongLine(file, j)
  BY <1>2, <1>4, <1>5, <1>6 DEF WrongLine
<1>8. BeforeHeader(file', n) <=> \A j \in DOMAIN file : file[j].kind # "text"
  BY <1>2 DEF BeforeHeader
<1> QED
  BY <1>2, <1>4, <1>7, <1>8 DEF n

LEMMA NotReported ==
    ASSUME TypeOK, ErrorsExact, NEW line \in Lines, Read(line),
           ~WrongLine(file', Len(file) + 1), errors' = errors
    PROVE  ErrorsExact'
<1>1. WrongLines(file') = WrongLines(file)
  BY OneMoreLine DEF WrongLines
<1> QED
  BY <1>1 DEF ErrorsExact

LEMMA Reported ==
    ASSUME TypeOK, ErrorsExact, NEW line \in Lines, Read(line),
           WrongLine(file', Len(file) + 1), Report
    PROVE  ErrorsExact'
<1> DEFINE n == Len(file) + 1
           k == Len(errors) + 1
<1>1. WrongLines(file') = WrongLines(file) \cup {n}
  BY OneMoreLine DEF WrongLines
<1>2. /\ DOMAIN errors = 1 .. k - 1 /\ DOMAIN errors' = 1 .. k /\ k \in Nat \ {0}
      /\ errors'[k] = n
      /\ \A l \in 1 .. k - 1 : errors'[l] = errors[l] /\ errors[l] \in Nat
  BY DEF Report, TypeOK
<1>3. \A l \in 1 .. k - 1 : errors[l] < n
  <2>1. \A l \in 1 .. k - 1 : errors[l] \in DOMAIN file
    BY <1>2 DEF ErrorsExact, WrongLines
  <2>2. \A j \in DOMAIN file : j < n
    BY OneMoreLine
  <2> QED
    BY <2>1, <2>2
<1> HIDE DEF n, k
<1>4. DOMAIN errors' = DOMAIN errors \cup {k}
  BY <1>2
<1>5. {errors'[l] : l \in DOMAIN errors'} = {errors[l] : l \in DOMAIN errors} \cup {n}
  BY <1>2, <1>4
<1>6. \A l \in DOMAIN errors', m \in DOMAIN errors' : l < m => errors'[l] < errors'[m]
  BY <1>2, <1>3 DEF ErrorsExact
<1> QED
  BY <1>1, <1>5, <1>6 DEF ErrorsExact

LEMMA TextGives ==
    ASSUME NEW line, NEW e \in Entries, Gives(line, e)
    PROVE  line.kind = "text" /\ line # Header
<1>1. ValidModel(line.model)
  BY ModelOfEntry DEF Gives
<1>2. ASSUME line = Header PROVE FALSE
  <2>1. Len(line.model) = 1
    BY <1>2 DEF Header
  <2>2. Len(line.model) >= 3
    BY <1>1 DEF ValidModel
  <2>3. 1 >= 3
    BY <2>1, <2>2
  <2> QED
    BY <2>3
<1> QED
  BY <1>2 DEF Gives

(***************************************************************************)
(* A line that is neither a valid parameter nor a result adds to neither.  *)
(***************************************************************************)
LEMMA SameParams ==
    ASSUME TypeOK, ParamsSeen, NEW line \in Lines, Read(line), params' = params,
           \A key \in DOMAIN METADATA_RULES :
              BeforeHeader(file', Len(file) + 1) /\ Sets(line, key) => params[key] # Unset
    PROVE  ParamsSeen'
BY OneMoreLine DEF ParamsSeen

LEMMA SameResults ==
    ASSUME TypeOK, ResultsSeen, NEW line \in Lines, Read(line), seen' = seen,
           \A e \in Entries : Gives(line, e) => EntryKey(e) \in seen
    PROVE  ResultsSeen'
BY OneMoreLine DEF ResultsSeen

LEMMA SameHeader ==
    ASSUME TypeOK, HeaderSeen, NEW line \in Lines, Read(line), headerFound' = headerFound,
           line.kind = "text" => headerFound
    PROVE  HeaderSeen'
BY OneMoreLine DEF HeaderSeen

LEMMA NextReadInv ==
    ASSUME DOMAIN Inherited = {}, TypeOK, ReadInv, [Next]_vars
    PROVE  ReadInv'
<1> SUFFICES ASSUME answer' = "reading"
             PROVE  HeaderSeen' /\ ParamsSeen' /\ ResultsSeen' /\ ErrorsExact'
  BY DEF ReadInv
<1> DEFINE n == Len(file) + 1
<1>1. ASSUME NEW line \in Lines, Read(line)
      PROVE  /\ HeaderSeen /\ ParamsSeen /\ ResultsSeen /\ ErrorsExact
             /\ DOMAIN file = 1 .. n - 1 /\ n \in Nat /\ file'[n] = line
             /\ BeforeHeader(file', n) <=> ~headerFound
             /\ \A j \in 1 .. n - 1 : file'[j] = file[j]
  BY <1>1, OneMoreLine DEF ReadInv, Read, HeaderSeen
<1> HIDE DEF n
<1>2. ASSUME NEW line \in Lines, Skip(line)
      PROVE  HeaderSeen' /\ ParamsSeen' /\ ResultsSeen' /\ ErrorsExact'
  <2>1. /\ Read(line) /\ line.kind # "text" /\ (headerFound \/ ~IsMetadata(line))
        /\ UNCHANGED <<headerFound, params, seen, errors>>
    BY <1>2 DEF Skip, IsMetadata
  <2>2. ~WrongLine(file', n)
    BY <1>1, <2>1 DEF WrongLine, WrongParameter
  <2>3. \A key \in DOMAIN METADATA_RULES :
          BeforeHeader(file', n) /\ Sets(line, key) => params[key] # Unset
    BY <1>1, <2>1 DEF Sets
  <2>4. \A e \in Entries : ~Gives(line, e)
    BY <2>1, TextGives
  <2> QED
    BY <1>1, <2>1, <2>2, <2>3, <2>4, SameHeader, SameParams, SameResults, NotReported DEF n
<1>3. ASSUME NEW line \in Lines, Metadata(line)
      PROVE  HeaderSeen' /\ ParamsSeen' /\ ResultsSeen' /\ ErrorsExact'
  <2>1. /\ Read(line) /\ ~headerFound /\ IsMetadata(line) /\ line.kind = "comment"
        /\ params[line.key] = Unset /\ validateMetadata(line.key, line.value)
        /\ params' = [params EXCEPT ![line.key] = Number[line.value]]
        /\ UNCHANGED <<headerFound, seen, errors>>
    BY <1>3 DEF Metadata, IsMetadata
  <2>2. Sets(line, line.key) /\ line.key \in DOMAIN METADATA_RULES
    BY <2>1, ValidIffSets DEF IsMetadata
  <2>3. \A j \in 1 .. n - 1 : BeforeHeader(file, j)
    BY <1>1, <2>1 DEF BeforeHeader, HeaderSeen
  <2>4. \A j \in 1 .. n - 1 : ~Sets(file[j], line.key)
    BY <1>1, <2>1, <2>2, <2>3 DEF ParamsSeen
  <2>5. ~WrongLine(file', n)
    BY <1>1, <2>1, <2>2, <2>4 DEF WrongLine, WrongParameter
  <2>6. ParamsSeen'
    <3>1. Number[line.value] # Unset
      BY <2>1, CommentType, ParserAssumption DEF validateMetadata
    <3>2. \A key \in DOMAIN METADATA_RULES :
            params'[key] # Unset <=> params[key] # Unset \/ key = line.key
      BY <2>1, <2>2, <3>1 DEF TypeOK
    <3>3. \A key \in DOMAIN METADATA_RULES : Sets(line, key) <=> key = line.key
      BY <2>2 DEF Sets
    <3>4. BeforeHeader(file', n)
      BY <1>1, <2>1
    <3> QED
      BY <1>1, <2>1, <3>2, <3>3, <3>4, OneMoreLine DEF ParamsSeen, n
  <2>7. \A e \in Entries : ~Gives(line, e)
    BY <2>1, TextGives
  <2> QED
    BY <1>1, <2>1, <2>5, <2>6, <2>7, SameHeader, SameResults, NotReported DEF n
<1>4. ASSUME NEW line \in Lines, BadMetadata(line)
      PROVE  HeaderSeen' /\ ParamsSeen' /\ ResultsSeen' /\ ErrorsExact'
  <2>1. /\ Read(line) /\ ~headerFound /\ IsMetadata(line) /\ line.kind = "comment"
        /\ params[line.key] # Unset \/ ~validateMetadata(line.key, line.value)
        /\ Report /\ UNCHANGED <<headerFound, params, seen>>
    BY <1>4 DEF BadMetadata, IsMetadata
  <2>2. params[line.key] # Unset \/ ~Sets(line, line.key)
    BY <2>1, ValidIffSets
  <2>3. params[line.key] # Unset => \E j \in 1 .. n - 1 : Sets(file[j], line.key)
    BY <1>1, <2>1 DEF ParamsSeen, IsMetadata
  <2>4. WrongLine(file', n)
    BY <1>1, <2>1, <2>2, <2>3 DEF WrongLine, WrongParameter
  <2>5. \A key \in DOMAIN METADATA_RULES : Sets(line, key) => params[key] # Unset
    BY <2>2 DEF Sets
  <2>6. \A e \in Entries : ~Gives(line, e)
    BY <2>1, TextGives
  <2> QED
    BY <1>1, <2>1, <2>4, <2>5, <2>6, SameHeader, SameParams, SameResults, Reported DEF n
<1>5. ASSUME NEW line \in Lines, ReadHeader(line)
      PROVE  HeaderSeen' /\ ParamsSeen' /\ ResultsSeen' /\ ErrorsExact'
  <2>1. /\ Read(line) /\ ~headerFound /\ line = Header /\ line.kind = "text"
        /\ headerFound' /\ UNCHANGED <<params, seen, errors>>
    BY <1>5 DEF ReadHeader, Header
  <2>2. ~IsMetadata(line) /\ \A e \in Entries : ~Gives(line, e)
    BY <2>1, TextGives DEF IsMetadata
  <2>3. ~WrongLine(file', n)
    BY <1>1, <2>1, <2>2 DEF WrongLine, WrongParameter
  <2>4. HeaderSeen'
    BY <1>1, <2>1, OneMoreLine DEF HeaderSeen, n
  <2>5. \A key \in DOMAIN METADATA_RULES : ~Sets(line, key)
    BY <2>2 DEF Sets
  <2> QED
    BY <1>1, <2>1, <2>2, <2>3, <2>4, <2>5, SameParams, SameResults, NotReported DEF n
<1>6. ASSUME NEW line \in Lines, NoHeader(line)
      PROVE  FALSE
  BY <1>6 DEF NoHeader
<1>7. ASSUME NEW line \in Lines, headerFound, Read(line), line.kind = "text"
      PROVE  /\ ~IsMetadata(line) /\ \A key \in DOMAIN METADATA_RULES : ~Sets(line, key)
             /\ WrongLine(file', n) <=>
                  ~ \E e \in Entries : Gives(line, e) /\ EntryKey(e) \notin seen
  <2>1. ~IsMetadata(line) /\ \A key \in DOMAIN METADATA_RULES : ~Sets(line, key)
    BY <1>7 DEF IsMetadata, Sets
  <2>2. WrongLine(file', n) <=> WrongRow(file', n)
    BY <1>1, <1>7 DEF WrongLine
  <2>3. \A e \in Entries :
          EntryKey(e) \in seen <=> \E j \in 1 .. n - 1 : Gives(file'[j], e)
    BY <1>1, <1>7 DEF ResultsSeen
  <2>4. WrongRow(file', n) <=>
          ~ \E e \in Entries : Gives(line, e) /\ EntryKey(e) \notin seen
    BY <1>1, <1>7, <2>3 DEF WrongRow
  <2> QED
    BY <2>1, <2>2, <2>4
<1>8. ASSUME NEW line \in Lines, ReadRow(line)
      PROVE  HeaderSeen' /\ ParamsSeen' /\ ResultsSeen' /\ ErrorsExact'
  <2>1. /\ Read(line) /\ headerFound /\ line.kind = "text" /\ Parses(line)
        /\ RowKey(ParsedRow(line)) \notin seen
        /\ seen' = seen \cup {RowKey(ParsedRow(line))}
        /\ UNCHANGED <<headerFound, params, errors>>
    BY <1>8 DEF ReadRow
  <2>2. PICK e \in Entries : Gives(line, e) /\ RowKey(ParsedRow(line)) = EntryKey(e)
    BY <2>1, ParsedLineGives
  <2>3. ~WrongLine(file', n)
    BY <1>7, <2>1, <2>2
  <2>4. \A d \in Entries : Gives(line, d) <=> d = e
    BY <2>2, GivenLineParses, EntryKeyInjective
  <2>5. \A d \in Entries : EntryKey(d) \in seen' <=> EntryKey(d) \in seen \/ d = e
    BY <2>1, <2>2, EntryKeyInjective
  <2>6. ResultsSeen'
    BY <1>1, <2>1, <2>4, <2>5, OneMoreLine DEF ResultsSeen, n
  <2> QED
    BY <1>1, <1>7, <2>1, <2>3, <2>6, SameHeader, SameParams, NotReported DEF n
<1>9. ASSUME NEW line \in Lines, BadRow(line)
      PROVE  HeaderSeen' /\ ParamsSeen' /\ ResultsSeen' /\ ErrorsExact'
  <2>1. /\ Read(line) /\ headerFound /\ line.kind = "text"
        /\ Parses(line) => RowKey(ParsedRow(line)) \in seen
        /\ Report /\ UNCHANGED <<headerFound, params, seen>>
    BY <1>9 DEF BadRow
  <2>2. \A e \in Entries : Gives(line, e) => EntryKey(e) \in seen
    BY <2>1, GivenLineParses
  <2>3. WrongLine(file', n)
    BY <1>7, <2>1, <2>2
  <2> QED
    BY <1>1, <1>7, <2>1, <2>2, <2>3, SameHeader, SameParams, SameResults, Reported DEF n
<1>10. ASSUME EndOfFile PROVE FALSE
  BY <1>10 DEF EndOfFile
<1>11. CASE UNCHANGED vars
  BY <1>11 DEF vars, ReadInv, HeaderSeen, ParamsSeen, ResultsSeen, ErrorsExact
<1> QED
  BY <1>2, <1>3, <1>4, <1>5, <1>6, <1>8, <1>9, <1>10, <1>11 DEF Next

LEMMA ReadInvariance ==
    ASSUME DOMAIN Inherited = {}
    PROVE  Spec => []ReadInv
<1>1. Init => ReadInv
  <2> SUFFICES ASSUME Init
               PROVE  HeaderSeen /\ ParamsSeen /\ ResultsSeen /\ ErrorsExact
    BY DEF ReadInv
  <2>1. DOMAIN file = {} /\ DOMAIN errors = {} /\ seen = {} /\ ~headerFound
        /\ \A key \in DOMAIN METADATA_RULES : params[key] = Unset
    BY DEF Init
  <2> QED
    BY <2>1 DEF HeaderSeen, ParamsSeen, ResultsSeen, ErrorsExact, WrongLines
<1>2. TypeOK /\ ReadInv /\ [Next]_vars => ReadInv'
  BY NextReadInv
<1> QED
  BY <1>1, <1>2, TypeCorrect, PTL DEF Spec

(***************************************************************************)
(* While a file is read, the lines reported are the wrong ones, each once  *)
(* and in order, provided that no name is inherited (the finding of the    *)
(* run import_inherited is what happens otherwise).                        *)
(***************************************************************************)
THEOREM ReportsExactly ==
    ASSUME DOMAIN Inherited = {}
    PROVE  Spec => []ErrorsAreExact
<1>1. ReadInv => ErrorsAreExact
  BY DEF ReadInv, ErrorsExact, ErrorsAreExact
<1> QED
  BY <1>1, ReadInvariance, PTL

-----------------------------------------------------------------------------
(***************************************************************************)
(* The answer.  Besides what it has seen, the parser holds nothing but     *)
(* what the lines say.                                                     *)
(***************************************************************************)
ParamsRead ==
    \A key \in DOMAIN METADATA_RULES :
        params[key] # Unset =>
            \E j \in DOMAIN file :
                /\ BeforeHeader(file, j)
                /\ Sets(file[j], key)
                /\ params[key] = Number[file[j].value]

EntriesOnly == \A key \in seen : \E e \in Entries : key = EntryKey(e)

AnswerInv ==
    /\ ParamsRead
    /\ EntriesOnly
    /\ AcceptsExactly
    /\ answer = "ok" => WrongLines(file) = {} /\ ParamsSeen /\ ResultsSeen

LEMMA MoreParams ==
    ASSUME TypeOK, ParamsRead, NEW line \in Lines, Read(line), params' = params
    PROVE  ParamsRead'
BY OneMoreLine DEF ParamsRead

LEMMA NextParamsRead ==
    ASSUME TypeOK, ReadInv, ParamsRead, [Next]_vars
    PROVE  ParamsRead'
<1>1. ASSUME NEW line \in Lines,
             Skip(line) \/ BadMetadata(line) \/ ReadHeader(line) \/ NoHeader(line)
               \/ ReadRow(line) \/ BadRow(line)
      PROVE  ParamsRead'
  BY <1>1, MoreParams
  DEF Skip, BadMetadata, ReadHeader, NoHeader, ReadRow, BadRow
<1>2. ASSUME NEW line \in Lines, Metadata(line)
      PROVE  ParamsRead'
  <2> DEFINE n == Len(file) + 1
  <2>1. /\ Read(line) /\ IsMetadata(line)
        /\ params' = [params EXCEPT ![line.key] = Number[line.value]]
        /\ line.key \in DOMAIN METADATA_RULES
        /\ Sets(line, line.key)
    BY <1>2, ValidIffSets DEF Metadata, IsMetadata
  <2>2. BeforeHeader(file', n)
    BY <1>2, <2>1, OneMoreLine DEF Metadata, Read, ReadInv, HeaderSeen
  <2>3. /\ DOMAIN file' = DOMAIN file \cup {n} /\ file'[n] = line
        /\ \A j \in DOMAIN file : file'[j] = file[j]
        /\ \A j \in DOMAIN file : BeforeHeader(file', j) <=> BeforeHeader(file, j)
    BY <2>1, OneMoreLine
  <2> HIDE DEF n
  <2>4. params'[line.key] = Number[line.value]
    BY <2>1 DEF TypeOK
  <2>5. \A key \in DOMAIN METADATA_RULES \ {line.key} : params'[key] = params[key]
    BY <2>1 DEF TypeOK
  <2> QED
    BY <2>1, <2>2, <2>3, <2>4, <2>5 DEF ParamsRead
<1>3. CASE EndOfFile
  BY <1>3 DEF EndOfFile, ParamsRead
<1>4. CASE UNCHANGED vars
  BY <1>4 DEF vars, ParamsRead
<1> QED
  BY <1>1, <1>2, <1>3, <1>4 DEF Next

LEMMA NextEntriesOnly ==
    ASSUME DOMAIN Inherited = {}, TypeOK, EntriesOnly, [Next]_vars
    PROVE  EntriesOnly'
<1>1. ASSUME NEW line \in Lines, ReadRow(line)
      PROVE  EntriesOnly'
  <2>1. PICK e \in Entries : RowKey(ParsedRow(line)) = EntryKey(e)
    BY <1>1, ParsedLineGives DEF ReadRow
  <2> QED
    BY <1>1, <2>1 DEF ReadRow, EntriesOnly
<1>2. ASSUME NEW line \in Lines,
             Skip(line) \/ Metadata(line) \/ BadMetadata(line) \/ ReadHeader(line)
               \/ NoHeader(line) \/ BadRow(line)
      PROVE  seen' = seen
  BY <1>2 DEF Skip, Metadata, BadMetadata, ReadHeader, NoHeader, BadRow
<1> QED
  BY <1>1, <1>2 DEF Next, EndOfFile, vars, EntriesOnly

\* A text that is no header ends the parse with its own line wrong.
LEMMA NoHeaderRejects ==
    ASSUME TypeOK, ReadInv, NEW line \in Lines, NoHeader(line)
    PROVE  AcceptsExactly' /\ answer' = "rejected"
<1> DEFINE n == Len(file) + 1
<1>1. /\ Read(line) /\ answer = "reading" /\ ~headerFound
      /\ line.kind = "text" /\ line # Header
      /\ answer' = "rejected" /\ Report
  BY DEF NoHeader, Read
<1>2. BeforeHeader(file', n) /\ n \in DOMAIN file' /\ file'[n] = line
  BY <1>1, OneMoreLine DEF ReadInv, HeaderSeen
<1>3. n \in WrongLines(file')
  BY <1>1, <1>2 DEF WrongLines, WrongLine
<1>4. errors' # <<>>
  BY <1>1 DEF Report, TypeOK
<1> QED
  BY <1>1, <1>3, <1>4 DEF AcceptsExactly

LEMMA EndAnswers ==
    ASSUME TypeOK, RowsInv, ReadInv, EntriesOnly, EndOfFile
    PROVE  /\ AcceptsExactly'
           /\ answer' = "ok" => WrongLines(file) = {} /\ ParamsSeen /\ ResultsSeen
<1>1. /\ HeaderSeen /\ ParamsSeen /\ ResultsSeen /\ ErrorsExact
      /\ UNCHANGED <<file, headerFound, params, rows, seen>>
      /\ errors' = IF ~headerFound \/ (rows = <<>> /\ errors = <<>>)
                     THEN Append(errors, 1) ELSE errors
      /\ answer' = IF errors' = <<>> THEN "ok" ELSE "rejected"
  BY DEF EndOfFile, ReadInv
<1>2. errors = <<>> <=> WrongLines(file) = {}
  <2>1. errors = <<>> <=> DOMAIN errors = {}
    BY DEF TypeOK
  <2> QED
    BY <1>1, <2>1 DEF ErrorsExact
<1>3. rows = <<>> <=> seen = {}
  <2>1. rows = <<>> <=> DOMAIN rows = {}
    BY DEF TypeOK
  <2> QED
    BY <2>1 DEF RowsInv
<1>4. seen # {} <=> \E i \in DOMAIN file, e \in Entries : Gives(file[i], e)
  BY <1>1 DEF ResultsSeen, EntriesOnly
<1>5. seen # {} => headerFound
  <2>1. ASSUME NEW i \in DOMAIN file, NEW e \in Entries, Gives(file[i], e)
        PROVE  file[i].kind = "text"
    BY <2>1, TextGives
  <2> QED
    BY <1>1, <1>4, <2>1 DEF HeaderSeen
<1>6. Append(errors, 1) # <<>>
  <2>1. errors \in Seq(Nat)
    BY DEF TypeOK
  <2>2. Len(Append(errors, 1)) = Len(errors) + 1 /\ Len(errors) \in Nat
    BY <2>1
  <2> QED
    BY <2>2
<1>7. answer' = "ok" <=> WrongLines(file) = {} /\ seen # {}
  BY <1>1, <1>2, <1>3, <1>5, <1>6
<1>8. answer' = "rejected" => errors' # <<>>
  BY <1>1
<1>9. AcceptsExactly'
  BY <1>1, <1>4, <1>7, <1>8 DEF AcceptsExactly
<1> QED
  BY <1>1, <1>7, <1>9

LEMMA NextAnswerInv ==
    ASSUME DOMAIN Inherited = {}, TypeOK, RowsInv, ReadInv, AnswerInv, [Next]_vars
    PROVE  AnswerInv'
<1> USE DEF AnswerInv
<1>1. ParamsRead' /\ EntriesOnly'
  BY NextParamsRead, NextEntriesOnly
<1>2. ASSUME NEW line \in Lines,
             Skip(line) \/ Metadata(line) \/ BadMetadata(line) \/ ReadHeader(line)
               \/ ReadRow(line) \/ BadRow(line)
      PROVE  answer' = "reading"
  BY <1>2 DEF Skip, Metadata, BadMetadata, ReadHeader, ReadRow, BadRow, Read
<1>3. answer' = "reading" => AnswerInv'
  BY <1>1 DEF AcceptsExactly
<1>4. ASSUME NEW line \in Lines, NoHeader(line)
      PROVE  AnswerInv'
  BY <1>1, <1>4, NoHeaderRejects
<1>5. CASE EndOfFile
  BY <1>1, <1>5, EndAnswers DEF EndOfFile, ParamsSeen, ResultsSeen
<1>6. CASE UNCHANGED vars
  BY <1>1, <1>6 DEF vars, AcceptsExactly, ParamsSeen, ResultsSeen
<1> QED
  BY <1>2, <1>3, <1>4, <1>5, <1>6 DEF Next

LEMMA AnswerInvariance ==
    ASSUME DOMAIN Inherited = {}
    PROVE  Spec => []AnswerInv
<1>1. Init => AnswerInv
  BY DEF Init, AnswerInv, ParamsRead, EntriesOnly, AcceptsExactly
<1>2. TypeOK /\ RowsInv /\ ReadInv /\ AnswerInv /\ [Next]_vars => AnswerInv'
  BY NextAnswerInv
<1> QED
  BY <1>1, <1>2, TypeCorrect, RowsKnown, ReadInvariance, PTL DEF Spec

(***************************************************************************)
(* For files of any length and with every kind of line: a file is accepted *)
(* if and only if it gives a result and has no wrong line, provided that   *)
(* no name is inherited.                                                   *)
(***************************************************************************)
THEOREM AcceptsTheorem ==
    ASSUME DOMAIN Inherited = {}
    PROVE  Spec => []AcceptsExactly
<1>1. AnswerInv => AcceptsExactly
  BY DEF AnswerInv
<1> QED
  BY <1>1, AnswerInvariance, PTL

\* In a file without a wrong line one line sets a parameter, and no other.
LEMMA SetOnce ==
    ASSUME TypeOK, WrongLines(file) = {}, NEW key,
           NEW i \in DOMAIN file, BeforeHeader(file, i), Sets(file[i], key),
           NEW j \in DOMAIN file, BeforeHeader(file, j), Sets(file[j], key)
    PROVE  i = j
<1>1. /\ ~WrongParameter(file, i) /\ ~WrongParameter(file, j)
      /\ i \in Nat /\ j \in Nat /\ 1 <= i /\ 1 <= j
  BY DEF WrongLines, WrongLine, TypeOK
<1>2. ~(i < j) /\ ~(j < i)
  BY <1>1 DEF WrongParameter, Sets
<1> QED
  BY <1>1, <1>2

\* Nor does a second line give the same result.
LEMMA GivenOnce ==
    ASSUME TypeOK, WrongLines(file) = {}, NEW e \in Entries,
           NEW i \in DOMAIN file, Gives(file[i], e),
           NEW j \in DOMAIN file, Gives(file[j], e)
    PROVE  i = j
<1>1. \A k \in DOMAIN file : k \in Nat /\ 1 <= k /\ file[k] \in Lines
  BY DEF TypeOK
<1>2. ASSUME NEW k \in DOMAIN file, Gives(file[k], e)
      PROVE  \A l \in 1 .. k - 1 : ~Gives(file[l], e)
  <2>1. file[k].kind = "text" /\ file[k] # Header
    BY <1>2, TextGives
  <2>2. ~WrongRow(file, k)
    BY <2>1 DEF WrongLines, WrongLine
  <2>3. PICK d \in Entries : Gives(file[k], d) /\ \A l \in 1 .. k - 1 : ~Gives(file[l], d)
    BY <2>2 DEF WrongRow
  <2>4. d = e
    BY <1>1, <1>2, <2>3, GivenLineParses, EntryKeyInjective
  <2> QED
    BY <2>3, <2>4
<1>3. ~(i < j) /\ ~(j < i)
  BY <1>1, <1>2
<1> QED
  BY <1>1, <1>3

(***************************************************************************)
(* Every row is read from a line, and as that line says it.                *)
(***************************************************************************)
RowsRead ==
    \A n \in DOMAIN rows :
        \E j \in DOMAIN file :
            file[j].kind = "text" /\ Parses(file[j]) /\ rows[n] = ParsedRow(file[j])

LEMMA NextRowsRead == TypeOK /\ RowsRead /\ [Next]_vars => RowsRead'
<1> SUFFICES ASSUME TypeOK, RowsRead, [Next]_vars PROVE RowsRead'
  OBVIOUS
<1>1. ASSUME NEW line \in Lines, Read(line), rows' = rows
      PROVE  RowsRead'
  BY <1>1, OneMoreLine DEF RowsRead
<1>2. ASSUME NEW line \in Lines,
             Skip(line) \/ Metadata(line) \/ BadMetadata(line) \/ ReadHeader(line)
               \/ NoHeader(line) \/ BadRow(line)
      PROVE  RowsRead'
  BY <1>1, <1>2 DEF Skip, Metadata, BadMetadata, ReadHeader, NoHeader, BadRow
<1>3. ASSUME NEW line \in Lines, ReadRow(line)
      PROVE  RowsRead'
  <2> DEFINE n == Len(file) + 1
             k == Len(rows) + 1
  <2>1. /\ Read(line) /\ line.kind = "text" /\ Parses(line)
        /\ rows' = Append(rows, ParsedRow(line))
    BY <1>3 DEF ReadRow
  <2>2. /\ DOMAIN rows' = DOMAIN rows \cup {k}
        /\ rows'[k] = ParsedRow(line)
        /\ \A i \in DOMAIN rows : rows'[i] = rows[i]
    BY <2>1 DEF TypeOK
  <2>3. /\ DOMAIN file' = DOMAIN file \cup {n} /\ file'[n] = line
        /\ \A j \in DOMAIN file : file'[j] = file[j]
    BY <2>1, OneMoreLine
  <2> HIDE DEF n, k
  <2> QED
    BY <2>1, <2>2, <2>3 DEF RowsRead
<1>4. CASE EndOfFile
  BY <1>4 DEF EndOfFile, RowsRead
<1>5. CASE UNCHANGED vars
  BY <1>5 DEF vars, RowsRead
<1> QED
  BY <1>2, <1>3, <1>4, <1>5 DEF Next

LEMMA RowsReadInvariance == Spec => []RowsRead
<1>1. Init => RowsRead
  BY DEF Init, RowsRead
<1> QED
  BY <1>1, NextRowsRead, TypeCorrect, PTL DEF Spec

LEMMA AcceptedIsStored ==
    ASSUME DOMAIN Inherited = {}, TypeOK, RowsInv, RowsRead, AnswerInv
    PROVE  NothingLost
<1> SUFFICES ASSUME answer = "ok" PROVE NothingLost
  BY DEF NothingLost
<1>1. WrongLines(file) = {} /\ ParamsSeen /\ ResultsSeen /\ ParamsRead
  BY DEF AnswerInv
<1>2. DOMAIN params = DOMAIN METADATA_RULES
  BY DEF TypeOK
<1>3. ASSUME NEW key \in DOMAIN params
      PROVE  {params[key]} \ {Unset} =
                {Number[file[i].value] :
                    i \in {j \in DOMAIN file : BeforeHeader(file, j) /\ Sets(file[j], key)}}
  <2> DEFINE setters == {j \in DOMAIN file : BeforeHeader(file, j) /\ Sets(file[j], key)}
  <2>1. CASE params[key] = Unset
    BY <1>1, <1>2, <2>1 DEF ParamsSeen
  <2>2. CASE params[key] # Unset
    <3>1. PICK j \in setters : params[key] = Number[file[j].value]
      BY <1>1, <1>2, <2>2 DEF ParamsRead
    <3>2. setters = {j}
      BY <1>1, <3>1, SetOnce
    <3> QED
      BY <2>2, <3>1, <3>2
  <2> QED
    BY <2>1, <2>2
<1>4. \A j \in DOMAIN file : file[j] \in Lines
  BY DEF TypeOK
<1>5. ASSUME NEW n \in DOMAIN rows
      PROVE  \E i \in DOMAIN file, e \in Entries :
                /\ Gives(file[i], e)
                /\ rows[n] = Result(file[i], e)
                /\ RowKey(rows[n]) = EntryKey(e)
  <2>1. PICK j \in DOMAIN file :
          file[j].kind = "text" /\ Parses(file[j]) /\ rows[n] = ParsedRow(file[j])
    BY DEF RowsRead
  <2> QED
    BY <1>4, <2>1, ParsedLineGives
<1>6. ASSUME NEW i \in DOMAIN file, NEW e \in Entries, Gives(file[i], e)
      PROVE  \E n \in DOMAIN rows : rows[n] = Result(file[i], e)
  <2>1. PICK n \in DOMAIN rows : RowKey(rows[n]) = EntryKey(e)
    BY <1>1, <1>6 DEF ResultsSeen, RowsInv
  <2>2. PICK j \in DOMAIN file, d \in Entries :
          Gives(file[j], d) /\ rows[n] = Result(file[j], d) /\ RowKey(rows[n]) = EntryKey(d)
    BY <1>5
  <2>3. d = e
    BY <2>1, <2>2, EntryKeyInjective
  <2>4. j = i
    BY <1>1, <1>6, <2>2, <2>3, GivenOnce
  <2> QED
    BY <2>2, <2>3, <2>4
<1> QED
  BY <1>3, <1>5, <1>6 DEF NothingLost

(***************************************************************************)
(* An accepted file of any length is stored as it is: every parameter      *)
(* before the header and every result after it, with its fitness, and      *)
(* nothing else, provided that no name is inherited.                       *)
(***************************************************************************)
THEOREM NothingLostTheorem ==
    ASSUME DOMAIN Inherited = {}
    PROVE  Spec => []NothingLost
BY AnswerInvariance, TypeCorrect, RowsKnown, RowsReadInvariance, AcceptedIsStored, PTL
=============================================================================
