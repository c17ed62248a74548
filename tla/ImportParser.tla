----------------------------- MODULE ImportParser -----------------------------
(***************************************************************************)
(* POST /simulation/import: utils/importParser.js reads a text file line   *)
(* by line and either returns the rows and parameters it holds or the      *)
(* numbers of the lines that are wrong; the controller derives the grid of *)
(* an accepted file.                                                       *)
(*                                                                         *)
(* A line is given by what the parser sees of it after splitting and       *)
(* trimming: blank, a comment (with the key and value of a `# key=value`), *)
(* or text in tab-separated columns, the first of them split at its        *)
(* slashes.  Numbers are in hundredths; Header stands for its spellings in *)
(* any case.                                                               *)
(***************************************************************************)
EXTENDS Integers, Sequences, FiniteSets

CONSTANTS
    Lines,       \* the lines a file may be made of
    EmptyWord,
    Words,       \* the strings a value, a benchmark or a fitness may be
    Number,      \* [Words -> hundredths]: what Number(string) returns
    NaN,         \* of a word that is no finite number
    Inherited,   \* names every JavaScript object has a property for, by the
                 \* value found there: a number below 1, as it is no identifier
    Unset,       \* a parameter the file did not give
    MaxLines     \* bound: length of a file

Comment == [kind: {"comment"}, key: STRING, value: Words]
Text == [kind: {"text"}, columns: Nat, model: Seq(STRING),
         benchmark: Words, fitness: Words]

ASSUME ParserAssumption ==
    /\ Lines \subseteq {[kind |-> "blank"]} \cup Comment \cup Text
    /\ Number \in [Words -> Int \cup {NaN}]
    /\ EmptyWord \in Words => Number[EmptyWord] = 0
    /\ NaN \notin Int
    /\ Unset \notin Int
    /\ \A name \in DOMAIN Inherited :
          /\ name \in Seq(STRING) /\ Len(name) = 1
          /\ Inherited[name] \in Int /\ Inherited[name] < 1
    /\ MaxLines \in Nat

VARIABLES
    file,          \* the lines read
    headerFound,
    params,        \* [parameter -> hundredths, or Unset]
    rows,
    seen,          \* the models and benchmarks of the rows
    errors,        \* the line numbers reported
    answer

vars == <<file, headerFound, params, rows, seen, errors, answer>>

-----------------------------------------------------------------------------
\* Names are lists of parts; the identifier of a name is its position.
MUTATION_NAME_TO_ID ==
    << <<"DE", "rand", "1">>, <<"DE", "rand", "2">>, <<"DE", "rand", "3">>,
       <<"DE", "best", "1">>, <<"DE", "best", "2">>, <<"DE", "best", "3">>,
       <<"DE", "current-to-best", "1">>, <<"DE", "current-to-best", "2">>,
       <<"DE", "current-to-rand", "1">>, <<"DE", "current-to-rand", "2">> >>

CROSSOVER_NAME_TO_ID ==
    << <<"exponential">>, <<"binomial">>, <<"onepoint">>, <<"twopoint">> >>

SELECTION_NAME_TO_ID == << <<"sts">>, <<"greedy">> >>

METADATA_RULES ==
    [np  |-> [int |-> TRUE,  range |-> 1000 .. 4000],
     f   |-> [int |-> FALSE, range |-> 10 .. 200],
     cr  |-> [int |-> FALSE, range |-> 1 .. 100],
     gen |-> [int |-> TRUE,  range |-> {n \in Int : n >= 100}],
     dim |-> [int |-> TRUE,  range |-> 100 .. 3000]]

Header == [kind |-> "text", columns |-> 3, model |-> <<"model">>,
           benchmark |-> "benchmark", fitness |-> "lowestfitness"]

IsInteger(n) == n # NaN /\ n % 100 = 0

\* Mutant: an empty value counts as the number zero, as Number("") says.
ValidFitness_Empty(w) == Number[w] # NaN

ValidFitness(w) == w # EmptyWord /\ Number[w] # NaN

validateMetadata(key, w) ==
    /\ w # EmptyWord /\ Number[w] # NaN
    /\ METADATA_RULES[key].int => IsInteger(Number[w])
    /\ Number[w] \in METADATA_RULES[key].range

\* TABLE[name] with its != null: a name of the table, or one that the table
\* object inherits.
Has(table, name) ==
    (\E i \in DOMAIN table : table[i] = name) \/ name \in DOMAIN Inherited

Id(table, name) ==
    IF \E i \in DOMAIN table : table[i] = name
    THEN CHOOSE i \in DOMAIN table : table[i] = name
    ELSE Inherited[name]

SplitModel(parts) ==
    LET n == Len(parts)
    IN  [mutation  |-> SubSeq(parts, 1, n - 2),
         crossover |-> <<parts[n - 1]>>,
         selection |-> <<parts[n]>>]

\* Whether parseModel returns identifiers, and which.
ValidModel(parts) ==
    /\ Len(parts) >= 3
    /\ Has(SELECTION_NAME_TO_ID, SplitModel(parts).selection)
    /\ Has(CROSSOVER_NAME_TO_ID, SplitModel(parts).crossover)
    /\ Has(MUTATION_NAME_TO_ID, SplitModel(parts).mutation)

ValidBenchmark(w) == IsInteger(Number[w]) /\ Number[w] \in 100 .. 1000

\* Mutant: the fitness is read as a whole number (parseInt for Number).
ParsedRow_WholeFitness(line) ==
    [functionId    |-> Number[line.benchmark] \div 100,
     mutationId    |-> Id(MUTATION_NAME_TO_ID, SplitModel(line.model).mutation),
     crossoverId   |-> Id(CROSSOVER_NAME_TO_ID, SplitModel(line.model).crossover),
     selectionId   |-> Id(SELECTION_NAME_TO_ID, SplitModel(line.model).selection),
     lowestFitness |-> 100 * (Number[line.fitness] \div 100)]

\* The row of a line that parses.
ParsedRow(line) ==
    [functionId    |-> Number[line.benchmark] \div 100,
     mutationId    |-> Id(MUTATION_NAME_TO_ID, SplitModel(line.model).mutation),
     crossoverId   |-> Id(CROSSOVER_NAME_TO_ID, SplitModel(line.model).crossover),
     selectionId   |-> Id(SELECTION_NAME_TO_ID, SplitModel(line.model).selection),
     lowestFitness |-> Number[line.fitness]]

Parses(line) ==
    /\ line.columns = 3
    /\ ValidModel(line.model)
    /\ ValidBenchmark(line.benchmark)
    /\ ValidFitness(line.fitness)

\* Mutant: the function is left out of the key.
RowKey_NoFunction(row) == <<row.mutationId, row.crossoverId, row.selectionId>>

RowKey(row) ==
    <<row.mutationId, row.crossoverId, row.selectionId, row.functionId>>

-----------------------------------------------------------------------------
Init ==
    /\ file = <<>>
    /\ headerFound = FALSE
    /\ params = [key \in DOMAIN METADATA_RULES |-> Unset]
    /\ rows = <<>>
    /\ seen = {}
    /\ errors = <<>>
    /\ answer = "reading"

Read(line) ==
    /\ answer = "reading"
    /\ Len(file) < MaxLines
    /\ file' = Append(file, line)

Report == errors' = Append(errors, Len(file) + 1)

IsMetadata(line) == line.kind = "comment" /\ line.key \in DOMAIN METADATA_RULES

\* Blank lines, comments without a known key, comments after the header.
Skip(line) ==
    /\ Read(line)
    /\ \/ line.kind = "blank"
       \/ line.kind = "comment" /\ (headerFound \/ ~IsMetadata(line))
    /\ UNCHANGED <<headerFound, params, rows, seen, errors, answer>>

\* Mutant: comments after the header are parameters, too.
Metadata_Anywhere(line) ==
    /\ Read(line)
    /\ IsMetadata(line)
    /\ params[line.key] = Unset
    /\ validateMetadata(line.key, line.value)
    /\ params' = [params EXCEPT ![line.key] = Number[line.value]]
    /\ UNCHANGED <<headerFound, rows, seen, errors, answer>>

Metadata(line) ==
    /\ Read(line)
    /\ ~headerFound /\ IsMetadata(line)
    /\ params[line.key] = Unset
    /\ validateMetadata(line.key, line.value)
    /\ params' = [params EXCEPT ![line.key] = Number[line.value]]
    /\ UNCHANGED <<headerFound, rows, seen, errors, answer>>

BadMetadata(line) ==
    /\ Read(line)
    /\ ~headerFound /\ IsMetadata(line)
    /\ params[line.key] # Unset \/ ~validateMetadata(line.key, line.value)
    /\ Report
    /\ UNCHANGED <<headerFound, params, rows, seen, answer>>

ReadHeader(line) ==
    /\ Read(line)
    /\ ~headerFound /\ line = Header
    /\ headerFound' = TRUE
    /\ UNCHANGED <<params, rows, seen, errors, answer>>

\* Any other text before the header ends the parse.
NoHeader(line) ==
    /\ Read(line)
    /\ ~headerFound /\ line.kind = "text" /\ line # Header
    /\ Report
    /\ answer' = "rejected"
    /\ UNCHANGED <<headerFound, params, rows, seen>>

\* Mutant: a model that is already there is stored again.
ReadRow_Again(line) ==
    /\ Read(line)
    /\ headerFound /\ line.kind = "text"
    /\ Parses(line)
    /\ rows' = Append(rows, ParsedRow(line))
    /\ seen' = seen \cup {RowKey(ParsedRow(line))}
    /\ UNCHANGED <<headerFound, params, errors, answer>>

ReadRow(line) ==
    /\ Read(line)
    /\ headerFound /\ line.kind = "text"
    /\ Parses(line)
    /\ RowKey(ParsedRow(line)) \notin seen
    /\ rows' = Append(rows, ParsedRow(line))
    /\ seen' = seen \cup {RowKey(ParsedRow(line))}
    /\ UNCHANGED <<headerFound, params, errors, answer>>

BadRow(line) ==
    /\ Read(line)
    /\ headerFound /\ line.kind = "text"
    /\ Parses(line) => RowKey(ParsedRow(line)) \in seen
    /\ Report
    /\ UNCHANGED <<headerFound, params, rows, seen, answer>>

\* Mutant: a file without rows is not reported.
EndOfFile_NoRowsAllowed ==
    /\ answer = "reading"
    /\ errors' = IF ~headerFound THEN Append(errors, 1) ELSE errors
    /\ answer' = IF errors' = <<>> THEN "ok" ELSE "rejected"
    /\ UNCHANGED <<file, headerFound, params, rows, seen>>

\* A missing header and an empty table are reported at line 1.
EndOfFile ==
    /\ answer = "reading"
    /\ errors' = IF ~headerFound \/ (rows = <<>> /\ errors = <<>>)
                 THEN Append(errors, 1) ELSE errors
    /\ answer' = IF errors' = <<>> THEN "ok" ELSE "rejected"
    /\ UNCHANGED <<file, headerFound, params, rows, seen>>

Next ==
    \/ \E line \in Lines :
          \/ Skip(line) \/ Metadata(line) \/ BadMetadata(line)
          \/ ReadHeader(line) \/ NoHeader(line)
          \/ ReadRow(line) \/ BadRow(line)
    \/ EndOfFile

Spec == Init /\ [][Next]_vars

-----------------------------------------------------------------------------
\* importSimulation: the identifiers that occur in the rows, and how many
\* models the item claims.
Grid ==
    [functions |-> {rows[i].functionId  : i \in DOMAIN rows},
     mutation  |-> {rows[i].mutationId  : i \in DOMAIN rows},
     crossover |-> {rows[i].crossoverId : i \in DOMAIN rows},
     selection |-> {rows[i].selectionId : i \in DOMAIN rows}]

totalModels == Len(rows)

\* The number of models of a grid, as for a simulation that is to be run.
computeTotalModels(grid) ==
    Cardinality(grid.functions) * Cardinality(grid.mutation)
        * Cardinality(grid.crossover) * Cardinality(grid.selection)

-----------------------------------------------------------------------------
Row == [functionId: 1 .. 10, mutationId: Int, crossoverId: Int,
        selectionId: Int, lowestFitness: Int]

(***************************************************************************)
(* Every variable has its type.                                            *)
(***************************************************************************)
TypeOK ==
    /\ file \in Seq(Lines)
    /\ headerFound \in BOOLEAN
    /\ params \in [DOMAIN METADATA_RULES -> Int \cup {Unset}]
    /\ rows \in Seq(Row)
    /\ seen \subseteq Int \X Int \X Int \X (1 .. 10)
    /\ errors \in Seq(Nat \ {0})
    /\ answer \in {"reading", "ok", "rejected"}

-----------------------------------------------------------------------------
(***************************************************************************)
(* What a file means, said without the parser: the reference the           *)
(* properties compare with.                                                *)
(***************************************************************************)
Entries == [m: DOMAIN MUTATION_NAME_TO_ID, c: DOMAIN CROSSOVER_NAME_TO_ID,
            s: DOMAIN SELECTION_NAME_TO_ID, b: 1 .. 10]

\* The line gives a result of model m/c/s on benchmark b.
Gives(line, e) ==
    /\ line.kind = "text"
    /\ line.columns = 3
    /\ line.model = MUTATION_NAME_TO_ID[e.m] \o CROSSOVER_NAME_TO_ID[e.c]
                        \o SELECTION_NAME_TO_ID[e.s]
    /\ Number[line.benchmark] = 100 * e.b
    /\ line.fitness # EmptyWord /\ Number[line.fitness] # NaN

\* The row that says what such a line says.
Result(line, e) ==
    [functionId |-> e.b, mutationId |-> e.m, crossoverId |-> e.c, selectionId |-> e.s,
     lowestFitness |-> Number[line.fitness]]

Allowed ==
    [np  |-> {100 * n : n \in 10 .. 40},
     f   |-> 10 .. 200,
     cr  |-> 1 .. 100,
     gen |-> {n \in Int : n >= 100 /\ n % 100 = 0},
     dim |-> {100 * n : n \in 1 .. 30}]

\* The line sets a parameter to a value it may have.
Sets(line, key) ==
    IsMetadata(line) /\ line.key = key /\ Number[line.value] \in Allowed[key]

BeforeHeader(f, i) == \A j \in 1 .. i - 1 : f[j].kind # "text"

\* A line is wrong unless it may stand where it is, and says something that
\* no earlier line has said.
WrongParameter(f, i) ==
    /\ IsMetadata(f[i])
    /\ ~ /\ Sets(f[i], f[i].key)
         /\ \A j \in 1 .. i - 1 : ~Sets(f[j], f[i].key)

WrongRow(f, i) ==
    ~ \E e \in Entries : Gives(f[i], e) /\ \A j \in 1 .. i - 1 : ~Gives(f[j], e)

WrongLine(f, i) ==
    IF BeforeHeader(f, i)
    THEN WrongParameter(f, i) \/ (f[i].kind = "text" /\ f[i] # Header)
    ELSE f[i].kind = "text" /\ WrongRow(f, i)

WrongLines(f) == {i \in DOMAIN f : WrongLine(f, i)}

(***************************************************************************)
(* While a file is read, the lines reported are the wrong ones, each once  *)
(* and in order: none is hidden by an error before it, and a repeated      *)
(* model or parameter is reported at its second line, however it is        *)
(* spelled.  (The errors array of parseImportFile.)                        *)
(***************************************************************************)
ErrorsAreExact ==
    answer = "reading" =>
        /\ {errors[k] : k \in DOMAIN errors} = WrongLines(file)
        /\ \A k \in DOMAIN errors, l \in DOMAIN errors : k < l => errors[k] < errors[l]

(***************************************************************************)
(* A file is accepted if and only if it has a header, at least one row and *)
(* no wrong line, and a rejected one comes with at least one error.  (The  *)
(* four returns of parseImportFile.)                                       *)
(***************************************************************************)
AcceptsExactly ==
    answer # "reading" =>
        /\ answer = "ok" <=>
              /\ WrongLines(file) = {}
              /\ \E i \in DOMAIN file, e \in Entries : Gives(file[i], e)
        /\ answer = "rejected" => errors # <<>>

(***************************************************************************)
(* An accepted file is stored as it is: every parameter before the header  *)
(* and every result after it, the model, the benchmark and the fitness the *)
(* line gives, and no row that no line gives.  (What parseImportFile       *)
(* returns as data.)                                                       *)
(***************************************************************************)
NothingLost ==
    answer = "ok" =>
        /\ \A key \in DOMAIN params :
              {params[key]} \ {Unset} =
                  {Number[file[i].value] :
                      i \in {j \in DOMAIN file : BeforeHeader(file, j) /\ Sets(file[j], key)}}
        /\ \A i \in DOMAIN file, e \in Entries :
              Gives(file[i], e) => \E n \in DOMAIN rows : rows[n] = Result(file[i], e)
        /\ \A n \in DOMAIN rows :
              \E i \in DOMAIN file, e \in Entries :
                 Gives(file[i], e) /\ rows[n] = Result(file[i], e)

(***************************************************************************)
(* The models an import claims are at most those of its grid, as for a     *)
(* simulation that has been run: no row is counted twice.  (totalModels of *)
(* importSimulation against the functions and methods the controller       *)
(* derives.)                                                               *)
(***************************************************************************)
ImportFitsGrid == totalModels <= computeTotalModels(Grid)

(***************************************************************************)
(* Every row is of a model and a benchmark the platform knows, as the      *)
(* schema of a simulation demands.  It is violated when the file names a   *)
(* property every object has: the lookups of parseModel find it.           *)
(***************************************************************************)
RowsAreModels ==
    \A n \in DOMAIN rows :
        \E e \in Entries : RowKey(rows[n]) = <<e.m, e.c, e.s, e.b>>
=============================================================================
