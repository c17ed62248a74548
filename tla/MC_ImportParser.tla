--------------------------- MODULE MC_ImportParser ---------------------------
(***************************************************************************)
(* Files of a handful of lines: good and bad parameters, rows that repeat  *)
(* a benchmark in another spelling, and every way a row can be wrong.      *)
(***************************************************************************)
EXTENDS ImportParser, TLC

CONSTANT InheritedNames

MCInherited == [name \in {<<w>> : w \in InheritedNames} |-> 0]

MCNumber ==
    EmptyWord :> 0 @@ "20" :> 2000 @@ "5" :> 500 @@ "10.5" :> 1050 @@
    "1" :> 100 @@ "01" :> 100 @@ "11" :> 1100 @@ "0.5" :> 50 @@
    "benchmark" :> NaN @@ "lowestfitness" :> NaN @@ "abc" :> NaN

MCWords == DOMAIN MCNumber

Param(key, value) == [kind |-> "comment", key |-> key, value |-> value]

TextLine(columns, model, benchmark, fitness) ==
    [kind |-> "text", columns |-> columns, model |-> model,
     benchmark |-> benchmark, fitness |-> fitness]

Best == <<"DE", "best", "1", "binomial", "greedy">>
Rand == <<"DE", "rand", "3", "exponential", "sts">>

MCLines ==
    {[kind |-> "blank"], Header,
     Param("my dataset", EmptyWord), Param("np", "20"), Param("np", "10.5"),
     Param("np", "5"), Param("f", "0.5"), Param("f", "1"), Param("f", EmptyWord),
     TextLine(3, Best, "1", "0.5"),
     TextLine(3, Best, "01", "20"),
     TextLine(3, Rand, "1", "0.5"),
     TextLine(3, Best, "5", EmptyWord),
     TextLine(3, Best, "5", "abc"),
     TextLine(3, Best, "11", "0.5"),
     TextLine(3, Best, "0.5", "0.5"),
     TextLine(2, Rand, "1", EmptyWord),
     TextLine(3, <<"best", "greedy">>, "1", "0.5"),
     TextLine(3, <<"DE", "best", "1", "greedy", "binomial">>, "1", "0.5")}
    \cup {TextLine(3, <<"DE", "best", "1", "binomial", w>>, "1", "0.5") :
             w \in InheritedNames}
=============================================================================
