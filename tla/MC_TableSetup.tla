------------------------------ MODULE MC_TableSetup -----------------------------
(***************************************************************************)
(* A small instance of TableSetup: no endpoint, DynamoDB Local, an endpoint*)
(* of AWS given in full, and one behind a gateway whose address ends in    *)
(* "dynamodb", which isLocalEndpoint takes for local; the names of the     *)
(* suites' environment, and a name for the users alone.                    *)
(***************************************************************************)
EXTENDS TableSetup, TLC

MCPlace == "unset" :> "aws" @@ "http://localhost:8000" :> "local" @@
           "https://dynamodb.amazonaws.com" :> "aws" @@
           "https://gateway.example/dynamodb" :> "aws"

MCEndpoints == DOMAIN MCPlace
MCLocal == {"http://localhost:8000", "https://gateway.example/dynamodb"}

MCNamings ==
    {Suffixed(""), Suffixed(TEST_SUFFIX),
     [k \in Tables |-> IF k = 1 THEN "other" ELSE ""]}
================================================================================
