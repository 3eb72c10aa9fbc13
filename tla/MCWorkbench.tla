------------------------------ MODULE MCWorkbench ------------------------------
(***************************************************************************)
(* The pure parts of the program on enumerated inputs.  A behaviour picks a *)
(* part and a group of its inputs, then one input of the group; the         *)
(* properties of that step compare what the program's functions make of the *)
(* input with what they owe it.                                             *)
(***************************************************************************)
EXTENDS Integers, Sequences

CONSTANTS None

VARIABLES part, group, topic, input
vars == <<part, group, topic, input>>

Api == INSTANCE MCOpenApi WITH MaxHops <- 2, MaxDepth <- 2
Curl == INSTANCE MCCurl
Imports == INSTANCE MCImports
Refs == INSTANCE MCReferences WITH Root <- <<<<"p">>>>
Build == INSTANCE MCBuild WITH Names <- <<"a", "b", "c">>
Checks == INSTANCE MCChecks WITH MaxU16 <- 65535, MaxAssertions <- 5
Files == INSTANCE MCProjectFiles WITH Validating <- {"status"}
Cli == INSTANCE MCCli
  WITH Names <- <<"/", "..", "a.r", "b.r", "d", "link", "link.r", "other", "out", "p", "project.json",
                  "requests", "s", "target">>,
       RequestNames <- {"a.r", "b.r", "link.r"}, IgnoredNames <- {"target"}

(* How many groups of inputs the parts have. *)
Groups == [openapi |-> 1, curl |-> 1, imports |-> 1, references |-> 1, build |-> 1,
           checks |-> 9, files |-> 10, cli |-> 9]

Init == /\ part \in DOMAIN Groups /\ group \in 1..Groups[part]
        /\ topic = None /\ input = None

Pick(inputs) == \E x \in inputs : topic' = x[1] /\ input' = x[2]

Next == /\ topic = None
        /\ UNCHANGED <<part, group>>
        /\ \/ part = "openapi" /\ Pick(Api!Inputs)
           \/ part = "curl" /\ Pick(Curl!Inputs)
           \/ part = "imports" /\ Pick(Imports!Inputs)
           \/ part = "references" /\ Pick(Refs!Inputs)
           \/ part = "build" /\ Pick(Build!Inputs)
           \/ part = "checks" /\ Pick(Checks!Inputs[group])
           \/ part = "files" /\ Pick(Files!Inputs[group])
           \/ part = "cli" /\ Pick(Cli!Inputs[group])
Spec == Init /\ [][Next]_vars

(* What OpenAPI documents, curl commands and foreign collections become says
   what they said; see OpenApi, CurlSnippets and CollectionImports. *)
ConversionsSound ==
  [][/\ part = "openapi" => Api!Holds(topic', input')
     /\ part = "curl" => Curl!Holds(topic', input')
     /\ part = "imports" => Imports!Holds(topic', input')]_vars

(* References resolve to what they name, requests are built from it, and the
   project's files survive what is done to them; see References, RequestBuild
   and ProjectFiles. *)
ProjectSound ==
  [][/\ part = "references" => Refs!Holds(topic', input')
     /\ part = "build" => Build!Holds(topic', input')
     /\ part = "files" => Files!Holds(topic', input')]_vars

(* Checks decide what they say, and the command line runs what it was asked
   for and tells how it ended; see Checks and Cli. *)
RuntimeSound ==
  [][/\ part = "checks" => Checks!Holds(topic', input')
     /\ part = "cli" => Cli!Holds(topic', input')]_vars
================================================================================
