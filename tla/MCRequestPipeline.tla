-------------------------- MODULE MCRequestPipeline --------------------------
(***************************************************************************)
(* Small documents for RequestPipeline.                                    *)
(***************************************************************************)
EXTENDS RequestPipeline

Shape(before, after, onError, finally) ==
  [beforeRequest |-> before, afterResponse |-> after, onError |-> onError,
   finally |-> finally]

Js == <<"js">>

Base == [loads |-> TRUE, valid |-> TRUE, auth |-> FALSE, mock |-> "http",
         entries |-> Shape(<<>>, Js, <<>>, <<>>)]

(* Two hooks and two reactions, so that one can follow the other's error. *)
Full == [Base EXCEPT !.entries = Shape(<<"js", "builtin">>, <<"builtin", "js">>,
                                       Js, <<"builtin">>)]

Mocked == [Base EXCEPT !.mock = "dynamic", !.auth = TRUE,
                       !.entries = Shape(Js, Js, Js, Js)]

Broken == [Base EXCEPT !.loads = FALSE]
Unresolvable == [Base EXCEPT !.valid = FALSE]

MCPlans == { <<Full, Base>>, <<Base, Broken, Base>>,
             <<Base, Unresolvable, [Base EXCEPT !.mock = "none"], Base>>,
             <<Mocked, [Base EXCEPT !.mock = "static"]>> }
=============================================================================
