------------------------------- MODULE MCOpenApi -------------------------------
(***************************************************************************)
(* Inputs of OpenApi, and what holds of each.                              *)
(***************************************************************************)
EXTENDS OpenApi

IntS(mn, xm, mx) == [k |-> "integer", min |-> mn, xmin |-> xm, max |-> mx]
Str(mn, mx) == [k |-> "string", min |-> mn, max |-> mx]
Obj(ps, req) == [k |-> "object", props |-> ps, required |-> req]
Scalars == {IntS(a, b, c) : a \in {None, 1}, b \in {None, 2}, c \in {None, 4}}
             \cup {Str(0, None), Str(8, None), Str(0, 2)}
             \cup {[k |-> "integer", min |-> 1, xmin |-> None, max |-> None,
                    nullable |-> TRUE]}
Objects(S) == {Obj([n \in {"a"} |-> s], r) : s \in S, r \in {{}, {"a"}}}
Level1 == Objects(Scalars) \cup
          {[k |-> "array", min |-> m, items |-> s] : m \in {0, 2}, s \in Scalars}
AnyOf(s, t) == [k |-> "anyOf", parts |-> <<s, t>>]
AllOf(s, t) == [k |-> "allOf", parts |-> <<s, t>>]
Schemas ==
  Scalars \cup Level1 \cup Objects(Level1) \cup Objects({Obj([n \in {"b"} |-> s], {"b"}) : s \in Level1})
  \cup {AnyOf(s, t) : s \in Scalars, t \in {IntS(None, None, None)}}
  \cup {AllOf(s, Obj([n \in {"c"} |-> t], {"c"})) : s \in Objects(Scalars), t \in {Str(0, None)}}

Pr(n, r) == [name |-> n, required |-> r]
Responses ==
  {<<>>, <<[k |-> "default", schema |-> None]>>,
   <<[k |-> "class", class |-> 2, schema |-> Str(0, None)],
     [k |-> "code", code |-> 200, schema |-> IntS(1, None, None)]>>,
   <<[k |-> "code", code |-> 204, schema |-> None],
     [k |-> "class", class |-> 4, schema |-> Str(0, None)],
     [k |-> "code", code |-> 201, schema |-> IntS(1, None, None)]>>}
Operations(schemas) ==
  {[id |-> <<"w", 1>>, method |-> m, path |-> p, query |-> q, headers |-> h,
    ctype |-> c, schema |-> s, responses |-> <<>>] :
      m \in {"post"}, p \in {<<Lit("a"), Par("id")>>, <<Lit("a")>>},
      q \in {<<>>, <<Pr("q", TRUE), Pr("o", FALSE)>>}, h \in {<<>>, <<Pr("h", TRUE)>>},
      c \in {None, "json"}, s \in schemas}
R(n, o, v) == [name |-> n, on |-> o, value |-> v]
Documents ==
  {[method |-> "get", path |-> p, bindings |-> b, query |-> q, headers |-> h, body |-> y] :
      p \in {<<Lit("z")>>, <<Lit("a"), Var("id")>>},
      b \in {[n \in {} |-> ""], [n \in {"id"} |-> "mine"]},
      q \in {<<>>, <<R("q", TRUE, "1")>>, <<R("q", FALSE, "1")>>},
      h \in {<<>>, <<R("h", FALSE, "1"), R("content-type", TRUE, "text")>>},
      y \in {None, [k |-> "integer", v |-> 0]}}
ParamRows == {SelectSeq(<<[name |-> "a", in |-> "path", of |-> v],
                          [name |-> "a", in |-> "query", of |-> v],
                          [name |-> "b", in |-> "header", of |-> v]>>,
                        LAMBDA p : p.in \in S) : S \in SUBSET {"path", "query", "header"},
                                                v \in {1, 2}}
Inputs ==
  {<<"apply", [doc |-> d, op |-> o]>> :
      d \in Documents, o \in Operations({None, IntS(1, None, None)})}
  \cup {<<"schema", s>> : s \in Schemas}
  \cup {<<"contract", [op |-> [responses |-> r], code |-> c, body |-> b]>> :
      r \in Responses, c \in {200, 201, 204, 404},
      b \in {[k |-> "integer", v |-> 1], [k |-> "string", len |-> 3]}}
  \cup {<<"suite", [folder |-> [Absent EXCEPT !.kind = f], kind |-> k, fails |-> x,
                    spec |-> [i \in DOMAIN ids |-> [id |-> ids[i], method |-> "get"]]]>> :
      f \in {"absent", "foreign", "api", "contract"}, k \in {"api", "contract"}, x \in BOOLEAN,
      ids \in {<<>>, <<<<"v", 1>>, <<"w", 1>>>>, <<<<"w", 1>>, <<"w", 2>>>>}}
  \cup {<<"ids", b>> : b \in UNION {[1..n -> {"v", "w"}] : n \in 0..4}}
  \cup {<<"refs", d>> :
      d \in [{"a", "b", "c"} ->
               {[k |-> "ref", external |-> x, to |-> t] : x \in BOOLEAN, t \in {"a", "b", "c", "gone"}}
                 \cup {[k |-> "value"]}]}
  \cup {<<"params", [path |-> p, op |-> o]>> :
      p \in ParamRows, o \in ParamRows}
  \cup {<<"generated", [o EXCEPT !.responses = r]>> :
      o \in Operations({None, IntS(1, None, None)}), r \in Responses}
  \cup {<<"import", [ws |-> w, spec |-> [file |-> "f", title |-> "new", ops |-> <<"x", "y">>],
                     selected |-> s, copy |-> c]>> :
      w \in {[specs |-> x, collections |-> 0, requests |-> <<>>, bound |-> <<>>] :
               x \in {[n \in {} |-> ""], [n \in {"f", "g"} |-> "old"]}},
      s \in SUBSET {1, 2}, c \in BOOLEAN}

Holds(topic, input) ==
  CASE topic = "apply" -> /\ ApplySettles(input.doc, input.op)
                          /\ GeneratedValuesFill(input.doc, input.op)
    [] topic = "schema" -> ExampleValid(input)
    [] topic = "contract" -> ChecksAccept(input.op, input.code, input.body)
    [] topic = "suite" -> SuiteFaithful(input.folder, input.spec, input.kind, input.fails)
    [] topic = "params" -> ParametersKept(input.path, input.op)
    [] topic = "generated" -> SuiteRequestComplete(input)
    [] topic = "import" -> ImportBound(input.ws, input.spec, input.selected, input.copy)
    [] topic = "ids" -> IdsDistinct(input)
    [] topic = "refs" -> RefsEnd(input, "a")
===============================================================================
