-------------------------------- MODULE MCChecks --------------------------------
(***************************************************************************)
(* Inputs of Checks, and what holds of each.                               *)
(***************************************************************************)
EXTENDS Checks

Texts1 == {<<>>, <<"a">>, <<"A">>, <<"a", "b">>}
One == Num(1, FALSE)
OneF == Num(1, TRUE)
Leaves == {Null, One, OneF, Num(2, FALSE), Str(<<"a">>), Str(<<"1">>)}
Inner == Leaves \cup {Arr(<<>>), Arr(<<One>>), Arr(<<Str(<<"a">>), OneF>>), Obj([k \in {} |-> Null]), Obj([x |-> One]),
                      Obj([x |-> Str(<<"a">>), y |-> Null])}
Bodies == {None} \cup Inner
  \cup {Obj([x |-> v]) : v \in Inner} \cup {Obj([x |-> v, y |-> w]) : v \in {Str(<<"a">>), Arr(<<One, One>>)}, w \in Inner}
  \cup {Arr(<<v, w>>) : v, w \in {One, OneF, Obj([x |-> One]), Arr(<<One>>), Str(<<"a", "b">>)}}
Response(status, headers, body, text, time) ==
  [status |-> status, headers |-> headers, body |-> body, text |-> text, time |-> time]
Plain(body) == Response(200, <<<<"content-type", <<"a">>>>>>, body, <<"a", "b">>, 1)
HeaderSets == {<<>>} \cup {<<<<"h", v>>>> : v \in Texts1} \cup {<<<<"h", v>>, <<"h", w>>>> : v, w \in {<<"a">>, <<"A">>, <<"b">>}}
  \cup {<<<<"content-type", v>>>> : v \in {<<"a">>, <<"A", "b", ";", "c">>, <<"a", " ", ";">>, <<";">>, <<"a", "b">>}}
Paths == {<<"$">>, <<"$", "x">>, <<"$", "y">>, <<"$", "0">>, <<"$", "1">>, <<"$", "*">>, <<"$", "*", "x">>, <<"$", "x", "0">>, <<"x">>}
JsonChecks == [type : {"jsonPath"}, path : Paths, value : Leaves \cup {Arr(<<One>>), Str(<<"(">>), Str(<<"x">>), Str(<<>>)},
               op : {"equals", "notEquals", "contains", "matches", "exists", "notExists", "lt", "gte"}]
OtherChecks ==
  [type : {"statusCode"}, op : {"eq", "ne", "lt"}, value : {200, 201}]
  \cup [type : {"statusClass"}, class : {2, 4}]
  \cup [type : {"header"}, name : {"h", "content-type"}, value : Texts1,
        op : {"equals", "notEquals", "contains", "notContains", "matches", "exists", "notExists"}]
  \cup [type : {"contentType"}, value : {<<"a">>, <<"a", "b">>, <<"b">>}]
  \cup [type : {"bodyContains", "bodyMatches"}, value : Texts1 \cup {<<"(">>}]
  \cup [type : {"responseTimeBelow"}, maxMs : {0, 1, 500}]
  \cup [type : {"jsonSchema"}, schema : {"object", "number"}]
Def(c, enabled, note) == [check |-> c, enabled |-> enabled, note |-> note]
Defs == {Def(c, e, n) : c \in OtherChecks, e \in BOOLEAN, n \in {"", "n"}}
Responses ==
  {Response(s, h, b, t, 1) : s \in {200, 404}, h \in HeaderSets, b \in {None, One, Obj([x |-> One])}, t \in {<<>>, <<"a", "b">>}}
Extractors ==
  [from : {"jsonPath"}, path : Paths, var : {<<"v">>, <<>>}, scope : {"runtime", "environment"}]
  \cup [from : {"header"}, name : {"h"}, var : {<<"v">>, <<>>}, scope : {"runtime"}]
  \cup [from : {"regex"}, pattern : {<<"a">>, <<"c">>, <<"(">>}, group : {0, 1}, var : {<<"v">>}, scope : {"runtime"}]
Options == [depth : 0..2, values : BOOLEAN]
Times == {0, 1, 166, 167, 10000}

Declared(res) == <<[type |-> "statusCode", op |-> "eq", value |-> res.status]>>
Contracts(res) == {<<>>, Declared(res)}
  \cup {Append(Declared(res), [type |-> "contentType", value |-> v]) : v \in {<<"a">>, <<"A", "b">>}}
  \cup {Append(Declared(res), [type |-> "jsonSchema", schema |-> v]) : v \in {"object", "number"}}

Sourced(ns, path) == Str(<<"${", ns, ".">> \o path \o <<"}">>)
StringValues == {Str(<<>>), Str(<<"a">>), Str(<<" ", "a">>), Str(<<" ">>), Sourced("env", <<"u">>), Sourced("else", <<"u">>), Sourced("env", <<>>),
                 Sourced("env", <<"u", "}", "-", "${", "env", ".", "v">>), One}
Withs(p) ==
  CASE p.name = "path" -> {Str(<<"$", "x">>), Str(<<"x">>)}
    [] p.name # "path" /\ p.kind = "string" -> StringValues \cup {Str(o) : o \in p.options}
    [] p.kind = "integer" -> {One, OneF, Num(0, FALSE), Num(MaxU16 + 1, FALSE), Str(<<"1">>), Sourced("env", <<"u">>)}
    [] p.kind = "json" -> {Null, One, OneF, Str(<<>>), Str(<<" ">>), Sourced("env", <<"u">>), Obj([x |-> One])}
EntryWiths(builtin) ==
  LET params == ToSet(Parameters[builtin])
      of(n) == CHOOSE p \in params : p.name = n
      names == {p.name : p \in params}
      all == UNION {Withs(p) : p \in params}
  IN UNION {{f \in [d -> all] : \A n \in d : f[n] \in Withs(of(n))} : d \in SUBSET names}

Inputs == <<
  {<<"check", [def |-> Def(c, TRUE, ""), res |-> Plain(b)]>> : c \in JsonChecks, b \in Bodies},
  {<<"check", [def |-> d, res |-> r]>> : d \in Defs, r \in Responses},
  {<<"extractor", [extractor |-> x, res |-> Plain(b)]>> : x \in Extractors, b \in Bodies},
  {<<"extractor", [extractor |-> x, res |-> r]>> : x \in Extractors, r \in Responses},
  {<<"generated", [res |-> [r EXCEPT !.time = t], opts |-> o]>> : r \in Responses, t \in Times, o \in Options},
  {<<"generated", [res |-> Plain(b), opts |-> o]>> : b \in Bodies, o \in Options},
  {<<"pinned", [res |-> Plain(b), other |-> Plain(c), opts |-> o]>> : b, c \in Bodies, o \in Options},
  UNION {{<<"contract", [checks |-> c, res |-> r]>> : c \in Contracts(r)} : r \in Responses},
  UNION {{<<"form", [builtin |-> b, with |-> w]>> : w \in EntryWiths(b)} : b \in DOMAIN Parameters}>>
Holds(topic, input) ==
  CASE topic = "check" -> MigratedCheckAgrees(input.def, input.res)
    [] topic = "extractor" -> MigratedExtractorAgrees(input.extractor, input.res)
    [] topic = "generated" -> GeneratedChecksHold(input.res, input.opts)
    [] topic = "pinned" -> GeneratedChecksPin(input.res, input.other, input.opts)
    [] topic = "contract" -> ContractAgrees(input.checks, input.res)
    [] topic = "form" -> FormKeepsEntry(input.builtin, input.with)
===============================================================================
