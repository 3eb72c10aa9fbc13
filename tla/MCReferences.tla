------------------------------ MODULE MCReferences ------------------------------
(***************************************************************************)
(* Inputs of References, and what holds of each.                           *)
(***************************************************************************)
EXTENDS References

Assets == Append(Root, <<"assets">>)
Name(stem, e) == <<stem, ".", e>>
J == Append(Assets, Name("u", "json"))
Schema == Append(Assets, <<"u", ".", "schema", ".", "json">>)
Meta == Append(Assets, <<"u", ".", "meta", ".", "json">>)
V == Assets \o <<<<"vendor">>, Name("u", "json")>>
Hid == Assets \o <<<<".", "old">>, Name("u", "json")>>
A == Append(Assets, Name("a", "js"))
B == Assets \o <<<<"hooks">>, Name("b", "js")>>
BTs == Assets \o <<<<"hooks">>, Name("b", "ts")>>
Dotted == Append(Assets, <<"a", ".", "v2", ".", "js">>)
BareDir == Assets \o <<<<"hooks">>, <<"b">>>>
Linked == Append(Assets, Name("l", "json"))
Outside == <<<<"o">>, Name("x", "json")>>
Req == Root \o <<<<"requests">>, <<"r">>>>

Doc(v) == [l \in {<<"x", "n">>, <<"y">>} |-> IF l = <<"y">> THEN v ELSE "0"]
Text(d, m, r) == [doc |-> d, meta |-> m, rejects |-> r]
Contents(v, m, r) ==
  [f \in {J, V, Hid, Schema, Meta, A, B, BTs, Dotted, Outside} |->
     CASE f \in {J, V, Hid} -> Text(v, None, {}) [] f = Schema -> Text(None, None, r)
       [] f = Meta -> Text(None, m, {}) [] OTHER -> Text(None, None, {})]
Fs(files, dirs, links, text) == [files |-> files, dirs |-> dirs, links |-> links, text |-> text]
NoLinks == [p \in {} |-> None]
Dirs == {Root, Assets, Append(Assets, <<"hooks">>), Append(Root, <<"requests">>)}
Alias(a, t) == [alias |-> a, target |-> t]
Aliases ==
  {<<>>, <<Alias(<<"data:", "u">>, <<"assets", "/", "u", ".", "json">>)>>,
   <<Alias(<<"as">>, <<".", "/", "assets", "/">>)>>,
   <<Alias(<<"as">>, <<"assets">>), Alias(<<"as", "/", "hooks">>, <<"requests">>)>>,
   <<Alias(<<"as", "/", "hooks">>, <<"assets", "/", "hooks">>), Alias(<<"z">>, <<"assets", "/", "a", ".", "js">>)>>,
   <<Alias(<<"gone">>, <<"nowhere">>)>>, <<Alias(<<"up">>, <<"..", "/", "o">>)>>}
Systems ==
  {Fs(fs, Dirs \cup ds, NoLinks, Contents(Doc("1"), None, {})) :
     fs \in {{J, A, B}, {J, B, BTs, Dotted}, {A, BTs}}, ds \in {{}, {BareDir}}}
  \cup {Fs({J, Outside}, Dirs \cup {<<<<"o">>>>}, [p \in {Linked} |-> Outside], Contents(Doc("1"), None, {}))}
Bases == {Append(Root, <<"requests">>), Assets}
Raws ==
  {<<"as", "/", "hooks", "/", "b">>, <<"as", "/", "a", ".", "js">>, <<"as">>, <<"as", "sets", "/", "x">>,
   <<"data:", "u", "#", "/", "x">>, <<"data:", "gone">>, <<":", "x">>, <<"builtin:", "uuid", "@", "1">>,
   <<".", ".", "/", "a">>, <<"..", "/", "assets", "/", "u", ".", "json">>,
   <<"..", "/", "assets", "/", "l", ".", "json">>, <<"l", ".", "json">>,
   <<"..", "/", "..", "/", "o", "/", "x", ".", "json">>, <<"/", "o", "/", "x", ".", "json">>,
   <<"as", "/", "..", "/", "..", "/", "o">>, <<"a", "\\", "b">>, <<"gone", "/", "x">>,
   <<"z", "@", "2">>, <<"..", "/", "assets", "/", "a", "@", "x">>}
Documents == {{[path |-> Req, refs |-> <<[at |-> 1, raw |-> x], [at |-> 2, raw |-> <<"l", ".", "json">>]>>]} : x \in Raws}
Desc(p, s) == [scheme |-> s, address |-> J, pointer |-> p, version |-> None]
Reads == {[desc |-> d, patch |-> q] :
            d \in {Desc(p, "file") : p \in {None, <<"x">>, <<"y">>, <<"q">>}} \cup {Desc(None, "builtin")},
            q \in {<<>>, <<[op |-> "replace", path |-> <<"n">>, value |-> "9"]>>,
                   <<[op |-> "add", path |-> <<"y">>, value |-> "8"], [op |-> "replace", path |-> <<"z">>, value |-> "7"]>>}}
DataSystems ==
  {Fs(fs, Dirs, NoLinks, Contents(d, m, r)) :
     fs \in {{J}, {J, Schema, Meta}, {A, Schema}}, d \in {Doc("1"), Doc("2"), None},
     m \in {None, [title |-> "t", names |-> <<"a", "a">>]}, r \in {{}, {"2"}, {"all"}}}
LockSystems ==
  {Fs(fs, Dirs, NoLinks, Contents(d, m, r)) :
     fs \in {{J, V}, {J, Schema, Meta}, {Schema}, {Hid}}, d \in {Doc("1"), Doc("2"), None},
     m \in {None, [title |-> "t", names |-> <<"a", "a">>]}, r \in {{}, {"2"}}}

Inputs ==
  {<<"suggest", [fs |-> f, aliases |-> a, base |-> b]>> : f \in Systems, a \in Aliases, b \in Bases}
  \cup {<<"inside", [fs |-> f, aliases |-> a, raw |-> w, base |-> b]>> :
          f \in Systems, a \in Aliases, w \in Raws, b \in Bases}
  \cup {<<"broken", [fs |-> f, aliases |-> a, docs |-> d]>> : f \in Systems, a \in Aliases, d \in Documents}
  \cup {<<"patch", [fs |-> f, one |-> x, two |-> y]>> : f \in DataSystems, x \in {r \in Reads : r.patch # <<>>}, y \in Reads}
  \cup {<<"lock", [before |-> f, after |-> g, desc |-> [Desc(None, "file") EXCEPT !.address = a]]>> :
          f \in LockSystems, g \in LockSystems, a \in {J, V, Hid}}
Holds(topic, input) ==
  CASE topic = "suggest" -> /\ SuggestionResolves(input.fs, input.aliases, input.base)
                            /\ "assets" \in DOMAIN Scan(input.fs, input.aliases, {})
                                 \/ ~Ok(Resolver(input.fs, input.aliases))
    [] topic = "inside" -> StaysInside(input.fs, input.aliases, input.raw, input.base)
    [] topic = "broken" -> BrokenMeansUnloadable(input.fs, input.aliases, input.docs)
    [] topic = "patch" -> PatchIsLocal(input.fs, input.one, input.two)
    [] topic = "lock" -> LockedReadsTheSame(input.before, input.after, input.desc)
===============================================================================
