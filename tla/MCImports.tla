------------------------------- MODULE MCImports -------------------------------
(***************************************************************************)
(* Inputs of CollectionImports, and what holds of each.                    *)
(***************************************************************************)
EXTENDS CollectionImports

Row(k, d) == [key |-> k, value |-> "v", disabled |-> d]
Rows == {<<>>, <<Row("a", FALSE), Row(None, FALSE), Row("b", TRUE)>>}
PAuths ==
  {None} \cup {[type |-> t, cred |-> "c", in |-> "query", grant |-> g] :
                 t \in {"noauth", "basic", "apikey", "oauth2", "hawk"},
                 g \in {"client_credentials", "authorization_code_with_pkce", "password"}}
PBodies ==
  {None} \cup {[mode |-> m, disabled |-> d, language |-> l, text |-> "t",
                rows |-> <<[key |-> "a", value |-> "v", disabled |-> FALSE, type |-> "file", src |-> s]>>] :
                 m \in {"raw", "urlencoded", "formdata", "graphql", "file", "weird"},
                 d \in BOOLEAN, l \in {"json", "yaml", "python"}, s \in {<<>>, <<"f", "g">>}}
Urls == {[k |-> "object", raw |-> r, host |-> "h", path |-> "p", query |-> q, variable |-> v] :
           r \in {[base |-> "b"]}, q \in Rows, v \in Rows}
        \cup {[k |-> "text", base |-> "b"]}
Event(l, d, c) == [listen |-> l, disabled |-> d, code |-> c]
Events == {<<>>, <<Event("test", TRUE, "x"), Event("test", FALSE, ""), Event("test", FALSE, "y")>>,
           <<Event("prerequest", FALSE, "x"), Event("prerequest", FALSE, "y")>>}
PRequest(r, e, s) == [k |-> "request", name |-> "r", auth |-> None, request |-> r, events |-> e, saved |-> s]
Requests ==
  {PRequest([k |-> "object", method |-> m, url |-> u, auth |-> a, body |-> b, headers |-> h], e, s) :
     m \in {"get", "brew"}, u \in Urls, a \in PAuths, b \in {None, [mode |-> "weird", disabled |-> FALSE]},
     h \in Rows, e \in Events, s \in BOOLEAN}
  \cup {PRequest([k |-> "object", method |-> "post", url |-> u, auth |-> None, body |-> b, headers |-> <<>>],
                 <<>>, FALSE) : u \in Urls, b \in PBodies}
  \cup {PRequest([k |-> "text", url |-> [base |-> "b"]], <<>>, FALSE)}
AnyRequest == PRequest([k |-> "text", url |-> [base |-> "b"]], <<>>, FALSE)
Folder(n, items) == [k |-> "folder", name |-> n, auth |-> None, events |-> <<>>, items |-> items]
Odd == [k |-> "odd", name |-> "o", auth |-> None]
Level(S) == {<<>>} \cup {<<x>> : x \in S} \cup {<<x, y>> : x, y \in S}
Leaves == {AnyRequest, Odd}
Roots ==
  {[name |-> n, listed |-> l, events |-> <<>>, auth |-> None, variables |-> {}, items |-> i] :
     n \in {"c"}, l \in BOOLEAN,
     i \in Level(Leaves \cup {Folder(f, s) : f \in {"f", "g"}, s \in Level(Leaves \cup {Folder("h", <<Odd>>)})})}
Environments ==
  {[name |-> "e", values |-> v] :
     v \in UNION {[1..n -> {[key |-> k, value |-> x, secret |-> s] :
                              k \in {"a", "b", None}, x \in {"", "1"}, s \in BOOLEAN}] : n \in 0..2}}

Pair(n, v) == [k |-> "pair", name |-> n, value |-> v, tilde |-> FALSE]
Open(n) == [k |-> "open", name |-> n, bracket |-> "{", indented |-> FALSE]
Close == [k |-> "close", bracket |-> "{", indented |-> FALSE]
Block(n, ls) == <<Open(n)>> \o ls \o <<Close>>
Meta(n, s) == Block("meta", <<Pair("name", n), Pair("seq", s)>>)
Bru(n, ls) == [k |-> "bru", name |-> n, lines |-> ls]
BDir(n, m, es) == [k |-> "dir", name |-> n, meta |-> m, entries |-> es]
Entries ==
  {Bru("a", Block("get", <<Pair("url", "u"), Pair("auth", "basic")>>)
              \o Block("auth:wsse", <<>>) \o Block("tests", <<Pair("x", "y")>>)),
   Bru("b", Meta("b", 2) \o Block("post", <<Pair("body", "json")>>)
              \o Block("assert", <<[k |-> "pair", name |-> "res.status", tilde |-> FALSE,
                                    value |-> [op |-> None, rest |-> "200"]],
                                   [k |-> "pair", name |-> "res.body", tilde |-> TRUE,
                                    value |-> [op |-> None, rest |-> "isNull"]]>>)
              \o Block("vars:post-response", <<Pair("t", "res.body"), Pair("s", "req.url")>>)
              \o Block("body:xml", <<>>)),
   Bru("c", Meta("c", 1) \o Block("trace", <<>>)),
   BDir("environments", None, <<>>), BDir("a", None, <<[k |-> "file", name |-> "x"]>>),
   BDir("c", Meta("a", 3), <<>>), BDir("b", None, <<Bru("a", Block("get", <<>>))>>)}
SortKey(e) == LET meta == IF e.k = "bru" THEN e.lines ELSE IF e.meta = None THEN <<>> ELSE e.meta
                  m == DictBlock(ParseBlocks(meta), "meta")
              IN IF m = <<>> THEN <<e.name, NoSeq>> ELSE <<Field(m, "name"), Field(m, "seq")>>
SmallSets(S, n) == {T \in SUBSET S : Cardinality(T) <= n}
Collections ==
  {[marker |-> TRUE, collection |-> Block("auth:basic", <<>>), environments |-> <<Block("vars", <<Pair("v", "1")>>)>>,
    entries |-> SetToSeq(es)] : es \in {s \in SmallSets(Entries, 4) :
      \A e, f \in s : e # f => SortKey(e) # SortKey(f)}}
Inner == {Pair("a", "1"), [k |-> "close", bracket |-> "{", indented |-> TRUE],
          [k |-> "open", name |-> "b", bracket |-> "{", indented |-> TRUE],
          [k |-> "close", bracket |-> "[", indented |-> FALSE]}
Written ==
  UNION {[1..n -> {[name |-> m, bracket |-> "{", lines |-> ls] :
                     m \in {"meta", "body:json", "body:xml"}, ls \in Level(Inner)}] : n \in 0..1}
  \cup {<<[name |-> "body:xml", bracket |-> "{", lines |-> ls],
          [name |-> "vars:secret", bracket |-> "[", lines |-> <<Pair("s", "")>>],
          [name |-> "body:json", bracket |-> "{", lines |-> <<Pair("x", "y")>>]>> : ls \in Level(Inner)}

Inputs ==
  {<<"request", r>> : r \in Requests} \cup {<<"tree", r>> : r \in Roots}
  \cup {<<"environment", e>> : e \in Environments}
  \cup {<<"bruno", c>> : c \in Collections} \cup {<<"blocks", w>> : w \in Written}
Holds(topic, input) ==
  CASE topic = "request" -> LossesReported(input)
    [] topic = "tree" -> ItemsKept(input)
    [] topic = "environment" -> SecretsApart(input)
    [] topic = "bruno" -> ListingIrrelevant(input)
    [] topic = "blocks" -> BlocksKept(input)
===============================================================================
