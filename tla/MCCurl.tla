-------------------------------- MODULE MCCurl --------------------------------
(***************************************************************************)
(* Inputs of CurlSnippets, and what holds of each.                         *)
(***************************************************************************)
EXTENDS CurlSnippets

Row(n, v, on) == [name |-> n, value |-> v, on |-> on]
Query(n, v, on, k) == [name |-> n, value |-> v, on |-> on, kind |-> k]
Part(n, file, type, on) == [name |-> n, file |-> file, value |-> <<"v">>, type |-> type, on |-> on]
Text(n, v) == [name |-> n, file |-> FALSE, value |-> v, type |-> None, on |-> TRUE]
Bodies ==
  {[k |-> "none"], [k |-> "binary", path |-> "f"], [k |-> "xml", text |-> <<"x">>]}
  \cup {[k |-> "graphql", query |-> "q", variables |-> v, operation |-> o] :
           v \in {"bad", "", "{}"}, o \in {None, "op"}}
  \cup {[k |-> "json", text |-> t] : t \in {<<"{}">>, <<"-", "1", "2">>, <<"not json">>, <<>>}}
  \cup {[k |-> "raw", text |-> t, language |-> l] :
           t \in {<<"1">>, <<"@", "f">>, <<"x", "continued">>}, l \in {"json", "text", "yaml"}}
  \cup {[k |-> "form", fields |-> f] :
          f \in {<<Row("a", <<"x", "&", "=">>, TRUE), Row("b", <<"y">>, FALSE), Row("c", <<>>, TRUE)>>,
                 <<Row("a", <<"x">>, TRUE), Row("a", <<"y">>, TRUE)>>, <<Row("a", <<"x">>, FALSE)>>,
                 <<Row("a", <<"x", " ", "y">>, TRUE)>>, <<Row("a", <<"@", "f">>, TRUE)>>}}
  \cup {[k |-> "multipart", parts |-> <<Part("a", f, t, TRUE), Part(n, FALSE, None, on)>>] :
          f \in BOOLEAN, t \in {None, "text"}, n \in {"a", "b"}, on \in BOOLEAN}
  \cup {[k |-> "multipart", parts |-> <<Text("a", <<"@", "f">>)>>],
        [k |-> "multipart", parts |-> <<Part("a", FALSE, None, FALSE)>>]}
Simple == {[k |-> "none"], [k |-> "raw", text |-> <<"1">>, language |-> "json"]}
Auths ==
  {[k |-> "inherit"], [k |-> "none"], [k |-> "oauth2"],
   [k |-> "bearer", prefix |-> None, token |-> "t"]}
  \cup {[k |-> s, user |-> "u", pass |-> p] :
          s \in {"basic", "digest"}, p \in {<<"p">>, <<"p", ":", "q">>}}
  \cup {[k |-> "apikey", key |-> "key", value |-> "v", in |-> i] : i \in {"header", "query"}}
Url == <<"https", "://", "h">>
Urls == {Url, <<"h">>, Url \o <<"?", "z">>, Url \o <<"?", "key", "=", "1">>, Url \o <<"?">>,
         Url \o <<"#", "f">>, Url \o <<"/:", "p", "/:", "q">>}
Queries ==
  {<<>>, <<Query("q", <<"1">>, TRUE, "query"), Query("p", <<"2", "/">>, TRUE, "path"),
           Query("o", <<"3">>, FALSE, "query")>>,
   <<Query("q", <<"1", "&", "2">>, TRUE, "query")>>, <<Query("key", <<"a", " ", "b">>, TRUE, "query")>>}
HeaderRows ==
  {<<>>, <<Row("content-type", <<"application/json">>, TRUE), Row("x", <<"y", ":", "z">>, TRUE),
           Row("off", <<>>, FALSE), Row("", <<"v">>, TRUE)>>,
   <<Row("x", <<"1">>, TRUE), Row("x", <<"2">>, TRUE), Row("key", <<"own">>, TRUE)>>,
   <<Row("authorization", <<"own">>, TRUE), Row("content-type", <<"text/plain">>, TRUE)>>}
Request(m, u, q, h, a, b) ==
  [method |-> m, url |-> u, params |-> q, headers |-> h, auth |-> a, body |-> b,
   follow |-> IF m = "post" THEN TRUE ELSE None, verify |-> IF m = "post" THEN FALSE ELSE None]
Definitions ==
  {Request(m, u, q, h, a, b) : m \in {"get", "post"}, u \in Urls, q \in Queries, h \in HeaderRows,
                               a \in Auths, b \in Simple}
  \cup {Request(m, Url, <<>>, h, a, b) : m \in {"get", "post"}, h \in HeaderRows, a \in Auths, b \in Bodies}

Options ==
  {<<Opt("X"), <<"put">>>>, <<<<"-", "X", "put">>>>, <<<<"-", "s", "S", "L">>>>,
   <<<<"-", "s", "H", "k", ":", "v">>>>, <<<<"--", "H", "=", "k", ":", "v">>>>,
   <<Opt("d"), <<"a", "=", "@", "f">>>>, <<Long("data-urlencode"), <<"=", "a", "&">>>>,
   <<Opt("F"), <<"a", "=", "@", "f", ";type=", "t">>>>, <<Opt("I")>>, <<Opt("G")>>,
   <<Opt("u"), <<"u">>>>, <<Opt("b"), <<"c">>>>, <<Opt("x"), <<"proxy">>>>,
   <<Long("compressed")>>, <<Long("retry"), <<"3">>>>, <<Opt("T"), <<"file">>>>,
   <<Opt("o"), <<"out">>>>, <<Opt("A"), <<"agent">>>>, <<Opt("e"), <<"ref">>>>,
   <<Long("unknown")>>, <<Opt("g")>>}
Inputs == {<<"request", d>> : d \in Definitions}
          \cup {<<"command", <<o, p>>>> : o \in Options, p \in Options}
Holds(topic, input) ==
  CASE topic = "request" -> RoundTrip(input) /\ SnippetsAgree(input)
    [] topic = "command" -> AddressAnywhere(<<Url>>, input[1], input[2])
===============================================================================
