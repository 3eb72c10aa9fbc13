------------------------------- MODULE MCDesktop -------------------------------
(***************************************************************************)
(* The desktop app's windows on small instances: two keys, three days, four *)
(* releases, two connections, two workspaces of runs, three requests of two *)
(* projects, and four scenes of collections.                                *)
(***************************************************************************)
EXTENDS Desktop, TLC

CONSTANTS k1, k2, p1, p2, r1, n1, n2, c1, c2, w1, w2

None2 == [assertion |-> << >>, hook |-> << >>]
D(b, in) == [body |-> b, mark |-> FALSE, inline |-> [None2 EXCEPT !.assertion = in]]
File(doc, as) == [doc |-> doc, lists |-> [None2 EXCEPT !.assertion = as]]
MCRequests == {r1, n1, n2}
MCRootOf == [f \in MCRequests |-> IF f = n2 THEN p2 ELSE p1]
MCTyped == {D("a", << >>), D("broken", << >>)}
MCStored ==
  {[f \in MCRequests |-> IF f = r1 THEN File(D("a", <<c1>>), <<c2>>) ELSE File(D(None, << >>), << >>)]}

R(tag, version, build, package, sum) ==
  [tag |-> tag, version |-> version, build |-> build, package |-> package, sum |-> sum]
MCReleases == {R("v0", 0, "b0", TRUE, "package"), R("v1", 1, "b1", TRUE, "package"), R("v1", 1, "b2", TRUE, "sums"),
               R("v2", 2, "b2", TRUE, "nowhere"), R("v2", 2, "b2", FALSE, "sums")}
MCFilters == {[method |-> None, class |-> None], [method |-> "GET", class |-> "2xx"]}

Dir(n) == <<n, 0, 0>>
Req(n) == <<n, 0, 1>>
Nm(n) == <<n, 0>>
Meta(n, o) == [name |-> Nm(n), order |-> o, hooks |-> None]
Def(n, u) == [name |-> Nm(n), text |-> "old", uses |-> u]
Coll == <<Dir("c")>>
Fold == <<Dir("c"), Dir("f")>>
Files1 == [dirs |-> Coll :> Meta("c", <<Dir("f"), Req("a")>>) @@ Fold :> Meta("f", << >>),
          reqs |-> Append(Coll, Req("a")) :> Def("a", None) @@ Append(Fold, Req("a")) :> Def("a", None),
          envs |-> [e \in {} |-> None], secrets |-> [e \in {} |-> None]]
Variables1 == [dirs |-> Coll :> Meta("c", <<Req("a")>>),
  reqs |-> Append(Coll, Req("a")) :> Def("a", "x") @@ Append(Coll, Req("b")) :> Def("b", "x"),
  envs |-> 1 :> ("x" :> [secret |-> TRUE, plain |-> None]), secrets |-> 1 :> ("x" :> "hush")]
Scene(store, names, uses, ms, ts, cs, es, ss) ==
  [stored |-> store, names |-> {Nm(n) : n \in names}, texts |-> {[text |-> "new", uses |-> uses]},
   envs |-> ms, tabs |-> ts, changes |-> cs, edits |-> es, slips |-> ss]
MCScenes == {Scene(Files1, {"b"}, None, 0, 1, 2, 1, 0), Scene(Files1, {"a", "b"}, None, 0, 2, 1, 1, 0),
  Scene(Variables1, {}, "y", 2, 1, 2, 1, 0), Scene(Variables1, {"b"}, "y", 2, 1, 1, 1, 1)}

B(key, until, product, signed) == [key |-> key, until |-> until, product |-> product, signed |-> signed]
MCBlobs == {B(k1, 2, "forge", TRUE), B(k2, 1, "forge", TRUE), B(k1, 3, "forge", FALSE), B(k1, 3, "other", TRUE)}

(* The runs of the history start in one workspace, up to symmetry; the other one
   has a snapshot with another environment. *)
MCInit ==
  DesktopInit /\ (focus = "history" => /\ ws = w1 /\ env = "dev" /\ defs = [w \in {w1, w2} |-> "GET"]
                                      /\ snaps[w1] = None /\ snaps[w2] = "prod")
MCSpec == MCInit /\ [][DesktopNext]_allVars
================================================================================
