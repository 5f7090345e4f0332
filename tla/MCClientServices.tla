-------------------------- MODULE MCClientServices --------------------------
(* ClientServices on small instances of each service. *)
EXTENDS ClientServices, TLC

CONSTANTS n1, n2, m1, c1, c2, e1, e2, e3, writer, other, demo, live, a1, a2, v1, v2, w1, k1, k2

L(nodes, mkts) == [nodes |-> nodes, markets |-> mkts]

\* A tree, a node listed twice with a market under both parents, and a cycle.
MCGraphs == {
  (Root :> L(<<n1, n2>>, <<>>)   @@ n1 :> L(<<>>, <<m1>>)   @@ n2 :> L(<<>>, <<m1>>)),
  (Root :> L(<<n1, n2>>, <<m1>>) @@ n1 :> L(<<n2>>, <<>>)   @@ n2 :> L(<<>>, <<m1>>)),
  (Root :> L(<<n1>>, <<>>)       @@ n1 :> L(<<n2>>, <<m1>>) @@ n2 :> L(<<n1>>, <<>>)) }

\* What walks return, by a node or market and its depth: three rows with the parent of the
\* last in the batch before; what a walk leaves of it, the nodes the other way up, when
\* a request fails; the same market in two nodes, the same node in two places.
At(i, l) == [id |-> i, level |-> l]

MCTrees ==
  {<<At(n1, 0), At(n2, 0), At(m1, 1)>>, <<At(n2, 0), At(n1, 1)>>,
   <<At(n1, 0), At(m1, 1), At(n2, 0), At(m1, 1)>>, <<At(n1, 0), At(n2, 0), At(n1, 1)>>}

\* One name for both services, or one each.
MCNaming == {names \in [{writer, other} -> {demo, live}] : names[writer] = live}

MCCodeLists == {<<>>, <<c2, c1, c2>>, <<c1, Blank>>, <<Blank>>}

\* A category that needs every page the limit allows, beside an empty one; one that may be
\* too long for it, and another that lists an instrument of the first.
MCCatalogs == {
  (c1 :> <<e1, e2>>     @@ c2 :> <<>>),
  (c1 :> <<e3, e1, e2>> @@ c2 :> <<e2, e3>>) }

MCStrays == {<<>>, <<Blank>>, <<e1, e1>>, <<e3, e2>>}

K(resolution, time) == [epic |-> e1, resolution |-> resolution, time |-> time]

MCKeys == {K("minute", 1), K("hour", 1)}

MCBatches == {<<K("minute", 1), K("hour", 1)>>,
              <<K("hour", 1), BadTime, K("hour", 1)>>}

S(table, resolution, unique, orphan, trigger) ==
  [table |-> table, resolution |-> resolution, unique |-> unique, orphan |-> orphan,
   trigger |-> trigger]

\* None, as this version leaves it, a legacy one, one stopped half way, an orphan index.
MCDatabases == {
  S(FALSE, FALSE, {}, FALSE, FALSE), S(TRUE, TRUE, {"current"}, FALSE, TRUE),
  S(TRUE, FALSE, {"legacy"}, FALSE, TRUE), S(TRUE, TRUE, {}, FALSE, TRUE),
  S(TRUE, TRUE, {"legacy"}, TRUE, FALSE) }

B(max, seconds, burst) == [max_requests |-> max, period_seconds |-> seconds, burst_size |-> burst]

\* A rate that does not divide the period, one that does, and every zero.
MCBudgets == {B(2, 1, 1), B(3, 1, 2), B(0, 0, 0), B(5, 2, 0)}

\* An underlying that ends with a number, and one that does not.
MCAssets == {<<Part("word", "Germany"), Part("number", "40")>>, <<Part("word", "USDJPY")>>}

MCStrikes == {Part("number", "27500"), Part("decimal", "10.5")}

\* No key at all, and two beside a blank.
MCKeyLists == {<<BlankKey>>, <<k1, BlankKey, k2>>}

O(epic, dots, name, keys) == [epic |-> epic, dots |-> dots, name |-> name, keys |-> keys]

\* Two trees that meet in their markets in opposite orders; in one a market is listed
\* twice, under two names, and another has not the EPIC of an option.
MCWalks == {
  <<O(e1, 4, "first", {"DAX", "DAX40"}), O(e2, 4, "second", {})>>,
  <<O(e2, 4, "second", {"SPX"}), O(e3, 3, "third", {}), O(e1, 4, "other", {}),
    O(e1, 4, "first", {"SPX"})>> }
=============================================================================
