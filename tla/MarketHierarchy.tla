--------------------------- MODULE MarketHierarchy ---------------------------
(***************************************************************************)
(* build_market_hierarchy (src/application/market_hierarchy.rs): the walk  *)
(* of IG's navigation, one request per node, depth first, under a bound on *)
(* the depth because IG lists nodes and markets under several parents.     *)
(*                                                                         *)
(* The recursion is a stack of the answers being worked through.  The tree *)
(* it returns is the list of its nodes, each before its children and with  *)
(* the depth it stands at.                                                 *)
(***************************************************************************)
EXTENDS Naturals, Sequences, FiniteSets

CONSTANTS
  Nodes,        \* ids of navigation nodes
  Markets,      \* EPICs: a market becomes a node whose id is its EPIC
  Root,         \* what the top-level request asks for
  MaxDepth,     \* the depth below which nothing is asked (7)
  Graphs,       \* what IG's navigation may be: what each node lists
  None          \* None of an Option

Listings == [nodes : Seq(Nodes), markets : Seq(Markets)]
Ids      == Nodes \cup Markets

ASSUME HierarchyAssumption ==
  /\ MaxDepth \in Nat
  /\ Graphs \subseteq [Nodes \cup {Root} -> Listings] /\ Graphs # {}
  /\ Root \notin Ids /\ None \notin Ids \cup {Root} /\ Nodes \cap Markets = {}

VARIABLES
  graph,        \* IG's navigation at the time of the walk
  status,       \* "idle", "walking", and how the last walk returned: "ok", "error"
  wanted,       \* the node being asked for
  stack,        \* per level, the listed nodes and markets still to be processed
  found         \* the tree so far

walk == <<graph, status, wanted, stack, found>>

\* "cut" is history: the code names a node whose listing was not answered as any other.
Kinds == {"node", "cut", "error", "market"}

Depth == Len(stack) - 1

Entry(id, kind) == [id |-> id, level |-> Depth, kind |-> kind]

Marked(kind) == [found EXCEPT ![Len(found)].kind = kind]

WalkInit ==
  /\ graph = CHOOSE g \in Graphs : TRUE
  /\ status = "idle"
  /\ wanted = None
  /\ stack = <<>>
  /\ found = <<>>

\* IG may have changed its navigation since the last walk.
Build ==
  /\ status # "walking"
  /\ graph' \in Graphs
  /\ status' = "walking"
  /\ wanted' = Root
  /\ stack' = <<>>
  /\ found' = <<>>

Answered ==
  /\ wanted # None
  /\ stack' = Append(stack, graph[wanted])
  /\ wanted' = None
  /\ UNCHANGED <<graph, status, found>>

\* Mutant: an error below the top level ends the walk of its level.
RefusedLevel ==
  /\ wanted \notin {None, Root}
  /\ wanted' = None
  /\ found' = Marked("error")
  /\ stack' = [stack EXCEPT ![Len(stack)].nodes = <<>>]
  /\ UNCHANGED <<graph, status>>

\* Mutant: a request that fails is put back to be repeated.
RefusedAgain ==
  /\ wanted \notin {None, Root}
  /\ wanted' = None
  /\ found' = SubSeq(found, 1, Len(found) - 1)
  /\ stack' = [stack EXCEPT ![Len(stack)].nodes = <<wanted>> \o @]
  /\ UNCHANGED <<graph, status>>

\* A request that fails: the node stays, without children, and the walk goes on.  A rate
\* limit or an unexpected answer leaves its name, any other error is written into it.
Refused ==
  /\ wanted \notin {None, Root}
  /\ wanted' = None
  /\ \E kind \in {"cut", "error"} : found' = Marked(kind)
  /\ UNCHANGED <<graph, status, stack>>

\* Only the top-level request fails the walk.
RefusedRoot ==
  /\ wanted = Root
  /\ wanted' = None
  /\ status' = "error"
  /\ UNCHANGED <<graph, stack, found>>

\* Mutant: one level more is asked for.
AtBoundLate == Depth > MaxDepth

AtBound == Depth + 1 > MaxDepth

\* The next listed node; at the bound it is kept without asking for its children.
Descend ==
  /\ wanted = None /\ stack # <<>>
  /\ LET listed == stack[Len(stack)].nodes IN
       /\ listed # <<>>
       /\ stack' = [stack EXCEPT ![Len(stack)].nodes = Tail(listed)]
       /\ found' = Append(found, Entry(Head(listed), "node"))
       /\ wanted' = IF AtBound THEN None ELSE Head(listed)
  /\ UNCHANGED <<graph, status>>

\* All nodes of a level are done: its markets become leaves and the level returns.
Ascend ==
  /\ wanted = None /\ stack # <<>>
  /\ LET level == stack[Len(stack)] IN
       /\ level.nodes = <<>>
       /\ found' = found \o [i \in DOMAIN level.markets |-> Entry(level.markets[i], "market")]
  /\ stack' = SubSeq(stack, 1, Depth)
  /\ status' = IF Depth = 0 THEN "ok" ELSE status
  /\ UNCHANGED <<graph, wanted>>

WalkStep == Answered \/ Refused \/ RefusedRoot \/ Descend \/ Ascend
-----------------------------------------------------------------------------
(* Properties.                                                             *)

Levels == 0 .. MaxDepth

WalkTypeOK ==
  /\ graph \in Graphs
  /\ status \in {"idle", "walking", "ok", "error"}
  /\ wanted \in Nodes \cup {Root, None}
  /\ stack \in Seq(Listings)
  /\ found \in Seq([id : Ids, level : Levels, kind : Kinds])

\* The entries below the i-th one, up to the next that is not deeper.
Below(i) ==
  {j \in i + 1 .. Len(found) : \A k \in i + 1 .. j : found[k].level > found[i].level}

\* The n-th of some places.
Nth(places, n) == CHOOSE j \in places : Cardinality({k \in places : k <= j}) = n

IdsOf(places) == [n \in 1 .. Cardinality(places) |-> found[Nth(places, n)].id]

ListedIn(id) == graph[id].nodes \o graph[id].markets

\* The tree of a walk that returned tells IG's navigation: below each node exactly what IG
\* lists there, in its order, unless its request failed or it stands at the bound; a
\* failure never loses a sibling, and nothing stands under a node that was not asked for.
WalkTells ==
  status = "ok" =>
    /\ IdsOf({j \in DOMAIN found : found[j].level = 0}) = ListedIn(Root)
    /\ \A i \in DOMAIN found :
         IdsOf({j \in Below(i) : found[j].level = found[i].level + 1}) =
           IF found[i].kind = "node" /\ found[i].level < MaxDepth
           THEN ListedIn(found[i].id)
           ELSE <<>>

\* The walk returns, whatever cycles IG's navigation has and whatever requests fail.
WalkReturns == status = "walking" ~> status # "walking"
=============================================================================
