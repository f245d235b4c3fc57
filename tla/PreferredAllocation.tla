------------------------- MODULE PreferredAllocation --------------------------
(***************************************************************************)
(* GetPreferredAllocation: which of the available devices kubelet should   *)
(* take for a container.  Weights of pairs say how far GPUs are apart; the *)
(* allocator builds candidate sets by taking GPUs whole, and one of them   *)
(* in part, and prefers the one with the best total.  A device is          *)
(* <<node, k>>, the k-th split of a KFD node; the partitions of a GPU are  *)
(* nodes of their own.                                                     *)
(***************************************************************************)
EXTENDS Integers, FiniteSets, Sequences, SequencesExt, FiniteSetsExt

\* Nodes with slots, the splits of each KFD node, gpu and numa of each, and link, the kind
\* of the link between two: "xgmi", "pcie" or "none".  A GPU is its rank by id.
CONSTANTS Topologies

ASSUME TopologiesAssumption ==
  \A t \in Topologies : t.slots \in Seq(Nat) /\ t.gpu \in [DOMAIN t.slots -> Nat]

VARIABLES
  topo, spread,                \* the allocator: what Init read, and its policy
  available, required, size,   \* kubelet's request
  groups,                       \* free NodeIds of each GPU, GPUs with fewer first
  todo, built, candidate,      \* subsetsTemp, subsetsFinal and the best of these
  idx,                         \* the GPU that the first of todo was extended by last
  reply, doing

preferVars == <<topo, spread, available, required, size, groups, todo, built, candidate, idx, reply, doing>>
asked      == <<topo, spread, available, required, size>>

Devices(t) == UNION {{<<n, k>> : k \in 1 .. t.slots[n]} : n \in DOMAIN t.slots}
\* A device of another plugin that kubelet mixed in.
Ghost == <<0, 1>>
Known(S) == S \ {Ghost}
Count(S, n) == Cardinality({d \in S : d[1] = n})
Below(S, n) == Cardinality({d \in S : d[1] < n})
Nodes       == DOMAIN topo.slots

-------------------------------------------------------------------------------
(* Weights                                                                 *)

LinkWeight(kind) == CASE kind = "xgmi" -> 10 [] kind = "pcie" -> 40 [] OTHER -> 50

\* Splits of one node have no pair and weigh nothing.
PairWeight(a, b) ==
  IF a = b THEN 0
  ELSE (IF topo.gpu[a] = topo.gpu[b] THEN 10 ELSE 20)
       + LinkWeight(topo.link[{a, b}])
       + (IF topo.numa[a] = topo.numa[b] THEN 10 ELSE 20)

\* How often NodeId n is in a sequence.
Times(ids, n) == Cardinality({k \in DOMAIN ids : ids[k] = n})

\* Of n[a] devices of each node a: every two of different nodes are a pair.
WeightOf(n) ==
  MapThenSumSet(LAMBDA p : n[p[1]] * n[p[2]] * PairWeight(p[1], p[2]), {p \in Nodes \X Nodes : p[1] < p[2]})

\* Of a sequence of NodeIds.
TotalWeight(ids) == WeightOf([a \in Nodes |-> Times(ids, a)])

-------------------------------------------------------------------------------
(* Candidates                                                              *)

\* Of the devices in S, in ascending order: the k-th is of the node below which there
\* are fewer than k, and no longer with its own.
NodeIds(S) ==
  [k \in 1 .. Cardinality(S) |-> CHOOSE n \in Nodes : Below(S, n) < k /\ k <= Below(S, n) + Count(S, n)]

OfGPU(S, g) == {d \in S : topo.gpu[d[1]] = g}
GPUsOf(S)   == {topo.gpu[d[1]] : d \in S}

\* Mutant: GPUs with more free partitions come first.
EmptiestFirst(S, g, h) ==
  LET a == Cardinality(OfGPU(S, g))  b == Cardinality(OfGPU(S, h))
  IN  a > b \/ (a = b /\ g < h)
\* The order of the GPUs.
Fewer(S, g, h) ==
  LET a == Cardinality(OfGPU(S, g))  b == Cardinality(OfGPU(S, h))
  IN  a < b \/ (a = b /\ g < h)

\* The GPUs with their free partitions, those with fewer first.
FilterPartitions(S) ==
  LET Rank(g) == Cardinality({h \in GPUsOf(S) : Fewer(S, h, g)}) + 1
  IN  [i \in 1 .. Cardinality(GPUsOf(S)) |-> NodeIds(OfGPU(S, CHOOSE g \in GPUsOf(S) : Rank(g) = i))]

\* Mutant: must-include devices are candidates.
FreeOrNot == Known(available)
\* The devices the candidates are built from.
Free == Known(available) \ required
\* What the candidates hold beyond must-include.
NewSize == size - Cardinality(Known(required))

\* GPU i added to a candidate, whole or as far as it is needed.  Its weight counts
\* must-include.
Add1(c, i) ==
  LET k   == Min({NewSize - Len(c.ids), Len(groups[i])})
      ids == c.ids \o SubSeq(groups[i], 1, k)
  IN  [ids |-> ids, weight |-> TotalWeight(ids \o NodeIds(Known(required))),
       last |-> i, taken |-> c.taken \cup {i}]

Whole(c, i) == Len(groups[i]) <= NewSize - Len(c.ids)

\* Mutant: GPUs are added in increasing order only.
AddsUpwards(c) == {i \in DOMAIN groups : i > c.last}
\* GPUs taken whole come in increasing order; one that ends the set may be a lower one.
Adds(c) == {i \in DOMAIN groups : i \notin c.taken /\ ~(i < c.last /\ Whole(c, i))}

NoGPU == [ids |-> <<>>, weight |-> 0, last |-> 0, taken |-> {}]

\* Mutant: spread is ignored.
CloserIsBetter(w, v) == w < v
Better(w, v) == IF spread THEN w > v ELSE w < v

-------------------------------------------------------------------------------
(* The call                                                                *)

Reply(S) == reply' = S /\ doing' = "replied" /\ UNCHANGED <<asked, groups, todo, built, candidate, idx>>

\* kubelet asks for no more than is available, must-include among it.
PreferInit ==
  /\ topo \in Topologies /\ spread \in BOOLEAN
  /\ available \in SUBSET (Devices(topo) \cup {Ghost})
  /\ required \in SUBSET available
  /\ size \in {k \in 1 .. Cardinality(available) : Cardinality(required) <= k}
  /\ groups = <<>> /\ todo = <<>> /\ built = <<>> /\ candidate = NoGPU
  /\ idx = 0 /\ reply = {} /\ doing = "asked"

Exact == Cardinality(available) = size \/ Cardinality(required) = size
OneGPU == Cardinality(Nodes) = 1
Unregistered == Cardinality(Known(available)) < size

TakeAll ==
  /\ doing = "asked" /\ Exact
  /\ Reply(IF Cardinality(available) = size THEN available ELSE required)

\* Without pair weights, must-include and others.
TakeAny ==
  /\ doing = "asked" /\ ~Exact /\ OneGPU
  /\ \E others \in kSubset(size - Cardinality(required), available \ required) :
       Reply(required \cup others)

\* The allocator fails with too few devices it knows: must-include first, as kubelet
\* named them.
Echo ==
  /\ doing = "asked" /\ ~Exact /\ ~OneGPU /\ Unregistered
  /\ \E others \in kSubset(size - Cardinality(required), available \ required) :
       Reply(required \cup others)

Group ==
  /\ doing = "asked" /\ ~Exact /\ ~OneGPU /\ ~Unregistered
  /\ groups' = FilterPartitions(Free)
  /\ todo' = <<NoGPU>> /\ doing' = "build"
  /\ UNCHANGED <<asked, built, candidate, idx, reply>>

\* The candidate is extended by one GPU after the other; those that are full are final.
Extend ==
  /\ doing = "build" /\ todo # <<>>
  /\ \E i \in Adds(Head(todo)) :
       LET e == Add1(Head(todo), i)
       IN  /\ i > idx /\ \A j \in Adds(Head(todo)) : j > idx => i <= j
           /\ idx' = i
           /\ \/ Len(e.ids) = NewSize /\ built' = Append(built, e) /\ todo' = todo
              \/ Len(e.ids) # NewSize /\ todo' = Append(todo, e) /\ built' = built
  /\ UNCHANGED <<asked, groups, candidate, reply, doing>>

\* The candidate was extended by every GPU.
Extended ==
  /\ doing = "build" /\ todo # <<>>
  /\ \A j \in Adds(Head(todo)) : j <= idx
  /\ todo' = Tail(todo) /\ idx' = 0
  /\ UNCHANGED <<asked, groups, built, candidate, reply, doing>>

\* The first of the candidates with the best weight.
Choose ==
  /\ doing = "build" /\ todo = <<>> /\ doing' = "take"
  /\ \E k \in DOMAIN built :
       /\ \A j \in DOMAIN built : /\ ~Better(built[j].weight, built[k].weight)
                                  /\ built[j].weight = built[k].weight => k <= j
       /\ candidate' = built[k]
  /\ UNCHANGED <<asked, groups, todo, built, idx, reply>>

\* As many devices of each NodeId as the candidate holds, or as there are, must-include
\* not among them; which splits of a node is left to the sort.
Take ==
  /\ doing = "take"
  /\ \E S \in SUBSET Free :
       /\ \A n \in Nodes : Count(S, n) = Min({Times(candidate.ids, n), Count(Free, n)})
       /\ Reply(required \cup S)

PreferNext == TakeAll \/ TakeAny \/ Echo \/ Group \/ Extend \/ Extended \/ Choose \/ Take

PreferSpec == PreferInit /\ [][PreferNext]_preferVars

-------------------------------------------------------------------------------
(* Properties                                                              *)

\* kubelet gets its must-include devices and others it named, as many as it asked for.
\* A must-include device that the plugin does not know makes the reply longer.
ReplyFits ==
  doing = "replied" =>
    /\ required \subseteq reply /\ reply \subseteq available
    /\ Cardinality(reply) >= size
    /\ Ghost \notin required => Cardinality(reply) = size

\* A device that the choice S takes, with one of the same GPU that it leaves.
InPart(S) == {p \in (S \ required) \X (Free \ S) : topo.gpu[p[1][1]] = topo.gpu[p[2][1]]}

\* At most one GPU is taken in part, from its first partition on: so the search builds it.
Buildable(S) ==
  \A p, q \in InPart(S) : topo.gpu[p[1][1]] = topo.gpu[q[1][1]] /\ p[1][1] <= p[2][1]

NoBetter(S) ==
  LET w == TotalWeight(NodeIds(S))
      v == TotalWeight(NodeIds(reply))
  IN  IF spread THEN w <= v ELSE w >= v

\* No choice of that size is closer together, though few of them are candidates; with
\* the policy spread, none that is a candidate is farther apart.
BestScore ==
  doing = "replied" /\ Ghost \notin available =>
    \A S \in kSubset(size, available) :
      required \subseteq S /\ (spread => Buildable(S)) => NoBetter(S)

\* Of the GPUs that can hold the request alone, one with the fewest free devices does:
\* "this way we can avoid fragmentation of gpus".
LeastFragmenting ==
  LET free(g)  == {d \in Known(available) : topo.gpu[d[1]] = g}
      fitting  == {g \in {topo.gpu[n] : n \in DOMAIN topo.gpu} : Cardinality(free(g)) >= size}
  IN  doing = "replied" /\ ~spread /\ required = {} /\ Ghost \notin available /\ fitting # {} =>
        \E g \in fitting :
          /\ reply \subseteq free(g)
          /\ \A h \in fitting : Cardinality(free(g)) <= Cardinality(free(h))

\* How many NodeIds of each GPU a candidate has.
Shares(c) ==
  [i \in DOMAIN groups |-> Cardinality({k \in DOMAIN c.ids : topo.gpu[c.ids[k]] = topo.gpu[groups[i][1]]})]

\* The number of devices in the shares x.
Total(x) == Cardinality(UNION {{i} \X (1 .. x[i]) : i \in DOMAIN groups})

\* Shares as large as the request, at most one of them a part of a GPU.
OneInPart ==
  LET Part(x, i) == x[i] \notin {0, Len(groups[i])}
  IN  {x \in [DOMAIN groups -> 0 .. NewSize] :
         /\ Total(x) = NewSize
         /\ \A i \in DOMAIN groups : x[i] <= Len(groups[i])
         /\ \A i, j \in DOMAIN groups : Part(x, i) /\ Part(x, j) => i = j}

\* All sets in which at most one GPU is taken in part are candidates, each once: "gpus
\* taken whole are added in increasing index order so every set is built once".
EverySetOnce ==
  doing = "build" /\ todo = <<>> =>
    /\ \A k \in DOMAIN built : Shares(built[k]) \in OneInPart
    /\ \A x \in OneInPart : \E k \in DOMAIN built : \A j \in DOMAIN built : Shares(built[j]) = x <=> j = k

===============================================================================
