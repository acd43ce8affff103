------------------------------ MODULE RenderGraph ------------------------------
(***************************************************************************)
(* The render graph of a window (rendergraph/): the statements that build  *)
(* it,                                                                     *)
(*     graph += pass1[+a]->stores(b) >> pass2[-b]->stores(~c) >> pass3;    *)
(* evaluated from left to right, and RenderGraph::generate, which decides  *)
(* for every attachment which render passes load, preserve, are the source *)
(* of and are the sink of it.  The build is one with CWDEBUG, in which the *)
(* alerts of the notation are compiled.                                    *)
(*                                                                         *)
(* Render passes are numbers; the graph is acyclic, as the code demands:   *)
(* a pass is only followed by higher ones.  Sets of passes, ordered by     *)
(* address in the code, are visited in the order of these numbers.  An     *)
(* expression has at most one modifier and one store per attachment, which *)
(* is all that the notation allows; modifiers are followed by stores(...), *)
(* and one without a store of an attachment stores some attachment that is *)
(* not in the set.  Generation ends where it does for the test suite: the  *)
(* layouts and the vulkan render passes are not modelled.                  *)
(***************************************************************************)
EXTENDS Naturals, FiniteSets, FiniteSetsExt

CONSTANTS
    NumberOfPasses, Attachments,
    MaxStatements,      \* bound on the statements graph = ... and graph += ...
    NoPass              \* no render pass

ASSUME RenderGraphAssumption == NumberOfPasses \in Nat /\ NoPass \notin 1 .. NumberOfPasses

Passes == 1 .. NumberOfPasses

Modifiers == {"", "+", "-", "~"}

Stores == {"", "s", "~s"}

VARIABLES
    m_known_attachments,    \* of each pass: a function from attachments to sets of operations
    m_remove_or_dontcare_attachments,
    m_stores_called,        \* the passes for which stores() was called
    m_subsequent_render_pass, m_preceding_render_pass,
    m_incoming_vertices, m_outgoing_vertices,
    m_sources,              \* also the passes with statements that started there
    last,                   \* the right-most stream of the statement so far
    statements,             \* the number of statements
    links,                  \* every >> that was written (not in the code)
    m_is_source, m_is_sink, \* pairs of a pass and an attachment
    outcome                 \* "building", "generated", an alert, or a failed assertion

nodeVars == <<m_known_attachments, m_remove_or_dontcare_attachments, m_stores_called>>
edgeVars == <<m_subsequent_render_pass, m_preceding_render_pass, links>>
vertexVars == <<m_incoming_vertices, m_outgoing_vertices, m_sources>>
markVars == <<m_is_source, m_is_sink>>
graphVars == <<nodeVars, edgeVars, vertexVars, markVars, last, statements, outcome>>

GraphInit ==
    /\ m_known_attachments = [p \in Passes |-> <<>>]
    /\ m_remove_or_dontcare_attachments = [p \in Passes |-> {}]
    /\ m_stores_called = {}
    /\ m_subsequent_render_pass = [p \in Passes |-> NoPass]
    /\ m_preceding_render_pass = [p \in Passes |-> NoPass]
    /\ m_incoming_vertices = [p \in Passes |-> {}]
    /\ m_outgoing_vertices = [p \in Passes |-> {}]
    /\ m_sources = {}
    /\ last = NoPass /\ statements = 0 /\ links = {}
    /\ m_is_source = {} /\ m_is_sink = {}
    /\ outcome = "building"

is_known(p, a) == a \in DOMAIN m_known_attachments[p]

Has(p, a, op) == is_known(p, a) /\ op \in m_known_attachments[p][a]

--------------------------------------------------------------------------------

(* The node of one attachment, in one pass: [known, ops, removed, alert]. *)

Node(known, removed, p, a) ==
    [known   |-> a \in DOMAIN known[p],
     ops     |-> IF a \in DOMAIN known[p] THEN known[p][a] ELSE {},
     removed |-> a \in removed[p],
     alert   |-> FALSE]

get_node(node) == [node EXCEPT !.alert = @ \/ (~node.known /\ node.removed), !.known = TRUE]

set_load(node) == [node EXCEPT !.alert = @ \/ node.ops \cap {"load", "clear"} # {}, !.ops = @ \cup {"load"}]

set_clear(node) == [node EXCEPT !.alert = @ \/ node.ops \cap {"load", "clear"} # {}, !.ops = @ \cup {"clear"}]

set_store(node) == [node EXCEPT !.ops = @ \cup {"store"}]

Modified(node, modifier) ==
    CASE modifier = ""  -> node
      [] modifier = "+" -> set_load(get_node(node))
      [] modifier = "~" -> set_clear(get_node(node))
      [] modifier = "-" -> [node EXCEPT !.alert = node.known \/ node.removed, !.removed = TRUE]

store_attachment(node, store) ==
    CASE store = ""   -> node
      [] store = "s"  -> LET n == get_node(node)
                         IN  set_store([n EXCEPT !.alert = @ \/ "clear" \in n.ops])
      [] store = "~s" -> set_clear(set_store(get_node(node)))

preceding_render_pass_stores(node) ==
    IF node.removed THEN [node EXCEPT !.removed = FALSE] ELSE set_load(get_node(node))

do_load_dont_cares(node) == IF node.removed THEN [get_node([node EXCEPT !.removed = FALSE]) EXCEPT !.removed = FALSE] ELSE node

\* The nodes of a pass become these; an alert ends the construction of the graph.
SetNodes(p, nodes) ==
    /\ m_known_attachments' = [m_known_attachments EXCEPT ![p] =
            [a \in {a \in Attachments : nodes[a].known} |-> nodes[a].ops]]
    /\ m_remove_or_dontcare_attachments' = [m_remove_or_dontcare_attachments EXCEPT ![p] =
            {a \in Attachments : nodes[a].removed}]

NodesOf(p) == [a \in Attachments |-> Node(m_known_attachments, m_remove_or_dontcare_attachments, p, a)]

\* The value of p[modifiers]->stores(stores).
Expression(p, modifiers, stores) ==
    [a \in Attachments |-> store_attachment(Modified(NodesOf(p)[a], modifiers[a]), stores[a])]

Alert(nodes) == \E a \in Attachments : nodes[a].alert

link(p, q) ==
    /\ m_subsequent_render_pass' = [m_subsequent_render_pass EXCEPT ![p] = q]
    /\ m_preceding_render_pass' = [m_preceding_render_pass EXCEPT ![q] = p]
    /\ links' = links \cup {<<p, q>>}

--------------------------------------------------------------------------------

CanBuild == outcome = "building" /\ statements < MaxStatements

\* A statement starts with p[...]->stores(...), or with a pass as it is.
FirstStores(p, modifiers, stores) ==
    /\ CanBuild /\ last = NoPass
    /\ SetNodes(p, Expression(p, modifiers, stores))
    /\ m_stores_called' = m_stores_called \cup {p}
    /\ outcome' = IF Alert(Expression(p, modifiers, stores)) \/ p \in m_stores_called THEN "alert" ELSE outcome
    /\ last' = <<p, "stream">>
    /\ UNCHANGED <<edgeVars, vertexVars, markVars, statements>>

FirstRaw(p) ==
    /\ CanBuild /\ last = NoPass
    /\ last' = <<p, "pass">>
    /\ UNCHANGED <<nodeVars, edgeVars, vertexVars, markVars, statements, outcome>>

\* What operator>> does between two streams: a stored attachment is loaded, unless it is removed.
Inform(p, q, nodes) ==
    [a \in Attachments |-> do_load_dont_cares(
        IF Has(p, a, "store") THEN preceding_render_pass_stores(nodes[a]) ELSE nodes[a])]

\* ... >> q[...]->stores(...)
ThenStores(q, modifiers, stores) ==
    /\ CanBuild /\ last # NoPass /\ last[1] < q
    /\ LET p == last[1]
           expression == Expression(q, modifiers, stores)
           nodes == IF last[2] = "stream" THEN Inform(p, q, expression) ELSE expression
       IN  /\ SetNodes(q, nodes)
           /\ outcome' = IF Alert(nodes) \/ q \in m_stores_called THEN "alert" ELSE outcome
           /\ link(p, q)
    /\ m_stores_called' = m_stores_called \cup {q}
    /\ last' = <<q, "stream">>
    /\ UNCHANGED <<vertexVars, markVars, statements>>

\* ... >> q
ThenRaw(q) ==
    /\ CanBuild /\ last # NoPass /\ last[1] < q
    /\ link(last[1], q)
    /\ last' = <<q, "stream">>
    /\ UNCHANGED <<nodeVars, vertexVars, markVars, statements, outcome>>

(* Traversals. *)

\* The passes that are reached from S, including S; every one is visited once.
Reachable(vertices, S) ==
    {q \in Passes : \A T \in SUBSET Passes :
        S \subseteq T /\ (\A p \in T : vertices[p] \subseteq T) => q \in T}

\* The pass, if any, that a pass points to.
Pointer(pass) == [p \in Passes |-> {pass[p]} \ {NoPass}]

\* RenderPassStream::get_source.
get_source(p) ==
    CHOOSE q \in Reachable(Pointer(m_preceding_render_pass), {p}) : m_preceding_render_pass[q] = NoPass

\* A pass and what follows it by the subsequent links.
Chain(p) == Reachable(Pointer(m_subsequent_render_pass), {p})

\* RenderGraph::operator+=.
Assign ==
    /\ CanBuild /\ last # NoPass
    /\ LET source == get_source(last[1])
           Follows(p, q) == p \in Chain(source) /\ m_subsequent_render_pass[p] = q
       IN  /\ SetNodes(source, [a \in Attachments |-> do_load_dont_cares(NodesOf(source)[a])])
           /\ m_sources' = m_sources \cup {source}
           /\ m_incoming_vertices' = [q \in Passes |-> m_incoming_vertices[q] \cup {p \in Passes : Follows(p, q)}]
           /\ m_outgoing_vertices' = [p \in Passes |-> m_outgoing_vertices[p] \cup {q \in Passes : Follows(p, q)}]
    /\ last' = NoPass /\ statements' = statements + 1
    /\ UNCHANGED <<m_stores_called, edgeVars, markVars, outcome>>

--------------------------------------------------------------------------------

(* Generation. *)

\* The passes that the first traversal finds, by the subsequent links.
Listed == UNION {Chain(p) : p \in m_sources}

RealSources == {p \in Listed : m_incoming_vertices[p] = {}}

\* The passes that all later traversals find.
Visited == Reachable(m_outgoing_vertices, RealSources)

(* for_all_render_passes_until, backwards from a pass p that loads a: depth first, until a pass that
   stores it; the passes on the path in between that know about it have to preserve it.  The path
   is a set, since a pass is only followed by higher ones: the search is at the lowest. *)
SearchStep(p, a, found) ==
    LET at == IF found.path = {} THEN p ELSE Min(found.path)
        next == m_incoming_vertices[at] \ found.visited
        q == Min(next)
        seen == [found EXCEPT !.visited = @ \cup {q}]
        between == {r \in found.path : is_known(r, a)}
    IN  IF next = {}
        THEN [found EXCEPT !.path = @ \ {at}]
        ELSE IF Has(q, a, "store")
        THEN [seen EXCEPT !.stores = @ \cup {q},
                          !.preserve = @ \cup between,
                          !.twice = @ \/ found.preserve \cap between # {}]
        ELSE IF Has(q, a, "clear")
        THEN [seen EXCEPT !.hidden = TRUE]
        ELSE [seen EXCEPT !.path = @ \cup {q}]

\* A pass is put on the path and taken from it at most once.
SearchStores(p, a) ==
    LET found[n \in Nat] ==
            IF n = 0
            THEN [path |-> {}, visited |-> {p}, stores |-> {}, preserve |-> {}, twice |-> FALSE, hidden |-> FALSE]
            ELSE SearchStep(p, a, found[n - 1])
    IN  found[2 * NumberOfPasses]

LoadsOf(a) == {p \in Visited : Has(p, a, "load")}

\* Mutant: several stores are not noticed.
NoStoreAlert ==
    \E a \in Attachments : \E p \in LoadsOf(a) :
        LET found == SearchStores(p, a) IN found.hidden \/ found.stores = {}

\* No store, several stores, or a clear is visible from a pass that loads an attachment.
LoadAlert ==
    \E a \in Attachments : \E p \in LoadsOf(a) :
        LET found == SearchStores(p, a) IN found.hidden \/ Cardinality(found.stores) # 1

\* LoadStoreOps::set_preserve asserts that a pass only loads, and was not told to
\* preserve before.
PreserveAssertion ==
    \E a \in Attachments : \E p \in LoadsOf(a) :
        LET found == SearchStores(p, a)
        IN  \/ found.twice
            \/ \E q \in found.preserve : m_known_attachments[q][a] # {"load"}
            \/ \E r \in LoadsOf(a) \ {p} : found.preserve \cap SearchStores(r, a).preserve # {}

Preserving(a) == UNION {SearchStores(p, a).preserve : p \in LoadsOf(a)}

\* A search forwards or backwards finds a pass that knows the attachment.
KnownBeyond(vertices, p, a) == \E q \in Reachable(vertices, vertices[p]) : is_known(q, a)

Generate ==
    /\ outcome = "building" /\ last = NoPass /\ statements > 0
    /\ m_sources' = RealSources
    /\ outcome' \in
        IF LoadAlert \/ PreserveAssertion
        THEN {o \in {"alert", "assertion"} : (o = "alert" /\ LoadAlert) \/ (o = "assertion" /\ PreserveAssertion)}
        ELSE {"generated"}
    /\ IF outcome' = "generated"
       THEN /\ m_known_attachments' = [p \in Passes |->
                    [a \in DOMAIN m_known_attachments[p] |->
                        m_known_attachments[p][a] \cup IF p \in Preserving(a) THEN {"preserve"} ELSE {}]]
            /\ m_is_sink' = {pa \in Visited \X Attachments :
                    Has(pa[1], pa[2], "store") /\ ~KnownBeyond(m_outgoing_vertices, pa[1], pa[2])}
            /\ m_is_source' = {pa \in Visited \X Attachments :
                    is_known(pa[1], pa[2]) /\ ~KnownBeyond(m_incoming_vertices, pa[1], pa[2])}
       ELSE UNCHANGED <<m_known_attachments, markVars>>
    /\ UNCHANGED <<m_remove_or_dontcare_attachments, m_stores_called, edgeVars,
                   m_incoming_vertices, m_outgoing_vertices, last, statements>>

AnyModifiers == [Attachments -> Modifiers]

AnyStores == [Attachments -> Stores]

Build ==
    \E p \in Passes :
        \/ \E modifiers \in AnyModifiers, stores \in AnyStores :
              FirstStores(p, modifiers, stores) \/ ThenStores(p, modifiers, stores)
        \/ FirstRaw(p)
        \/ ThenRaw(p)

GraphNext == Build \/ Assign \/ Generate

GraphSpec == GraphInit /\ [][GraphNext]_graphVars

--------------------------------------------------------------------------------

Accepted == outcome = "generated"

\* The results that a vulkan render pass is created with.
get_load_op(p, a) ==
    CASE Has(p, a, "load") -> "load" [] Has(p, a, "clear") -> "clear" [] OTHER -> "dont_care"

\* Mutant: a pass that preserves does not store.
StoresOnly(p, a) == IF Has(p, a, "store") THEN "store" ELSE "dont_care"

get_store_op(p, a) == IF Has(p, a, "store") \/ Has(p, a, "preserve") THEN "store" ELSE "dont_care"

Vertices == {pq \in Passes \X Passes : pq[2] \in m_outgoing_vertices[pq[1]]}

\* Every element is a vertex away from the next one.
Linked(S) ==
    \A p, q \in S : p < q /\ (\A r \in S : ~(p < r /\ r < q)) => <<p, q>> \in Vertices

\* The paths from p to q, as the sets of passes strictly in between.
Paths(p, q) == {S \in SUBSET {r \in Passes : p < r /\ r < q} : p < q /\ Linked(S \cup {p, q})}

\* The passes whose store of a reaches p along some path on which nothing stores again.
VisibleStores(p, a) ==
    {s \in Passes : Has(s, a, "store") /\ \E S \in Paths(s, p) : \A r \in S : ~Has(r, a, "store")}

\* In a graph that is accepted, what a render pass loads was stored by exactly one pass,
\* whatever path led to it, and nothing on the way clears it.
\* (RenderGraph::generate, by a search that visits every pass once.)
LoadsHaveOneStore ==
    Accepted => \A p \in Visited, a \in Attachments : get_load_op(p, a) = "load" =>
        /\ Cardinality(VisibleStores(p, a)) = 1
        /\ \A s \in VisibleStores(p, a) : \A S \in Paths(s, p) :
              (\A r \in S : ~Has(r, a, "store")) => \A r \in S : get_load_op(r, a) # "clear"

\* A sink is the last pass to know the attachment it stores; a source the first one.
SourcesAndSinks ==
    Accepted => \A p \in Visited, a \in Attachments :
        /\ <<p, a>> \in m_is_sink <=>
              Has(p, a, "store") /\ ~\E q \in Passes : Paths(p, q) # {} /\ is_known(q, a)
        /\ <<p, a>> \in m_is_source <=>
              is_known(p, a) /\ ~\E q \in Passes : Paths(q, p) # {} /\ is_known(q, a)

\* From a store to the pass that loads it there is a path on which every pass that knows about
\* the attachment stores it again without having changed it.  When there is one path, these are
\* all the passes in between.  (RenderGraph::generate, which marks the path of its search.)
PreservedOnAPath ==
    Accepted => \A p \in Visited, a \in Attachments : get_load_op(p, a) = "load" =>
        \A s \in VisibleStores(p, a) : \E S \in Paths(s, p) : \A r \in S :
            is_known(r, a) => ~Has(r, a, "store") /\ get_store_op(r, a) = "store"

\* The same on all paths.
PreservedOnAllPaths ==
    Accepted => \A p \in Visited, a \in Attachments : get_load_op(p, a) = "load" =>
        \A s \in VisibleStores(p, a) : \A S \in Paths(s, p) :
            \A r \in S : is_known(r, a) => get_store_op(r, a) = "store"

\* Every >> of the statements is a vertex of the graph.
EveryLinkIsAVertex == Accepted => links \subseteq Vertices
================================================================================
