--------------------------- MODULE MCIncremental ----------------------------
(* An image that gathers what an application installs.  The application uses  *)
(* a library, which needs headers and is linked by the developer, and a tool, *)
(* which comes out the same whatever the generator that made it, and keeps    *)
(* the generator from those that use it.  The headers change, or the          *)
(* generator, and change back.                                                *)
EXTENDS Incremental, Traversals

AllPackages == {"image", "app", "tool", "library", "headers", "generator"}
Graph ==
    [image |-> <<"app">>, app |-> <<"library", "tool">>, library |-> <<"headers">>,
     tool |-> <<"generator">>, headers |-> <<>>, generator |-> <<>>]
Changing == {"headers", "generator"}
AllSources ==
    {[p \in AllPackages |-> IF p = changed THEN 2 ELSE 1] : changed \in Changing \cup {"none"}}
Outputs == [p \in AllPackages |-> <<"old", "new">>]
Image == {"image"}
Tool == {"tool"}
Library == {"library"}
ToolAndLibrary == {"tool", "library"}
AllButTool == AllPackages \ {"tool"}
Nobody == {}
AllOrders == {<<{}, FALSE>>, <<{}, TRUE>>, <<{"app"}, FALSE>>}

(* The loops over the dependencies find what is reached, in any graph of four *)
(* packages, in whatever order it is listed and whatever stops them.          *)
Lists(S) == {s \in UNION {[1 .. n -> S] : n \in 0 .. Cardinality(S)} : IsInjective(s)}
Four == {"image", "app", "library", "headers"}
Graphs ==
    {[p \in AllPackages |-> IF p \in Four THEN g[p] ELSE <<>>] :
       g \in [image : Lists(Four \ {"image"}), app : Lists({"library", "headers"}),
              library : Lists({"headers"}), headers : {<<>>}]}
Of(graph) == INSTANCE Incremental WITH Depends <- graph

ASSUME TraversalsAgree ==
    \A graph \in Graphs, p \in Four, stops \in SUBSET Four :
        /\ AddStaging(graph, stops, p, {}) = Of(graph)!Reached(p, stops)
        /\ AddDepended(graph, stops, p, {}, TRUE) = Of(graph)!Reached(p, stops)
        /\ AddDepended(graph, stops, p, {}, FALSE) = Of(graph)!Dependencies(p)
=============================================================================
