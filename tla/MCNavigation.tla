-------------------------- MODULE MCNavigation --------------------------
\* Model checking of Navigation: a small site.
EXTENDS Navigation

Literal(s)   == [param |-> FALSE, name |-> s]
Parameter(s) == [param |-> TRUE, name |-> s]

Path(segments)         == [segments |-> segments, query |-> "none"]
PathAndQuery(segs, q)  == [segments |-> segs, query |-> q]

\* "/", "/users/:id" and "/users/new", which is never reached.
Site == << <<>>,
           <<Literal("users"), Parameter("id")>>,
           <<Literal("users"), Literal("new")>> >>

\* The root, a path that fits two routes, and one that fits none; the path with
\* the query is also sent without it.
Links == {Path(<<>>), Path(<<"nowhere">>), PathAndQuery(<<"users", "new">>, "q")}
=============================================================================
