---------------------------- MODULE Navigation ----------------------------
(***************************************************************************)
(* Navigation: the server's router (pkg/router/router.go) behind           *)
(* Session.handleClientNav, the client that sends navigations              *)
(* (pkg/wasm/main.go) and applies the frames of the server, the browser's  *)
(* history and its documents, and one loss of the connection.              *)
(*                                                                         *)
(* A navigation travels on the one stream of the client; the limiter or an *)
(* intent hook may drop it.  A frame may fail to be written or read, and,  *)
(* as each has a stream of its own, may overtake another.                  *)
(*                                                                         *)
(* A path is a sequence of segments and a query; a segment of a route's    *)
(* pattern is a literal or a parameter.  The page is served for every      *)
(* path, and each loading of it starts a client, and with it a session     *)
(* and a router.                                                           *)
(***************************************************************************)
EXTENDS Integers, SequencesExt

CONSTANTS Routes,     \* Router.routes: a sequence of patterns
          NotFound,   \* whether Router.notFound is set
          Urls,       \* the paths that links and the address bar give
          MaxMoves,   \* bound: what the user does
          MaxLost     \* bound: frames of a connection that get lost

\* The paths; one without its query, and the root "/".
Queries    == {"none"} \cup {url.query : url \in Urls}
Paths      == [segments : Seq(STRING), query : Queries]
Clean(url) == [url EXCEPT !.query = "none"]
Home       == [segments |-> <<>>, query |-> "none"]

ASSUME NavigationAssumption ==
    /\ Routes \in Seq(Seq([param : BOOLEAN, name : STRING]))
    /\ NotFound \in BOOLEAN
    /\ Urls \subseteq Paths
    /\ MaxMoves \in Nat /\ MaxLost \in Nat

VARIABLES history,      \* the entries of the browser's history: a path and
                        \* the document that was loaded or that pushed it
          position,     \* the entry that is shown
          toServer,     \* navigations on the way
          toClient,     \* frames on the way
          container,    \* whether the browser has the router's container
          shown,        \* the children of the router's container in the browser
          connection,   \* "first", "lost", or "second": of this document
          queue,        \* navigations kept by the client while IsOnline is 0
          currentPath,  \* Router.currentPath
          child,        \* Router.currentChild; a set of at most one node
          sessionPath,  \* Session.currentPath
          params,       \* Session.routeParams
          query,        \* Session.routeQuery
          rendered,     \* the number of components rendered so far
          lost,         \* history: the frames of the connection that were lost
          overtaken,    \* history: whether one of its frames was overtaken
          dropped,      \* history: whether one of its navigations was dropped
          moves         \* what the user has done

pageVars    == <<container, shown>>
addressVars == <<history, position>>
clientVars  == <<connection, queue>>
routeVars   == <<currentPath, child, sessionPath, params, query, rendered>>
mishapVars  == <<lost, overtaken, dropped>>
vars == <<pageVars, addressVars, clientVars, toServer, toClient, routeVars,
          mishapVars, moves>>

Entry(url, doc) == [url |-> url, doc |-> doc]
Url             == history[position].url
Document        == history[position].doc

(***************************************************************************)
(* The matching of routes.                                                 *)
(***************************************************************************)

\* matchSegments
Matches(pattern, segments) ==
    /\ Len(pattern) = Len(segments)
    /\ \A i \in DOMAIN pattern : pattern[i].param \/ pattern[i].name = segments[i]

\* match: the first route that matches, 0 for the component of NotFound; no
\* element where there is nothing to render.
match(path) ==
    LET hits == {i \in DOMAIN Routes : Matches(Routes[i], path.segments)}
    IN  IF hits # {} THEN {Min(hits)} ELSE IF NotFound THEN {0} ELSE {}

Params(path) ==
    LET hits == match(path) \ {0}
        pattern == Routes[CHOOSE i \in hits : TRUE]
        names == {pattern[i].name : i \in {j \in DOMAIN pattern : pattern[j].param}}
    IN  IF hits = {} THEN <<>>
        ELSE [n \in names |-> path.segments[Max({i \in DOMAIN pattern :
                                   pattern[i].param /\ pattern[i].name = n})]]

\* The component of a path, rendered as the n-th node.
Render(path, n) == {[route |-> r, node |-> n] : r \in match(path)}

(***************************************************************************)
(* The server.                                                             *)
(***************************************************************************)

\* The frame of a whole tree, and that of a route in the place of another.
TreeFrame(nodes) == [tree |-> TRUE, remove |-> {}, insert |-> nodes, push |-> {}]
RouteFrame(old, new, pushed) ==
    [tree |-> FALSE, remove |-> old, insert |-> new, push |-> pushed]

\* Router.Mount renders "/", and the tree is sent as the n-th rendering.
MountSession(n) ==
    /\ currentPath' = Home
    /\ child' = Render(Home, n)
    /\ sessionPath' = Home
    /\ params' = Params(Home)
    /\ query' = "none"
    /\ rendered' = n
    /\ toClient' = <<TreeFrame(child')>>
    /\ lost' = {}
    /\ overtaken' = FALSE
    /\ dropped' = FALSE

\* Mutant: Start sends nothing.
StartPathNone(url) == <<>>

\* What Start sends: the path of the address bar, without its query, unless it
\* is "/".
StartPath(url) == IF Clean(url) = Home THEN <<>> ELSE <<Clean(url)>>

Init == \E url \in Urls :
    /\ history = <<Entry(url, 1)>>
    /\ position = 1
    /\ container = FALSE
    /\ shown = {}
    /\ connection = "first"
    /\ queue = <<>>
    /\ toServer = StartPath(url)
    /\ toClient = <<TreeFrame(Render(Home, 1))>>
    /\ currentPath = Home
    /\ child = Render(Home, 1)
    /\ sessionPath = Home
    /\ params = Params(Home)
    /\ query = "none"
    /\ rendered = 1
    /\ lost = {}
    /\ overtaken = FALSE
    /\ dropped = FALSE
    /\ moves = 0

\* A frame is sent, or the write fails.  The flush has cleared the operations
\* before it writes, and the error is only logged: the frame is lost.
WriteMessage(frame) ==
    \/ /\ toClient' = Append(toClient, frame)
       /\ UNCHANGED mishapVars
    \/ /\ Cardinality(lost) < MaxLost
       /\ lost' = lost \cup {frame}
       /\ UNCHANGED <<toClient, overtaken, dropped>>

\* The rendering of a path in the place of the nodes that are removed, and the
\* flush of the operations that this queues.
Swap(path, kept, newQuery, removed, pushed) ==
    /\ currentPath' = kept
    /\ sessionPath' = kept
    /\ params' = Params(path)
    /\ query' = newQuery
    /\ child' = Render(path, rendered + 1)
    /\ rendered' = rendered + 1
    /\ WriteMessage(RouteFrame(removed, child', pushed))

\* Mutants: the old child stays; the query is not reset.
swapRouteKeeps(path) == Swap(path, Clean(path), path.query, {}, {path})
swapRouteOldQuery(path) ==
    Swap(path, Clean(path), IF path.query = "none" THEN query ELSE path.query,
         child, {path})

swapRoute(path) == Swap(path, Clean(path), path.query, child, {path})

\* navigate: a path that differs in its query at most is ignored.
navigate(path) ==
    IF Clean(path) = currentPath
    THEN /\ sessionPath' = path
         /\ UNCHANGED <<currentPath, params, query, child, rendered,
                        toClient, mishapVars>>
    ELSE swapRoute(path)

\* HandleIntent lets the next navigation through to handleClientNav.
handleClientNav ==
    /\ toServer # <<>>
    /\ toServer' = Tail(toServer)
    /\ navigate(Head(toServer))
    /\ UNCHANGED <<pageVars, addressVars, clientVars, moves>>

\* The limiter refuses the next navigation, or an intent hook vetoes it.
DropNavigation ==
    /\ toServer # <<>>
    /\ toServer' = Tail(toServer)
    /\ dropped' = TRUE
    /\ UNCHANGED <<pageVars, addressVars, clientVars, toClient, routeVars,
                   lost, overtaken, moves>>

(***************************************************************************)
(* The client and the user.                                                *)
(***************************************************************************)

\* pushState drops the entries behind the present one.
Push(url) ==
    /\ history' = Append(SubSeq(history, 1, position), Entry(url, Document))
    /\ position' = position + 1

\* The i-th of the frames on the way is applied.  The children of a container
\* that the browser does not have are attached nowhere.
ApplyFrame(i) ==
    LET frame == toClient[i]
    IN  /\ toClient' = RemoveAt(toClient, i)
        /\ overtaken' = (overtaken \/ i > 1)
        /\ container' = (container \/ frame.tree)
        /\ shown' = (shown \ frame.remove) \cup
                    (IF container' THEN frame.insert ELSE {})
        /\ IF frame.push = {} THEN UNCHANGED addressVars
           ELSE \E url \in frame.push : Push(url)
        /\ UNCHANGED <<clientVars, toServer, routeVars, lost, dropped, moves>>

\* A stream cannot be read to its end, and its frame is left out.
LoseFrame(i) ==
    /\ Cardinality(lost) < MaxLost
    /\ toClient' = RemoveAt(toClient, i)
    /\ lost' = lost \cup {toClient[i]}
    /\ UNCHANGED <<pageVars, addressVars, clientVars, toServer, routeVars,
                   overtaken, dropped, moves>>

Move == moves < MaxMoves /\ moves' = moves + 1

\* sendClientNav: IsOnline is 1 until the first connection of the document is
\* lost and 0 from then on, so that also with the second connection the
\* navigation goes to the queue, which only a reconnection drains.
sendClientNav(path) ==
    IF connection = "first"
    THEN toServer' = Append(toServer, path) /\ UNCHANGED queue
    ELSE queue' = Append(queue, path) /\ UNCHANGED toServer

\* A document is loaded: a new client, a new session.
Load(url) ==
    /\ container' = FALSE
    /\ shown' = {}
    /\ connection' = "first"
    /\ queue' = <<>>
    /\ toServer' = StartPath(url)
    /\ MountSession(rendered + 1)

NewDocument == 1 + Max({history[i].doc : i \in DOMAIN history})

\* A link outside #bw-root is clicked: the listener of the document prevents
\* the loading and sends the href.
ClickOuterLink(url) ==
    /\ Move
    /\ sendClientNav(url)
    /\ UNCHANGED <<pageVars, addressVars, connection, toClient, routeVars,
                   mishapVars>>

\* A link that a component rendered is clicked: the listener of #bw-root sends
\* a click, for which a link has no handler, and stops the propagation to the
\* listener of the document; nothing prevents the default, so the browser
\* loads the href.  One that is shown already takes its entry's place.
ClickLink(url) ==
    /\ shown # {}
    /\ Move
    /\ IF url = Url
       THEN /\ history' = [history EXCEPT ![position].doc = NewDocument]
            /\ UNCHANGED position
       ELSE /\ history' = Append(SubSeq(history, 1, position), Entry(url, NewDocument))
            /\ position' = position + 1
    /\ Load(url)

\* Back or forward: within a document the handler of popstate sends the
\* pathname; another document is loaded.
Traverse(step) ==
    /\ Move
    /\ position + step \in DOMAIN history
    /\ position' = position + step
    /\ UNCHANGED history
    /\ IF history[position'].doc = Document
       THEN /\ sendClientNav(Clean(history[position'].url))
            /\ UNCHANGED <<pageVars, connection, toClient, routeVars, mishapVars>>
       ELSE Load(history[position'].url)

\* The connection is lost with what is on the way; reconnect clears the page.
LoseConnection ==
    /\ connection = "first"
    /\ connection' = "lost"
    /\ container' = FALSE
    /\ shown' = {}
    /\ toServer' = <<>>
    /\ toClient' = <<>>
    /\ UNCHANGED <<addressVars, queue, routeVars, mishapVars, moves>>

\* reconnect: a new session gets the queue, to which loadPersistedQueue adds
\* nothing (ClientConnection, which also has the end of the program there);
\* the address is not sent.
Reconnect ==
    /\ connection = "lost"
    /\ connection' = "second"
    /\ toServer' = queue
    /\ queue' = <<>>
    /\ MountSession(rendered + 1)
    /\ UNCHANGED <<pageVars, addressVars, moves>>

-----------------------------------------------------------------------------
\* A navigation is read; a frame arrives, or is given up.
ReadNavigation == handleClientNav \/ DropNavigation
ReadFrame      == \E i \in DOMAIN toClient : ApplyFrame(i) \/ LoseFrame(i)

Next == \/ ReadNavigation \/ ReadFrame
        \/ \E url \in Urls : ClickLink(url) \/ ClickOuterLink(url)
        \/ \E step \in {-1, 1} : Traverse(step)
        \/ LoseConnection \/ Reconnect

\* The transport is reliable as long as there is a connection: what was sent
\* is read in the end, whatever becomes of it then.
Fairness == WF_vars(ReadNavigation) /\ WF_vars(ReadFrame)

Spec     == Init /\ [][Next]_vars
FairSpec == Spec /\ Fairness

-----------------------------------------------------------------------------
Nodes == [route : 0 .. Len(Routes), node : Nat]

\* Connected, every navigation handled and every frame applied.
Settled == connection # "lost" /\ toServer = <<>> /\ toClient = <<>>

\* Nothing sent over this connection was dropped, lost or overtaken.
NoMishap == lost = {} /\ ~overtaken /\ ~dropped

\* What the frames that were lost would have removed, inserted and pushed.
LostRemovals == UNION {frame.remove : frame \in lost}
LostInserts  == UNION {frame.insert : frame \in lost}
LostPushes   == UNION {frame.push : frame \in lost}
TreeLost     == \E frame \in lost : frame.tree

\* The types; what the router shows is one node, or none.
TypeOK == /\ position \in DOMAIN history
          /\ container \in BOOLEAN
          /\ shown \subseteq Nodes
          /\ child \subseteq Nodes /\ Cardinality(child) <= 1
          /\ currentPath.query = "none"
          /\ connection \in {"first", "lost", "second"}
          /\ connection = "first" => queue = <<>>
          /\ overtaken \in BOOLEAN /\ dropped \in BOOLEAN
          /\ moves \in 0 .. MaxMoves

\* However links, back and forward, page loads and a reconnection overlap with
\* frames that are still on the way: when all is settled the browser shows the
\* component of the route that the router is at, and nothing that an earlier
\* route or an earlier session left, as far as no frame was overtaken.  What a
\* lost frame would have removed may stay, what it would have inserted may be
\* missing, and without the tree everything may; nothing else.  The parameters
\* are those of the path, also where navigations were dropped.
PageShowsRoute ==
    /\ TypeOK
    /\ {n.route : n \in child} = match(currentPath)
    /\ params = Params(currentPath)
    /\ Settled /\ ~overtaken =>
           /\ shown \subseteq child \cup LostRemovals
           /\ TreeLost \/ child \subseteq shown \cup LostInserts

\* The query that a component reads is none, or that of an entry of the history
\* with the path the router is at, or that such an entry was lost with its
\* frame; never that of a page that was left.  (It need not be that of the
\* address: the pathname only is sent when a page is loaded or gone back to,
\* and navigate ignores a change of the query alone.)
QueryIsNotAnothers ==
    LET url == [currentPath EXCEPT !.query = query]
    IN  Settled /\ ~overtaken =>
            \/ query = "none"
            \/ \E i \in DOMAIN history : history[i].url = url
            \/ url \in LostPushes

\* While the first connection lasts without a mishap, router and address find
\* together again however often the user goes back, forward or elsewhere
\* meanwhile; a settled state in which they differ would refute it, as nothing
\* need happen any more.
AddressReached ==
    connection = "first" /\ Clean(Url) # currentPath
        ~> connection # "first" \/ ~NoMishap \/ Clean(Url) = currentPath

\* What the documentation says of links: a click stays in the document.
LinksStayInDocument == \A i \in DOMAIN history : history[i].doc = 1
=============================================================================
