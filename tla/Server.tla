------------------------------- MODULE Server -------------------------------
(***************************************************************************)
(* The HTTP server of the metrics (internal/server, metrics/grafana.go).   *)
(* A route has a controller that lets one request in at a time: handle     *)
(* offers an action to it without waiting, runs the handler of the route,  *)
(* and reports back when it returns, also when it panics.  The controller  *)
(* is not ready before its goroutine has started, nor between two          *)
(* requests, until it selects again.                                       *)
(***************************************************************************)
EXTENDS Naturals

CONSTANT NoRoute

\* The routes of metrics.Server, by method and path, but the live one.
Grafana == {"POST_search", "POST_tag-keys", "POST_tag-values", "POST_annotations", "POST_query"}

ASSUME ServerAssumption == NoRoute \notin Grafana

VARIABLES
  request,     \* per request: where it is, its route and what was answered
  controller   \* per route, its goroutine: "starting", "action" or "reaction"

web == <<request, controller>>

ServerInit(requests, routes) ==
  /\ request = [r \in requests |-> [pc |-> "new", route |-> NoRoute, code |-> 0]]
  /\ controller = [route \in routes |-> "starting"]

Goes(r, pc, code) == request' = [request EXCEPT ![r].pc = pc, ![r].code = code]

\* The goroutine of the route selects.
Ready(route) == /\ controller[route] = "starting"
                /\ controller' = [controller EXCEPT ![route] = "action"]
                /\ UNCHANGED request

\* The controller keeps receiving actions.
TakenOpen(route) == "action"

\* The controller waits for the reaction.
Taken(route) == "reaction"

\* handle, a request with the method of the route that finds it free.
Enter(r, route) == /\ request[r].pc = "new" /\ controller[route] = "action"
                   /\ request' = [request EXCEPT ![r].pc = "exec", ![r].route = route]
                   /\ controller' = [controller EXCEPT ![route] = Taken(route)]

Busy(r, route) == /\ request[r].pc = "new" /\ controller[route] # "action"
                  /\ request' = [request EXCEPT ![r] =
                                   [pc |-> "done", route |-> route, code |-> 500]]
                  /\ UNCHANGED controller

\* OPTIONS is answered, any other method is not implemented.
OtherMethod(r) == /\ request[r].pc = "new"
                  /\ \E code \in {200, 501} : Goes(r, "done", code)
                  /\ UNCHANGED controller

\* Live: the route without a path is answered.
Live == <<200, FALSE>>

\* ReadJson: a body that cannot be read is an error, the code is not set yet.
Unread == <<0, TRUE>>

\* What a handler returns: a code and whether there is an error.  The handlers
\* of metrics.Server leave the code at 0 when they succeed.
Returned(route) ==
  CASE route \in {"POST_search", "POST_tag-keys"} -> {<<0, FALSE>>}
    [] route = "POST_query"       -> {<<0, FALSE>>, Unread}
    [] route = "POST_tag-values"  -> {<<0, FALSE>>, Unread, <<400, TRUE>>}
    [] route = "POST_annotations" -> {<<0, FALSE>>, Unread, <<400, TRUE>>, <<400, FALSE>>}
    [] OTHER -> {Live}

\* WriteHeader(0) panics: nothing is answered.
Answer(code, err) == IF err THEN 500 ELSE code

\* The handler panics by itself for a target that is not known.
Panics(route) == route = "POST_query"

\* Report back at the end of the handler only.
ReactionUnlessPanic(code) == IF code = 0 THEN "gone" ELSE "react"

\* Report back in a deferred call, also when the handler or WriteHeader panics.
Reaction(code) == "react"

Exec(r) == LET route == request[r].route
           IN  /\ request[r].pc = "exec"
               /\ \/ \E ret \in Returned(route) :
                       LET code == Answer(ret[1], ret[2]) IN Goes(r, Reaction(code), code)
                  \/ Panics(route) /\ Goes(r, Reaction(0), 0)
               /\ UNCHANGED controller

React(r) == LET route == request[r].route
            IN  /\ request[r].pc = "react" /\ controller[route] = "reaction"
                /\ request' = [request EXCEPT ![r].pc = "done"]
                /\ controller' = [controller EXCEPT ![route] = "starting"]

Handle(r) == \/ \E route \in DOMAIN controller : Enter(r, route) \/ Busy(r, route)
             \/ OtherMethod(r) \/ Exec(r) \/ React(r)

ServerNext == \/ \E route \in DOMAIN controller : Ready(route)
              \/ \E r \in DOMAIN request : Handle(r)
=============================================================================
