------------------------------- MODULE Routes -------------------------------
(***************************************************************************)
(* internal/route (handlers.go, expression.go): the account's routes, and  *)
(* which of them an inbound message takes.  An expression is a sequence of *)
(* conditions joined by "and"; a pattern is the set of the addresses it    *)
(* matches.  Of a route's actions only stop() is told apart.               *)
(***************************************************************************)
EXTENDS Database

CONSTANTS Recipients, Expressions, Priorities

Condition(function, pattern) == [function |-> function, pattern |-> pattern]
catch_all == Condition("catch_all", {})

ASSUME RoutesAssumption ==
  /\ Priorities \subseteq Int
  /\ \A e \in Expressions : \A i \in DOMAIN e :
       /\ e[i].function \in {"match_recipient", "match_header", "catch_all"}
       /\ e[i].pattern \subseteq Recipients

\* `at' is the row's created_at.
Route(id, at, priority, expression, stop) ==
  [id |-> id, dead |-> FALSE, at |-> at, priority |-> priority,
   expression |-> expression, stop |-> stop]

CreateRoute(r) == \E p \in Priorities, e \in Expressions, stop \in BOOLEAN :
  Begin(r, Ask("CreateRoute", r),
        <<Insert("routes", Route(<<r, 1>>, Cardinality({s \in Requests : asked[s] # NotAsked}),
                                 p, e, stop))>>)

\* Only the fields that are sent.
UpdateRoute(r) == \E x \in Live("routes"),
    set \in [priority : Priorities] \cup [expression : Expressions] \cup [stop : BOOLEAN] :
  Begin(r, AskSave("UpdateRoute", by(x), "routes", x, set), <<SaveOrFail("routes", With(x, set))>>)

DeleteRoute(r) == \E x \in Live("routes") :
  Begin(r, AskDelete("DeleteRoute", by(x), "routes", {x}), <<Purge("routes", [id |-> x.id])>>)

RouteHandlers(r) == CreateRoute(r) \/ UpdateRoute(r) \/ DeleteRoute(r)

RouteSeeds == {NoRows}

----------------------------------------------------------------------------
(* Inbound messages.                                                       *)

\* Headers are not there to match; whatever is not understood does not match.
evaluateSingleExpression(c, address) ==
  \/ c.function = "match_recipient" /\ address \in c.pattern
  \/ c.function = "catch_all"
evaluateExpression(e, address) == \A i \in DOMAIN e : evaluateSingleExpression(e[i], address)

isCatchAllExpressionBug(e) == FALSE

isCatchAllExpression(e) == e = <<catch_all>>

\* ORDER BY priority, created_at.
ComesFirst(x, y) == \/ x.priority < y.priority
                    \/ x.priority = y.priority /\ x.at < y.at
Ordered(rows) ==
  CHOOSE routes \in SetToSeqs(rows) :
    \A i, j \in DOMAIN routes : i < j => ComesFirst(routes[i], routes[j])

\* The first route whose expression holds.
MatchRoute(address) ==
  LET routes == Ordered(Live("routes")) IN
  {routes[i] : i \in {i \in DOMAIN routes :
     /\ evaluateExpression(routes[i].expression, address)
     /\ \A j \in 1..(i - 1) : ~evaluateExpression(routes[j].expression, address)}}

\* The loop of SimulateInbound: the routes matched, and whether stop() ended it.
Matches(address, x, none) == IF isCatchAllExpression(x.expression) THEN none
                                                                   ELSE evaluateExpression(x.expression, address)
TryRoute(address, acc, x) ==
  IF acc.stopped \/ ~Matches(address, x, acc.matched = << >>) THEN acc
  ELSE [matched |-> Append(acc.matched, x), stopped |-> x.stop]
SimulateInbound(address) ==
  LET Step(acc, x) == TryRoute(address, acc, x)
  IN FoldLeft(Step, [matched |-> << >>, stopped |-> FALSE], Ordered(Live("routes"))).matched

\* GET /v3/routes/match names the first of the routes a simulated message takes; a
\* catch_all() takes it only if nothing before it did; a stop() is the last; and no
\* route that matches is passed over before one.  Read independently of the loops.
InboundTakesItsRoutes ==
  \A address \in Recipients :
    LET taken == SimulateInbound(address)
        first == MatchRoute(address)
    IN /\ first = {taken[i] : i \in DOMAIN taken \cap {1}}
       /\ \A i \in DOMAIN taken :
            /\ i > 1 => taken[i].expression # <<catch_all>>
            /\ taken[i].stop => i = Len(taken)
       /\ \A x \in Live("routes") :
            /\ evaluateExpression(x.expression, address)
            /\ x.expression # <<catch_all>>
            /\ \A i \in DOMAIN taken : taken[i].stop => x.priority < taken[i].priority
            => x \in ToSet(taken)
=============================================================================
