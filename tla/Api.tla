--------------------------------- MODULE Api ---------------------------------
(* The routes of the server: whom the gates in front of each handler let     *)
(* through, what the handler parses, and the status it answers with.         *)
EXTENDS Naturals

RoleRank == [viewer |-> 1, operator |-> 2, reviewer |-> 3, admin |-> 4]

\* A token is as good as any other, whatever its role.
Authenticated == DOMAIN RoleRank

RequireMinimumRole(minimum) == {role \in Authenticated : RoleRank[role] >= RoleRank[minimum]}

\* Each handler: the roles its routes let through, what of the request it parses
\* before it calls its service, and its answer to a success.
BridgeAssetHandler ==
    [transition |-> [status |-> 200, roles |-> RequireMinimumRole("operator"),
                     parses |-> {"id", "body"}],
     create     |-> [status |-> 201, roles |-> RequireMinimumRole("operator"),
                     parses |-> {"body"}],
     list       |-> [status |-> 200, roles |-> Authenticated, parses |-> {}],
     get        |-> [status |-> 200, roles |-> Authenticated, parses |-> {"id"}],
     update     |-> [status |-> 200, roles |-> RequireMinimumRole("operator"),
                     parses |-> {"id", "body"}],
     delete     |-> [status |-> 204, roles |-> {"admin"}, parses |-> {"id"}]]

\* The other three are the same code on another service.
InspectionRoundHandler  == BridgeAssetHandler
DefectFindingHandler    == BridgeAssetHandler
PriorityDecisionHandler == BridgeAssetHandler

\* The routes of the system handler that read the audit log.
AuditRoutes == RequireMinimumRole("reviewer")

\* What a service refuses, and what fails in it, as a status.
handleError ==
    [forbidden |-> 403, not_found |-> 404, conflict |-> 409, business_rule |-> 422,
     internal |-> 500]

\* The status of the answer to a well-formed request that asked a handler for op.
StatusOf(handler, op, answer) ==
    IF answer = "ok" THEN handler[op].status ELSE handleError[answer]

TooManyRequests == 429

Unauthorized == 401

\* The status of the answer to any request: whether the limiter lets it pass, who sends
\* it (or no one), which parts of it are malformed, and how the service would answer.
AnswerTo(handler, op, passed, role, malformed, answer) ==
    IF ~passed THEN TooManyRequests
    ELSE IF role \notin Authenticated THEN Unauthorized
    ELSE IF role \notin handler[op].roles THEN handleError["forbidden"]
    ELSE IF malformed \cap handler[op].parses # {} THEN 400
    ELSE StatusOf(handler, op, answer)

=============================================================================
