------------------------------ MODULE Workbench ------------------------------
(***************************************************************************)
(* The web workbench (frontend/src) in front of the priority decisions: one *)
(* tab of a browser, with its page, its store and the session it shows, and *)
(* the token that all tabs of the browser share in localStorage.            *)
(*                                                                         *)
(* The tab asks for the list and sends creations and reviews; what it sends *)
(* is a request of PriorityDecision, whose steps are the server's.  Nothing *)
(* orders the answers: two loads of a store may be answered in any order,   *)
(* the list changes while a dialog is open, a dialog may be confirmed twice *)
(* or over a load.  The other tabs are callers like all others, who take    *)
(* the remaining requests, except that their logins replace the token.      *)
(*                                                                         *)
(* A load asks for the first page of 20, the last changed first: the model  *)
(* has no more live decisions than that.                                   *)
(***************************************************************************)
EXTENDS PriorityDecision, RecordServices, Api

CONSTANTS
    DemoContent,    \* what the page creates
    Slots,      \* bound: loads in flight that the user asked for
    Searches    \* searches that the user asks for, as the codes they match

ASSUME WorkbenchAssumption ==
    /\ DemoContent \in Contents
    /\ Slots \cap Requests = {}
    /\ Searches \subseteq SUBSET Codes
    /\ None \notin Users \cup Requests

VARIABLES
    session,    \* the user the tab shows (useAuth's ref)
    stored,     \* localStorage: the token that every call sends, until it expires
    items,      \* the items of the store
    loading,    \* the spinner
    pending,    \* the transition the dialog asks to confirm
    post,       \* what a request of the page was sent with, and its promise
    load        \* loads in flight: one per slot, and the reload after a request

page  == <<session, stored, items, loading, pending, post, load>>
wvars == <<vars, page>>

Loads == Slots \cup Requests

\* A token is its user, as long as the server takes it.
Token == Users \cup {None}

Authenticate(token) == token # None

\* What an item shows, its evidence too, is one revision.
Shows(item, v) ==
    /\ v.code = item.code /\ v.version = item.version
    /\ v.status = item.status /\ v.content = item.content

\* The revision that is shown with a row: the last of those that came with it.
latestRevision(c) ==
    CHOOSE v \in revisions :
        v.code = c /\ \A w \in revisions : w.code = c => w.version <= v.version

\* The decisions that a list shows, each as an item.
Listed == {c \in Codes : rows[c] # None /\ ~rows[c].deleted}

ListRow == [code : Codes, version : Nat \ {0}, status : Statuses, preparedBy : Users]

\* The evidence of an item is that of the revision shown with its row.
ListItem == [code : Codes, version : Nat \ {0}, status : Statuses, content : Contents,
         preparedBy : Users]

Pending == [item : ListItem, target : Statuses]

Post == [token : Token, asks : Pending \cup {None},
         promise : {"sent", "reloading", "true", "refused", "failed"}]

Load == [known : BOOLEAN, search : SUBSET Codes, found : (SUBSET ListRow) \cup {None},
         answer : (SUBSET ListItem) \cup {None}]

ASSUME PageAssumption == None \notin Post \cup Load \cup Call \cup Nat

-----------------------------------------------------------------------------
(* What a page offers to whom.                                             *)

\* The copies of the status graphs in utils/format.ts.
transitions ==
    [bridgeAsset |->
        [active |-> {"restricted", "closed"}, restricted |-> {"closed", "retired", "active"},
         closed |-> {"retired", "restricted"}, retired |-> {"closed"}],
     inspectionRound |->
        [planned |-> {"running", "review"}, running |-> {"review", "completed", "planned"},
         review |-> {"completed", "running"}, completed |-> {"review"}],
     defectFinding |->
        [closed |-> {"mitigated"}, new |-> {"verified", "monitoring"},
         verified |-> {"monitoring", "mitigated", "new"},
         monitoring |-> {"mitigated", "closed", "verified"},
         mitigated |-> {"closed", "monitoring"}],
     priorityDecision |->
        [draft |-> {"observe", "restrict", "urgent"}, observe |-> {}, restrict |-> {},
         urgent |-> {}]]

canAtLeast(minimum) == session # None /\ RoleRank[Role[session]] >= RoleRank[minimum]

canWrite == canAtLeast("operator")

\* Mutant: the preparer is offered its own draft.
OwnTargetsFor(item) ==
    IF ~canAtLeast("reviewer") THEN {} ELSE transitions["priorityDecision"][item.status]

\* The buttons of a row.
targetsFor(item) ==
    IF ~canAtLeast("reviewer") \/ item.preparedBy = session THEN {}
    ELSE transitions["priorityDecision"][item.status]

\* The buttons of a row of the other three pages.
recordTargets(key, status) == IF canWrite THEN transitions[key][status] ELSE {}

\* The tab is past the router's guard: it was when it came to its page.
Open == session # None \/ stored # None

-----------------------------------------------------------------------------
\* A tab opens with the session it finds.
WInit ==
    /\ Init
    /\ stored \in Users \cup {None}
    /\ session = stored
    /\ items = {}
    /\ loading = FALSE
    /\ pending = None
    /\ post = [r \in Requests |-> None]
    /\ load = [l \in Loads |-> None]

-----------------------------------------------------------------------------
(* Sessions.                                                               *)

\* The router keeps a tab from the login page while a token is stored, but one
\* that is there stays when another tab logs in.
authenticate(u) ==
    /\ session = None \/ stored = None
    /\ session' = u
    /\ stored' = u
    /\ UNCHANGED <<vars, items, loading, pending, post, load>>

\* The store keeps what it shows.
logout ==
    /\ session # None
    /\ session' = None
    /\ stored' = None
    /\ UNCHANGED <<vars, items, loading, pending, post, load>>

\* Another tab logs in or out, or TOKEN_TTL has passed.  This one is not told.
TokenChanges ==
    /\ stored' \in Token
    /\ UNCHANGED <<vars, session, items, loading, pending, post, load>>

-----------------------------------------------------------------------------
(* Loads: the page is opened, searched or reset, or a change was made.      *)

\* A load is sent with the token: its caller is known to the server or not.
Asked(search) ==
    [known |-> Authenticate(stored), search |-> search, found |-> None, answer |-> None]

StartLoad(l, search) ==
    /\ Open
    /\ load[l] = None
    /\ load' = [load EXCEPT ![l] = Asked(search)]
    /\ loading' = TRUE
    /\ UNCHANGED <<vars, session, stored, items, pending, post>>

RowOf(c) == [code |-> c, version |-> rows[c].version, status |-> rows[c].status,
             preparedBy |-> rows[c].preparedBy]

ItemOf(row) == [code |-> row.code, version |-> row.version, status |-> row.status,
                content |-> latestRevision(row.code).content, preparedBy |-> row.preparedBy]

\* The server reads the rows of the list for a caller it knows, and then what is
\* preloaded with them: others commit in between, and the last revision of a decision
\* may be newer than its row.
ListRows(l) ==
    /\ load[l] # None /\ load[l].found = None
    /\ load[l].known
    /\ load' = [load EXCEPT ![l].found = {RowOf(c) : c \in load[l].search \cap Listed}]
    /\ UNCHANGED <<vars, session, stored, items, loading, pending, post>>

ListRevisions(l) ==
    /\ load[l] # None /\ load[l].found # None /\ load[l].answer = None
    /\ load' = [load EXCEPT ![l].answer = {ItemOf(row) : row \in load[l].found}]
    /\ UNCHANGED <<vars, session, stored, items, loading, pending, post>>

List(l) == ListRows(l) \/ ListRevisions(l)

\* The end of a reload resolves the promise of its request, and the page closes
\* the dialog that is open then.
Resolve(l) ==
    IF l \in Requests
    THEN /\ post' = [post EXCEPT ![l].promise = "true"]
         /\ pending' = IF post[l].asks = None THEN pending ELSE None
    ELSE UNCHANGED <<post, pending>>

Ended(l) ==
    /\ loading' = FALSE
    /\ Resolve(l)
    /\ load' = [load EXCEPT ![l] = None]
    /\ UNCHANGED <<vars, session, stored>>

\* An answer arrives, in whatever order: the last to arrive is shown.
LoadArrives(l) ==
    /\ load[l] # None /\ load[l].answer # None
    /\ items' = load[l].answer
    /\ Ended(l)

\* 401, 429 before anything is read, or no answer.  A reload swallows its error.
LoadFails(l) ==
    /\ load[l] # None
    /\ Faults \/ load[l].found = None
    /\ Ended(l)
    /\ UNCHANGED items

-----------------------------------------------------------------------------
(* Changes: the page sends, the server serves, the page reloads.            *)

\* The dialog keeps the item it was opened on, whatever is loaded later.
AskTransition(item, target) ==
    /\ item \in items
    /\ target \in targetsFor(item)
    /\ pending' = [item |-> item, target |-> target]
    /\ UNCHANGED <<vars, session, stored, items, loading, post, load>>

Cancel ==
    /\ pending # None
    /\ pending' = None
    /\ UNCHANGED <<vars, session, stored, items, loading, post, load>>

Send(r, asks) ==
    /\ stage[r] = "idle" /\ post[r] = None
    /\ post' = [post EXCEPT ![r] = [token |-> stored, asks |-> asks, promise |-> "sent"]]
    /\ loading' = TRUE
    /\ UNCHANGED <<vars, session, stored, items, pending, load>>

createDemo(r) == canWrite /\ Send(r, None)

\* Mutant: the dialog sends the newest version of the decision that the page has.
ConfirmNewest(r) ==
    /\ pending # None
    /\ Send(r, LET newer == {i \in items : i.code = pending.item.code}
               IN  IF newer = {} THEN pending
                   ELSE [pending EXCEPT !.item.version = (CHOOSE i \in newer : TRUE).version])

confirmTransition(r) == pending # None /\ Send(r, pending)

\* The check of the token, or the limiter, keeps a request from its service.
Stopped(r) ==
    post[r] # None /\ (~Authenticate(post[r].token) \/ post[r].promise = "refused")

\* Mutant: the page sends the version that it expects to become.
ServedNext(r) ==
    /\ post[r] # None
    /\ ~Stopped(r)
    /\ post[r].asks # None
    /\ LET item == post[r].asks.item
       IN  TransitionArrives(r, post[r].token, item.code, item.version + 1, post[r].asks.target)
    /\ UNCHANGED page

\* The server knows the caller by the token, whoever the tab shows.  The code of a
\* new draft is made of a clock that comes round, and may have been used.
Served(r) ==
    /\ post[r] # None
    /\ ~Stopped(r)
    /\ IF post[r].asks = None
       THEN \E c \in Codes \ SeedCodes : CreateArrives(r, post[r].token, c, DemoContent)
       ELSE LET item == post[r].asks.item
            IN  TransitionArrives(r, post[r].token, item.code, item.version,
                                  post[r].asks.target)
    /\ UNCHANGED page

\* What came back is looked at by its status: response.ok.  (What the page sends parses
\* and has all its fields: there is no 400.)
Op(r) == IF post[r].asks = None THEN "create" ELSE "transition"

Status(r) ==
    IF stage[r] \in Answered \ {"lost"}
    THEN StatusOf(PriorityDecisionHandler, Op(r), stage[r])
    ELSE IF stage[r] = "idle" /\ ~Authenticate(post[r].token) THEN Unauthorized
    ELSE None

\* Mutant: whatever can be parsed is a success.
AnyResponseOk(r) == Status(r) # None

ResponseOk(r) == Status(r) \in {200, 201, 204}

Sent(r) == post[r] # None /\ post[r].promise = "sent"

\* Mutant: the list is loaded again while the change is on its way.
ChangedAtOnce(r) ==
    /\ Sent(r)
    /\ post' = [post EXCEPT ![r].promise = "reloading"]
    /\ load' = [load EXCEPT ![r] = Asked(Codes)]
    /\ loading' = TRUE
    /\ UNCHANGED <<vars, session, stored, items, pending>>

\* A success is followed by a load without a search.
Changed(r) ==
    /\ Sent(r)
    /\ ResponseOk(r)
    /\ post' = [post EXCEPT ![r].promise = "reloading"]
    /\ load' = [load EXCEPT ![r] = Asked(Codes)]
    /\ loading' = TRUE
    /\ UNCHANGED <<vars, session, stored, items, pending>>

\* An error leaves the dialog open.
Rejected(r, promise) ==
    /\ post' = [post EXCEPT ![r].promise = promise]
    /\ loading' = FALSE
    /\ UNCHANGED <<vars, session, stored, items, pending, load>>

\* The limiter stands before all others, and may turn away any request.
Limited(r) == stage[r] = "idle"

\* 401, 403, 409 and 422, or the limiter's 429.
TurnedDown(r) ==
    /\ Sent(r)
    /\ Status(r) \in {401, 403, 409, 422} \/ Limited(r)
    /\ Rejected(r, "refused")

\* 404, 500, the server stopped, or the answer is lost on its way.
NoSuccess(r) ==
    /\ Sent(r)
    /\ \/ Status(r) \in {404, 500}
       \/ stage[r] = "lost"
       \/ Faults
    /\ Rejected(r, "failed")

-----------------------------------------------------------------------------
User ==
    \/ \E u \in Users : authenticate(u)
    \/ logout
    \/ \E l \in Slots, search \in Searches : StartLoad(l, search)
    \/ \E item \in items : \E target \in Targets : AskTransition(item, target)
    \/ Cancel
    \/ \E r \in Requests : createDemo(r) \/ confirmTransition(r)

Promise(r) == Changed(r) \/ TurnedDown(r) \/ NoSuccess(r)

Server ==
    /\ \/ \E r \in Requests : ~Stopped(r) /\ (Serve(r) \/ CallFails(r) \/ AuditFails(r))
       \/ \E r \in Requests : post[r] = None /\ Arrival(r)
       \/ Crash
    /\ UNCHANGED page

WNext ==
    \/ User
    \/ TokenChanges
    \/ \E r \in Requests : Served(r) \/ Promise(r)
    \/ \E l \in Loads : List(l) \/ LoadArrives(l) \/ LoadFails(l)
    \/ Server

WSpec == WInit /\ [][WNext]_wvars

-----------------------------------------------------------------------------
(* What the workbench promises.                                            *)

\* The state of the tab has its shape, and a reload belongs to a request of the page.
PageTypeOK ==
    /\ session \in Users \cup {None}
    /\ stored \in Token
    /\ items \subseteq ListItem
    /\ loading \in BOOLEAN
    /\ pending \in Pending \cup {None}
    /\ post \in [Requests -> Post \cup {None}]
    /\ load \in [Loads -> Load \cup {None}]
    /\ \A r \in Requests : load[r] # None => post[r] # None

\* Every version a page names is one the decision has had, however old the list it
\* shows or the dialog that is open: its requests, with those of other callers that
\* do the same, are behaviours of the service in which nobody guesses a version,
\* which is what keeps a review final.
CallersNameShownVersions == Init /\ [][vars' = vars \/ Next]_vars

\* A promise that came true is a change the history has, by the token's user;
\* one that was refused left nothing there.  In between, the page cannot know.
PageToldTruth ==
    \A r \in Requests : post[r] # None =>
        /\ post[r].promise \in {"reloading", "true"} =>
               \E v \in revisions : v.actor = post[r].token /\ v.request = r
        /\ post[r].promise = "refused" => \A v \in revisions : v.request # r

\* A review that a page asked for and that was recorded is the one its dialog
\* showed: of that version, with that evidence, from that status to that target.
\* (A row that was read before its last revision was written shows evidence of a
\* later version: then a review of it must be refused.)
ReviewedAsShown ==
    \A r \in Requests : post[r] # None /\ post[r].asks # None =>
        LET item == post[r].asks.item
        IN  \A v \in revisions : v.request = r =>
                /\ v.code = item.code /\ v.version = item.version + 1
                /\ v.content = item.content /\ v.status = post[r].asks.target
                /\ \E w \in revisions : Shows(item, w)

\* The reload after a change shows it, or what came after, or that it is gone.  (Where
\* there are more decisions than a page has rows it may not: 20 other changes between
\* the two leave it for the second page.)
ReloadShowsChange ==
    \A r \in Requests : load[r] # None /\ load[r].answer # None =>
        \A v \in revisions : v.request = r =>
            \/ v.code \notin Listed
            \/ \E item \in load[r].answer : item.code = v.code /\ item.version >= v.version

\* The row of the table is still the one shown.
Current(item) ==
    /\ item.code \in Listed
    /\ \A column \in {"version", "status", "preparedBy"} :
           item[column] = rows[item.code][column]

\* What a row offers is what its service will do for this user, as long as the row
\* and the session are the ones shown: nothing that is refused, and all that is
\* not.  So for the other three pages, by their graphs and gates (README.md:41
\* "the routes agree with the guards, the navigation and the buttons").
OffersMatchServices ==
    session # None =>
        LET role == Role[session]
            Agrees(key, handler, graph) ==
                \A s \in DOMAIN transitions[key] :
                    recordTargets(key, s) =
                        {e[2] : e \in {d \in graph : d[1] = s
                                                    /\ role \in handler.transition.roles}}
        IN  /\ \A item \in items : Current(item) =>
                   targetsFor(item) =
                       {s \in Statuses : TransitionVerdict(session, item.code, s) = "commit"}
            /\ canWrite <=> role \in PriorityDecisionHandler.create.roles
            /\ canAtLeast("reviewer") <=> role \in AuditRoutes
            /\ Agrees("bridgeAsset", BridgeAssetHandler, BridgeAssetTransitions)
            /\ Agrees("inspectionRound", InspectionRoundHandler, InspectionRoundTransitions)
            /\ Agrees("defectFinding", DefectFindingHandler, DefectFindingTransitions)

=============================================================================
