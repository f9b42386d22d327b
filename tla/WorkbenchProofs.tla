--------------------------- MODULE WorkbenchProofs ---------------------------
(***************************************************************************)
(* The workbench as a caller of the priority decision service, for any      *)
(* users, codes, requests, loads and searches: what it sends is what the    *)
(* theorems of PriorityDecisionProofs ask of callers.  The invariant says   *)
(* where versions come from: whatever list, dialog, request or answer on    *)
(* its way names one, the decision has had it, and the evidence shown with   *)
(* it is of that version unless a later one exists.  And what became of a    *)
(* request is joined to what its page sent (Delivered) and was told (Told),  *)
(* so that what the service recorded of it (Trails) is what the page showed. *)
(***************************************************************************)
EXTENDS Workbench, PriorityDecisionProofs

\* A row is a decision of the table at a version that it has had.
HasBeen(table, history, row) ==
    /\ table[row.code] # None
    /\ row.version \in 1 .. table[row.code].version
    /\ \E v \in history : v.code = row.code /\ v.version = row.version /\ v.status = row.status

\* The history has gone on behind it.
Overtaken(history, item) ==
    \E v \in history : v.code = item.code /\ v.version = item.version + 1

\* An item shows one revision, its evidence too, or has been overtaken.
Shown(table, history, item) ==
    /\ HasBeen(table, history, item)
    /\ Overtaken(history, item) \/ \E v \in history : Shows(item, v)

\* The whole page: its list, its dialog, its requests, and the answers on their way.
PageShown ==
    /\ \A item \in items : Shown(rows, revisions, item)
    /\ pending # None => pending.target \in Targets \ {"draft"} /\ Shown(rows, revisions, pending.item)
    /\ \A r \in Requests : post[r] # None /\ post[r].asks # None =>
           post[r].asks.target \in Targets \ {"draft"} /\ Shown(rows, revisions, post[r].asks.item)
    /\ \A l \in Loads : load[l] # None /\ load[l].answer # None =>
           \A item \in load[l].answer : Shown(rows, revisions, item)
    /\ \A l \in Loads : load[l] # None /\ load[l].found # None =>
           \A row \in load[l].found : HasBeen(rows, revisions, row)

WInv == IInv /\ PageTypeOK /\ PageShown

-----------------------------------------------------------------------------
(* What steps do to the service.                                           *)

\* A page's request is one of those that callers send who guess nothing.
LEMMA ServedIsArrival ==
    ASSUME WInv, ~Speculative, NEW r \in Requests, Served(r)
    PROVE  Arrival(r)
<1>1. post[r] \in Post /\ post[r].token \in Users
  BY DEF WInv, PageTypeOK, Served, Stopped, Authenticate, Post, Token
<1>2. CASE post[r].asks = None
  <2>1. PICK c \in Codes \ SeedCodes : CreateArrives(r, post[r].token, c, DemoContent)
    BY <1>2 DEF Served
  <2>2. DemoContent \in Contents
    BY WorkbenchAssumption
  <2>. QED  BY <1>1, <2>1, <2>2 DEF Arrival
<1>3. CASE post[r].asks # None
  <2>. DEFINE item == post[r].asks.item
  <2>1. TransitionArrives(r, post[r].token, item.code, item.version, post[r].asks.target)
    BY <1>3 DEF Served
  <2>2. item \in ListItem
    BY <1>1, <1>3 DEF Post, Pending
  <2>3. item.code \in Codes
    BY <2>2 DEF ListItem
  <2>4. post[r].asks.target \in Targets /\ item.version \in Expected(item.code)
    BY <1>1, <1>3 DEF WInv, PageShown, Shown, HasBeen, Expected, Served
  <2>. QED  BY <1>1, <2>1, <2>3, <2>4 DEF Arrival
<1>. QED  BY <1>2, <1>3

\* The steps of the page alone.
PageStep ==
    \/ User \/ TokenChanges
    \/ \E r \in Requests : Promise(r)
    \/ \E l \in Loads : List(l) \/ LoadArrives(l) \/ LoadFails(l)

\* What the tab does by itself does not touch the service.
LEMMA PageStaysOutside ==
    ASSUME PageStep
    PROVE  vars' = vars
<1>1. CASE User
  BY <1>1 DEF User, authenticate, logout, StartLoad, AskTransition, Cancel, createDemo,
              confirmTransition, Send
<1>2. CASE TokenChanges
  BY <1>2 DEF TokenChanges
<1>3. CASE \E r \in Requests : Promise(r)
  BY <1>3 DEF Promise, Changed, TurnedDown, NoSuccess, Rejected
<1>4. CASE \E l \in Loads : List(l) \/ LoadArrives(l) \/ LoadFails(l)
  BY <1>4 DEF List, ListRows, ListRevisions, LoadArrives, LoadFails, Ended
<1>. QED  BY <1>1, <1>2, <1>3, <1>4 DEF PageStep

LEMMA StepIsService ==
    ASSUME WInv, ~Speculative, [WNext]_wvars
    PROVE  vars' = vars \/ Next
<1>1. CASE UNCHANGED wvars
  BY <1>1 DEF wvars
<1>2. CASE Server
  BY <1>2 DEF Server, Next
<1>3. CASE \E r \in Requests : Served(r)
  BY <1>3, ServedIsArrival DEF Next
<1>4. CASE PageStep
  BY <1>4, PageStaysOutside
<1>. QED  BY <1>1, <1>2, <1>3, <1>4 DEF WNext, PageStep

\* A version that was shown stays one that the decision has had.
LEMMA ShownKept ==
    ASSUME IInv, [Next]_vars, NEW item, item.code \in Codes, item.version \in Nat,
           HasBeen(rows, revisions, item)
    PROVE  /\ HasBeen(rows', revisions', item)
           /\ Shown(rows, revisions, item) => Shown(rows', revisions', item)
<1>. DEFINE c == item.code
<1>1. c \in Codes /\ item.version \in Nat
  OBVIOUS
<1>2. rows[c] # None
  BY DEF HasBeen
<1>3. rows[c] \in Row /\ rows'[c] \in Row /\ rows'[c] # None /\ rows[c].version <= rows'[c].version
  BY <1>1, <1>2, RowGrows DEF IInv
<1>4. revisions \subseteq revisions'
  BY TablesGrow
<1>5. HasBeen(rows', revisions', item)
  BY <1>1, <1>2, <1>3, <1>4 DEF HasBeen, Row
<1>. QED  BY <1>4, <1>5 DEF Shown, Overtaken

-----------------------------------------------------------------------------
(* The shape of the page.                                                  *)

LEMMA PageTypeInit == WInit => PageTypeOK
BY DEF WInit, PageTypeOK, Token, Loads

\* The list reads rows as they are.
LEMMA ListedRows ==
    ASSUME TypeOK, NEW c \in Listed
    PROVE  /\ RowOf(c) \in ListRow /\ RowOf(c).code = c
           /\ RowOf(c).version = rows[c].version
           /\ RevisionChain => HasBeen(rows, revisions, RowOf(c))
<1>1. c \in Codes /\ rows[c] # None /\ rows[c] \in Row
  BY DEF TypeOK, Listed
<1>2. /\ rows[c].version \in Nat \ {0} /\ rows[c].status \in Statuses
      /\ rows[c].content \in Contents /\ rows[c].preparedBy \in Users
  BY <1>1 DEF Row
<1>3. /\ RowOf(c) \in ListRow /\ RowOf(c).code = c
      /\ RowOf(c).version = rows[c].version /\ RowOf(c).status = rows[c].status
  BY <1>1, <1>2 DEF RowOf, ListRow
<1>4. rows[c].version \in 1 .. rows[c].version
  BY <1>2
<1>5. ASSUME RevisionChain
      PROVE  HasBeen(rows, revisions, RowOf(c))
  <2>1. PICK v \in revisions : v.code = c /\ v.version = rows[c].version
    BY <1>1, <1>4, <1>5 DEF RevisionChain
  <2>2. v.status = rows[c].status
    BY <1>5, <2>1 DEF RevisionChain
  <2>. QED  BY <1>1, <1>3, <1>4, <2>1, <2>2 DEF HasBeen
<1>. QED  BY <1>1, <1>3, <1>5

\* The last revision of a decision is that of its row in the table.
LEMMA LastRevision ==
    ASSUME TypeOK, RevisionChain, NEW c \in Codes, rows[c] # None
    PROVE  /\ latestRevision(c) \in revisions
           /\ latestRevision(c).code = c /\ latestRevision(c).version = rows[c].version
<1>1. rows[c].version \in Nat \ {0} /\ rows[c].version \in 1 .. rows[c].version
  BY DEF TypeOK, Row
<1>2. PICK v \in revisions : v.code = c /\ v.version = rows[c].version
  BY <1>1 DEF RevisionChain
<1>3. \A w \in revisions : w.code = c => w.version \in Nat /\ w.version <= rows[c].version
  BY DEF RevisionChain, TypeOK, Revision
<1>. DEFINE last == latestRevision(c)
<1>4. last \in revisions /\ last.code = c
      /\ \A w \in revisions : w.code = c => w.version <= last.version
  <2>1. v.code = c /\ \A w \in revisions : w.code = c => w.version <= v.version
    BY <1>2, <1>3
  <2>. QED  BY <2>1 DEF latestRevision
<1>. HIDE DEF last
<1>5. last.version = rows[c].version
  <2>1. last.version <= rows[c].version /\ last.version \in Nat /\ v.version <= last.version
    BY <1>2, <1>3, <1>4
  <2>. QED  BY <1>1, <1>2, <2>1
<1>. QED  BY <1>4, <1>5 DEF last

\* An item has the evidence of its row's version, or its decision has moved on.
LEMMA ListedItems ==
    ASSUME TypeOK, RevisionChain, NEW row \in ListRow, HasBeen(rows, revisions, row)
    PROVE  /\ ItemOf(row) \in ListItem
           /\ ItemOf(row).code = row.code /\ ItemOf(row).version = row.version
           /\ Shown(rows, revisions, ItemOf(row))
<1>. DEFINE c == row.code  last == latestRevision(c)
<1>1. /\ c \in Codes /\ row.version \in Nat \ {0} /\ row.status \in Statuses
      /\ row.preparedBy \in Users
  BY DEF ListRow
<1>2. /\ rows[c] # None /\ rows[c].version \in Nat
      /\ row.version \in 1 .. rows[c].version
  BY <1>1 DEF HasBeen, TypeOK, Row
<1>3. last \in revisions /\ last.code = c /\ last.version = rows[c].version
  BY <1>1, <1>2, LastRevision
<1>4. last.content \in Contents
  BY <1>3 DEF TypeOK, Revision
<1>. HIDE DEF last
<1>5. /\ ItemOf(row) \in ListItem
      /\ ItemOf(row).code = c /\ ItemOf(row).version = row.version
      /\ ItemOf(row).status = row.status /\ ItemOf(row).content = last.content
  BY <1>1, <1>4 DEF ItemOf, ListItem, last
<1>6. PICK v \in revisions : v.code = c /\ v.version = row.version /\ v.status = row.status
  BY DEF HasBeen
<1>7. HasBeen(rows, revisions, ItemOf(row))
  BY <1>2, <1>5, <1>6 DEF HasBeen
<1>8. CASE row.version = rows[c].version
  <2>1. v = last
    BY <1>3, <1>6, <1>8 DEF RevisionChain
  <2>2. Shows(ItemOf(row), v)
    BY <1>5, <1>6, <2>1 DEF Shows
  <2>. QED  BY <1>5, <1>7, <2>2 DEF Shown
<1>9. CASE row.version # rows[c].version
  <2>1. row.version + 1 \in 1 .. rows[c].version
    BY <1>1, <1>2, <1>9
  <2>2. \E u \in revisions : u.code = c /\ u.version = row.version + 1
    BY <1>1, <1>2, <2>1 DEF RevisionChain
  <2>. QED  BY <1>5, <1>7, <2>2 DEF Shown, Overtaken
<1>. QED  BY <1>5, <1>8, <1>9

LEMMA LoadTypes ==
    ASSUME PageTypeOK, NEW search \in SUBSET Codes
    PROVE  Asked(search) \in Load
<1>1. Authenticate(stored) \in BOOLEAN
  BY DEF Authenticate
<1>2. /\ [known |-> TRUE, search |-> search, found |-> None, answer |-> None] \in Load
      /\ [known |-> FALSE, search |-> search, found |-> None, answer |-> None] \in Load
  BY DEF Load
<1>. QED  BY <1>1, <1>2 DEF Asked

LEMMA PageTypeStep ==
    ASSUME TypeOK, RevisionChain, PageTypeOK, PageShown, [WNext]_wvars
    PROVE  PageTypeOK'
<1>1. CASE UNCHANGED page
  BY <1>1 DEF page, PageTypeOK
<1>2. CASE User
  <2>1. CASE (\E u \in Users : authenticate(u)) \/ logout \/ Cancel
    BY <2>1 DEF authenticate, logout, Cancel, PageTypeOK, Token
  <2>2. ASSUME NEW l \in Slots, NEW search \in Searches, StartLoad(l, search)
        PROVE  PageTypeOK'
    <3>1. Asked(search) \in Load
      BY LoadTypes, WorkbenchAssumption
    <3>. QED  BY <2>2, <3>1, WorkbenchAssumption DEF StartLoad, PageTypeOK, Loads
  <2>3. ASSUME NEW item \in items, NEW target \in Targets, AskTransition(item, target)
        PROVE  PageTypeOK'
    <3>1. item \in ListItem
      BY DEF PageTypeOK
    <3>2. transitions["priorityDecision"][item.status] \subseteq Statuses
      <4>1. item.status \in Statuses
        BY <3>1 DEF ListItem
      <4>. QED  BY <4>1 DEF transitions, Statuses
    <3>3. target \in Statuses
      BY <2>3, <3>2 DEF AskTransition, targetsFor
    <3>4. pending' \in Pending
      BY <2>3, <3>1, <3>3 DEF AskTransition, Pending
    <3>. QED  BY <2>3, <3>4 DEF AskTransition, PageTypeOK
  <2>4. ASSUME NEW r \in Requests, NEW asks \in Pending \cup {None}, Send(r, asks)
        PROVE  PageTypeOK'
    <3>1. [token |-> stored, asks |-> asks, promise |-> "sent"] \in Post
      BY DEF PageTypeOK, Post
    <3>. QED  BY <2>4, <3>1 DEF Send, PageTypeOK
  <2>5. ASSUME NEW r \in Requests, createDemo(r) \/ confirmTransition(r)
        PROVE  PageTypeOK'
    BY <2>4, <2>5 DEF createDemo, confirmTransition, PageTypeOK
  <2>. QED  BY <1>2, <2>1, <2>2, <2>3, <2>5 DEF User
<1>3. CASE TokenChanges
  BY <1>3 DEF TokenChanges, PageTypeOK
<1>4. ASSUME NEW r \in Requests, Promise(r)
      PROVE  PageTypeOK'
  <2>1. post[r] \in Post
    BY <1>4 DEF Promise, Changed, TurnedDown, NoSuccess, Sent, PageTypeOK
  <2>2. \A promise \in {"reloading", "refused", "failed"} :
           [post[r] EXCEPT !.promise = promise] \in Post
    BY <2>1 DEF Post
  <2>3. CASE Changed(r)
    <3>1. Asked(Codes) \in Load
      BY LoadTypes
    <3>2. post' \in [Requests -> Post \cup {None}] /\ post'[r] # None
      BY <2>2, <2>3, PageAssumption DEF Changed, PageTypeOK
    <3>. QED  BY <2>3, <3>1, <3>2 DEF Changed, PageTypeOK, Loads
  <2>4. CASE TurnedDown(r) \/ NoSuccess(r)
    <3>1. PICK promise \in {"refused", "failed"} : Rejected(r, promise)
      BY <2>4 DEF TurnedDown, NoSuccess
    <3>2. post' \in [Requests -> Post \cup {None}] /\ post'[r] # None
      BY <2>2, <3>1, PageAssumption DEF Rejected, PageTypeOK
    <3>. QED  BY <3>1, <3>2 DEF Rejected, PageTypeOK
  <2>. QED  BY <1>4, <2>3, <2>4 DEF Promise
<1>5. ASSUME NEW l \in Loads, List(l)
      PROVE  PageTypeOK'
  <2>1. load[l] \in Load
    BY <1>5 DEF List, ListRows, ListRevisions, PageTypeOK
  <2>2. CASE ListRows(l)
    <3>. DEFINE found == {RowOf(c) : c \in load[l].search \cap Listed}
    <3>1. found \subseteq ListRow
      BY ListedRows
    <3>2. [load[l] EXCEPT !.found = found] \in Load
      BY <2>1, <3>1 DEF Load
    <3>. QED  BY <2>2, <3>2 DEF ListRows, PageTypeOK
  <2>3. CASE ListRevisions(l)
    <3>. DEFINE answer == {ItemOf(row) : row \in load[l].found}
    <3>1. /\ load[l].found \subseteq ListRow
          /\ \A row \in load[l].found : HasBeen(rows, revisions, row)
      BY <2>1, <2>3 DEF ListRevisions, Load, PageShown
    <3>2. answer \subseteq ListItem
      BY <3>1, ListedItems
    <3>3. [load[l] EXCEPT !.answer = answer] \in Load
      BY <2>1, <3>2 DEF Load
    <3>. QED  BY <2>3, <3>3 DEF ListRevisions, PageTypeOK
  <2>. QED  BY <1>5, <2>2, <2>3 DEF List
<1>6. ASSUME NEW l \in Loads, load[l] # None, Resolve(l)
      PROVE  /\ post' \in [Requests -> Post \cup {None}] /\ pending' \in Pending \cup {None}
             /\ \A r \in Requests : post[r] # None => post'[r] # None
  <2>1. CASE l \in Requests
    <3>1. post[l] \in Post
      BY <1>6, <2>1 DEF PageTypeOK
    <3>2. [post[l] EXCEPT !.promise = "true"] \in Post
      BY <3>1 DEF Post
    <3>. QED  BY <1>6, <2>1, <3>2, PageAssumption DEF Resolve, PageTypeOK
  <2>2. CASE l \notin Requests
    BY <1>6, <2>2 DEF Resolve, PageTypeOK
  <2>. QED  BY <2>1, <2>2
<1>7. ASSUME NEW l \in Loads, LoadArrives(l) \/ LoadFails(l)
      PROVE  PageTypeOK'
  <2>1. items' \subseteq ListItem
    <3>1. load[l] # None => load[l] \in Load
      BY DEF PageTypeOK
    <3>2. CASE LoadArrives(l)
      <4>1. load[l].answer \in (SUBSET ListItem) \cup {None} /\ load[l].answer # None
        BY <3>1, <3>2 DEF LoadArrives, Load
      <4>2. items' = load[l].answer
        BY <3>2 DEF LoadArrives
      <4>. QED  BY <4>1, <4>2
    <3>3. CASE LoadFails(l)
      BY <3>3 DEF LoadFails, PageTypeOK
    <3>. QED  BY <1>7, <3>2, <3>3
  <2>2. Ended(l) /\ load[l] # None
    BY <1>7 DEF LoadArrives, LoadFails
  <2>3. load' \in [Loads -> Load \cup {None}]
    BY <2>2 DEF Ended, PageTypeOK
  <2>4. \A r \in Requests : load'[r] # None => load[r] # None
    BY <2>2 DEF Ended, PageTypeOK, Loads
  <2>. QED  BY <1>6, <2>1, <2>2, <2>3, <2>4 DEF Ended, PageTypeOK
<1>. QED  BY <1>1, <1>2, <1>3, <1>4, <1>5, <1>7 DEF WNext, wvars, page, Served, Server

-----------------------------------------------------------------------------
(* Where versions come from.                                               *)

LEMMA PageShownInit == WInit => PageShown
BY DEF WInit, PageShown

\* A page hands on the versions it was shown, and a list brings those of the table.
LEMMA PageShownStep ==
    ASSUME IInv, PageTypeOK, PageShown, [Next]_vars, [WNext]_wvars
    PROVE  PageShown'
<1>1. /\ \A item \in ListItem :
             Shown(rows, revisions, item) => Shown(rows', revisions', item)
      /\ \A row \in ListRow :
             HasBeen(rows, revisions, row) => HasBeen(rows', revisions', row)
  BY ShownKept DEF ListItem, ListRow, Shown
<1>2. /\ \A item \in items : Shown(rows', revisions', item)
      /\ pending # None => pending.target \in Targets \ {"draft"} /\ Shown(rows', revisions', pending.item)
      /\ \A r \in Requests : post[r] # None /\ post[r].asks # None =>
             post[r].asks.target \in Targets \ {"draft"} /\ Shown(rows', revisions', post[r].asks.item)
      /\ \A l \in Loads : load[l] # None /\ load[l].answer # None =>
             \A item \in load[l].answer : Shown(rows', revisions', item)
      /\ \A l \in Loads : load[l] # None /\ load[l].found # None =>
             \A row \in load[l].found : HasBeen(rows', revisions', row)
  <2>1. \A item \in items : item \in ListItem
    BY DEF PageTypeOK
  <2>2. pending # None => pending.item \in ListItem
    BY DEF PageTypeOK, Pending
  <2>3. ASSUME NEW r \in Requests, post[r] # None, post[r].asks # None
        PROVE  post[r].asks.item \in ListItem
    BY <2>3 DEF PageTypeOK, Post, Pending
  <2>4. ASSUME NEW l \in Loads, load[l] # None, load[l].answer # None
        PROVE  load[l].answer \subseteq ListItem
    BY <2>4 DEF PageTypeOK, Load
  <2>5. ASSUME NEW l \in Loads, load[l] # None, load[l].found # None
        PROVE  load[l].found \subseteq ListRow
    BY <2>5 DEF PageTypeOK, Load
  <2>. QED  BY <1>1, <2>1, <2>2, <2>3, <2>4, <2>5 DEF PageShown
<1>3. CASE UNCHANGED <<items, pending, post, load>>
  BY <1>2, <1>3 DEF PageShown
<1>4. ASSUME NEW l \in Slots, NEW search \in Searches, StartLoad(l, search)
      PROVE  PageShown'
  BY <1>2, <1>4 DEF StartLoad, Asked, PageShown, PageTypeOK, Loads
<1>5. ASSUME NEW item \in items, NEW target \in Targets, AskTransition(item, target)
      PROVE  PageShown'
  <2>1. item.status \in Statuses
    BY DEF PageTypeOK, ListItem
  <2>2. "draft" \notin transitions["priorityDecision"][item.status]
    BY <2>1 DEF transitions, Statuses
  <2>3. target # "draft"
    BY <1>5, <2>2 DEF AskTransition, targetsFor
  <2>. QED  BY <1>2, <1>5, <2>3 DEF AskTransition, PageShown
<1>6. CASE Cancel
  BY <1>2, <1>6 DEF Cancel, PageShown
<1>7. ASSUME NEW r \in Requests, createDemo(r) \/ confirmTransition(r)
      PROVE  PageShown'
  BY <1>2, <1>7 DEF createDemo, confirmTransition, Send, PageShown, PageTypeOK
<1>8. ASSUME NEW r \in Requests, Promise(r)
      PROVE  PageShown'
  <2>1. post[r] \in Post
    BY <1>8 DEF Promise, Changed, TurnedDown, NoSuccess, Sent, PageTypeOK
  <2>2. PICK promise : post' = [post EXCEPT ![r].promise = promise]
    BY <1>8 DEF Promise, Changed, TurnedDown, NoSuccess, Rejected
  <2>3. [post[r] EXCEPT !.promise = promise].asks = post[r].asks
    BY <2>1 DEF Post
  <2>4. /\ post[r] # None
        /\ \A s \in Requests : post'[s] # post[s] => s = r /\ post'[s].asks = post[s].asks
    BY <1>8, <2>2, <2>3 DEF Promise, Changed, TurnedDown, NoSuccess, Sent, PageTypeOK
  <2>5. \A l \in Loads :
           load'[l] = load[l] \/ (load'[l].answer = None /\ load'[l].found = None)
    BY <1>8 DEF Promise, Changed, TurnedDown, NoSuccess, Rejected, Asked, PageTypeOK
  <2>6. UNCHANGED <<items, pending>>
    BY <1>8 DEF Promise, Changed, TurnedDown, NoSuccess, Rejected
  <2>. QED  BY <1>2, <2>4, <2>5, <2>6 DEF PageShown
<1>9. ASSUME NEW l \in Loads, List(l)
      PROVE  PageShown'
  <2>1. rows' = rows /\ revisions' = revisions /\ UNCHANGED <<items, pending, post>>
    BY <1>9 DEF List, ListRows, ListRevisions, vars
  <2>2. load[l] \in Load /\ load[l] # None
    BY <1>9 DEF List, ListRows, ListRevisions, PageTypeOK
  <2>3. CASE ListRows(l)
    <3>. DEFINE found == {RowOf(c) : c \in load[l].search \cap Listed}
    <3>1. \A row \in found : HasBeen(rows', revisions', row)
      BY <2>1, ListedRows DEF IInv
    <3>2. load' = [load EXCEPT ![l].found = found]
      BY <2>3 DEF ListRows
    <3>. HIDE DEF found
    <3>3. /\ \A k \in Loads : k # l => load'[k] = load[k]
          /\ load'[l].found = found /\ load'[l].answer = load[l].answer
      BY <2>2, <3>2 DEF PageTypeOK, Load
    <3>. QED  BY <1>2, <2>1, <2>2, <3>1, <3>3 DEF PageShown
  <2>4. CASE ListRevisions(l)
    <3>. DEFINE answer == {ItemOf(row) : row \in load[l].found}
    <3>1. /\ load[l].found \subseteq ListRow
          /\ \A row \in load[l].found : HasBeen(rows, revisions, row)
      BY <2>2, <2>4 DEF ListRevisions, Load, PageShown
    <3>2. \A item \in answer : Shown(rows', revisions', item)
      BY <2>1, <3>1, ListedItems DEF IInv
    <3>3. load' = [load EXCEPT ![l].answer = answer]
      BY <2>4 DEF ListRevisions
    <3>. HIDE DEF answer
    <3>4. /\ \A k \in Loads : k # l => load'[k] = load[k]
          /\ load'[l].answer = answer /\ load'[l].found = load[l].found
      BY <2>2, <3>3 DEF PageTypeOK, Load
    <3>. QED  BY <1>2, <2>1, <2>2, <3>2, <3>4 DEF PageShown
  <2>. QED  BY <1>9, <2>3, <2>4 DEF List
<1>10. ASSUME NEW l \in Loads, LoadArrives(l) \/ LoadFails(l)
       PROVE  PageShown'
  <2>1. \A item \in items' : Shown(rows', revisions', item)
    BY <1>2, <1>10 DEF LoadArrives, LoadFails
  <2>2. load' = [load EXCEPT ![l] = None] /\ Resolve(l) /\ load[l] # None
    BY <1>10 DEF LoadArrives, LoadFails, Ended
  <2>3. l \in Requests => post[l] \in Post
    BY <2>2 DEF PageTypeOK
  <2>4. CASE l \in Requests
    BY <1>2, <2>1, <2>2, <2>3, <2>4 DEF Resolve, PageShown, PageTypeOK, Post
  <2>5. CASE l \notin Requests
    BY <1>2, <2>1, <2>2, <2>5 DEF Resolve, PageShown, PageTypeOK
  <2>. QED  BY <2>4, <2>5
<1>11. CASE \/ \E u \in Users : authenticate(u)
            \/ logout \/ TokenChanges \/ Server
            \/ \E r \in Requests : Served(r)
  BY <1>3, <1>11 DEF authenticate, logout, TokenChanges, Server, Served, page
<1>12. CASE UNCHANGED wvars
  BY <1>3, <1>12 DEF wvars, page
<1>. QED  BY <1>4, <1>5, <1>6, <1>7, <1>8, <1>9, <1>10, <1>11, <1>12 DEF WNext, User

-----------------------------------------------------------------------------
(* The theorems.                                                           *)

LEMMA WInvInit == WInit => WInv
BY IInvInit, PageTypeInit, PageShownInit DEF WInit, WInv

LEMMA WInvStep ==
    ASSUME WInv, ~Speculative, [WNext]_wvars
    PROVE  WInv'
<1>1. [Next]_vars
  BY StepIsService
<1>2. IInv'
  BY <1>1, IInvStep DEF WInv
<1>3. PageTypeOK'
  BY PageTypeStep DEF WInv, IInv
<1>4. PageShown'
  BY <1>1, PageShownStep DEF WInv
<1>. QED  BY <1>2, <1>3, <1>4 DEF WInv

LEMMA WInvariance ==
    ASSUME ~Speculative PROVE WSpec => []WInv
<1>1. WInv /\ [WNext]_wvars => WInv'
  BY WInvStep
<1>. QED  BY <1>1, WInvInit, PTL DEF WSpec

\* The tab always has its shape (PageTypeOK): whatever answers come in whatever
\* order, a reload that ends belongs to a request of the page.
THEOREM PageTypeCorrect ==
    ASSUME ~Speculative PROVE WSpec => []PageTypeOK
<1>1. WInv => PageTypeOK
  BY DEF WInv
<1>. QED  BY <1>1, WInvariance, PTL

\* What a workbench and its server do together is what the service does for callers
\* who guess no versions (CallersNameShownVersions): what the theorems about such
\* callers ask of them is so for the page of confirmTransition and its store.
THEOREM WorkbenchNamesShownVersions ==
    ASSUME ~Speculative PROVE WSpec => CallersNameShownVersions
<1>1. WInv /\ [WNext]_wvars => [vars' = vars \/ Next]_vars
  BY StepIsService
<1>2. WInit => Init
  BY DEF WInit
<1>. QED  BY <1>1, <1>2, WInvariance, PTL DEF WSpec, CallersNameShownVersions

\* So reviews made from a workbench are final (ReviewIsFinal), however old the lists
\* and dialogs they are made from, whatever is confirmed twice.
THEOREM WorkbenchReviewsAreFinal ==
    ASSUME ~Speculative PROVE WSpec => []ReviewIsFinal
<1>1. [vars' = vars \/ Next]_vars => [Next]_vars
  OBVIOUS
<1>2. CallersNameShownVersions => Spec
  BY <1>1, PTL DEF CallersNameShownVersions, Spec
<1>. QED  BY <1>2, WorkbenchNamesShownVersions, ReviewsAreFinal, PTL

-----------------------------------------------------------------------------
(* What became of what a page sent.                                        *)

\* A request serves what the page sent, for the user of the token it was sent with.
AsSent(sent, q) ==
    /\ q.user = sent.token /\ sent.token # None
    /\ IF sent.asks = None THEN q.op = "create"
       ELSE /\ q.op = "transition" /\ q.target = sent.asks.target
            /\ q.code = sent.asks.item.code /\ q.expected = sent.asks.item.version

Delivered ==
    \A r \in Requests :
        /\ stage[r] = "idle" => call[r] = None
        /\ post[r] # None /\ call[r] # None => AsSent(post[r], call[r])

\* What a page was told of a request, and what it reloads for, is how it was answered.
Told ==
    \A r \in Requests :
        /\ post[r] # None =>
              /\ post[r].promise \in {"reloading", "true"} => stage[r] = "ok"
              /\ post[r].promise = "refused" =>
                    \/ stage[r] \in {"idle", "forbidden", "business_rule", "conflict"}
                    \/ post[r].token = None
        /\ load[r] # None => stage[r] = "ok" /\ load[r].search = Codes

\* What a reload got is ahead of the change it was made for.
Ahead(listed, shown, v) ==
    v.code \notin listed \/ \E item \in shown : item.code = v.code /\ item.version >= v.version

ReloadAhead ==
    \A r \in Requests : load[r] # None =>
        \A v \in revisions : v.request = r =>
            /\ load[r].found # None => Ahead(Listed, load[r].found, v)
            /\ load[r].answer # None => Ahead(Listed, load[r].answer, v)

\* What a page asked for is as it was shown, or overtaken before it was asked for, and
\* so by another request.
ByOthers ==
    \A r \in Requests : post[r] # None /\ post[r].asks # None =>
        LET item == post[r].asks.item
        IN  \/ \E v \in revisions : Shows(item, v)
            \/ \E v \in revisions : v.code = item.code /\ v.version = item.version + 1
                                     /\ v.request # r

\* A request moves on from idle for good, and keeps what it asks for.
LEMMA OwnStep ==
    ASSUME TypeOK, NEW r \in Requests, Serve(r) \/ CallFails(r) \/ AuditFails(r)
    PROVE  stage[r] \in {"idle"} \cup InFlight /\ stage'[r] # "idle" /\ call'[r] = call[r]
<1>1. stage \in [Requests -> {"idle"} \cup InFlight \cup Answered]
  BY DEF TypeOK
<1>2. CASE CreateCommit(r)
  BY <1>1, <1>2 DEF CreateCommit, Committing, InFlight
<1>3. CASE UpdateCommit(r) \/ TransitionCommit(r)
  BY <1>1, <1>3 DEF UpdateCommit, TransitionCommit, UpdateWithRevision, Committing, InFlight,
                    ErrVersionConflict
<1>4. CASE DeleteCommit(r)
  BY <1>1, <1>4 DEF DeleteCommit, Committing, InFlight
<1>5. CASE Audit(r) \/ ReplyRow(r) \/ ReplyHistory(r)
  BY <1>1, <1>5 DEF Audit, ReplyRow, ReplyHistory, InFlight
<1>6. CASE CallFails(r) \/ AuditFails(r)
  BY <1>1, <1>6 DEF CallFails, AuditFails, InFlight
<1>. QED  BY <1>2, <1>3, <1>4, <1>5, <1>6 DEF Serve

\* A request that arrives is idle no more.
LEMMA ArrivesNotIdle ==
    ASSUME TypeOK, NEW r \in Requests, Arrival(r)
    PROVE  stage[r] = "idle" /\ stage'[r] # "idle"
<1>1. stage \in [Requests -> {"idle"} \cup InFlight \cup Answered]
  BY DEF TypeOK
<1>2. "idle" \notin Refused \cup {"commit"}
  BY DEF Refused
<1>3. PICK u \in Users, c \in Codes :
          \/ \E k \in Contents \cup {Blank} :
                \/ CreateArrives(r, u, c, k)
                \/ \E e \in Expected(c) : UpdateArrives(r, u, c, e, k)
          \/ \E t \in Targets, e \in Expected(c) : TransitionArrives(r, u, c, e, t)
          \/ DeleteArrives(r, u, c)
          \/ GetArrives(r, u, c)
  BY DEF Arrival
<1>4. CASE GetArrives(r, u, c)
  BY <1>1, <1>4 DEF GetArrives
<1>5. ASSUME NEW verdict, NEW q, NEW row, Arrive(r, verdict, q, row), verdict # "idle"
      PROVE  stage[r] = "idle" /\ stage'[r] # "idle"
  BY <1>1, <1>5 DEF Arrive
<1>6. \A k, t : /\ CreateVerdict(u, k) # "idle" /\ UpdateVerdict(u, c, k) # "idle"
                /\ TransitionVerdict(u, c, t) # "idle" /\ DeleteVerdict(u, c) # "idle"
  BY <1>2, VerdictRange
<1>. QED
  BY <1>3, <1>4, <1>5, <1>6 DEF CreateArrives, UpdateArrives, TransitionArrives, DeleteArrives

\* While the server works on other requests, or on this one's call, what the page asked
\* stays asked; an answer stays, with what was recorded before it; and what was turned
\* away stays so.
LEMMA ServerKeeps ==
    ASSUME WInv, ~Speculative, NEW r \in Requests, post[r] # None,
           Server \/ \E p \in Requests \ {r} : Served(p)
    PROVE  /\ call'[r] = call[r]
           /\ stage'[r] = "idle" => stage[r] = "idle"
           /\ stage[r] = "idle" /\ Stopped(r) => stage'[r] = "idle"
           /\ stage[r] \in Answered =>
                 /\ stage'[r] = stage[r]
                 /\ \A v \in revisions' : v.request = r => v \in revisions
<1>1. TypeOK
  BY DEF WInv, IInv
<1>2. \/ ~Stopped(r) /\ (Serve(r) \/ CallFails(r) \/ AuditFails(r))
      \/ Bystander(r)
  <2>1. ASSUME NEW p \in Requests \ {r}, Served(p)
        PROVE  Bystander(r)
    BY <1>1, <2>1, ServedIsArrival, OthersSteps
  <2>2. CASE Server
    BY <1>1, <2>2, OthersSteps, CrashStep DEF Server
  <2>. QED  BY <2>1, <2>2
<1>3. \A s \in Answered : s # "idle" /\ s \notin InFlight
  BY DEF Answered, Refused, InFlight
<1>4. CASE Bystander(r)
  BY <1>3, <1>4 DEF Bystander, InFlight
<1>5. CASE ~Stopped(r) /\ (Serve(r) \/ CallFails(r) \/ AuditFails(r))
  BY <1>1, <1>3, <1>5, OwnStep
<1>. QED  BY <1>2, <1>4, <1>5

\* The page may be told more of what it sent, but it was sent as it was.
LEMMA PostKept ==
    ASSUME PageTypeOK, NEW r \in Requests, PageStep, post'[r] # None
    PROVE  \/ /\ post[r] # None
              /\ post'[r].token = post[r].token /\ post'[r].asks = post[r].asks
           \/ /\ post[r] = None /\ stage[r] = "idle"
              /\ post'[r].promise = "sent" /\ post'[r].asks \in {None, pending}
<1>1. post \in [Requests -> Post \cup {None}]
  BY DEF PageTypeOK
<1>2. ASSUME NEW p \in Requests, NEW promise, post[p] # None,
             post' = [post EXCEPT ![p].promise = promise]
      PROVE  post[r] # None /\ post'[r].token = post[r].token /\ post'[r].asks = post[r].asks
  <2>1. post[p] \in Post
    BY <1>1, <1>2
  <2>2. /\ [post[p] EXCEPT !.promise = promise].token = post[p].token
        /\ [post[p] EXCEPT !.promise = promise].asks = post[p].asks
    BY <2>1 DEF Post
  <2>. QED  BY <1>1, <1>2, <2>2
<1>3. ASSUME NEW p \in Requests, NEW asks, Send(p, asks), r # p
      PROVE  post[r] # None /\ post'[r] = post[r]
  BY <1>1, <1>3 DEF Send
<1>4. ASSUME NEW asks, Send(r, asks)
      PROVE  /\ post[r] = None /\ stage[r] = "idle"
             /\ post'[r].promise = "sent" /\ post'[r].asks = asks
  BY <1>1, <1>4 DEF Send
<1>5. CASE User
  BY <1>3, <1>4, <1>5 DEF User, authenticate, logout, StartLoad, AskTransition, Cancel,
                          createDemo, confirmTransition
<1>6. CASE TokenChanges
  BY <1>6 DEF TokenChanges
<1>7. ASSUME NEW p \in Requests, Promise(p)
      PROVE  post[r] # None /\ post'[r].token = post[r].token /\ post'[r].asks = post[r].asks
  <2>1. post[p] # None /\ \E promise : post' = [post EXCEPT ![p].promise = promise]
    BY <1>7 DEF Promise, Changed, TurnedDown, NoSuccess, Rejected, Sent
  <2>. QED  BY <1>2, <2>1
<1>8. ASSUME NEW l \in Loads, List(l) \/ LoadArrives(l) \/ LoadFails(l)
      PROVE  post[r] # None /\ post'[r].token = post[r].token /\ post'[r].asks = post[r].asks
  <2>1. CASE post' = post
    BY <2>1
  <2>2. CASE post' # post
    <3>1. l \in Requests /\ load[l] # None /\ post' = [post EXCEPT ![l].promise = "true"]
      BY <1>8, <2>2 DEF List, ListRows, ListRevisions, LoadArrives, LoadFails, Ended, Resolve
    <3>2. post[l] # None
      BY <3>1 DEF PageTypeOK
    <3>. QED  BY <1>2, <3>1, <3>2
  <2>. QED  BY <2>1, <2>2
<1>. QED  BY <1>5, <1>6, <1>7, <1>8 DEF PageStep

\* What the status of an answer says of it.
LEMMA StatusSays ==
    ASSUME TypeOK, NEW r \in Requests
    PROVE  /\ ResponseOk(r) => stage[r] = "ok"
           /\ Status(r) \in {401, 403, 409, 422} =>
                 \/ stage[r] \in {"forbidden", "business_rule", "conflict"}
                 \/ post[r].token = None
<1>1. None \notin Nat
  BY PageAssumption
<1>2. CASE stage[r] \in {"forbidden", "business_rule", "not_found", "conflict", "internal"}
  BY <1>2 DEF Status, StatusOf, handleError, ResponseOk, Answered, Refused
<1>3. CASE stage[r] = "ok"
  <2>1. /\ PriorityDecisionHandler["create"].status = 201
        /\ PriorityDecisionHandler["transition"].status = 200
    BY DEF PriorityDecisionHandler, BridgeAssetHandler
  <2>2. Status(r) \in {200, 201}
    BY <1>3, <2>1 DEF Status, StatusOf, Op, Answered
  <2>. QED  BY <1>3, <2>2
<1>4. CASE stage[r] \notin Answered \ {"lost"}
  BY <1>1, <1>4 DEF Status, ResponseOk, Unauthorized, Authenticate
<1>. QED  BY <1>2, <1>3, <1>4 DEF Answered, Refused

\* At first nothing was sent.
LEMMA DeliveredInit == WInit => Delivered /\ Told /\ ReloadAhead /\ ByOthers
BY DEF WInit, Init, Delivered, Told, ReloadAhead, ByOthers, Loads

\* Every request of a page serves what was sent.
LEMMA DeliveredStep ==
    ASSUME WInv, ~Speculative, Delivered, [WNext]_wvars
    PROVE  Delivered'
<1>1. TypeOK /\ PageTypeOK /\ [Next]_vars
  BY StepIsService DEF WInv, IInv
<1>2. call \in [Requests -> Call \cup {None}] /\ stage \in [Requests -> {"idle"} \cup InFlight \cup Answered]
  BY <1>1 DEF TypeOK
<1>3. CASE UNCHANGED wvars
  BY <1>3 DEF wvars, vars, page, Delivered
<1>4. CASE PageStep
  <2>1. stage' = stage /\ call' = call
    BY <1>4, PageStaysOutside DEF vars
  <2>. SUFFICES ASSUME NEW r \in Requests, post'[r] # None, call[r] # None
                PROVE  AsSent(post'[r], call[r])
    BY <2>1 DEF Delivered
  <2>2. /\ post[r] # None
        /\ post'[r].token = post[r].token /\ post'[r].asks = post[r].asks
    BY <1>1, <1>4, PostKept DEF Delivered
  <2>. QED  BY <2>2 DEF Delivered, AsSent
<1>5. ASSUME NEW r \in Requests, stage'[r] = "idle"
      PROVE  call'[r] = None
  <2>1. Arrival(r) \/ Serve(r) \/ CallFails(r) \/ AuditFails(r) \/ Bystander(r)
    BY <1>1, RequestSteps
  <2>2. Bystander(r)
    BY <1>1, <1>5, <2>1, OwnStep, ArrivesNotIdle
  <2>3. stage[r] = "idle" /\ call'[r] = call[r]
    BY <1>5, <2>2 DEF Bystander
  <2>. QED  BY <2>3 DEF Delivered
<1>6. CASE Server
  <2>1. post' = post
    BY <1>6 DEF Server, page
  <2>. QED  BY <1>5, <1>6, <2>1, ServerKeeps DEF Delivered
<1>7. ASSUME NEW p \in Requests, Served(p)
      PROVE  Delivered'
  <2>1. post' = post /\ post[p] # None /\ post[p].token # None
    BY <1>7 DEF Served, Stopped, page, Authenticate
  <2>2. ASSUME call'[p] # None
        PROVE  AsSent(post[p], call'[p])
    <3>1. ASSUME NEW c, CreateArrives(p, post[p].token, c, DemoContent)
          PROVE  call'[p].op = "create" /\ call'[p].user = post[p].token
      BY <1>2, <2>2, <3>1 DEF CreateArrives, Arrive
    <3>2. ASSUME NEW u, NEW c, NEW e, NEW t, TransitionArrives(p, u, c, e, t)
          PROVE  /\ call'[p].op = "transition" /\ call'[p].user = u /\ call'[p].code = c
                 /\ call'[p].expected = e /\ call'[p].target = t
      BY <1>2, <2>2, <3>2 DEF TransitionArrives, Arrive
    <3>3. CASE post[p].asks = None
      BY <1>7, <2>1, <3>1, <3>3 DEF Served, AsSent
    <3>4. CASE post[p].asks # None
      <4>. DEFINE item == post[p].asks.item
      <4>1. TransitionArrives(p, post[p].token, item.code, item.version, post[p].asks.target)
        BY <1>7, <3>4 DEF Served
      <4>. QED  BY <2>1, <3>2, <3>4, <4>1 DEF AsSent
    <3>. QED  BY <3>3, <3>4
  <2>3. ASSUME NEW r \in Requests \ {p}, post[r] # None
        PROVE  call'[r] = call[r]
    BY <1>7, <2>3, ServerKeeps
  <2>4. ASSUME NEW r \in Requests, post'[r] # None, call'[r] # None
        PROVE  AsSent(post'[r], call'[r])
    <3>1. CASE r = p
      BY <2>1, <2>2, <2>4, <3>1
    <3>2. CASE r # p
      <4>1. call'[r] = call[r] /\ post'[r] = post[r]
        BY <2>1, <2>3, <2>4, <3>2
      <4>. QED  BY <2>4, <4>1 DEF Delivered
    <3>. QED  BY <3>1, <3>2
  <2>. QED  BY <1>5, <2>4 DEF Delivered
<1>. QED  BY <1>3, <1>4, <1>6, <1>7 DEF WNext, PageStep

\* A step of the page tells it what the answers say.
LEMMA ToldByPage ==
    ASSUME TypeOK, PageTypeOK, Told, PageStep
    PROVE  Told'
<1>. USE DEF Loads
<1>1. stage' = stage
  BY PageStaysOutside DEF vars
<1>2. /\ post \in [Requests -> Post \cup {None}] /\ load \in [Loads -> Load \cup {None}]
      /\ \A r \in Requests : r \notin Slots
  BY WorkbenchAssumption DEF PageTypeOK
<1>3. ASSUME NEW r \in Requests, post'[r] # None
      PROVE  /\ post'[r].promise \in {"reloading", "true"} => stage[r] = "ok"
             /\ post'[r].promise = "refused" =>
                   \/ stage[r] \in {"idle", "forbidden", "business_rule", "conflict"}
                   \/ post'[r].token = None
  <2>1. CASE post'[r] = post[r]
    BY <1>3, <2>1 DEF Told
  <2>2. CASE post'[r].promise \in {"sent", "failed"}
    BY <2>2
  <2>3. ASSUME NEW p \in Requests, post[p] # None, NEW promise,
               post' = [post EXCEPT ![p].promise = promise]
        PROVE  \/ post'[r] = post[r]
               \/ r = p /\ post'[r].promise = promise /\ post'[r].token = post[r].token
    <3>1. post[p] \in Post
      BY <1>2, <2>3
    <3>2. /\ [post[p] EXCEPT !.promise = promise].token = post[p].token
          /\ [post[p] EXCEPT !.promise = promise].promise = promise
      BY <3>1 DEF Post
    <3>. QED  BY <1>2, <2>3, <3>2
  <2>4. CASE User
    <3>1. post' = post \/ \E p \in Requests : \E asks : Send(p, asks)
      BY <2>4 DEF User, authenticate, logout, StartLoad, AskTransition, Cancel, createDemo,
                  confirmTransition
    <3>2. ASSUME NEW p \in Requests, NEW asks, Send(p, asks)
          PROVE  post'[r] = post[r] \/ post'[r].promise = "sent"
      BY <1>2, <3>2 DEF Send
    <3>. QED  BY <2>1, <2>2, <3>1, <3>2
  <2>5. CASE TokenChanges
    BY <2>1, <2>5 DEF TokenChanges
  <2>6. ASSUME NEW p \in Requests, Changed(p)
        PROVE  post'[r] = post[r] \/ (stage[r] = "ok" /\ post'[r].promise = "reloading")
    <3>1. post[p] # None /\ post' = [post EXCEPT ![p].promise = "reloading"] /\ stage[p] = "ok"
      BY <2>6, StatusSays DEF Changed, Sent
    <3>. QED  BY <2>3, <3>1
  <2>7. ASSUME NEW p \in Requests, TurnedDown(p)
        PROVE  \/ post'[r] = post[r]
               \/ /\ post'[r].promise = "refused"
                  /\ \/ stage[r] \in {"idle", "forbidden", "business_rule", "conflict"}
                     \/ post'[r].token = None
    <3>1. post[p] # None /\ post' = [post EXCEPT ![p].promise = "refused"]
      BY <2>7 DEF TurnedDown, Rejected, Sent
    <3>2. \/ stage[p] \in {"idle", "forbidden", "business_rule", "conflict"}
          \/ post[p].token = None
      BY <2>7, StatusSays DEF TurnedDown, Limited
    <3>. QED  BY <2>3, <3>1, <3>2
  <2>8. ASSUME NEW p \in Requests, NoSuccess(p)
        PROVE  post'[r] = post[r] \/ post'[r].promise = "failed"
    <3>1. post[p] # None /\ post' = [post EXCEPT ![p].promise = "failed"]
      BY <2>8 DEF NoSuccess, Rejected, Sent
    <3>. QED  BY <2>3, <3>1
  <2>9. ASSUME NEW l \in Loads, List(l) \/ LoadArrives(l) \/ LoadFails(l)
        PROVE  post'[r] = post[r] \/ (stage[r] = "ok" /\ post'[r].promise = "true")
    <3>1. CASE post' = post
      BY <3>1
    <3>2. CASE post' # post
      <4>1. l \in Requests /\ load[l] # None /\ post' = [post EXCEPT ![l].promise = "true"]
        BY <2>9, <3>2 DEF List, ListRows, ListRevisions, LoadArrives, LoadFails, Ended, Resolve
      <4>2. post[l] # None /\ stage[l] = "ok"
        BY <4>1 DEF PageTypeOK, Told
      <4>. QED  BY <2>3, <4>1, <4>2
    <3>. QED  BY <3>1, <3>2
  <2>10. ASSUME post'[r].promise \in {"reloading", "true"}, stage[r] = "ok"
         PROVE  /\ post'[r].promise \in {"reloading", "true"} => stage[r] = "ok"
                /\ post'[r].promise # "refused"
    BY <2>10
  <2>. QED
    BY <2>1, <2>2, <2>4, <2>5, <2>6, <2>7, <2>8, <2>9, <2>10 DEF PageStep, Promise
<1>4. ASSUME NEW r \in Requests, load'[r] # None
      PROVE  stage[r] = "ok" /\ load'[r].search = Codes
  <2>1. CASE load'[r] = load[r]
    BY <1>4, <2>1 DEF Told
  <2>2. ASSUME NEW l \in Slots, NEW search, StartLoad(l, search)
        PROVE  load'[r] = load[r]
    BY <1>2, <2>2 DEF StartLoad
  <2>3. ASSUME NEW p \in Requests, Changed(p)
        PROVE  load'[r] = load[r] \/ (stage[r] = "ok" /\ load'[r].search = Codes)
    BY <1>2, <2>3, StatusSays DEF Changed, Asked
  <2>4. ASSUME NEW l \in Loads, List(l), l = r
        PROVE  load[r] # None /\ load'[r].search = load[r].search
    <3>1. load[r] \in Load /\ load[r] # None
      BY <1>2, <2>4 DEF List, ListRows, ListRevisions
    <3>2. \E x : \/ load' = [load EXCEPT ![r].found = x]
                 \/ load' = [load EXCEPT ![r].answer = x]
      BY <2>4 DEF List, ListRows, ListRevisions
    <3>. QED  BY <1>2, <3>1, <3>2 DEF Load
  <2>5. ASSUME NEW l \in Loads, List(l), l # r
        PROVE  load'[r] = load[r]
    BY <1>2, <2>5 DEF List, ListRows, ListRevisions
  <2>6. ASSUME NEW l \in Loads, LoadArrives(l) \/ LoadFails(l)
        PROVE  load'[r] = load[r]
    BY <1>2, <1>4, <2>6 DEF LoadArrives, LoadFails, Ended
  <2>7. CASE \E p \in Requests : TurnedDown(p) \/ NoSuccess(p)
    BY <2>1, <2>7 DEF TurnedDown, NoSuccess, Rejected
  <2>8. CASE TokenChanges
    BY <2>1, <2>8 DEF TokenChanges
  <2>9. CASE User
    BY <2>1, <2>2, <2>9 DEF User, authenticate, logout, AskTransition, Cancel, createDemo,
                            confirmTransition, Send
  <2>10. ASSUME NEW l \in Loads, List(l)
         PROVE  stage[r] = "ok" /\ load'[r].search = Codes
    BY <2>1, <2>4, <2>5, <2>10 DEF Told
  <2>. QED  BY <2>1, <2>3, <2>6, <2>7, <2>8, <2>9, <2>10 DEF PageStep, Promise
<1>. QED  BY <1>1, <1>3, <1>4 DEF Told

\* An answer, once given, stays what the page was told.
LEMMA ToldStep ==
    ASSUME WInv, ~Speculative, Told, [WNext]_wvars
    PROVE  Told'
<1>1. TypeOK /\ PageTypeOK
  BY DEF WInv, IInv
<1>2. CASE UNCHANGED wvars
  BY <1>2 DEF wvars, vars, page, Told
<1>3. CASE PageStep
  BY <1>1, <1>3, ToldByPage
<1>4. CASE Server \/ \E p \in Requests : Served(p)
  <2>1. UNCHANGED <<post, load>>
    BY <1>4 DEF Server, Served, page
  <2>. SUFFICES ASSUME NEW r \in Requests, post[r] # None
                PROVE  /\ stage[r] = "ok" => stage'[r] = "ok"
                       /\ stage[r] \in {"forbidden", "business_rule", "conflict"} =>
                             stage'[r] = stage[r]
                       /\ stage[r] = "idle" /\ post[r].promise = "refused" =>
                             stage'[r] = "idle"
    BY <1>1, <2>1 DEF Told, PageTypeOK
  <2>2. CASE Server \/ \E p \in Requests \ {r} : Served(p)
    BY <2>2, ServerKeeps DEF Answered, Refused, Stopped
  <2>3. CASE Served(r)
    BY <1>1, <2>3, ServedIsArrival, ArrivesNotIdle DEF Served, Stopped
  <2>. QED  BY <1>4, <2>2, <2>3
<1>. QED  BY <1>2, <1>3, <1>4 DEF WNext, PageStep

\* A reload that was read stays ahead of the change it was made for.
LEMMA ReloadStep ==
    ASSUME WInv, ~Speculative, Told, ReloadAhead, [WNext]_wvars
    PROVE  ReloadAhead'
<1>. USE DEF Loads
<1>1. TypeOK /\ PageTypeOK /\ RevisionChain /\ IInv /\ [Next]_vars
  BY StepIsService DEF WInv, IInv
<1>2. \A v \in revisions : v.code \in Codes /\ v.version \in Nat /\ rows[v.code] # None
                           /\ v.version <= rows[v.code].version
  BY <1>1 DEF TypeOK, Revision, RevisionChain
<1>3. load \in [Loads -> Load \cup {None}]
  BY <1>1 DEF PageTypeOK
<1>. SUFFICES ASSUME NEW r \in Requests, load'[r] # None, NEW v \in revisions', v.request = r
              PROVE  /\ load'[r].found # None => Ahead(Listed', load'[r].found, v)
                     /\ load'[r].answer # None => Ahead(Listed', load'[r].answer, v)
  BY DEF ReloadAhead
<1>4. ASSUME v \in revisions, NEW shown, Ahead(Listed, shown, v)
      PROVE  Ahead(Listed', shown, v)
  <2>1. v.code \notin Listed => v.code \notin Listed'
    <3>1. rows[v.code].deleted => rows'[v.code].deleted
      BY <1>1, <1>2, <1>4, TablesGrow
    <3>. QED  BY <1>2, <1>4, <3>1 DEF Listed
  <2>. QED  BY <1>4, <2>1 DEF Ahead
<1>5. CASE Server \/ \E p \in Requests : Served(p)
  <2>1. UNCHANGED <<post, load>>
    BY <1>5 DEF Server, Served, page
  <2>2. post[r] # None /\ stage[r] = "ok"
    BY <1>1, <2>1 DEF Told, PageTypeOK
  <2>3. ~Served(r)
    BY <1>1, <2>2, ServedIsArrival, ArrivesNotIdle
  <2>4. v \in revisions
    BY <1>5, <2>2, <2>3, ServerKeeps DEF Answered
  <2>. QED  BY <1>4, <2>1, <2>4 DEF ReloadAhead
<1>6. ASSUME PageStep
      PROVE  rows' = rows /\ revisions' = revisions /\ Listed' = Listed
  <2>1. rows' = rows /\ revisions' = revisions
    BY <1>6, PageStaysOutside DEF vars
  <2>. QED  BY <2>1 DEF Listed
<1>7. ASSUME PageStep, load'[r] # load[r]
      PROVE  List(r) \/ (load'[r].found = None /\ load'[r].answer = None)
  <2>1. \A l \in Slots : l # r
    BY WorkbenchAssumption
  <2>2. CASE User
    BY <1>3, <1>7, <2>1, <2>2 DEF User, authenticate, logout, StartLoad, AskTransition, Cancel,
            createDemo, confirmTransition, Send
  <2>3. CASE TokenChanges
    BY <1>7, <2>3 DEF TokenChanges
  <2>4. ASSUME NEW p \in Requests, Promise(p)
        PROVE  load'[r] = load[r] \/ (load'[r].found = None /\ load'[r].answer = None)
    BY <1>3, <2>4 DEF Promise, Changed, TurnedDown, NoSuccess, Rejected, Asked
  <2>5. ASSUME NEW l \in Loads, LoadArrives(l) \/ LoadFails(l)
        PROVE  load'[r] = load[r]
    BY <1>3, <2>5 DEF LoadArrives, LoadFails, Ended
  <2>6. ASSUME NEW l \in Loads, List(l), l # r
        PROVE  load'[r] = load[r]
    BY <1>3, <2>6 DEF List, ListRows, ListRevisions
  <2>. QED  BY <1>7, <2>2, <2>3, <2>4, <2>5, <2>6 DEF PageStep
<1>8. CASE ListRows(r)
  <2>. DEFINE found == {RowOf(c) : c \in load[r].search \cap Listed}
  <2>1. load[r] \in Load /\ load[r] # None /\ load' = [load EXCEPT ![r].found = found]
        /\ UNCHANGED <<rows, revisions>>
    BY <1>3, <1>8 DEF ListRows, vars
  <2>2. load'[r].found = found /\ load'[r].answer = load[r].answer
    <3>. HIDE DEF found
    <3>. QED  BY <1>3, <2>1 DEF Load
  <2>3. load[r].search = Codes /\ Listed' = Listed
    BY <2>1 DEF Told, Listed
  <2>4. Ahead(Listed', found, v)
    <3>1. CASE v.code \in Listed
      <4>1. /\ RowOf(v.code) \in found
            /\ RowOf(v.code).code = v.code /\ RowOf(v.code).version = rows[v.code].version
        BY <1>1, <2>3, <3>1, ListedRows DEF Listed
      <4>2. rows[v.code].version \in Nat
        BY <1>1, <1>2, <2>1, <3>1 DEF TypeOK, Row
      <4>3. rows[v.code].version >= v.version
        BY <1>2, <2>1, <4>2
      <4>. HIDE DEF found
      <4>. QED  BY <4>1, <4>3 DEF Ahead
    <3>2. CASE v.code \notin Listed
      BY <2>3, <3>2 DEF Ahead
    <3>. QED  BY <3>1, <3>2
  <2>5. load[r].answer # None => Ahead(Listed', load[r].answer, v)
    BY <2>1, <2>3 DEF ReloadAhead
  <2>. HIDE DEF found
  <2>. QED  BY <2>2, <2>4, <2>5
<1>9. CASE ListRevisions(r)
  <2>. DEFINE answer == {ItemOf(row) : row \in load[r].found}
  <2>1. load[r] \in Load /\ load[r] # None /\ load[r].found # None
        /\ load' = [load EXCEPT ![r].answer = answer] /\ UNCHANGED <<rows, revisions>>
    BY <1>3, <1>9 DEF ListRevisions, vars
  <2>2. load'[r].answer = answer /\ load'[r].found = load[r].found
    <3>. HIDE DEF answer
    <3>. QED  BY <1>3, <2>1 DEF Load
  <2>3. Ahead(Listed, load[r].found, v) /\ Listed' = Listed
    BY <2>1 DEF ReloadAhead, Listed
  <2>4. \A row \in load[r].found :
            /\ ItemOf(row) \in answer
            /\ ItemOf(row).code = row.code /\ ItemOf(row).version = row.version
    BY DEF ItemOf
  <2>. HIDE DEF answer
  <2>5. Ahead(Listed', answer, v)
    BY <2>3, <2>4 DEF Ahead
  <2>. QED  BY <2>2, <2>3, <2>5
<1>10. CASE PageStep
  <2>1. CASE load'[r] = load[r]
    BY <1>6, <1>10, <2>1 DEF ReloadAhead
  <2>2. CASE load'[r] # load[r]
    BY <1>7, <1>8, <1>9, <1>10, <2>2 DEF List
  <2>. QED  BY <2>1, <2>2
<1>11. CASE UNCHANGED wvars
  <2>1. UNCHANGED <<rows, revisions, load>>
    BY <1>11 DEF wvars, vars, page
  <2>2. Listed' = Listed
    BY <2>1 DEF Listed
  <2>. QED  BY <2>1, <2>2 DEF ReloadAhead
<1>. QED  BY <1>5, <1>10, <1>11 DEF WNext, PageStep

\* Where the list brought evidence of a later version, that version was not written by
\* what was asked for after it.
LEMMA ByOthersStep ==
    ASSUME WInv, ~Speculative, Trails, ByOthers, [WNext]_wvars
    PROVE  ByOthers'
<1>1. PageTypeOK /\ PageShown /\ revisions \subseteq revisions'
  BY StepIsService, TablesGrow DEF WInv
<1>2. CASE post' = post
  BY <1>1, <1>2 DEF ByOthers
<1>3. CASE PageStep
  <2>. SUFFICES ASSUME NEW r \in Requests, post'[r] # None, post'[r].asks # None,
                       NEW item, item = post'[r].asks.item
                PROVE  \/ \E v \in revisions : Shows(item, v)
                       \/ \E v \in revisions : v.code = item.code /\ v.version = item.version + 1
                                                /\ v.request # r
    BY <1>1 DEF ByOthers
  <2>1. CASE post[r] # None /\ post'[r].asks = post[r].asks
    BY <2>1 DEF ByOthers
  <2>2. CASE stage[r] = "idle" /\ post'[r].asks = pending
    <3>1. Shown(rows, revisions, item)
      BY <1>1, <2>2 DEF PageShown
    <3>2. \A v \in revisions : v.request # r
      BY <2>2 DEF Trails, Trail, Wrote
    <3>. QED  BY <3>1, <3>2 DEF Shown, Overtaken
  <2>. QED  BY <1>1, <1>3, <2>1, <2>2, PostKept
<1>4. CASE Server \/ (\E r \in Requests : Served(r)) \/ UNCHANGED wvars
  BY <1>2, <1>4 DEF Server, Served, page, wvars
<1>. QED  BY <1>3, <1>4 DEF WNext, PageStep

-----------------------------------------------------------------------------
(* What pages are told and shown.                                          *)

\* All of it: the service's own invariants, the page's, and what joins them.
Joined ==
    WInv /\ Trails /\ Finality /\ Delivered /\ Told /\ ReloadAhead /\ ByOthers

LEMMA Joins ==
    ASSUME ~Speculative PROVE WSpec => []Joined
<1>1. WInit => Joined
  BY WInvInit, TrailsInit, FinalInit, DeliveredInit DEF WInit, Joined
<1>2. ASSUME Joined, [WNext]_wvars
      PROVE  Joined'
  <2>1. /\ WInv /\ Trails /\ Finality /\ Delivered /\ Told /\ ReloadAhead /\ ByOthers
        /\ IInv
    BY <1>2 DEF Joined, WInv
  <2>2. [Next]_vars
    BY <1>2, <2>1, StepIsService
  <2>3. WInv'
    BY <1>2, <2>1, WInvStep
  <2>4. Trails'
    BY <2>1, <2>2, TrailsStep
  <2>5. Finality'
    BY <2>1, <2>2, FinalStep
  <2>6. Delivered' /\ Told' /\ ReloadAhead' /\ ByOthers'
    BY <1>2, <2>1, DeliveredStep, ToldStep, ReloadStep, ByOthersStep
  <2>. QED  BY <2>3, <2>4, <2>5, <2>6 DEF Joined
<1>. QED  BY <1>1, <1>2, PTL DEF WSpec

\* A change that a page was told has been made is in the history under the token's
\* user, and one that was refused is not (PageToldTruth): whoever logged in meanwhile,
\* whatever answers were lost or overtaken.
THEOREM PagesAreToldTheTruth ==
    ASSUME ~Speculative PROVE WSpec => []PageToldTruth
<1>1. ASSUME Joined
      PROVE  PageToldTruth
  <2>. SUFFICES ASSUME NEW r \in Requests, post[r] # None
                PROVE  /\ post[r].promise \in {"reloading", "true"} =>
                              \E v \in revisions : v.actor = post[r].token /\ v.request = r
                       /\ post[r].promise = "refused" => \A v \in revisions : v.request # r
    BY DEF PageToldTruth
  <2>0. Trail(r) /\ AnswerHolds(r) /\ None \notin Call
    BY <1>1, PageAssumption DEF Joined, Trails
  <2>1. call[r] # None => AsSent(post[r], call[r])
    BY <1>1 DEF Joined, Delivered
  <2>2. ASSUME NEW v \in revisions, v.request = r
        PROVE  stage[r] \in Wrote /\ RecordedAs(r, v) /\ call[r] # None
    BY <2>0, <2>2 DEF Trail, RecordedAs
  <2>3. ASSUME post[r].promise \in {"reloading", "true"}
        PROVE  \E v \in revisions : v.actor = post[r].token /\ v.request = r
    <3>1. stage[r] = "ok"
      BY <1>1, <2>3 DEF Joined, Told
    <3>2. AsSent(post[r], call[r])
      BY <2>0, <2>1, <3>1 DEF AnswerHolds
    <3>3. call[r].op \in Changes
      BY <3>2 DEF AsSent, Changes
    <3>4. PICK v \in revisions : v.request = r
      BY <2>0, <3>1, <3>3 DEF Trail
    <3>. QED  BY <2>2, <3>2, <3>4 DEF RecordedAs, AsSent
  <2>4. ASSUME post[r].promise = "refused", NEW v \in revisions, v.request = r
        PROVE  FALSE
    <3>1. \/ stage[r] \in {"idle", "forbidden", "business_rule", "conflict"}
          \/ post[r].token = None
      BY <1>1, <2>4 DEF Joined, Told
    <3>. QED  BY <2>1, <2>2, <2>4, <3>1 DEF Wrote, AsSent
  <2>. QED  BY <2>3, <2>4
<1>. QED  BY <1>1, Joins, PTL

\* A review that was recorded is the one its dialog showed, of the evidence it showed
\* (ReviewedAsShown): however old the list it was opened on, and though a list may show
\* the evidence of a later version with a row, for then its review is refused.
THEOREM ReviewsAreAsShown ==
    ASSUME ~Speculative PROVE WSpec => []ReviewedAsShown
<1>1. ASSUME Joined
      PROVE  ReviewedAsShown
  <2>. SUFFICES ASSUME NEW r \in Requests, post[r] # None, post[r].asks # None,
                       NEW v \in revisions, v.request = r,
                       NEW item, item = post[r].asks.item
                PROVE  /\ v.code = item.code /\ v.version = item.version + 1
                       /\ v.content = item.content /\ v.status = post[r].asks.target
                       /\ \E w \in revisions : Shows(item, w)
    BY DEF ReviewedAsShown
  <2>1. RecordedAs(r, v) /\ call[r] # None
    BY <1>1, PageAssumption DEF Joined, Trails, Trail, RecordedAs
  <2>2. AsSent(post[r], call[r])
    BY <1>1, <2>1 DEF Joined, Delivered
  <2>3. v.code = item.code /\ v.version = item.version + 1 /\ v.status = post[r].asks.target
    BY <2>1, <2>2 DEF RecordedAs, AsSent
  <2>4. \A u \in revisions : u.code = item.code /\ u.version = item.version + 1 => u = v
    BY <1>1, <2>3 DEF Joined, WInv, IInv, RevisionChain
  <2>5. PICK w \in revisions : Shows(item, w)
    BY <1>1, <2>4 DEF Joined, ByOthers
  <2>6. post[r].asks.target # "draft"
    BY <1>1 DEF Joined, WInv, PageShown
  <2>7. v.content = w.content
    BY <1>1, <2>3, <2>5, <2>6 DEF Shows, Joined, Finality, ReviewedContentKept
  <2>. QED  BY <2>3, <2>5, <2>7 DEF Shows
<1>. QED  BY <1>1, Joins, PTL

\* The reload after a change shows it, or what came after it (ReloadShowsChange).
THEOREM ReloadsShowChanges ==
    ASSUME ~Speculative PROVE WSpec => []ReloadShowsChange
<1>1. Joined => ReloadShowsChange
  BY DEF Joined, ReloadAhead, Ahead, ReloadShowsChange
<1>. QED  BY <1>1, Joins, PTL

\* The buttons that a role is offered are what the graph and the gates of the service
\* behind them allow.
LEMMA ButtonsMatch ==
    ASSUME NEW role \in Roles, PageTypeOK, session # None, Role[session] = role
    PROVE  /\ canAtLeast("reviewer") <=> role \in {"reviewer", "admin"}
           /\ canWrite <=> role \in {"operator", "reviewer", "admin"}
           /\ RequireMinimumRole("operator") = {"operator", "reviewer", "admin"}
           /\ RequireMinimumRole("reviewer") = {"reviewer", "admin"}
<1>1. Authenticated = {"viewer", "operator", "reviewer", "admin"}
  BY DEF Authenticated, RoleRank
<1>2. /\ RoleRank["viewer"] = 1 /\ RoleRank["operator"] = 2
      /\ RoleRank["reviewer"] = 3 /\ RoleRank["admin"] = 4
  BY DEF RoleRank
<1>3. \A r \in Roles : (RoleRank[r] >= 2 <=> r \in {"operator", "reviewer", "admin"})
                       /\ (RoleRank[r] >= 3 <=> r \in {"reviewer", "admin"})
  BY <1>2 DEF Roles
<1>. QED  BY <1>1, <1>2, <1>3 DEF canAtLeast, canWrite, RequireMinimumRole, Roles

\* The page of priority decisions offers a row what the service would do.
LEMMA TargetsMatch ==
    ASSUME TypeOK, PageTypeOK, session # None, NEW item \in items, Current(item)
    PROVE  targetsFor(item) =
               {s \in Statuses : TransitionVerdict(session, item.code, s) = "commit"}
<1>1. session \in Users /\ Role[session] \in Roles
  BY CallersAssumption DEF PageTypeOK
<1>2. item.code \in Codes /\ Live(item.code) /\ rows[item.code].status \in Statuses
  BY DEF Current, Listed, Live, TypeOK, Row
<1>3. item.status = rows[item.code].status /\ item.preparedBy = rows[item.code].preparedBy
  BY DEF Current
<1>4. /\ canAtLeast("reviewer") <=> CanReview(session)
      /\ CanReview(session) => CanWrite(session)
  BY <1>1, ButtonsMatch DEF CanReview, CanWrite
<1>5. \A from, to \in Statuses :
          CanTransition(from, to) <=> to \in transitions["priorityDecision"][from]
  BY DEF CanTransition, PriorityDecisionTransitions, transitions, Statuses
<1>6. \A from \in Statuses : transitions["priorityDecision"][from] \subseteq Statuses
  BY DEF transitions, Statuses
<1>7. ASSUME NEW s \in Statuses
      PROVE  TransitionVerdict(session, item.code, s) = "commit" <=>
                /\ CanReview(session)
                /\ session # item.preparedBy
                /\ s \in transitions["priorityDecision"][item.status]
  BY <1>2, <1>3, <1>4, <1>5 DEF TransitionVerdict
<1>. QED  BY <1>2, <1>3, <1>4, <1>6, <1>7 DEF targetsFor

\* A set of pairs has the successors that a table lists when they have the same pairs.
LEMMA Successors ==
    ASSUME NEW graph, NEW s, NEW T,
           \A e \in graph : e = <<e[1], e[2]>>,
           \A t : t \in T <=> <<s, t>> \in graph
    PROVE  T = {e[2] : e \in {d \in graph : d[1] = s}}
<1>1. ASSUME NEW t \in T
      PROVE  \E e \in {d \in graph : d[1] = s} : t = e[2]
  <2>1. <<s, t>> \in graph /\ <<s, t>>[1] = s /\ <<s, t>>[2] = t
    OBVIOUS
  <2>. QED  BY <2>1
<1>2. ASSUME NEW e \in graph, e[1] = s
      PROVE  e[2] \in T
  BY <1>2
<1>. QED  BY <1>1, <1>2

\* The other three pages offer what the graphs of their services hold.
LEMMA RecordsMatch ==
    ASSUME NEW key \in {"bridgeAsset", "inspectionRound", "defectFinding"}, NEW graph,
           \/ key = "bridgeAsset" /\ graph = BridgeAssetTransitions
           \/ key = "inspectionRound" /\ graph = InspectionRoundTransitions
           \/ key = "defectFinding" /\ graph = DefectFindingTransitions,
           NEW s \in DOMAIN transitions[key]
    PROVE  transitions[key][s] = {e[2] : e \in {d \in graph : d[1] = s}}
<1>1. CASE key = "bridgeAsset"
  <2>1. s \in {"active", "restricted", "closed", "retired"}
    BY <1>1 DEF transitions
  <2>2. \A e \in graph : e = <<e[1], e[2]>>
    BY <1>1 DEF BridgeAssetTransitions
  <2>3. \A t : t \in transitions[key][s] <=> <<s, t>> \in graph
    BY <1>1, <2>1 DEF transitions, BridgeAssetTransitions
  <2>. QED  BY <2>2, <2>3, Successors
<1>2. CASE key = "inspectionRound"
  <2>1. s \in {"planned", "running", "review", "completed"}
    BY <1>2 DEF transitions
  <2>2. \A e \in graph : e = <<e[1], e[2]>>
    BY <1>2 DEF InspectionRoundTransitions
  <2>3. \A t : t \in transitions[key][s] <=> <<s, t>> \in graph
    BY <1>2, <2>1 DEF transitions, InspectionRoundTransitions
  <2>. QED  BY <2>2, <2>3, Successors
<1>3. CASE key = "defectFinding"
  <2>1. s \in {"new", "verified", "monitoring", "mitigated", "closed"}
    BY <1>3 DEF transitions
  <2>2. \A e \in graph : e = <<e[1], e[2]>>
    BY <1>3 DEF DefectFindingTransitions
  <2>3. \A t : t \in transitions[key][s] <=> <<s, t>> \in graph
    BY <1>3, <2>1 DEF transitions, DefectFindingTransitions
  <2>. QED  BY <2>2, <2>3, Successors
<1>. QED  BY <1>1, <1>2, <1>3

\* What a row offers is what its service will do for this user, on all four pages
\* (OffersMatchServices).
THEOREM OffersAreKept ==
    ASSUME ~Speculative PROVE WSpec => []OffersMatchServices
<1>1. ASSUME TypeOK, PageTypeOK
      PROVE  OffersMatchServices
  <2>. SUFFICES ASSUME session # None, NEW role, role = Role[session]
                PROVE  LET Agrees(key, handler, graph) ==
                               \A s \in DOMAIN transitions[key] :
                                   recordTargets(key, s) =
                                       {e[2] : e \in {d \in graph : d[1] = s
                                               /\ role \in handler.transition.roles}}
                       IN  /\ \A item \in items :
                                 Current(item) =>
                                    targetsFor(item) =
                                      {s \in Statuses :
                                         TransitionVerdict(session, item.code, s) = "commit"}
                           /\ canWrite <=> role \in PriorityDecisionHandler.create.roles
                           /\ canAtLeast("reviewer") <=> role \in AuditRoutes
                           /\ Agrees("bridgeAsset", BridgeAssetHandler, BridgeAssetTransitions)
                           /\ Agrees("inspectionRound", InspectionRoundHandler,
                                     InspectionRoundTransitions)
                           /\ Agrees("defectFinding", DefectFindingHandler,
                                     DefectFindingTransitions)
    BY DEF OffersMatchServices
  <2>1. role \in Roles
    BY <1>1, CallersAssumption DEF PageTypeOK
  <2>2. /\ canAtLeast("reviewer") <=> role \in {"reviewer", "admin"}
        /\ canWrite <=> role \in {"operator", "reviewer", "admin"}
        /\ RequireMinimumRole("operator") = {"operator", "reviewer", "admin"}
        /\ RequireMinimumRole("reviewer") = {"reviewer", "admin"}
    BY <1>1, <2>1, ButtonsMatch
  <2>3. canWrite <=> role \in PriorityDecisionHandler.create.roles
    BY <2>2 DEF PriorityDecisionHandler, BridgeAssetHandler
  <2>4. canAtLeast("reviewer") <=> role \in AuditRoutes
    BY <2>2 DEF AuditRoutes
  <2>5. ASSUME NEW key \in {"bridgeAsset", "inspectionRound", "defectFinding"},
               NEW roles, roles = RequireMinimumRole("operator"), NEW graph,
               \/ key = "bridgeAsset" /\ graph = BridgeAssetTransitions
               \/ key = "inspectionRound" /\ graph = InspectionRoundTransitions
               \/ key = "defectFinding" /\ graph = DefectFindingTransitions,
               NEW s \in DOMAIN transitions[key]
        PROVE  recordTargets(key, s) =
                   {e[2] : e \in {d \in graph : d[1] = s /\ role \in roles}}
    <3>1. transitions[key][s] = {e[2] : e \in {d \in graph : d[1] = s}}
      BY <2>5, RecordsMatch
    <3>2. CASE canWrite
      BY <2>2, <2>5, <3>1, <3>2 DEF recordTargets
    <3>3. CASE ~canWrite
      BY <2>2, <2>5, <3>3 DEF recordTargets
    <3>. QED  BY <3>2, <3>3
  <2>6. /\ BridgeAssetHandler.transition.roles = RequireMinimumRole("operator")
        /\ InspectionRoundHandler.transition.roles = RequireMinimumRole("operator")
        /\ DefectFindingHandler.transition.roles = RequireMinimumRole("operator")
    BY DEF InspectionRoundHandler, DefectFindingHandler, BridgeAssetHandler
  <2>. QED  BY <1>1, <2>3, <2>4, <2>5, <2>6, TargetsMatch
<1>2. WInv => TypeOK /\ PageTypeOK
  BY DEF WInv, IInv
<1>. QED  BY <1>1, <1>2, WInvariance, PTL

=============================================================================
