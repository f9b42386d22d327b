--------------------------- MODULE DecisionLedger ---------------------------
(***************************************************************************)
(* What the priority decision service promises, without requests, rows or   *)
(* versions named by callers: each decision has a ledger of entries that    *)
(* only grows, drafted by one user, revised by that user or an admin while  *)
(* it is a draft, closed by one independent review, and withdrawn at most   *)
(* once.  PriorityDecision implements it for callers that name versions     *)
(* they were shown.                                                        *)
(*                                                                         *)
(* A withdrawal is allowed in any status: the code looks for a draft, but   *)
(* on a row it read before it deletes.                                     *)
(***************************************************************************)
EXTENDS Naturals

CONSTANTS Codes, Contents, Users, Role, SeedLedger

VARIABLES
    ledger,     \* set of entries
    withdrawn   \* codes whose decision was deleted

lvars == <<ledger, withdrawn>>

LedgerEntry == [code : Codes, version : Nat \ {0},
                status : {"draft", "observe", "restrict", "urgent"},
                content : Contents, actor : Users]

Of(c) == {e \in ledger : e.code = c}

\* The entry no other entry of the same decision follows.
IsLatest(e) == \A f \in Of(e.code) : f.version <= e.version

Prepared(c, u) == \E e \in Of(c) : e.version = 1 /\ e.actor = u

\* The entry that follows e.
Following(e, status, content, u) ==
    [code |-> e.code, version |-> e.version + 1, status |-> status,
     content |-> content, actor |-> u]

LedgerInit == ledger = SeedLedger /\ withdrawn = {}

Draft(c, u, content) ==
    /\ Of(c) = {}
    /\ ledger' = ledger \cup
         {[code |-> c, version |-> 1, status |-> "draft", content |-> content, actor |-> u]}
    /\ UNCHANGED withdrawn

Revise(e, u, content) ==
    /\ e.code \notin withdrawn /\ IsLatest(e) /\ e.status = "draft"
    /\ Prepared(e.code, u) \/ Role[u] = "admin"
    /\ ledger' = ledger \cup {Following(e, "draft", content, u)}
    /\ UNCHANGED withdrawn

Finalize(e, u, status) ==
    /\ e.code \notin withdrawn /\ IsLatest(e) /\ e.status = "draft"
    /\ status \in {"observe", "restrict", "urgent"}
    /\ Role[u] \in {"reviewer", "admin"} /\ ~Prepared(e.code, u)
    /\ ledger' = ledger \cup {Following(e, status, e.content, u)}
    /\ UNCHANGED withdrawn

Withdraw(c) ==
    /\ Of(c) # {} /\ c \notin withdrawn
    /\ withdrawn' = withdrawn \cup {c}
    /\ UNCHANGED ledger

LedgerNext ==
    \/ \E c \in Codes, u \in Users, k \in Contents : Draft(c, u, k)
    \/ \E e \in ledger, u \in Users :
          \/ \E k \in Contents : Revise(e, u, k)
          \/ \E s \in {"observe", "restrict", "urgent"} : Finalize(e, u, s)
    \/ \E c \in Codes : Withdraw(c)

LedgerSpec == LedgerInit /\ [][LedgerNext]_lvars

=============================================================================
