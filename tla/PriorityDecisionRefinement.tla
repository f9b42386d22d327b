--------------------- MODULE PriorityDecisionRefinement ---------------------
(* The service implements the ledger: an entry is a revision without the    *)
(* request that wrote it, and a decision is withdrawn when its row is.     *)
EXTENDS PriorityDecision

EntryOf(v) == [code |-> v.code, version |-> v.version, status |-> v.status,
               content |-> v.content, actor |-> v.actor]

LedgerOf(revs) == {EntryOf(v) : v \in revs}

DeletedCodes == {c \in Codes : rows[c] # None /\ rows[c].deleted}

Ledger == INSTANCE DecisionLedger WITH
    SeedLedger <- LedgerOf(SeedRevisions),
    ledger     <- LedgerOf(revisions),
    withdrawn  <- DeletedCodes

\* Every step of every request, failed calls and crashes included, is a step of
\* the ledger or leaves it alone: the whole promise of the service in one
\* property, for callers that name versions they were shown.
ImplementsLedger == Ledger!LedgerSpec

=============================================================================
