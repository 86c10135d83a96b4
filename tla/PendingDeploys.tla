--------------------------- MODULE PendingDeploys ---------------------------
(***************************************************************************)
(* BlockIndexer._sync_pending_deploys (src/src/block_indexer.py) with      *)
(* GrpcNodeClient.get_pending_deploys: the table pending_deploys is a copy *)
(* of the node's two deploy buffers, replaced as a whole in each cycle.    *)
(***************************************************************************)
EXTENDS CycleView

CONSTANTS Pending,   \* deploys users may submit
          Unsigned,  \* those whose sig is empty
          Cap        \* the node returns no more entries than that

\* A deploy lies in deploy_storage, or in the buffer of rejected ones, or in both.
Entry == [sig : Pending, isRejected : BOOLEAN]

ASSUME PendingAssumption ==
  /\ Unsigned \subseteq Pending /\ IsFiniteSet(Unsigned) /\ Cap \in Nat \ {0}
  /\ None \notin [deploys : SUBSET Entry, total : Nat]

VARIABLES
  buffers,  \* node: the entries of both buffers
  answer,   \* the node's answer this step works with, as [deploys, total]
  open,     \* the rows as the open transaction sees them
  rows,     \* pending_deploys
  total     \* indexer_state: pending_deploys_total_available

pending == <<buffers, answer, open, rows, total>>

PendingInit ==
  /\ buffers = {} /\ answer = None /\ open = None
  /\ rows = {} /\ total = 0

\* Submitted, included in a block, rejected, recovered or expired.
BuffersChange ==
  /\ \E e \in Entry :
        buffers' = IF e \in buffers THEN buffers \ {e} ELSE buffers \cup {e}
  /\ UNCHANGED <<view, answer, open, rows, total>>

\* No answer leaves the last snapshot alone: the step is over.
AskPending ==
  /\ phase = "idle"
  /\ \E returned \in SUBSET buffers :
       /\ Cardinality(returned) = Min({Cap, Cardinality(buffers)})
       /\ answer' = [deploys |-> returned, total |-> Cardinality(buffers)]
  /\ phase' = "answered"
  /\ UNCHANGED <<tip, cursor, buffers, open, rows, total>>

EndStep == phase' = "idle" /\ answer' = None /\ open' = None

\* Mutation of DeleteAll: the transaction is committed after the DELETE.
DeleteAllNow ==
  /\ phase = "answered"
  /\ open' = {} /\ rows' = {}
  /\ phase' = "deleted"
  /\ UNCHANGED <<tip, cursor, buffers, answer, total>>

DeleteAll ==
  /\ phase = "answered"
  /\ open' = {}
  /\ phase' = "deleted"
  /\ UNCHANGED <<tip, cursor, buffers, answer, rows, total>>

Signed(entries) == {e \in entries : e.sig \notin Unsigned}
OncePerSig(entries) == \A e, f \in entries : e.sig = f.sig => e = f

\* The rows are sent with the next statement, the upsert of the total.
InsertAll ==
  /\ phase = "deleted"
  /\ OncePerSig(Signed(answer.deploys))
  /\ open' = Signed(answer.deploys)
  /\ phase' = "inserted"
  /\ UNCHANGED <<tip, cursor, buffers, answer, rows, total>>

CommitPending ==
  /\ phase = "inserted"
  /\ rows' = open /\ total' = answer.total
  /\ EndStep
  /\ UNCHANGED <<tip, cursor, buffers>>

\* The primary key is violated: both buffers hold a deploy.  Or the database fails, or
\* the process stops: the session rolls back, and the next cycle or process asks again.
PendingFails ==
  /\ phase \in {"answered", "deleted", "inserted"}
  /\ EndStep
  /\ UNCHANGED <<tip, cursor, buffers, rows, total>>

PendingNext ==
  \/ BuffersChange \/ AskPending \/ DeleteAll \/ InsertAll
  \/ CommitPending \/ PendingFails
-----------------------------------------------------------------------------
PendingTypes ==
  /\ buffers \subseteq Entry /\ rows \subseteq Entry /\ total \in Nat
  /\ open = None \/ open \subseteq Entry
  /\ answer # None <=> phase \in {"answered", "deleted", "inserted"}

(* GRAPHQL_GUIDE.md:124: comparing the stored total with the number of     *)
(* rows tells whether the node's cap has cut the answer, whatever failed   *)
(* or was interrupted since: both are always of one and the same answer,   *)
(* and only entries without a signature are missing beside what was cut.   *)
TotalTellsOfTruncation ==
  LET returned == Min({Cap, total})
  IN  /\ Cardinality(rows) <= returned
      /\ returned <= Cardinality(rows) + 2 * Cardinality(Unsigned)
=============================================================================
