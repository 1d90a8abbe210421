---------------------------- MODULE EventLedger ----------------------------
(***************************************************************************)
(* What the ingest pipeline promises for every event it accepts: the event *)
(* reaches its ClickHouse table at most once, whole batches at a time, and *)
(* while it has not reached it the pipeline either still owes it or has    *)
(* written it off.  How the pipeline keeps the promise is the business of  *)
(* EventInserter, which implements this specification.                     *)
(***************************************************************************)
EXTENDS Naturals

CONSTANT Event    \* what producers may hand to the pipeline

VARIABLES
  accepted,       \* events the pipeline took responsibility for
  writtenOff,     \* accepted events it no longer tries to store
  rows            \* rows[e]: rows the table holds for event e

ledgerVars == <<accepted, writtenOff, rows>>

LedgerInit ==
  /\ accepted = {}
  /\ writtenOff = {}
  /\ rows = [e \in Event |-> 0]

Owed == {e \in accepted \ writtenOff : rows[e] = 0}

Accept(e) ==
  /\ e \notin accepted
  /\ accepted' = accepted \cup {e}
  /\ UNCHANGED <<writtenOff, rows>>

\* A whole batch appears at once.  An event that was written off may still
\* appear: the request carrying it was already with the server.
Store(batch) ==
  /\ batch \subseteq accepted
  /\ \A e \in batch : rows[e] = 0
  /\ rows' = [e \in Event |-> IF e \in batch THEN 1 ELSE rows[e]]
  /\ UNCHANGED <<accepted, writtenOff>>

WriteOff(S) ==
  /\ S \subseteq accepted
  /\ writtenOff' = writtenOff \cup S
  /\ UNCHANGED <<accepted, rows>>

LedgerNext ==
  \/ \E e \in Event : Accept(e)
  \/ \E batch \in SUBSET Event : Store(batch)
  \/ \E S \in SUBSET Event : WriteOff(S)

LedgerSpec == LedgerInit /\ [][LedgerNext]_ledgerVars
=============================================================================
