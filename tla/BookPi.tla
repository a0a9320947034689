--------------------------------- MODULE BookPi ---------------------------------
(***************************************************************************)
(* The PostgreSQL BookPI of lib/repositories/bookpi-postgres-runtime.ts: the *)
(* append transaction under an advisory lock per tenant, refund(),           *)
(* batchAppend() and verifyLedger() over the table bookpi_ledger.  A call is *)
(* one append(); calls run on pooled connections of any number of processes, *)
(* each statement is a step, and a statement, a COMMIT or the process can    *)
(* fail at any point (READ COMMITTED: a statement sees the rows committed    *)
(* before it).                                                              *)
(***************************************************************************)
EXTENDS Naturals, FiniteSets

CONSTANTS
  Calls,         \* executions of append()
  Tenants,       \* tenant ids
  Contents,      \* what the hash covers besides the link: instant, cost, ...
  TenantOf,      \* tenant of a call
  LockOf,        \* tenantLockId(): tenants may share one
  ReadBack,      \* what mapRow() makes of the stored content
  RefundOf,      \* block index a refund() call is about, NoIndex for an append
  After,         \* the call of the same batch before this one, or NoCall
  NoIndex, NoCall, Genesis

ASSUME CallAssumption == /\ TenantOf \in [Calls -> Tenants]
                         /\ RefundOf \in [Calls -> Nat \cup {NoIndex}]
                         /\ After \in [Calls -> Calls \cup {NoCall}]
ASSUME BatchAssumption == \A c \in Calls : After[c] # NoCall => RefundOf[c] = NoIndex

VARIABLES
  rows,          \* committed rows of bookpi_ledger
  pc,            \* step of a call, or its answer
  latest,        \* what the call's SELECT of the last block returned
  draft          \* the row the call has inserted and not committed

vars == <<rows, pc, latest, draft>>

\* operation: a refund is stored with its reason, REFUND_OF:<index>:<reason>.
Operation(c) == [refund |-> RefundOf[c], reason |-> RefundOf[c] # NoIndex]
\* The operation refund() looks for is REFUND_OF:<index>.
Probe(i) == [refund |-> i, reason |-> FALSE]

Block == [tenant : Tenants, index : Nat, call : Calls, prev : Calls \cup {Genesis},
          content : Contents,
          operation : [refund : Nat \cup {NoIndex}, reason : BOOLEAN]]

Of(t) == {b \in rows : b.tenant = t}
IsLast(l, t) == l \in Of(t) /\ \A b \in Of(t) : b.index <= l.index
\* ORDER BY index DESC LIMIT 1 for a tenant: no row or the last one.
Latest(t) == {l \in Of(t) : IsLast(l, t)}

InTransaction == {"locked", "read", "inserted"}
Steps   == {"checked", "waiting"} \cup InTransaction
Answers == {"ok", "failed", "clash", "notfound", "duplicate"}

Init ==
  /\ rows = {}
  /\ pc = [c \in Calls |-> "idle"]
  /\ latest = [c \in Calls |-> {}]
  /\ draft = [c \in Calls |-> {}]

Goto(c, step) == pc' = [pc EXCEPT ![c] = step]

\* A batch goes on only after a success.
Turn(c) == pc[c] = "idle" /\ (After[c] # NoCall => pc[After[c]] = "ok")

\* append(): a connection, BEGIN, and the statement that waits for the lock.
Begin(c) ==
  /\ \/ RefundOf[c] = NoIndex /\ Turn(c)
     \/ pc[c] = "checked"
  /\ Goto(c, "waiting")
  /\ UNCHANGED <<rows, latest, draft>>

\* refund(): the target must exist and no refund of it may be found.
FindTarget(c) ==
  /\ RefundOf[c] # NoIndex /\ Turn(c)
  /\ Goto(c, IF ~\E b \in Of(TenantOf[c]) : b.index = RefundOf[c] THEN "notfound"
             ELSE IF \E b \in Of(TenantOf[c]) : b.operation = Probe(RefundOf[c])
               THEN "duplicate" ELSE "checked")
  /\ UNCHANGED <<rows, latest, draft>>

\* pg_advisory_xact_lock: held to the end of the transaction.
\* Mutant: nobody waits.
MutLockFree(k) == TRUE
LockFree(k) == \A d \in Calls : pc[d] \in InTransaction => LockOf[TenantOf[d]] # k

Lock(c) ==
  /\ pc[c] = "waiting"
  /\ LockFree(LockOf[TenantOf[c]])
  /\ Goto(c, "locked")
  /\ UNCHANGED <<rows, latest, draft>>

\* Mutant: the last block is looked up without the tenant.
MutReadLatest(c) ==
  /\ pc[c] = "locked"
  /\ latest' = [latest EXCEPT ![c] = {l \in rows : \A b \in rows : b.index <= l.index}]
  /\ Goto(c, "read")
  /\ UNCHANGED <<rows, draft>>
ReadLatest(c) ==
  /\ pc[c] = "locked"
  /\ latest' = [latest EXCEPT ![c] = Latest(TenantOf[c])]
  /\ Goto(c, "read")
  /\ UNCHANGED <<rows, draft>>

\* The row of a call: its hash is taken over x, which the INSERT then stores.
Row(c, i, p, x) == [tenant |-> TenantOf[c], index |-> i, call |-> c, prev |-> p,
                    content |-> x, operation |-> Operation(c)]

\* Mutant: the index of an empty chain's latest block is not a number.
MutFirstRow(c, x) == IF latest[c] = {}
                       THEN {Row(c, NoIndex, Genesis, x)}
                       ELSE {Row(c, l.index + 1, l.call, x) : l \in latest[c]}
\* Mutant: the link is the one of the latest block.
MutNewRow(c, x) == IF latest[c] = {}
                     THEN {Row(c, 0, Genesis, x)}
                     ELSE {Row(c, l.index + 1, l.prev, x) : l \in latest[c]}
\* The first block of the tenant, or the next one, linked to the latest.
NewRow(c, x) == IF latest[c] = {}
                  THEN {Row(c, 0, Genesis, x)}
                  ELSE {Row(c, l.index + 1, l.call, x) : l \in latest[c]}

\* PRIMARY KEY (tenant_id, index).
Conflict(R, S) == \E b \in R, r \in S : b.tenant = r.tenant /\ b.index = r.index

\* INSERT: waits for an uncommitted row of its key, fails on a committed one.
Insert(c) ==
  /\ pc[c] = "read"
  /\ \E x \in Contents :
       /\ \A d \in Calls : pc[d] = "inserted" => ~Conflict(draft[d], NewRow(c, x))
       /\ IF Conflict(rows, NewRow(c, x))
            THEN Goto(c, "clash") /\ UNCHANGED draft
            ELSE Goto(c, "inserted") /\ draft' = [draft EXCEPT ![c] = NewRow(c, x)]
  /\ UNCHANGED <<rows, latest>>

\* COMMIT: the row is there for everybody and the lock free; the answer may be
\* lost, which append() reports as a failure.
Commit(c) ==
  /\ pc[c] = "inserted"
  /\ rows' = rows \cup draft[c]
  /\ Goto(c, "ok") \/ Goto(c, "failed")
  /\ UNCHANGED <<latest, draft>>

\* A statement fails or the process dies: the transaction is rolled back.
Fail(c) ==
  /\ pc[c] \in Steps
  /\ Goto(c, "failed")
  /\ UNCHANGED <<rows, latest, draft>>

\* Every call has answered, or waits in a batch that was given up.
Finished ==
  /\ \A c \in Calls : pc[c] \notin Steps /\ ~Turn(c)
  /\ UNCHANGED vars

Next ==
  \/ \E c \in Calls :
       \/ Begin(c) \/ FindTarget(c) \/ Lock(c) \/ ReadLatest(c)
       \/ Insert(c) \/ Commit(c) \/ Fail(c)
  \/ Finished

Spec == Init /\ [][Next]_vars

\* verifyLedger(): in index order, the hash of every block can be computed again
\* from its row and the block links to the one before.
Rehashes(b) == ReadBack[b.content] = b.content
Verifies(t) ==
  \A b \in Of(t) :
    /\ Rehashes(b)
    /\ LET before == {l \in Of(t) : l.index < b.index}
       IN IF before = {} THEN b.prev = Genesis
          ELSE \E l \in before : b.prev = l.call /\ \A m \in before : m.index <= l.index

-----------------------------------------------------------------------------
\* Every variable has the shape of the table or local state it stands for.
TypeOK ==
  /\ rows \subseteq Block
  /\ pc \in [Calls -> {"idle"} \cup Steps \cup Answers]
  /\ latest \in [Calls -> SUBSET Block]
  /\ draft \in [Calls -> SUBSET Block]

\* "Durable and append-only": however transactions interleave, fail or die, the
\* table grows by one block at a time, linked to the last one of its tenant.
Chain == INSTANCE HashChain
AppendOnlyChain == Chain!Spec

\* "Append operations are serialized per tenant": no append is refused because
\* another one took its index, so a caller that sees an error has met a fault.
NoClash == \A c \in Calls : pc[c] # "clash"

\* A chain nobody tampered with passes verifyLedger() as far as its links go:
\* it verifies if every block can be hashed again from its row.
ExactChainVerifies == \A t \in Tenants : (\A b \in Of(t) : Rehashes(b)) => Verifies(t)
=============================================================================
