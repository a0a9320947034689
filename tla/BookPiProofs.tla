------------------------------ MODULE BookPiProofs ------------------------------
(***************************************************************************)
(* Proofs about BookPi for any calls, tenants and lock ids.                 *)
(***************************************************************************)
EXTENDS BookPi, TLAPS

\* The advisory lock: one transaction at a time holds a lock id.
Exclusive ==
  \A c, d \in Calls : /\ pc[c] \in InTransaction /\ pc[d] \in InTransaction
                      /\ LockOf[TenantOf[c]] = LockOf[TenantOf[d]]
                      => c = d

\* What a transaction has read is still the last block when it inserts and
\* commits, and what it inserted follows it.
Fresh ==
  \A c \in Calls :
    /\ pc[c] \in {"read", "inserted"} => latest[c] = Latest(TenantOf[c])
    /\ pc[c] = "inserted" => \E x \in Contents : draft[c] = NewRow(c, x)

\* The committed chain of every tenant has a last block and no gap.
Linked(b) ==
  \/ b.index = 0 /\ b.prev = Genesis
  \/ \E l \in Of(b.tenant) : b.index = l.index + 1 /\ b.prev = l.call
Chained ==
  /\ \A t \in Tenants : Of(t) # {} => \E l \in rows : IsLast(l, t)
  /\ \A b, r \in rows : b.tenant = r.tenant /\ b.index = r.index => b = r
  /\ \A b \in rows : Linked(b)

Inv == TypeOK /\ Exclusive /\ Fresh /\ Chained /\ NoClash

-----------------------------------------------------------------------------
\* A row a call writes is a block whatever block it read.
LEMMA RowType ==
  ASSUME NEW c \in Calls, NEW i \in Nat, NEW p \in Calls \cup {Genesis},
         NEW x \in Contents
  PROVE  Row(c, i, p, x) \in Block
  BY CallAssumption DEF Row, Block, Operation

\* Whatever it read, a call writes blocks.
LEMMA NewRowType ==
  ASSUME TypeOK, NEW c \in Calls, NEW x \in Contents
  PROVE  NewRow(c, x) \subseteq Block
<1>1. CASE latest[c] = {}
  BY <1>1, RowType DEF NewRow
<1>2. CASE latest[c] # {}
  <2> SUFFICES ASSUME NEW l \in latest[c]
               PROVE  Row(c, l.index + 1, l.call, x) \in Block
    BY <1>2 DEF NewRow
  <2>1. l \in Block
    BY DEF TypeOK
  <2>2. l.index \in Nat /\ l.call \in Calls
    BY <2>1 DEF Block
  <2> QED BY <2>2, RowType
<1> QED BY <1>1, <1>2

\* The rows of a tenant, read by name.
LEMMA OfRows ==
  ASSUME NEW t, NEW b
  PROVE  b \in Of(t) <=> b \in rows /\ b.tenant = t
  BY DEF Of

\* A chain with a last block and no gap has one last block.
LEMMA LatestIsLast ==
  ASSUME TypeOK, Chained, NEW t \in Tenants
  PROVE  \/ Of(t) = {} /\ Latest(t) = {}
         \/ \E l \in Of(t) : IsLast(l, t) /\ Latest(t) = {l}
<1>1. CASE Of(t) = {}
  BY <1>1 DEF Latest
<1>2. CASE Of(t) # {}
  <2>1. PICK l \in rows : IsLast(l, t)
    BY <1>2 DEF Chained
  <2>2. l \in Of(t)
    BY <2>1 DEF IsLast
  <2>3. ASSUME NEW m \in Latest(t) PROVE m = l
    <3>1. m \in Of(t) /\ IsLast(m, t)
      BY <2>3 DEF Latest
    <3>2. m \in rows /\ l \in rows /\ m.tenant = l.tenant
      BY <3>1, <2>2, OfRows
    <3>3. m.index \in Nat /\ l.index \in Nat
      BY <3>2 DEF TypeOK, Block
    <3>4. m.index <= l.index /\ l.index <= m.index
      BY <3>1, <2>1, <2>2 DEF IsLast
    <3>5. m.index = l.index
      BY <3>3, <3>4
    <3> QED BY <3>2, <3>5 DEF Chained
  <2>4. l \in Latest(t)
    BY <2>1, <2>2 DEF Latest
  <2> QED BY <2>1, <2>2, <2>3, <2>4
<1> QED BY <1>1, <1>2

\* The row a transaction inserts is one row, which HashChain accepts.
LEMMA DraftFollows ==
  ASSUME TypeOK, Chained, NEW c \in Calls, NEW x \in Contents,
         latest[c] = Latest(TenantOf[c])
  PROVE  \E b : NewRow(c, x) = {b} /\ b.tenant = TenantOf[c] /\ Chain!Follows(b)
<1> DEFINE t == TenantOf[c]
<1>0. t \in Tenants
  BY CallAssumption
<1>1. CASE Of(t) = {} /\ Latest(t) = {}
  <2> DEFINE b == Row(c, 0, Genesis, x)
  <2>1. NewRow(c, x) = {b}
    BY <1>1 DEF NewRow
  <2>2. b.tenant = t /\ b.index = 0 /\ b.prev = Genesis
    BY DEF Row
  <2>3. Chain!Of(t) = {}
    BY <1>1 DEF Chain!Of, Of
  <2> HIDE DEF b
  <2>4. Chain!Follows(b)
    BY <2>2, <2>3 DEF Chain!Follows
  <2> QED BY <2>1, <2>2, <2>4
<1>2. ASSUME NEW l \in Of(t), IsLast(l, t), Latest(t) = {l}
      PROVE  \E b : NewRow(c, x) = {b} /\ b.tenant = t /\ Chain!Follows(b)
  <2> DEFINE b == Row(c, l.index + 1, l.call, x)
  <2>1. NewRow(c, x) = {b}
    BY <1>2 DEF NewRow
  <2>2. b.tenant = t /\ b.index = l.index + 1 /\ b.prev = l.call
    BY DEF Row
  <2>3. l \in Chain!Of(t) /\ Chain!IsLast(l, t)
    BY <1>2 DEF Chain!Of, Of, Chain!IsLast, IsLast
  <2> HIDE DEF b
  <2>4. Chain!Follows(b)
    BY <2>2, <2>3 DEF Chain!Follows
  <2> QED BY <2>1, <2>2, <2>4
<1> QED BY <1>0, <1>1, <1>2, LatestIsLast

\* A block that follows the chain takes an index nobody has.
LEMMA FollowsIsNew ==
  ASSUME TypeOK, NEW b, Chain!Follows(b), NEW r \in rows, r.tenant = b.tenant
  PROVE  r.index < b.index /\ b.index \in Nat
<1>1. r \in Chain!Of(b.tenant)
  BY DEF Chain!Of
<1>2. PICK l \in Chain!Of(b.tenant) :
        Chain!IsLast(l, b.tenant) /\ b.index = l.index + 1 /\ b.prev = l.call
  BY <1>1 DEF Chain!Follows
<1>3. r.index <= l.index
  BY <1>1, <1>2 DEF Chain!IsLast
<1>4. l \in rows
  BY DEF Chain!Of
<1>5. r.index \in Nat /\ l.index \in Nat
  BY <1>4 DEF TypeOK, Block
<1> QED BY <1>2, <1>3, <1>5

-----------------------------------------------------------------------------
\* A block that follows keeps the chains whole.
LEMMA ChainedStep ==
  ASSUME TypeOK, Chained, NEW b \in Block, Chain!Follows(b), rows' = rows \cup {b}
  PROVE  Chained'
<1>1. \A t : Of(t)' = IF t = b.tenant THEN Of(t) \cup {b} ELSE Of(t)
  BY DEF Of
<1>2. ASSUME NEW t \in Tenants, Of(t)' # {} PROVE \E l \in rows' : IsLast(l, t)'
  <2>1. CASE t = b.tenant
    <3>1. ASSUME NEW r \in Of(t)' PROVE r.index <= b.index
      <4>1. CASE r = b
        BY <4>1 DEF Block
      <4>2. CASE r # b
        <5>1. r \in rows /\ r.tenant = b.tenant
          BY <3>1, <4>2, <2>1, <1>1, OfRows
        <5>2. r.index \in Nat
          BY <5>1 DEF TypeOK, Block
        <5> QED BY <5>1, <5>2, FollowsIsNew
      <4> QED BY <4>1, <4>2
    <3>2. b \in Of(t)'
      BY <1>1, <2>1
    <3> QED BY <3>1, <3>2 DEF IsLast
  <2>2. CASE t # b.tenant
    <3>1. Of(t)' = Of(t)
      BY <2>2, <1>1
    <3>2. PICK l \in rows : IsLast(l, t)
      BY <3>1, <1>2 DEF Chained
    <3> QED BY <3>1, <3>2 DEF IsLast
  <2> QED BY <2>1, <2>2
<1>3. ASSUME NEW q \in rows', NEW r \in rows', q.tenant = r.tenant, q.index = r.index
      PROVE  q = r
  <2>1. CASE q \in rows /\ r \in rows
    BY <2>1, <1>3 DEF Chained
  <2>2. ASSUME NEW u \in rows, u.tenant = b.tenant, u.index = b.index PROVE FALSE
    <3>1. u.index < b.index /\ b.index \in Nat
      BY <2>2, FollowsIsNew
    <3> QED BY <3>1, <2>2
  <2> QED BY <2>1, <2>2, <1>3
<1>4. ASSUME NEW r \in rows' PROVE Linked(r)'
  <2>1. CASE r \in rows
    <3>1. Linked(r)
      BY <2>1 DEF Chained
    <3>2. \A l \in Of(r.tenant) : l \in Of(r.tenant)'
      BY <1>1
    <3> QED BY <3>1, <3>2 DEF Linked
  <2>2. CASE r = b
    <3>1. \A l \in Chain!Of(b.tenant) : l \in Of(b.tenant)'
      BY <1>1 DEF Chain!Of, Of
    <3>2. \/ b.index = 0 /\ b.prev = Genesis
          \/ \E l \in Chain!Of(b.tenant) : b.index = l.index + 1 /\ b.prev = l.call
      BY DEF Chain!Follows
    <3> QED BY <2>2, <3>1, <3>2 DEF Linked
  <2> QED BY <2>1, <2>2
<1> QED BY <1>2, <1>3, <1>4 DEF Chained

\* Nothing about the chains changes while the table does not.
LEMMA ChainedStutter ==
  ASSUME Chained, rows' = rows
  PROVE  Chained' /\ \A t : Latest(t)' = Latest(t)
<1>1. \A t : Of(t)' = Of(t)
  BY DEF Of
<1>2. \A l, t : IsLast(l, t)' = IsLast(l, t)
  BY <1>1 DEF IsLast
<1>3. \A t : Latest(t)' = Latest(t)
  BY <1>1, <1>2 DEF Latest
<1>4. \A b : Linked(b)' = Linked(b)
  BY <1>1 DEF Linked
<1> QED BY <1>1, <1>2, <1>3, <1>4 DEF Chained

\* A call that moves without touching the table: what its own step must show
\* is its clause of Fresh and, if it takes the lock, that the lock is free.
LEMMA MoveInv ==
  ASSUME Inv, NEW c \in Calls, NEW step \in {"idle"} \cup Steps \cup Answers,
         rows' = rows, TypeOK', step # "clash",
         \A d \in Calls : pc'[d] = IF d = c THEN step ELSE pc[d],
         \A d \in Calls : d # c => latest'[d] = latest[d] /\ draft'[d] = draft[d],
         step \in InTransaction =>
           pc[c] \in InTransaction \/ LockFree(LockOf[TenantOf[c]]),
         step \in {"read", "inserted"} => latest'[c] = Latest(TenantOf[c]),
         step = "inserted" => \E x \in Contents : draft'[c] = NewRow(c, x)'
  PROVE  Inv'
<1>1. Exclusive'
  <2> SUFFICES ASSUME NEW d \in Calls, NEW e \in Calls,
                      pc'[d] \in InTransaction, pc'[e] \in InTransaction,
                      LockOf[TenantOf[d]] = LockOf[TenantOf[e]]
               PROVE  d = e
    BY DEF Exclusive, InTransaction
  <2>1. CASE d = c /\ e # c
    BY <2>1 DEF Inv, Exclusive, LockFree
  <2>2. CASE d # c /\ e = c
    BY <2>2 DEF Inv, Exclusive, LockFree
  <2>3. CASE d # c /\ e # c
    BY <2>3 DEF Inv, Exclusive
  <2> QED BY <2>1, <2>2, <2>3
<1>2. Chained' /\ \A t : Latest(t)' = Latest(t)
  BY ChainedStutter DEF Inv
<1>3. Fresh'
  <2> SUFFICES ASSUME NEW d \in Calls
               PROVE  /\ pc'[d] \in {"read", "inserted"} => latest'[d] = Latest(TenantOf[d])'
                      /\ pc'[d] = "inserted" => \E x \in Contents : draft'[d] = NewRow(d, x)'
    BY DEF Fresh
  <2>1. CASE d = c
    BY <2>1, <1>2
  <2>2. CASE d # c
    <3>1. pc'[d] = pc[d] /\ latest'[d] = latest[d] /\ draft'[d] = draft[d]
      BY <2>2
    <3>2. \A x : NewRow(d, x)' = NewRow(d, x)
      BY <3>1 DEF NewRow, Row, Operation
    <3> QED BY <3>1, <3>2, <1>2 DEF Inv, Fresh
  <2> QED BY <2>1, <2>2
<1>4. NoClash'
  BY DEF NoClash, Inv
<1> QED BY <1>1, <1>2, <1>3, <1>4 DEF Inv

-----------------------------------------------------------------------------
\* The invariant holds at the start.
LEMMA InitInv == Init => Inv
<1> SUFFICES ASSUME Init PROVE Inv
  OBVIOUS
<1>1. TypeOK
  BY DEF Init, TypeOK
<1>2. Exclusive /\ Fresh /\ NoClash
  BY DEF Init, Exclusive, Fresh, NoClash, InTransaction
<1>3. Chained
  BY DEF Init, Chained, Of
<1> QED BY <1>1, <1>2, <1>3 DEF Inv

\* What a transition of one call's step does to pc.
LEMMA GotoStep ==
  ASSUME TypeOK, NEW c \in Calls, NEW step \in {"idle"} \cup Steps \cup Answers,
         Goto(c, step)
  PROVE  /\ pc' \in [Calls -> {"idle"} \cup Steps \cup Answers]
         /\ \A d \in Calls : pc'[d] = IF d = c THEN step ELSE pc[d]
  BY DEF TypeOK, Goto

\* A call that only moves, out of the transaction or within it.
LEMMA GotoInv ==
  ASSUME Inv, NEW c \in Calls, NEW step \in {"idle"} \cup Steps \cup Answers,
         step \notin {"read", "inserted", "clash"}, Goto(c, step),
         step \in InTransaction => LockFree(LockOf[TenantOf[c]]),
         UNCHANGED <<rows, latest, draft>>
  PROVE  Inv'
<1>1. TypeOK
  BY DEF Inv
<1>2. TypeOK'
  BY <1>1, GotoStep DEF TypeOK
<1>3. \A d \in Calls : pc'[d] = IF d = c THEN step ELSE pc[d]
  BY <1>1, GotoStep
<1> QED BY <1>2, <1>3, MoveInv

\* Reading the last block.
LEMMA ReadInv ==
  ASSUME Inv, NEW c \in Calls, ReadLatest(c)
  PROVE  Inv'
<1>1. TypeOK
  BY DEF Inv
<1>2. /\ pc' \in [Calls -> {"idle"} \cup Steps \cup Answers]
      /\ \A d \in Calls : pc'[d] = IF d = c THEN "read" ELSE pc[d]
  BY <1>1, GotoStep DEF ReadLatest, Steps, InTransaction
<1>3. Latest(TenantOf[c]) \subseteq Block
  BY <1>1 DEF Latest, Of, TypeOK
<1>4. \A d \in Calls : latest'[d] = IF d = c THEN Latest(TenantOf[c]) ELSE latest[d]
  BY <1>1 DEF ReadLatest, TypeOK
<1>5. TypeOK'
  BY <1>1, <1>2, <1>3 DEF ReadLatest, TypeOK
<1>6. rows' = rows /\ draft' = draft /\ pc[c] = "locked"
  BY DEF ReadLatest
<1> QED BY <1>2, <1>4, <1>5, <1>6, MoveInv DEF Steps, InTransaction

\* The insert: the index of the new row is free, so it does not fail.
LEMMA InsertInv ==
  ASSUME Inv, NEW c \in Calls, Insert(c)
  PROVE  Inv'
<1>1. TypeOK /\ Chained
  BY DEF Inv
<1>2. PICK x \in Contents :
        IF Conflict(rows, NewRow(c, x))
          THEN Goto(c, "clash") /\ UNCHANGED draft
          ELSE Goto(c, "inserted") /\ draft' = [draft EXCEPT ![c] = NewRow(c, x)]
  BY DEF Insert
<1>3. pc[c] = "read" /\ rows' = rows /\ latest' = latest
  BY DEF Insert
<1>4. latest[c] = Latest(TenantOf[c])
  BY <1>3 DEF Inv, Fresh
<1>5. ~Conflict(rows, NewRow(c, x))
  <2>1. PICK b : NewRow(c, x) = {b} /\ Chain!Follows(b)
    BY <1>1, <1>4, DraftFollows
  <2>2. ASSUME NEW r \in rows, r.tenant = b.tenant, r.index = b.index PROVE FALSE
    <3>1. r.index < b.index /\ b.index \in Nat
      BY <1>1, <2>1, <2>2, FollowsIsNew
    <3> QED BY <3>1, <2>2
  <2> QED BY <2>1, <2>2 DEF Conflict
<1>6. Goto(c, "inserted") /\ draft' = [draft EXCEPT ![c] = NewRow(c, x)]
  BY <1>2, <1>5
<1>7. /\ pc' \in [Calls -> {"idle"} \cup Steps \cup Answers]
      /\ \A d \in Calls : pc'[d] = IF d = c THEN "inserted" ELSE pc[d]
  BY <1>1, <1>6, GotoStep DEF Steps, InTransaction
<1>8. \A d \in Calls : draft'[d] = IF d = c THEN NewRow(c, x) ELSE draft[d]
  BY <1>1, <1>6 DEF TypeOK
<1>9. TypeOK'
  BY <1>1, <1>3, <1>6, <1>7, NewRowType DEF TypeOK
<1>10. draft'[c] = NewRow(c, x)'
  BY <1>3, <1>8 DEF NewRow, Row, Operation
<1> QED BY <1>3, <1>4, <1>7, <1>8, <1>9, <1>10, MoveInv DEF Steps, InTransaction

\* What a transaction commits is one block, and it follows the chain.
LEMMA CommitAppends ==
  ASSUME Inv, NEW c \in Calls, Commit(c)
  PROVE  \E b \in Block : /\ rows' = rows \cup {b} /\ b.tenant = TenantOf[c]
                          /\ Chain!Follows(b)
<1>1. TypeOK /\ Chained /\ pc[c] = "inserted" /\ rows' = rows \cup draft[c]
  BY DEF Inv, Commit
<1>2. PICK x \in Contents : draft[c] = NewRow(c, x)
  BY <1>1 DEF Inv, Fresh
<1>3. latest[c] = Latest(TenantOf[c])
  BY <1>1 DEF Inv, Fresh
<1>4. PICK b : NewRow(c, x) = {b} /\ b.tenant = TenantOf[c] /\ Chain!Follows(b)
  BY <1>1, <1>3, DraftFollows
<1>5. b \in Block
  BY <1>1, <1>4, NewRowType
<1> QED BY <1>1, <1>2, <1>4, <1>5

\* The commit: no other transaction of the tenant has read anything.
LEMMA CommitInv ==
  ASSUME Inv, NEW c \in Calls, Commit(c)
  PROVE  Inv'
<1>1. TypeOK /\ Chained /\ pc[c] = "inserted" /\ latest' = latest /\ draft' = draft
  BY DEF Inv, Commit
<1>2. PICK b \in Block : /\ rows' = rows \cup {b} /\ b.tenant = TenantOf[c]
                        /\ Chain!Follows(b)
  BY CommitAppends
<1>3. PICK step \in {"ok", "failed"} : Goto(c, step)
  BY DEF Commit
<1>4. /\ pc' \in [Calls -> {"idle"} \cup Steps \cup Answers]
      /\ \A d \in Calls : pc'[d] = IF d = c THEN step ELSE pc[d]
  BY <1>1, <1>3, GotoStep DEF Answers
<1>5. TypeOK'
  BY <1>1, <1>2, <1>4 DEF TypeOK
<1>6. Chained'
  BY <1>1, <1>2, ChainedStep
<1>7. Exclusive'
  BY <1>4 DEF Inv, Exclusive, InTransaction
<1>8. Fresh'
  <2> SUFFICES ASSUME NEW d \in Calls, pc'[d] \in {"read", "inserted"}
               PROVE  /\ latest'[d] = Latest(TenantOf[d])'
                      /\ pc'[d] = "inserted" => \E x \in Contents : draft'[d] = NewRow(d, x)'
    BY DEF Fresh
  <2>1. d # c /\ pc'[d] = pc[d]
    BY <1>4
  <2>2. TenantOf[d] # TenantOf[c]
    BY <2>1, <1>1 DEF Inv, Exclusive, InTransaction
  <2>3. Of(TenantOf[d])' = Of(TenantOf[d])
    BY <1>2, <2>2 DEF Of
  <2>4. Latest(TenantOf[d])' = Latest(TenantOf[d])
    BY <2>3 DEF Latest, IsLast
  <2>5. \A x : NewRow(d, x)' = NewRow(d, x)
    BY <1>1 DEF NewRow, Row, Operation
  <2> QED BY <1>1, <2>1, <2>4, <2>5 DEF Inv, Fresh
<1>9. NoClash'
  BY <1>4 DEF Inv, NoClash
<1> QED BY <1>5, <1>6, <1>7, <1>8, <1>9 DEF Inv

\* Every step keeps the invariant.
LEMMA NextInv == Inv /\ [Next]_vars => Inv'
<1> SUFFICES ASSUME Inv, [Next]_vars PROVE Inv'
  OBVIOUS
<1>1. ASSUME NEW c \in Calls, Begin(c) PROVE Inv'
  BY <1>1, GotoInv DEF Begin, Steps, InTransaction
<1>2. ASSUME NEW c \in Calls, FindTarget(c) PROVE Inv'
  <2>1. PICK step \in {"notfound", "duplicate", "checked"} : Goto(c, step)
    BY <1>2 DEF FindTarget
  <2> QED BY <1>2, <2>1, GotoInv DEF FindTarget, Steps, Answers, InTransaction
<1>3. ASSUME NEW c \in Calls, Lock(c) PROVE Inv'
  BY <1>3, GotoInv DEF Lock, Steps, InTransaction
<1>4. ASSUME NEW c \in Calls, Fail(c) PROVE Inv'
  BY <1>4, GotoInv DEF Fail, Answers, InTransaction
<1>5. CASE UNCHANGED vars
  <2>1. TypeOK' /\ Exclusive' /\ NoClash'
    BY <1>5 DEF Inv, TypeOK, Exclusive, NoClash, vars
  <2>2. Chained' /\ \A t : Latest(t)' = Latest(t)
    BY <1>5, ChainedStutter DEF Inv, vars
  <2>3. \A c, x : NewRow(c, x)' = NewRow(c, x)
    BY <1>5 DEF NewRow, Row, Operation, vars
  <2>4. pc' = pc /\ latest' = latest /\ draft' = draft
    BY <1>5 DEF vars
  <2>5. Fresh'
    BY <2>2, <2>3, <2>4 DEF Inv, Fresh
  <2> QED BY <2>1, <2>2, <2>5 DEF Inv
<1> QED BY <1>1, <1>2, <1>3, <1>4, <1>5, ReadInv, InsertInv, CommitInv
        DEF Next, Finished

\* The invariant holds in every behaviour.
LEMMA Invariance == Spec => []Inv
  BY InitInv, NextInv, PTL DEF Spec

-----------------------------------------------------------------------------
\* Rows, drafts and the state of every call keep their types, in appendBlock(),
\* batchAppend() and refund().
THEOREM TypeCorrect == Spec => []TypeOK
<1>1. Inv => TypeOK
  BY DEF Inv
<1> QED BY <1>1, Invariance, PTL

\* The lock and the read inside it give every append a free index: the INSERT
\* of appendBlock() never meets the primary key.
THEOREM Serialized == Spec => []NoClash
<1>1. Inv => NoClash
  BY DEF Inv
<1> QED BY <1>1, Invariance, PTL

\* A chain whose blocks can be hashed again passes the links of verifyLedger().
LEMMA InvVerifies == Inv => ExactChainVerifies
<1> SUFFICES ASSUME Inv, NEW t \in Tenants, \A b \in Of(t) : Rehashes(b),
                    NEW b \in Of(t)
             PROVE  LET before == {l \in Of(t) : l.index < b.index}
                    IN IF before = {} THEN b.prev = Genesis
                       ELSE \E l \in before : /\ b.prev = l.call
                                              /\ \A m \in before : m.index <= l.index
  BY DEF ExactChainVerifies, Verifies
<1> DEFINE before == {l \in Of(t) : l.index < b.index}
<1>1. b \in rows /\ b.tenant = t /\ Linked(b)
  BY OfRows DEF Inv, Chained
<1>2. \A l \in Of(t) : l.index \in Nat
  BY DEF Inv, TypeOK, Block, Of
<1>3. CASE b.index = 0 /\ b.prev = Genesis
  <2>1. before = {}
    BY <1>2, <1>3
  <2> QED BY <2>1, <1>3
<1>4. ASSUME NEW l \in Of(t), b.index = l.index + 1, b.prev = l.call
      PROVE  before # {} /\ l \in before /\ \A m \in before : m.index <= l.index
  BY <1>2, <1>4
<1>5. CASE \E l \in Of(t) : b.index = l.index + 1 /\ b.prev = l.call
  <2>1. PICK l \in Of(t) : b.index = l.index + 1 /\ b.prev = l.call
    BY <1>5
  <2> HIDE DEF before
  <2> QED BY <2>1, <1>4 DEF before
<1> QED BY <1>1, <1>3, <1>5 DEF Linked

\* verifyLedger() accepts every chain of which it can recompute the hashes.
THEOREM LinksVerify == Spec => []ExactChainVerifies
  BY InvVerifies, Invariance, PTL

\* A step of the ledger is an append of HashChain or does not touch the table.
LEMMA StepRefines == Inv /\ [Next]_vars => [Chain!Append]_rows
<1> SUFFICES ASSUME Inv, [Next]_vars PROVE [Chain!Append]_rows
  OBVIOUS
<1>1. ASSUME NEW c \in Calls, Commit(c) PROVE Chain!Append
  <2>1. PICK b \in Block : rows' = rows \cup {b} /\ Chain!Follows(b)
    BY <1>1, CommitAppends
  <2> QED BY <2>1 DEF Chain!Append
<1>2. CASE ~\E c \in Calls : Commit(c)
  BY <1>2 DEF Next, Begin, FindTarget, Lock, ReadLatest, Insert, Fail, Finished, vars
<1> QED BY <1>1, <1>2

\* The table bookpi_ledger is an append-only chain per tenant, whatever the
\* number of calls, processes, tenants and shared lock ids.
THEOREM Refinement == Spec => AppendOnlyChain
<1>1. Init => Chain!Init
  BY DEF Init, Chain!Init
<1> QED BY <1>1, StepRefines, Invariance, PTL DEF Spec, AppendOnlyChain, Chain!Spec
=============================================================================
