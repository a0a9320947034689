--------------------------- MODULE SettlementProofs ---------------------------
(***************************************************************************)
(* Proofs about Settlement: the saga's stores implement PaymentLedger, and  *)
(* a settled receipt is true and unique, for every set of calls and         *)
(* payments and any number of crashes.                                      *)
(*                                                                         *)
(* The argument is ownership.  recordEconomicEvent() answers ok to the one  *)
(* call whose INSERT created the row; until that call aborts it is the only *)
(* one that may post or reverse the payment, and its step tells what the    *)
(* stores hold.                                                             *)
(***************************************************************************)
EXTENDS Settlement, TLAPS

Posted == {"account", "deferred", "posted", "settled"}
Owning == {"ledger", "compensate"} \cup Posted

\* What the step of an owner says of the stores.
OwnerView ==
  \A c \in Calls :
    /\ pc[c] \in Owning => PaymentOf[c] \in credited \ reversed
    /\ pc[c] = "ledger" => blocks[PaymentOf[c]] = 0
    /\ pc[c] \in Posted => blocks[PaymentOf[c]] = 1

OneOwner ==
  \A c, d \in Calls :
    PaymentOf[c] = PaymentOf[d] /\ pc[c] \in Owning /\ pc[d] \in Owning => c = d

StoreOrder ==
  /\ \A p \in Payments : blocks[p] > 0 => p \in credited
  /\ \A p \in Payments : blocks[p] <= 1
  /\ reversed \subseteq credited

Inv == TypeOK /\ OwnerView /\ OneOwner /\ StoreOrder

\* A step of a claim keeps the table well-typed.
LEMMA ClaimType ==
  ASSUME ClaimsType, NEW p \in Payments, NEW answer \in ClaimAnswer, Claim(p, answer)
  PROVE  ClaimsType'
BY DEF ClaimsType, ClaimStatus, Claim, claims, TakeRow, Claimable

\* Before the first call nothing is owned and the stores are empty.
LEMMA InitInv == Init => Inv
BY CallAssumption
   DEF Init, ClaimsInit, Inv, TypeOK, ClaimsType, ClaimStatus, OwnerView, OneOwner,
       StoreOrder, Steps, Receipts, Owning, Posted

\* A call that moves between steps that own nothing, or gives up what it owns,
\* and changes no store, keeps the invariant.
LEMMA MoveInv ==
  ASSUME Inv, NEW c \in Calls, NEW step \in {"idle"} \cup Steps \cup Receipts,
         Goto(c, step), ClaimsType', UNCHANGED stores,
         crashes' \in Nat,
         \/ step \notin Owning
         \/ step \in Posted /\ pc[c] \in Posted
  PROVE  Inv'
<1>1. TypeOK'
  BY DEF Inv, TypeOK, Goto, stores
<1>2. pc[c] \in Owning \/ step \notin Owning
  BY DEF Owning
<1>3. \A d \in Calls : pc'[d] = IF d = c THEN step ELSE pc[d]
  BY DEF Inv, TypeOK, Goto
<1>4. OwnerView'
  <2> SUFFICES ASSUME NEW d \in Calls
               PROVE /\ pc'[d] \in Owning => PaymentOf[d] \in credited \ reversed
                     /\ pc'[d] = "ledger" => blocks[PaymentOf[d]] = 0
                     /\ pc'[d] \in Posted => blocks[PaymentOf[d]] = 1
    BY DEF OwnerView, stores
  <2> QED BY <1>2, <1>3 DEF Inv, OwnerView, Owning, Posted
<1>5. OneOwner'
  BY <1>2, <1>3 DEF Inv, OneOwner
<1>6. StoreOrder'
  BY DEF Inv, StoreOrder, stores
<1> QED BY <1>1, <1>4, <1>5, <1>6 DEF Inv

\* recordEconomicEvent(): the call whose insert created the row becomes the
\* owner; nobody owned the payment before, since it was not credited.
LEMMA RecordInv == ASSUME Inv, NEW c \in Calls, Record(c) PROVE Inv'
<1> DEFINE p == PaymentOf[c]
<1>0. p \in Payments
  BY CallAssumption
<1>1. CASE UNCHANGED credited
  <2>1. PICK step \in {"duplicate", "abort"} : Goto(c, step)
    BY <1>1 DEF Record, Insert
  <2>2. UNCHANGED stores /\ UNCHANGED claims /\ UNCHANGED crashes
    BY <1>1 DEF Record, stores
  <2>3. ClaimsType' /\ crashes' \in Nat
    BY <2>2 DEF Inv, TypeOK, ClaimsType, claims
  <2> QED BY <2>1, <2>2, <2>3, MoveInv DEF Steps, Receipts, Owning, Posted
<1>2. CASE Insert(p)
  <2>1. PICK step \in {"ledger", "abort"} : Goto(c, step)
    BY <1>2 DEF Record, Insert
  <2>2. UNCHANGED <<claims, reversed, blocks, crashes>>
    BY DEF Record
  <2>3. p \notin credited /\ credited' = credited \cup {p}
    BY <1>2 DEF Insert
  <2>4. \A d \in Calls : pc'[d] = IF d = c THEN step ELSE pc[d]
    BY <2>1 DEF Inv, TypeOK, Goto
  <2>5. TypeOK'
    BY <1>0, <2>1, <2>2, <2>3
       DEF Inv, TypeOK, ClaimsType, claims, Goto, Steps, Receipts
  <2>6. p \notin reversed /\ blocks[p] = 0
    BY <1>0, <2>3 DEF Inv, StoreOrder, TypeOK
  <2>7. \A d \in Calls : PaymentOf[d] = p => pc[d] \notin Owning
    BY <2>3 DEF Inv, OwnerView
  <2>8. OwnerView'
    <3> SUFFICES ASSUME NEW d \in Calls
                 PROVE /\ pc'[d] \in Owning => PaymentOf[d] \in credited' \ reversed
                       /\ pc'[d] = "ledger" => blocks[PaymentOf[d]] = 0
                       /\ pc'[d] \in Posted => blocks[PaymentOf[d]] = 1
      BY <2>2 DEF OwnerView
    <3>1. CASE d = c
      BY <3>1, <2>3, <2>4, <2>6 DEF Owning, Posted
    <3>2. CASE d # c
      BY <3>2, <2>3, <2>4 DEF Inv, OwnerView
    <3> QED BY <3>1, <3>2
  <2>9. OneOwner'
    BY <2>4, <2>7 DEF Inv, OneOwner
  <2>10. StoreOrder'
    BY <2>2, <2>3 DEF Inv, StoreOrder
  <2> QED BY <2>5, <2>8, <2>9, <2>10 DEF Inv
<1>3. UNCHANGED credited \/ Insert(p)
  BY DEF Record
<1> QED BY <1>1, <1>2, <1>3

\* append(): only the owner is here, so the block is the payment's first.
LEMMA AppendInv == ASSUME Inv, NEW c \in Calls, AppendLedger(c) PROVE Inv'
<1> DEFINE p == PaymentOf[c]
<1>0. p \in Payments
  BY CallAssumption
<1>1. PICK step \in {"account", "compensate"} : Goto(c, step)
  BY DEF AppendLedger
<1>2. UNCHANGED <<claims, credited, reversed, crashes>> /\ pc[c] = "ledger"
  BY DEF AppendLedger
<1>3. \A d \in Calls : pc'[d] = IF d = c THEN step ELSE pc[d]
  BY <1>1 DEF Inv, TypeOK, Goto
<1>4. /\ blocks' \in [Payments -> Nat]
      /\ \A q \in Payments \ {p} : blocks'[q] = blocks[q]
      /\ blocks'[p] = 1 \/ (step = "compensate" /\ blocks'[p] = 0)
  <2>1. blocks \in [Payments -> Nat] /\ blocks[p] = 0
    BY <1>2 DEF Inv, TypeOK, OwnerView
  <2>2. Post(p) \/ (UNCHANGED blocks /\ step = "compensate")
    <3>1. CASE pc'[c] = "account"
      BY <3>1, <1>0, <1>3 DEF AppendLedger, Goto, Inv, TypeOK
    <3>2. CASE pc'[c] # "account"
      BY <3>2, <1>1, <1>3 DEF AppendLedger
    <3> QED BY <3>1, <3>2
  <2> QED BY <2>1, <2>2, <1>0 DEF Post
<1>5. TypeOK'
  BY <1>1, <1>2, <1>4 DEF Inv, TypeOK, ClaimsType, claims, Goto, Steps, Receipts
<1>6. p \in credited \ reversed
  BY <1>2 DEF Inv, OwnerView, Owning
<1>7. \A d \in Calls : PaymentOf[d] = p /\ pc[d] \in Owning => d = c
  BY <1>2 DEF Inv, OneOwner, Owning
<1>8. OwnerView'
  <2> SUFFICES ASSUME NEW d \in Calls
               PROVE /\ pc'[d] \in Owning => PaymentOf[d] \in credited \ reversed
                     /\ pc'[d] = "ledger" => blocks'[PaymentOf[d]] = 0
                     /\ pc'[d] \in Posted => blocks'[PaymentOf[d]] = 1
    BY <1>2 DEF OwnerView
  <2>1. CASE d = c
    BY <2>1, <1>3, <1>4, <1>6 DEF Posted
  <2>2. CASE d # c /\ pc[d] \in Owning
    <3>1. PaymentOf[d] \in Payments \ {p}
      BY <2>2, <1>7, CallAssumption
    <3> QED BY <2>2, <3>1, <1>3, <1>4 DEF Inv, OwnerView
  <2>3. CASE d # c /\ pc[d] \notin Owning
    BY <2>3, <1>3 DEF Owning
  <2> QED BY <2>1, <2>2, <2>3
<1>9. OneOwner'
  BY <1>2, <1>3 DEF Inv, OneOwner, Owning
<1>10. StoreOrder'
  BY <1>0, <1>2, <1>4, <1>6 DEF Inv, StoreOrder
<1> QED BY <1>5, <1>8, <1>9, <1>10 DEF Inv

\* compensate(): the owner gives its payment up.
LEMMA CompensateInv == ASSUME Inv, NEW c \in Calls, Compensate(c) PROVE Inv'
<1> DEFINE p == PaymentOf[c]
<1>0. p \in Payments
  BY CallAssumption
<1>1. UNCHANGED <<claims, credited, blocks, crashes>> /\ pc[c] = "compensate"
  BY DEF Compensate
<1>2. \A d \in Calls : pc'[d] = IF d = c THEN "abort" ELSE pc[d]
  BY DEF Compensate, Inv, TypeOK, Goto
<1>3. reversed' \subseteq reversed \cup {p}
  BY DEF Compensate
<1>4. TypeOK'
  BY <1>0 DEF Inv, TypeOK, ClaimsType, claims, Compensate, Goto, Steps, Receipts
<1>5. p \in credited /\ \A d \in Calls : PaymentOf[d] = p /\ pc[d] \in Owning => d = c
  BY <1>1 DEF Inv, OwnerView, OneOwner, Owning
<1>6. OwnerView'
  <2> SUFFICES ASSUME NEW d \in Calls
               PROVE /\ pc'[d] \in Owning => PaymentOf[d] \in credited \ reversed'
                     /\ pc'[d] = "ledger" => blocks[PaymentOf[d]] = 0
                     /\ pc'[d] \in Posted => blocks[PaymentOf[d]] = 1
    BY <1>1 DEF OwnerView
  <2> QED BY <1>2, <1>3, <1>5 DEF Inv, OwnerView, Owning, Posted
<1>7. OneOwner'
  BY <1>2 DEF Inv, OneOwner, Owning, Posted
<1>8. StoreOrder'
  BY <1>1, <1>3, <1>5 DEF Inv, StoreOrder
<1> QED BY <1>4, <1>6, <1>7, <1>8 DEF Inv

\* A crash frees what the dead calls owned.
LEMMA CrashInv == ASSUME Inv, Crash PROVE Inv'
<1>1. UNCHANGED <<claims, stores>> /\ crashes' \in Nat
  BY DEF Crash, Inv, TypeOK
<1>2. \A d \in Calls : pc'[d] = pc[d] \/ pc'[d] = "dead"
  BY DEF Crash
<1>3. TypeOK'
  BY <1>1 DEF Crash, Inv, TypeOK, ClaimsType, claims, stores, Receipts
<1>4. OwnerView'
  BY <1>1, <1>2 DEF Inv, OwnerView, stores, Owning, Posted
<1>5. OneOwner'
  BY <1>2 DEF Inv, OneOwner, Owning, Posted
<1>6. StoreOrder'
  BY <1>1 DEF Inv, StoreOrder, stores
<1> QED BY <1>3, <1>4, <1>5, <1>6 DEF Inv

\* The invariant is inductive.
LEMMA StepInv == Inv /\ [Next]_vars => Inv'
<1> SUFFICES ASSUME Inv, [Next]_vars PROVE Inv'
  OBVIOUS
<1> USE DEF Inv, TypeOK
<1>1. ASSUME NEW c \in Calls, ClaimStep(c) PROVE Inv'
  <2>1. PICK answer \in ClaimAnswer :
          Claim(PaymentOf[c], answer) /\ Goto(c, AfterClaim(answer))
    BY <1>1 DEF ClaimStep
  <2>2. ClaimsType'
    BY <2>1, ClaimType, CallAssumption
  <2>3. AfterClaim(answer) \in {"duplicate", "abort", "record"}
    BY DEF AfterClaim
  <2> QED BY <1>1, <2>1, <2>2, <2>3, MoveInv DEF ClaimStep, Steps, Receipts, Owning, Posted
<1>2. ASSUME NEW c \in Calls, AuditAbort(c) PROVE Inv'
  BY <1>2, MoveInv DEF AuditAbort, ClaimsType, claims, Steps, Receipts, Owning, Posted
<1>3. ASSUME NEW c \in Calls, Account(c) PROVE Inv'
  BY <1>3, MoveInv DEF Account, ClaimsType, claims, Steps, Receipts, Owning, Posted
<1>4. ASSUME NEW c \in Calls, AuditDeferred(c) PROVE Inv'
  BY <1>4, MoveInv DEF AuditDeferred, ClaimsType, claims, Steps, Receipts, Owning, Posted
<1>5. ASSUME NEW c \in Calls, AuditSettled(c) PROVE Inv'
  BY <1>5, MoveInv DEF AuditSettled, ClaimsType, claims, Steps, Receipts, Owning, Posted
<1>6. ASSUME NEW p \in Payments, TimePasses(p) PROVE Inv'
  BY <1>6 DEF TimePasses, GrowStale, ClaimsType, stores, OwnerView, OneOwner, StoreOrder
<1>7. CASE UNCHANGED vars
  BY <1>7 DEF vars, ClaimsType, OwnerView, OneOwner, StoreOrder
<1> QED
  BY <1>1, <1>2, <1>3, <1>4, <1>5, <1>6, <1>7, RecordInv, AppendInv, CompensateInv, CrashInv
     DEF Next, SagaStep

\* Every variable keeps the shape of its table, through all steps and crashes.
THEOREM TypeCorrect == Spec => []TypeOK
<1>1. Inv => TypeOK
  BY DEF Inv
<1> QED BY <1>1, InitInv, StepInv, PTL DEF Spec

\* A "settled" receipt is true and no second call gets one: settlePayment() may
\* run any number of times for a payment, at the same time or after crashes.
THEOREM SettledReceipts == Spec => []SettledIsTrue
<1>1. Inv => SettledIsTrue
  BY DEF Inv, OwnerView, OneOwner, SettledIsTrue, Owning, Posted
<1> QED BY <1>1, InitInv, StepInv, PTL DEF Spec

\* Nobody but the call that inserted the credit is between credit and posting.
THEOREM Ownership == Spec => []SoleOwner
<1>1. Inv => SoleOwner
  BY DEF Inv, OneOwner, SoleOwner, Owning, Posted
<1> QED BY <1>1, InitInv, StepInv, PTL DEF Spec

\* Only three steps touch the stores, and each is a step of PaymentLedger.
LEMMA StepRefines ==
  Inv /\ [Next]_vars => [Ledger!Next]_<<credited, blocks, reversed>>
<1> SUFFICES ASSUME Inv, [Next]_vars, ~UNCHANGED <<credited, blocks, reversed>>
             PROVE Ledger!Next
  OBVIOUS
<1>1. ASSUME NEW c \in Calls, Record(c) PROVE Ledger!Next
  <2>1. Insert(PaymentOf[c]) /\ UNCHANGED <<reversed, blocks>>
    BY <1>1 DEF Record
  <2>2. Ledger!Credit(PaymentOf[c])
    BY <2>1 DEF Insert, Ledger!Credit
  <2> QED BY <2>2, CallAssumption DEF Ledger!Next
<1>2. ASSUME NEW c \in Calls, AppendLedger(c) PROVE Ledger!Next
  <2>1. /\ PaymentOf[c] \in credited /\ blocks[PaymentOf[c]] = 0
        /\ Post(PaymentOf[c]) /\ UNCHANGED <<credited, reversed>>
    BY <1>2 DEF AppendLedger, Inv, OwnerView, Owning
  <2>2. Ledger!Post(PaymentOf[c])
    BY <2>1 DEF Post, Ledger!Post
  <2> QED BY <2>2, CallAssumption DEF Ledger!Next
<1>3. ASSUME NEW c \in Calls, Compensate(c) PROVE Ledger!Next
  <2>1. PaymentOf[c] \in credited /\ UNCHANGED <<credited, blocks>>
    BY <1>3 DEF Compensate, Inv, OwnerView, Owning
  <2>2. PaymentOf[c] \notin reversed /\ reversed' = reversed \cup {PaymentOf[c]}
    BY <1>3, <2>1 DEF Compensate
  <2>3. Ledger!Reverse(PaymentOf[c])
    BY <2>1, <2>2 DEF Ledger!Reverse
  <2> QED BY <2>3, CallAssumption DEF Ledger!Next
<1> QED
  BY <1>1, <1>2, <1>3
     DEF Next, vars, SagaStep, ClaimStep, AuditAbort, Account, AuditDeferred,
         AuditSettled, TimePasses, Crash, stores

\* The saga implements PaymentLedger: one credit, one block after it, one
\* reversal after it, for every interleaving of calls, lost answers and crashes.
THEOREM Refinement == Spec => LedgerDiscipline
<1>1. Init => Ledger!Init
  BY DEF Init, Ledger!Init
<1> QED BY <1>1, InitInv, StepInv, StepRefines, PTL DEF Spec, LedgerDiscipline, Ledger!Spec
=============================================================================
