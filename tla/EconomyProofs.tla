---------------------------- MODULE EconomyProofs ----------------------------
(***************************************************************************)
(* Proofs about Economy, for all accounts, amounts and limits: no order of  *)
(* operations overdraws a wallet, the governance limits bound what is       *)
(* approved, an approved sale is credited once, and the reputation shows    *)
(* only earned revenue.  What a wallet earned, spent and got back always     *)
(* adds up to what it has (MoneyConserved), and what happens to a wallet     *)
(* whose failed payouts return to it is a step of Funds (Refinement).  The   *)
(* bounds of the model are not used.                                       *)
(***************************************************************************)
EXTENDS Economy, SumsProofs

Event   == [account : Accounts, gross : SaleAmounts, verdict : Rules]
Entry   == [id : Nat \cup CallerIds, account : Accounts, type : {"credit", "debit"}, amount : Nat]
Payout  == [user : Users, amount : WalletAmounts, status : {"pending", "completed", "failed"}]
Summary == [balance : Nat, pending : Nat, earned : Nat, paidOut : Int]

\* The facts of TypeOK one by one.
LEMMA Types ==
  ASSUME TypeOK
  PROVE  /\ hour \in Nat
         /\ daily \in [Accounts -> [date : Int, total : Nat]]
         /\ hourly \in [Accounts -> [hour : Int, count : Nat]]
         /\ events \in Seq(Event) /\ payouts \in Seq(Payout)
         /\ wallet \in [Accounts -> Summary] /\ ledger \subseteq Entry
         /\ profile \in [Accounts -> [exists : BOOLEAN, revenue : Nat]]
         /\ granted \in [Accounts -> [volume : Nat, count : Nat]]
BY DEF TypeOK, Event, Entry, Payout, Summary

\* A user's wallet, and where a failed payout returns, are accounts.
LEMMA KeysAre == \A u \in Users : WalletKey(u) \in Accounts /\ ReturnKey(u) \in Accounts
BY DEF Accounts

\* The creator's share of a sale is an amount.
LEMMA ShareType == \A gross \in SaleAmounts : gross \in Nat /\ Share(gross) \in Nat
BY AmountAssumption DEF Share

LEMMA DayType == ASSUME hour \in Nat PROVE Today \in Nat
BY LimitAssumption DEF Today

\* A later hour is not on an earlier day.
LEMMA DayGrows ==
  ASSUME NEW h \in Nat, NEW n \in Nat \ {0}
  PROVE  h \div n \in Nat /\ (h + 1) \div n \in Nat /\ h \div n <= (h + 1) \div n
OBVIOUS

\* Wallet arithmetic that leaves the balance and the earnings natural.
LEMMA AdjustType ==
  ASSUME wallet \in [Accounts -> Summary], NEW a \in Accounts,
         NEW b \in Int, NEW e \in Nat, NEW p \in Int,
         wallet[a].balance + b >= 0, Adjust(a, b, e, p)
  PROVE  /\ wallet' \in [Accounts -> Summary]
         /\ \A c \in Accounts : wallet'[c].earned = wallet[c].earned + (IF c = a THEN e ELSE 0)
<1> DEFINE new == [balance |-> wallet[a].balance + b, pending |-> wallet[a].pending,
                   earned |-> wallet[a].earned + e, paidOut |-> wallet[a].paidOut + p]
<1>1. wallet[a] \in Summary
  OBVIOUS
<1>2. /\ wallet[a].balance \in Nat /\ wallet[a].pending \in Nat
      /\ wallet[a].earned \in Nat /\ wallet[a].paidOut \in Int
  BY <1>1 DEF Summary
<1>3. new \in Summary
  BY <1>2 DEF Summary
<1>4. wallet' = [wallet EXCEPT ![a] = new]
  BY DEF Adjust
<1>5. \A c \in Accounts : wallet'[c] = IF c = a THEN new ELSE wallet[c]
  BY <1>4
<1>6. wallet' \in [Accounts -> Summary]
  BY <1>3, <1>4
<1>7. new.earned = wallet[a].earned + e
  OBVIOUS
<1>8. \A c \in Accounts : wallet[c].earned \in Nat
  BY DEF Summary
<1>9. \A c \in Accounts : wallet'[c].earned = wallet[c].earned + (IF c = a THEN e ELSE 0)
  <2> SUFFICES ASSUME NEW c \in Accounts
               PROVE wallet'[c].earned = wallet[c].earned + (IF c = a THEN e ELSE 0)
    OBVIOUS
  <2>1. CASE c = a
    BY <1>5, <1>7, <2>1
  <2>2. CASE c # a
    BY <1>5, <1>8, <2>2
  <2> QED BY <2>1, <2>2
<1> QED BY <1>6, <1>9

\* A credit types, adds at most one entry, for its id, and loses nothing.
LEMMA CreditStep ==
  ASSUME wallet \in [Accounts -> Summary], ledger \subseteq Entry,
         NEW a \in Accounts, NEW id \in Nat \cup CallerIds, NEW n \in Nat, Credit(a, id, n)
  PROVE  /\ wallet' \in [Accounts -> Summary] /\ ledger' \subseteq Entry
         /\ IF Applied(id) THEN UNCHANGED money
            ELSE /\ ledger' = ledger \cup {[id |-> id, account |-> a, type |-> "credit", amount |-> n]}
                 /\ \A c \in Accounts :
                      wallet'[c].earned = wallet[c].earned + (IF c = a THEN n ELSE 0)
<1>1. CASE Applied(id)
  BY <1>1 DEF Credit, money
<1>2. CASE ~Applied(id)
  <2>1. Adjust(a, n, n, 0) /\ Enter(id, a, "credit", n)
    BY <1>2 DEF Credit
  <2>2. wallet[a].balance \in Nat
    BY DEF Summary
  <2>3. /\ wallet' \in [Accounts -> Summary]
        /\ \A c \in Accounts : wallet'[c].earned = wallet[c].earned + (IF c = a THEN n ELSE 0)
    BY <2>1, <2>2, AdjustType
  <2> QED BY <1>2, <2>1, <2>3 DEF Enter, Entry
<1> QED BY <1>1, <1>2

-----------------------------------------------------------------------------
\* What the counters know of what was approved: a count of this day or hour
\* includes it, and an older count means that nothing was approved since.
Counted ==
  \A a \in Accounts :
    /\ daily[a].date <= Today /\ hourly[a].hour <= hour
    /\ granted[a].volume <= (IF daily[a].date = Today THEN daily[a].total ELSE 0)
    /\ granted[a].count <= (IF hourly[a].hour = hour THEN hourly[a].count ELSE 0)

\* An entry names a caller's id or an event that is recorded.
LedgerIds == \A e \in ledger : e.id \in CallerIds \/ (e.id \in Nat /\ e.id <= Len(events))

Inv == TypeOK /\ Counted /\ LimitsHold /\ LedgerIds /\ ApprovedIsCredited /\ ReputationIsEarned

LEMMA InitInv == Init => Inv
<1> SUFFICES ASSUME Init PROVE Inv
  OBVIOUS
<1>1. TypeOK
  BY DEF Init, TypeOK
<1>2. Today = 0
  BY LimitAssumption DEF Init, Today
<1>3. Counted /\ LimitsHold
  BY <1>2, LimitAssumption DEF Init, Counted, LimitsHold
<1>4. LedgerIds /\ ApprovedIsCredited /\ ReputationIsEarned
  BY DEF Init, LedgerIds, ApprovedIsCredited, ReputationIsEarned
<1> QED BY <1>1, <1>3, <1>4 DEF Inv

\* Without a new event, an entry for an id not yet applied keeps the ledger.
LEMMA NewEntry ==
  ASSUME Inv, UNCHANGED events, NEW x \in Entry, ~Applied(x.id),
         x.id \in CallerIds \/ (x.id \in Nat /\ x.id <= Len(events)),
         ledger' = ledger \cup {x}
  PROVE  LedgerIds' /\ ApprovedIsCredited'
<1>1. LedgerIds'
  BY DEF Inv, LedgerIds
<1>2. ASSUME NEW i \in DOMAIN events, events[i].verdict = "approved"
      PROVE {e \in ledger' : e.id = i} = {e \in ledger : e.id = i}
  <2>1. \E e \in ledger : e.id = i
    BY <1>2 DEF Inv, ApprovedIsCredited
  <2>2. x.id # i
    BY <2>1 DEF Applied
  <2> QED BY <2>2
<1> QED BY <1>1, <1>2 DEF Inv, ApprovedIsCredited

\* Steps that keep events and ledger, or governance, or only add earnings.
LEMMA SameLedger == ASSUME Inv, UNCHANGED <<events, ledger>> PROVE LedgerIds' /\ ApprovedIsCredited'
BY DEF Inv, LedgerIds, ApprovedIsCredited

LEMMA SamePolicy == ASSUME Inv, UNCHANGED policy PROVE Counted' /\ LimitsHold'
BY DEF Inv, Counted, LimitsHold, policy, Today

LEMMA MoreEarned ==
  ASSUME Inv, UNCHANGED profile, wallet' \in [Accounts -> Summary],
         \A c \in Accounts : wallet'[c].earned >= wallet[c].earned
  PROVE  ReputationIsEarned'
<1> SUFFICES ASSUME NEW c \in Accounts PROVE profile[c].revenue <= wallet'[c].earned
  BY DEF ReputationIsEarned
<1>1. wallet[c].earned \in Nat /\ wallet'[c].earned \in Nat /\ profile[c].revenue \in Nat
  BY Types DEF Inv, Summary
<1> QED BY <1>1 DEF Inv, ReputationIsEarned

-----------------------------------------------------------------------------
\* Every operation but a sale and the clock leaves events and governance alone.
LEMMA WalletInv ==
  ASSUME Inv, UNCHANGED <<policy, events, profile>>, wallet' \in [Accounts -> Summary],
         \A c \in Accounts : wallet'[c].earned >= wallet[c].earned,
         ledger' \subseteq Entry, payouts' \in Seq(Payout), LedgerIds', ApprovedIsCredited'
  PROVE  Inv'
<1>1. TypeOK'
  BY Types DEF Inv, TypeOK, policy, Entry, Payout, Summary, Event
<1> QED BY <1>1, SamePolicy, MoreEarned DEF Inv

LEMMA EarnedType == ASSUME Inv PROVE \A c \in Accounts : /\ wallet[c].earned \in Nat
                                                         /\ wallet[c].balance \in Nat
                                                         /\ wallet[c].pending \in Nat
                                                         /\ wallet[c].paidOut \in Int
BY Types DEF Inv, Summary

LEMMA TreasuryInv ==
  ASSUME Inv, NEW a \in Accounts, NEW amount \in WalletAmounts,
         NEW id \in CallerIds \cup DOMAIN events, TreasuryCredit(a, id, amount)
  PROVE  Inv'
<1>1. amount \in Nat /\ id \in Nat \cup CallerIds
  BY AmountAssumption, Types DEF Inv
<1>2. id \in CallerIds \/ (id \in Nat /\ id <= Len(events))
  BY Types DEF Inv
<1>3. Credit(a, id, amount) /\ UNCHANGED <<policy, events, payouts, profile>>
  BY DEF TreasuryCredit
<1>4. /\ wallet' \in [Accounts -> Summary] /\ ledger' \subseteq Entry
      /\ IF Applied(id) THEN UNCHANGED money
         ELSE /\ ledger' = ledger \cup {[id |-> id, account |-> a, type |-> "credit", amount |-> amount]}
              /\ \A c \in Accounts :
                   wallet'[c].earned = wallet[c].earned + (IF c = a THEN amount ELSE 0)
  BY <1>1, <1>3, CreditStep, Types DEF Inv
<1>5. CASE Applied(id)
  BY <1>3, <1>4, <1>5, SameLedger, WalletInv, EarnedType, Types DEF Inv, money
<1>6. CASE ~Applied(id)
  <2> DEFINE x == [id |-> id, account |-> a, type |-> "credit", amount |-> amount]
  <2>1. x \in Entry /\ x.id = id
    BY <1>1 DEF Entry
  <2>2. LedgerIds' /\ ApprovedIsCredited'
    BY <1>2, <1>3, <1>4, <1>6, <2>1, NewEntry
  <2>3. \A c \in Accounts : wallet'[c].earned >= wallet[c].earned
    BY <1>1, <1>4, <1>6, EarnedType
  <2> QED BY <1>3, <1>4, <2>2, <2>3, WalletInv, Types DEF Inv
<1> QED BY <1>5, <1>6

\* An adjustment that adds no debt to a wallet.
LEMMA AdjustInv ==
  ASSUME Inv, NEW a \in Accounts, NEW b \in Int, NEW p \in Int, wallet[a].balance + b >= 0,
         Adjust(a, b, 0, p)
  PROVE  /\ wallet' \in [Accounts -> Summary]
         /\ \A c \in Accounts : wallet'[c].earned >= wallet[c].earned
<1>1. /\ wallet' \in [Accounts -> Summary]
      /\ \A c \in Accounts : wallet'[c].earned = wallet[c].earned + (IF c = a THEN 0 ELSE 0)
  BY AdjustType, Types DEF Inv
<1> QED BY <1>1, EarnedType

LEMMA DebitInv ==
  ASSUME Inv, NEW a \in Accounts, NEW amount \in WalletAmounts, NEW id \in CallerIds,
         Debit(a, id, amount)
  PROVE  Inv'
<1> DEFINE x == [id |-> id, account |-> a, type |-> "debit", amount |-> amount]
<1>1. amount \in Nat /\ x \in Entry /\ x.id = id
  BY AmountAssumption DEF Entry
<1>2. /\ Adjust(a, -amount, 0, 0) /\ wallet[a].balance >= amount /\ ~Applied(x.id)
      /\ ledger' = ledger \cup {x} /\ UNCHANGED <<policy, events, payouts, profile>>
  BY <1>1 DEF Debit, Enter
<1>3. /\ wallet' \in [Accounts -> Summary]
      /\ \A c \in Accounts : wallet'[c].earned >= wallet[c].earned
  BY <1>1, <1>2, AdjustInv, EarnedType
<1>4. LedgerIds' /\ ApprovedIsCredited'
  BY <1>1, <1>2, NewEntry
<1> QED BY <1>1, <1>2, <1>3, <1>4, WalletInv, Types DEF Inv

LEMMA PendingInv ==
  ASSUME Inv, NEW a \in Accounts, NEW amount \in WalletAmounts, AddPendingSettlement(a, amount)
  PROVE  Inv'
<1> DEFINE new == [balance |-> wallet[a].balance, pending |-> wallet[a].pending + amount,
                   earned |-> wallet[a].earned, paidOut |-> wallet[a].paidOut]
<1>1. new \in Summary
  BY EarnedType, AmountAssumption DEF Summary
<1>2. wallet' = [wallet EXCEPT ![a] = new]
  BY DEF AddPendingSettlement
<1>3. wallet' \in [Accounts -> Summary]
  BY <1>1, <1>2, Types DEF Inv
<1>4. \A c \in Accounts : wallet'[c].earned = wallet[c].earned
  BY <1>2, Types DEF Inv
<1> QED BY <1>3, <1>4, WalletInv, SameLedger, EarnedType, Types DEF Inv, AddPendingSettlement

LEMMA SettleInv ==
  ASSUME Inv, NEW a \in Accounts, SettlePending(a)
  PROVE  Inv'
<1> DEFINE new == [balance |-> wallet[a].balance + wallet[a].pending, pending |-> 0,
                   earned |-> wallet[a].earned + wallet[a].pending, paidOut |-> wallet[a].paidOut]
<1>1. new \in Summary
  BY EarnedType DEF Summary
<1>2. wallet' = [wallet EXCEPT ![a] = new]
  BY DEF SettlePending
<1>3. wallet' \in [Accounts -> Summary]
  BY <1>1, <1>2, Types DEF Inv
<1>4. new.earned >= wallet[a].earned
  BY EarnedType
<1>5. \A c \in Accounts : wallet'[c] = IF c = a THEN new ELSE wallet[c]
  BY <1>2, Types DEF Inv
<1>6. \A c \in Accounts : wallet'[c].earned >= wallet[c].earned
  <2> SUFFICES ASSUME NEW c \in Accounts PROVE wallet'[c].earned >= wallet[c].earned
    OBVIOUS
  <2>1. CASE c = a
    BY <1>4, <1>5, <2>1
  <2>2. CASE c # a
    <3>1. wallet'[c] = wallet[c]
      BY <1>5, <2>2
    <3> QED BY <3>1, EarnedType
  <2> QED BY <2>1, <2>2
<1> QED BY <1>3, <1>6, WalletInv, SameLedger, Types DEF Inv, SettlePending

LEMMA RequestInv ==
  ASSUME Inv, NEW u \in Users, NEW amount \in WalletAmounts, RequestPayout(u, amount)
  PROVE  Inv'
<1> DEFINE x == [user |-> u, amount |-> amount, status |-> "pending"]
<1>1. amount \in Nat /\ x \in Payout
  BY AmountAssumption DEF Payout
<1>2. payouts' = Append(payouts, x) /\ UNCHANGED <<policy, events, ledger, profile>>
  BY DEF RequestPayout
<1>3. payouts' \in Seq(Payout)
  BY <1>1, <1>2, Types DEF Inv
<1>4. /\ wallet' \in [Accounts -> Summary]
      /\ \A c \in Accounts : wallet'[c].earned >= wallet[c].earned
  BY <1>1, AdjustInv, EarnedType, KeysAre DEF RequestPayout
<1> QED BY <1>2, <1>3, <1>4, WalletInv, SameLedger, Types DEF Inv

\* The end of a payout changes its status only.
LEMMA EndType ==
  ASSUME Inv, NEW i \in DOMAIN payouts, NEW end \in {"completed", "failed"},
         payouts' = [payouts EXCEPT ![i].status = end]
  PROVE  payouts' \in Seq(Payout) /\ payouts[i].user \in Users /\ payouts[i].amount \in Nat
<1>1. payouts[i] \in Payout
  BY Types DEF Inv
<1>2. [payouts[i] EXCEPT !.status = end] \in Payout
  BY <1>1 DEF Payout
<1>3. payouts' = [payouts EXCEPT ![i] = [payouts[i] EXCEPT !.status = end]]
  OBVIOUS
<1>4. payouts' \in Seq(Payout)
  BY <1>2, <1>3, Types DEF Inv
<1>5. payouts[i].user \in Users /\ payouts[i].amount \in Nat
  BY <1>1, AmountAssumption DEF Payout
<1> QED BY <1>4, <1>5

LEMMA CompleteInv == ASSUME Inv, NEW i \in DOMAIN payouts, CompletePayout(i) PROVE Inv'
<1>1. payouts' = [payouts EXCEPT ![i].status = "completed"] /\ UNCHANGED <<policy, events, money, profile>>
  BY DEF CompletePayout
<1>2. payouts' \in Seq(Payout)
  BY <1>1, EndType
<1> QED BY <1>1, <1>2, WalletInv, SameLedger, EarnedType, Types DEF Inv, money

LEMMA FailInv == ASSUME Inv, NEW i \in DOMAIN payouts, FailPayout(i) PROVE Inv'
<1>1. payouts' = [payouts EXCEPT ![i].status = "failed"] /\ UNCHANGED <<policy, events, ledger, profile>>
  BY DEF FailPayout
<1>2. payouts' \in Seq(Payout) /\ payouts[i].user \in Users /\ payouts[i].amount \in Nat
  BY <1>1, EndType
<1>3. /\ wallet' \in [Accounts -> Summary]
      /\ \A c \in Accounts : wallet'[c].earned >= wallet[c].earned
  <2>1. PICK r \in Accounts, n \in Nat : r = ReturnKey(payouts[i].user) /\ n = payouts[i].amount
    BY <1>2, KeysAre
  <2>2. Adjust(r, n, 0, -n) /\ -n \in Int /\ wallet[r].balance + n >= 0
    BY <2>1, EarnedType DEF FailPayout
  <2>3. \A m \in Int : Adjust(r, n, 0, m) =>
          /\ wallet' \in [Accounts -> Summary]
          /\ \A c \in Accounts : wallet'[c].earned >= wallet[c].earned
    BY <2>1, <2>2, AdjustInv
  <2> QED BY <2>2, <2>3
<1> QED BY <1>1, <1>2, <1>3, WalletInv, SameLedger, Types DEF Inv

LEMMA ProfileInv == ASSUME Inv, NEW a \in Accounts, CreateCreatorProfile(a) PROVE Inv'
<1>1. UNCHANGED <<policy, events, money, payouts>>
  BY DEF CreateCreatorProfile
<1>2. profile[a] \in [exists : BOOLEAN, revenue : Nat]
  BY Types DEF Inv
<1>3. [profile[a] EXCEPT !.exists = TRUE] \in [exists : BOOLEAN, revenue : Nat]
  BY <1>2
<1>4. profile' = [profile EXCEPT ![a] = [profile[a] EXCEPT !.exists = TRUE]]
  BY DEF CreateCreatorProfile
<1>5. profile' \in [Accounts -> [exists : BOOLEAN, revenue : Nat]]
  BY <1>3, <1>4, Types DEF Inv
<1>6. \A c \in Accounts : profile'[c].revenue = profile[c].revenue
  BY <1>2, <1>4, Types DEF Inv
<1>7. TypeOK'
  BY <1>1, <1>5 DEF Inv, TypeOK, policy, money
<1>8. ReputationIsEarned'
  BY <1>1, <1>6 DEF Inv, ReputationIsEarned, money
<1> QED BY <1>1, <1>7, <1>8, SameLedger, SamePolicy DEF Inv, money

-----------------------------------------------------------------------------
\* The clock: the counts of an older day or hour are as good as none.
LEMMA ClockInv == ASSUME Inv, NextHour PROVE Inv'
<1>1. /\ hour' = hour + 1 /\ hour \in Nat
      /\ UNCHANGED <<daily, hourly, events, wallet, ledger, payouts, profile>>
  BY Types DEF Inv, NextHour, money
<1>2. Today \in Nat /\ Today' \in Nat /\ Today <= Today'
  BY <1>1, DayGrows, LimitAssumption DEF Today
<1> DEFINE new(a) == [volume |-> IF Today' = Today THEN granted[a].volume ELSE 0, count |-> 0]
<1>3. granted' = [a \in Accounts |-> new(a)]
  BY <1>1 DEF NextHour, Today
<1>4. \A a \in Accounts : granted[a] \in [volume : Nat, count : Nat]
  BY Types DEF Inv
<1>5. \A a \in Accounts : new(a) \in [volume : Nat, count : Nat] /\ new(a).count = 0
                          /\ new(a).volume = IF Today' = Today THEN granted[a].volume ELSE 0
  BY <1>4
<1>6. granted' \in [Accounts -> [volume : Nat, count : Nat]]
  BY <1>3, <1>5
<1>7. TypeOK'
  BY <1>1, <1>6 DEF Inv, TypeOK
<1>8. Counted'
  <2> SUFFICES ASSUME NEW a \in Accounts
               PROVE /\ daily[a].date <= Today' /\ hourly[a].hour <= hour'
                     /\ granted'[a].volume <= (IF daily[a].date = Today' THEN daily[a].total ELSE 0)
                     /\ granted'[a].count <= (IF hourly[a].hour = hour' THEN hourly[a].count ELSE 0)
    BY <1>1 DEF Counted
  <2>1. /\ daily[a].date \in Int /\ daily[a].total \in Nat
        /\ hourly[a].hour \in Int /\ hourly[a].count \in Nat
    BY Types DEF Inv
  <2>2. /\ daily[a].date <= Today /\ hourly[a].hour <= hour
        /\ granted[a].volume <= (IF daily[a].date = Today THEN daily[a].total ELSE 0)
    BY DEF Inv, Counted
  <2>3. granted'[a].count = 0 /\ granted'[a].volume = IF Today' = Today THEN granted[a].volume ELSE 0
    BY <1>3, <1>5
  <2>4. CASE Today' = Today
    BY <1>1, <2>1, <2>2, <2>3, <2>4
  <2>5. CASE Today' # Today
    BY <1>1, <1>2, <2>1, <2>2, <2>3, <2>5
  <2> QED BY <2>4, <2>5
<1>9. LimitsHold'
  <2> SUFFICES ASSUME NEW a \in Accounts
               PROVE granted'[a].volume <= MaxDaily /\ granted'[a].count <= MaxPerHour
    BY DEF LimitsHold
  <2> QED BY <1>3, <1>5, LimitAssumption DEF Inv, LimitsHold
<1>10. ReputationIsEarned'
  BY <1>1 DEF Inv, ReputationIsEarned
<1> QED BY <1>1, <1>7, <1>8, <1>9, <1>10, SameLedger DEF Inv

-----------------------------------------------------------------------------
\* The rules count numbers.
LEMMA CountTypes ==
  ASSUME Inv, NEW a \in Accounts, NEW gross \in SaleAmounts
  PROVE  /\ Volume(a, gross) \in Nat /\ Count(a) \in Nat /\ gross \in Nat /\ Today \in Nat
         /\ Volume(a, gross) = gross + (IF daily[a].date = Today THEN daily[a].total ELSE 0)
         /\ Count(a) = 1 + (IF hourly[a].hour = hour THEN hourly[a].count ELSE 0)
         /\ daily[a].date \in Int /\ daily[a].total \in Nat
         /\ hourly[a].hour \in Int /\ hourly[a].count \in Nat /\ hour \in Nat
         /\ granted[a].volume \in Nat /\ granted[a].count \in Nat
<1>1. /\ daily[a] \in [date : Int, total : Nat] /\ hourly[a] \in [hour : Int, count : Nat]
      /\ granted[a] \in [volume : Nat, count : Nat] /\ hour \in Nat
  BY Types DEF Inv
<1>2. gross \in Nat /\ Today \in Nat
  BY <1>1, AmountAssumption, DayType
<1> QED BY <1>1, <1>2 DEF Volume, Count

\* Governance counts a sale before it judges it, so the counters stay ahead of
\* what is approved, and what it approves is within both limits.
LEMMA PolicyStep ==
  ASSUME Inv, NEW a \in Accounts, NEW gross \in SaleAmounts, UNCHANGED hour,
         EvaluatePolicy(a, gross, Verdict(a, gross)),
         granted' = IF Verdict(a, gross) = "approved"
                    THEN [granted EXCEPT ![a] = [volume |-> @.volume + gross, count |-> @.count + 1]]
                    ELSE granted
  PROVE  /\ daily' \in [Accounts -> [date : Int, total : Nat]]
         /\ hourly' \in [Accounts -> [hour : Int, count : Nat]]
         /\ granted' \in [Accounts -> [volume : Nat, count : Nat]]
         /\ Counted' /\ LimitsHold'
<1> DEFINE v == Verdict(a, gross)
           day == [date |-> Today, total |-> Volume(a, gross)]
           hr  == [hour |-> hour, count |-> Count(a)]
           got == [volume |-> granted[a].volume + gross, count |-> granted[a].count + 1]
<1>0. /\ Volume(a, gross) \in Nat /\ Count(a) \in Nat /\ gross \in Nat /\ Today \in Nat
      /\ Volume(a, gross) = gross + (IF daily[a].date = Today THEN daily[a].total ELSE 0)
      /\ Count(a) = 1 + (IF hourly[a].hour = hour THEN hourly[a].count ELSE 0)
      /\ daily[a].date \in Int /\ daily[a].total \in Nat
      /\ hourly[a].hour \in Int /\ hourly[a].count \in Nat /\ hour \in Nat
      /\ granted[a].volume \in Nat /\ granted[a].count \in Nat
  BY CountTypes
<1>1. daily' = (IF v = "POL-001" THEN daily ELSE [daily EXCEPT ![a] = day])
  BY DEF EvaluatePolicy
<1>2. hourly' = (IF v \in {"POL-001", "POL-002"} THEN hourly ELSE [hourly EXCEPT ![a] = hr])
  BY DEF EvaluatePolicy
<1>3. granted' = (IF v = "approved" THEN [granted EXCEPT ![a] = got] ELSE granted)
  OBVIOUS
<1>4. day \in [date : Int, total : Nat] /\ hr \in [hour : Int, count : Nat]
      /\ got \in [volume : Nat, count : Nat]
  BY <1>0
<1>5. /\ daily' \in [Accounts -> [date : Int, total : Nat]]
      /\ hourly' \in [Accounts -> [hour : Int, count : Nat]]
      /\ granted' \in [Accounts -> [volume : Nat, count : Nat]]
  <2>1. daily' \in [Accounts -> [date : Int, total : Nat]]
    BY <1>1, <1>4, Types DEF Inv
  <2>2. hourly' \in [Accounts -> [hour : Int, count : Nat]]
    BY <1>2, <1>4, Types DEF Inv
  <2>3. granted' \in [Accounts -> [volume : Nat, count : Nat]]
    BY <1>3, <1>4, Types DEF Inv
  <2> QED BY <2>1, <2>2, <2>3
<1>6. Today' = Today
  BY DEF Today
<1>7. \A c \in Accounts :
        /\ daily'[c] = IF c = a /\ v # "POL-001" THEN day ELSE daily[c]
        /\ hourly'[c] = IF c = a /\ v \notin {"POL-001", "POL-002"} THEN hr ELSE hourly[c]
        /\ granted'[c] = IF c = a /\ v = "approved" THEN got ELSE granted[c]
  BY <1>1, <1>2, <1>3, Types DEF Inv
<1>8. /\ daily[a].date <= Today /\ hourly[a].hour <= hour
      /\ granted[a].volume <= (IF daily[a].date = Today THEN daily[a].total ELSE 0)
      /\ granted[a].count <= (IF hourly[a].hour = hour THEN hourly[a].count ELSE 0)
      /\ granted[a].volume <= MaxDaily /\ granted[a].count <= MaxPerHour
  BY DEF Inv, Counted, LimitsHold
<1>9. v = "approved" =>
        /\ gross <= MaxSingle
        /\ daily[a].date = Today => Volume(a, gross) <= MaxDaily
        /\ hourly[a].hour = hour => Count(a) <= MaxPerHour
  BY <1>0, LimitAssumption DEF Verdict
<1>10. v = "approved" => got.volume <= MaxDaily /\ got.count <= MaxPerHour
  BY <1>0, <1>8, <1>9, LimitAssumption
<1>11. got.volume <= day.total /\ got.count <= hr.count
  BY <1>0, <1>8
<1>12. granted[a].volume <= day.total /\ granted[a].count <= hr.count
  BY <1>0, <1>8
<1>13. Counted'
  <2> SUFFICES ASSUME NEW c \in Accounts
               PROVE /\ daily'[c].date <= Today /\ hourly'[c].hour <= hour
                     /\ granted'[c].volume <= (IF daily'[c].date = Today THEN daily'[c].total ELSE 0)
                     /\ granted'[c].count <= (IF hourly'[c].hour = hour THEN hourly'[c].count ELSE 0)
    BY <1>6 DEF Counted
  <2>1. CASE c # a
    BY <1>7, <2>1 DEF Inv, Counted
  <2>2. CASE c = a /\ v = "approved"
    <3>1. daily'[c] = day /\ hourly'[c] = hr /\ granted'[c] = got
      BY <1>7, <2>2
    <3> QED BY <1>0, <1>11, <3>1
  <2>3. CASE c = a /\ v # "approved"
    <3>1. granted'[c] = granted[a]
      BY <1>7, <2>3
    <3>2. CASE v = "POL-001"
      BY <1>7, <1>8, <2>3, <3>1, <3>2
    <3>3. CASE v = "POL-002"
      <4>1. daily'[c] = day /\ hourly'[c] = hourly[a]
        BY <1>7, <2>3, <3>3
      <4> QED BY <1>0, <1>8, <1>12, <3>1, <4>1
    <3>4. CASE v \notin {"POL-001", "POL-002"}
      <4>1. daily'[c] = day /\ hourly'[c] = hr
        BY <1>7, <2>3, <3>4
      <4> QED BY <1>0, <1>12, <3>1, <4>1
    <3> QED BY <3>2, <3>3, <3>4
  <2> QED BY <2>1, <2>2, <2>3
<1>14. LimitsHold'
  BY <1>7, <1>8, <1>10 DEF Inv, LimitsHold
<1> QED BY <1>5, <1>13, <1>14

\* A recorded sale takes an id that no entry has, so its credit is applied.
LEMMA SaleInv == ASSUME Inv, NEW a \in Accounts, NEW gross \in SaleAmounts, Sale(a, gross) PROVE Inv'
<1> DEFINE v == Verdict(a, gross)
           n == Len(events) + 1
           s == Share(gross)
           evt == [account |-> a, gross |-> gross, verdict |-> v]
           x == [id |-> n, account |-> a, type |-> "credit", amount |-> s]
<1>1. s \in Nat /\ v \in Rules /\ evt \in Event /\ events \in Seq(Event) /\ n \in Nat
  BY ShareType, Types DEF Inv, Verdict, Rules, Event
<1>2. /\ events' = Append(events, evt) /\ EvaluatePolicy(a, gross, v) /\ UNCHANGED <<hour, payouts>>
      /\ IF v = "approved"
         THEN /\ RecordTransaction(a, s) /\ Credit(a, n, s)
              /\ granted' = [granted EXCEPT ![a] = [volume |-> @.volume + gross, count |-> @.count + 1]]
         ELSE UNCHANGED <<profile, money, granted>>
  BY DEF Sale
<1>3. /\ daily' \in [Accounts -> [date : Int, total : Nat]]
      /\ hourly' \in [Accounts -> [hour : Int, count : Nat]]
      /\ granted' \in [Accounts -> [volume : Nat, count : Nat]]
      /\ Counted' /\ LimitsHold'
  BY <1>2, PolicyStep
<1>4. /\ events' \in Seq(Event) /\ Len(events') = n /\ DOMAIN events' = 1..n
      /\ \A i \in DOMAIN events : i \in 1..(n - 1) /\ events'[i] = events[i]
      /\ events'[n] = evt
  BY <1>1, <1>2
<1>5. n \notin CallerIds /\ ~Applied(n)
  BY <1>1, IdAssumption DEF Inv, LedgerIds, Applied
<1>6. CASE v # "approved"
  <2>1. UNCHANGED <<profile, wallet, ledger, granted>>
    BY <1>2, <1>6 DEF money
  <2>2. TypeOK'
    BY <1>2, <1>3, <1>4, <2>1, Types DEF Inv, TypeOK, Event, Entry, Payout, Summary
  <2>3. LedgerIds'
    BY <1>1, <1>4, <2>1 DEF Inv, LedgerIds
  <2>4. ApprovedIsCredited'
    <3> SUFFICES ASSUME NEW i \in DOMAIN events', events'[i].verdict = "approved"
                 PROVE {e \in ledger : e.id = i} =
                         {[id |-> i, account |-> events'[i].account, type |-> "credit",
                           amount |-> Share(events'[i].gross)]}
      BY <2>1 DEF ApprovedIsCredited, Share
    <3>1. i # n
      BY <1>4, <1>6
    <3>2. i \in DOMAIN events /\ events'[i] = events[i]
      BY <1>1, <1>4, <3>1
    <3> QED BY <3>2 DEF Inv, ApprovedIsCredited
  <2>5. ReputationIsEarned'
    BY <2>1 DEF Inv, ReputationIsEarned
  <2> QED BY <1>3, <2>2, <2>3, <2>4, <2>5 DEF Inv
<1>7. CASE v = "approved"
  <2>1. /\ wallet' \in [Accounts -> Summary] /\ ledger' \subseteq Entry /\ ledger' = ledger \cup {x}
        /\ \A c \in Accounts : wallet'[c].earned = wallet[c].earned + (IF c = a THEN s ELSE 0)
    BY <1>1, <1>2, <1>5, <1>7, CreditStep, Types DEF Inv
  <2>2. profile[a] \in [exists : BOOLEAN, revenue : Nat]
    BY Types DEF Inv
  <2>3. [profile[a] EXCEPT !.revenue = @ + s] \in [exists : BOOLEAN, revenue : Nat]
    BY <1>1, <2>2
  <2>4. profile' = IF profile[a].exists THEN [profile EXCEPT ![a] = [profile[a] EXCEPT !.revenue = @ + s]]
                   ELSE profile
    BY <1>2, <1>7 DEF RecordTransaction
  <2>5. profile' \in [Accounts -> [exists : BOOLEAN, revenue : Nat]]
    BY <2>3, <2>4, Types DEF Inv
  <2>6. TypeOK'
    BY <1>2, <1>3, <1>4, <2>1, <2>5, Types DEF Inv, TypeOK, Event, Entry, Payout, Summary
  <2>7. LedgerIds'
    BY <1>1, <1>4, <2>1 DEF Inv, LedgerIds
  <2>8. ApprovedIsCredited'
    <3> SUFFICES ASSUME NEW i \in DOMAIN events', events'[i].verdict = "approved"
                 PROVE {e \in ledger' : e.id = i} =
                         {[id |-> i, account |-> events'[i].account, type |-> "credit",
                           amount |-> Share(events'[i].gross)]}
      BY DEF ApprovedIsCredited, Share
    <3>1. CASE i = n
      <4>1. {e \in ledger' : e.id = n} = {x}
        BY <1>5, <2>1 DEF Applied
      <4> QED BY <1>4, <3>1, <4>1
    <3>2. CASE i # n
      <4>1. i \in DOMAIN events /\ events'[i] = events[i]
        BY <1>1, <1>4, <3>2
      <4>2. {e \in ledger' : e.id = i} = {e \in ledger : e.id = i}
        BY <2>1, <3>2
      <4> QED BY <4>1, <4>2 DEF Inv, ApprovedIsCredited
    <3> QED BY <3>1, <3>2
  <2>9. ReputationIsEarned'
    <3> SUFFICES ASSUME NEW c \in Accounts PROVE profile'[c].revenue <= wallet'[c].earned
      BY DEF ReputationIsEarned
    <3>1. /\ profile[c].revenue \in Nat /\ wallet[c].earned \in Nat
          /\ profile[c].revenue <= wallet[c].earned
      BY EarnedType, Types DEF Inv, ReputationIsEarned
    <3>2. profile'[c].revenue = profile[c].revenue
          \/ (c = a /\ profile'[c].revenue = profile[c].revenue + s)
      BY <2>2, <2>4, Types DEF Inv
    <3> QED BY <1>1, <2>1, <3>1, <3>2
  <2> QED BY <1>3, <2>6, <2>7, <2>8, <2>9 DEF Inv
<1> QED BY <1>6, <1>7

-----------------------------------------------------------------------------
\* Every step keeps the invariant.
LEMMA StepInv == Inv /\ [Next]_vars => Inv'
<1> SUFFICES ASSUME Inv, [Next]_vars PROVE Inv'
  OBVIOUS
<1>1. CASE UNCHANGED vars
  BY <1>1, WalletInv, SameLedger, EarnedType, Types DEF Inv, vars, money
<1>2. ASSUME NEW u \in Users, WalletStep(u) PROVE Inv'
  BY <1>2, TreasuryInv, DebitInv, PendingInv, RequestInv, SettleInv, KeysAre DEF WalletStep
<1>3. CASE Next
  BY <1>2, <1>3, ProfileInv, SaleInv, CompleteInv, FailInv, ClockInv, KeysAre DEF Next
<1> QED BY <1>1, <1>3

THEOREM Invariance == Spec => []Inv
BY InitInv, StepInv, PTL DEF Spec

-----------------------------------------------------------------------------
(***************************************************************************)
(* Conservation: each step moves the sums of entries and payouts by what it  *)
(* moves in the wallet.                                                     *)
(***************************************************************************)
Asked(a)    == PayoutSum(Requested(a))
Back(a)     == PayoutSum(Returned(a))
Debited(a)  == EntrySum(Entries(a, "debit"))
Credited(a) == EntrySum(Entries(a, "credit"))

\* One more entry adds its amount.
LEMMA EntryAdded ==
  ASSUME NEW S \in SUBSET Entry, IsFiniteSet(S), NEW x \in Entry, x \notin S
  PROVE  EntrySum(S \cup {x}) = EntrySum(S) + x.amount /\ EntrySum(S) \in Nat
<1> DEFINE f == [e \in S \cup {x} |-> e.amount]
<1>1. f[x] = x.amount /\ \A e \in S \cup {x} : f[e] \in Nat
  BY DEF Entry
<1>2. SumOver(f, S \cup {x}) = SumOver(f, S) + f[x] /\ SumOver(f, S) \in Nat
  <2> HIDE DEF f
  <2> QED BY <1>1, SumAdd, SumType DEF Summable
<1>3. SumOver(f, S) = EntrySum(S)
  <2> DEFINE g == [e \in S |-> e.amount]
  <2>1. \A e \in S : f[e] = g[e]
    OBVIOUS
  <2>2. SumOver(f, S) = SumOver(g, S)
    <3> HIDE DEF f, g
    <3> QED BY <1>1, <2>1, SumSame DEF Summable
  <2> QED BY <2>2 DEF EntrySum
<1>4. SumOver(f, S \cup {x}) = EntrySum(S \cup {x})
  BY DEF EntrySum
<1> QED BY <1>1, <1>2, <1>3, <1>4

\* The entries of an account and a type are finitely many, and sum to a natural.
LEMMA EntriesType ==
  ASSUME ledger \subseteq Entry, IsFiniteSet(ledger), NEW a, NEW type
  PROVE  /\ Entries(a, type) \subseteq Entry /\ IsFiniteSet(Entries(a, type))
         /\ EntrySum(Entries(a, type)) \in Nat
<1> DEFINE S == Entries(a, type)
           f == [e \in S |-> e.amount]
<1>1. S \subseteq Entry /\ IsFiniteSet(S)
  BY FS_Subset DEF Entries
<1>2. \A e \in S : f[e] \in Nat
  BY <1>1 DEF Entry
<1>3. SumOver(f, S) \in Nat
  <2> HIDE DEF f, S
  <2> QED BY <1>1, <1>2, SumType DEF Summable
<1> QED BY <1>1, <1>3 DEF EntrySum

LEMMA EntryStep ==
  ASSUME ledger \subseteq Entry, IsFiniteSet(ledger), NEW x \in Entry, x \notin ledger,
         ledger' = ledger \cup {x}, NEW a, NEW type
  PROVE  EntrySum(Entries(a, type))' =
           EntrySum(Entries(a, type)) + (IF x.account = a /\ x.type = type THEN x.amount ELSE 0)
<1> DEFINE S == Entries(a, type)
<1>1. S \in SUBSET Entry /\ IsFiniteSet(S) /\ EntrySum(S) \in Nat /\ x \notin S
  BY EntriesType DEF Entries
<1>2. CASE x.account = a /\ x.type = type
  <2>1. S' = S \cup {x}
    BY <1>2 DEF Entries
  <2>2. EntrySum(S \cup {x}) = EntrySum(S) + x.amount
    <3> HIDE DEF S
    <3> QED BY <1>1, EntryAdded
  <2> QED BY <1>2, <2>1, <2>2 DEF EntrySum
<1>3. CASE ~(x.account = a /\ x.type = type)
  <2>1. S' = S
    BY <1>3 DEF Entries
  <2> QED BY <1>1, <1>3, <2>1 DEF EntrySum
<1> QED BY <1>2, <1>3

\* The sum of the amounts of a sequence at some of its places.
SumAt(q, S) == SumOver([i \in S |-> q[i].amount], S)

\* Amounts at these places, the same in two sequences.
Agree(q, r, S) == \A j \in S : q[j].amount \in Nat /\ r[j].amount = q[j].amount

LEMMA SumAtSame ==
  ASSUME NEW q, NEW r, NEW S, IsFiniteSet(S), Agree(q, r, S)
  PROVE  SumAt(r, S) = SumAt(q, S) /\ SumAt(q, S) \in Nat
<1> DEFINE f == [j \in S |-> q[j].amount]
           g == [j \in S |-> r[j].amount]
<1>1. \A j \in S : f[j] \in Nat /\ g[j] = f[j]
  BY DEF Agree
<1>2. SumAt(r, S) = SumOver(g, S) /\ SumAt(q, S) = SumOver(f, S)
  BY DEF SumAt
<1> HIDE DEF f, g
<1> QED BY <1>1, <1>2, SumSame, SumType DEF Summable

LEMMA SumAtAdded ==
  ASSUME NEW q, NEW S, IsFiniteSet(S), \A j \in S : q[j].amount \in Nat,
         NEW i, i \notin S, q[i].amount \in Nat
  PROVE  SumAt(q, S \cup {i}) = SumAt(q, S) + q[i].amount
<1> DEFINE f == [j \in S |-> q[j].amount]
           h == [j \in S \cup {i} |-> q[j].amount]
<1>1. h[i] = q[i].amount /\ \A j \in S : f[j] \in Nat /\ h[j] = f[j]
  OBVIOUS
<1>2. SumAt(q, S) = SumOver(f, S) /\ SumAt(q, S \cup {i}) = SumOver(h, S \cup {i})
  BY DEF SumAt
<1> HIDE DEF f, h
<1>3. SumOver(h, S \cup {i}) = SumOver(h, S) + h[i]
  BY <1>1, SumAdd DEF Summable
<1>4. SumOver(h, S) = SumOver(f, S)
  BY <1>1, SumSame DEF Summable
<1> QED BY <1>1, <1>2, <1>3, <1>4

\* Any places of the payouts are finitely many, and sum to a natural.
LEMMA PlacesType ==
  ASSUME payouts \in Seq(Payout), NEW S \in SUBSET DOMAIN payouts
  PROVE  /\ IsFiniteSet(S) /\ PayoutSum(S) \in Nat /\ PayoutSum(S) = SumAt(payouts, S)
         /\ \A i \in DOMAIN payouts : payouts[i].amount \in Nat /\ payouts[i] \in Payout
<1> DEFINE f == [i \in S |-> payouts[i].amount]
<1>1. \A i \in DOMAIN payouts : payouts[i].amount \in Nat /\ payouts[i] \in Payout
  <2>1. \A i \in DOMAIN payouts : payouts[i] \in Payout
    OBVIOUS
  <2>2. \A p \in Payout : p.amount \in Nat
    BY AmountAssumption DEF Payout
  <2> QED BY <2>1, <2>2
<1>2. IsFiniteSet(DOMAIN payouts)
  BY FS_Interval
<1>3. IsFiniteSet(S) /\ \A i \in S : f[i] \in Nat
  BY <1>1, <1>2, FS_Subset
<1>4. SumOver(f, S) \in Nat
  <2> HIDE DEF f
  <2> QED BY <1>3, SumType DEF Summable
<1> QED BY <1>1, <1>3, <1>4 DEF PayoutSum, SumAt

LEMMA RequestedType ==
  ASSUME payouts \in Seq(Payout), NEW a
  PROVE  /\ IsFiniteSet(Requested(a)) /\ Asked(a) \in Nat /\ Asked(a) = SumAt(payouts, Requested(a))
         /\ IsFiniteSet(Returned(a)) /\ Back(a) \in Nat /\ Back(a) = SumAt(payouts, Returned(a))
         /\ \A i \in DOMAIN payouts : payouts[i].amount \in Nat /\ payouts[i] \in Payout
<1>1. Requested(a) \in SUBSET DOMAIN payouts /\ Returned(a) \in SUBSET DOMAIN payouts
  BY DEF Requested, Returned
<1> QED BY <1>1, PlacesType DEF Asked, Back

\* A payout requested adds its amount to what its account asked for.
LEMMA RequestedStep ==
  ASSUME payouts \in Seq(Payout), NEW x \in Payout, x.status = "pending",
         payouts' = Append(payouts, x), NEW a
  PROVE  /\ Asked(a)' = Asked(a) + (IF WalletKey(x.user) = a THEN x.amount ELSE 0)
         /\ Back(a)' = Back(a)
<1> DEFINE S == Requested(a)
           R == Returned(a)
           n == Len(payouts) + 1
<1>1. /\ DOMAIN payouts' = DOMAIN payouts \cup {n} /\ n \notin DOMAIN payouts /\ payouts'[n] = x
      /\ \A i \in DOMAIN payouts : payouts'[i] = payouts[i]
  OBVIOUS
<1>2. /\ n \notin S /\ S' = IF WalletKey(x.user) = a THEN S \cup {n} ELSE S
      /\ R' = R /\ S \subseteq DOMAIN payouts /\ R \subseteq DOMAIN payouts
  BY <1>1 DEF Requested, Returned
<1>3. /\ IsFiniteSet(S) /\ IsFiniteSet(R) /\ payouts'[n].amount = x.amount /\ x.amount \in Nat
      /\ Agree(payouts, payouts', S) /\ Agree(payouts, payouts', R)
  BY <1>1, <1>2, RequestedType, AmountAssumption DEF Payout, Agree
<1>4. /\ Asked(a)' = SumAt(payouts', S') /\ Asked(a) = SumAt(payouts, S)
      /\ Back(a)' = SumAt(payouts', R') /\ Back(a) = SumAt(payouts, R)
  BY DEF Asked, Back, PayoutSum, SumAt
<1> HIDE DEF S, R, n
<1>5. /\ SumAt(payouts', S) = SumAt(payouts, S) /\ SumAt(payouts, S) \in Nat
      /\ SumAt(payouts', R) = SumAt(payouts, R)
  BY <1>3, SumAtSame
<1>6. SumAt(payouts', S \cup {n}) = SumAt(payouts', S) + x.amount
  <2>1. \A j \in S : payouts'[j].amount \in Nat
    BY <1>3 DEF Agree
  <2>2. n \notin S /\ IsFiniteSet(S) /\ payouts'[n].amount \in Nat
    BY <1>2, <1>3
  <2>3. SumAt(payouts', S \cup {n}) = SumAt(payouts', S) + payouts'[n].amount
    BY <2>1, <2>2, SumAtAdded
  <2> QED BY <1>3, <2>3
<1>7. Back(a)' = Back(a)
  BY <1>2, <1>4, <1>5
<1>8. CASE WalletKey(x.user) = a
  BY <1>2, <1>4, <1>5, <1>6, <1>7, <1>8
<1>9. CASE WalletKey(x.user) # a
  <2>1. Asked(a)' = Asked(a) /\ Asked(a) \in Nat
    BY <1>2, <1>4, <1>5, <1>9
  <2> QED BY <1>7, <1>9, <2>1
<1> QED BY <1>8, <1>9

\* The end of a pending payout: a failure returns its amount, to one account.
LEMMA EndedStep ==
  ASSUME payouts \in Seq(Payout), NEW i \in DOMAIN payouts, payouts[i].status = "pending",
         NEW end \in {"completed", "failed"}, payouts' = [payouts EXCEPT ![i].status = end], NEW a
  PROVE  /\ Asked(a)' = Asked(a)
         /\ Back(a)' = Back(a) + (IF end = "failed" /\ ReturnKey(payouts[i].user) = a
                                  THEN payouts[i].amount ELSE 0)
<1> DEFINE S == Requested(a)
           R == Returned(a)
           n == payouts[i].amount
<1>1. payouts[i] \in Payout /\ n \in Nat
  BY RequestedType
<1>2. /\ DOMAIN payouts' = DOMAIN payouts /\ payouts'[i].status = end
      /\ \A j \in DOMAIN payouts : /\ payouts'[j].amount = payouts[j].amount
                                   /\ payouts'[j].user = payouts[j].user
                                   /\ j # i => payouts'[j] = payouts[j]
  BY <1>1 DEF Payout
<1>3. /\ S' = S /\ i \notin R /\ S \subseteq DOMAIN payouts /\ R \subseteq DOMAIN payouts
      /\ R' = IF end = "failed" /\ ReturnKey(payouts[i].user) = a THEN R \cup {i} ELSE R
  BY <1>2 DEF Requested, Returned
<1>4. /\ IsFiniteSet(S) /\ IsFiniteSet(R) /\ payouts'[i].amount = n
      /\ Agree(payouts, payouts', S) /\ Agree(payouts, payouts', R)
  BY <1>2, <1>3, RequestedType DEF Agree
<1>5. /\ Asked(a)' = SumAt(payouts', S') /\ Asked(a) = SumAt(payouts, S)
      /\ Back(a)' = SumAt(payouts', R') /\ Back(a) = SumAt(payouts, R)
  BY DEF Asked, Back, PayoutSum, SumAt
<1> HIDE DEF S, R
<1>6. /\ SumAt(payouts', S) = SumAt(payouts, S)
      /\ SumAt(payouts', R) = SumAt(payouts, R) /\ SumAt(payouts, R) \in Nat
  BY <1>4, SumAtSame
<1>7. SumAt(payouts', R \cup {i}) = SumAt(payouts', R) + n
  <2>1. (\A j \in R : payouts'[j].amount \in Nat) /\ payouts'[i].amount \in Nat
    BY <1>1, <1>4 DEF Agree
  <2> QED BY <1>3, <1>4, <2>1, SumAtAdded
<1> HIDE DEF n
<1>8. CASE end = "failed" /\ ReturnKey(payouts[i].user) = a
  BY <1>3, <1>5, <1>6, <1>7, <1>8 DEF n
<1>9. CASE ~(end = "failed" /\ ReturnKey(payouts[i].user) = a)
  <2>1. Back(a)' = Back(a) /\ Back(a) \in Nat
    BY <1>3, <1>5, <1>6, <1>9
  <2> QED BY <1>3, <1>5, <1>6, <1>9, <2>1
<1> QED BY <1>8, <1>9

\* What was paid out of an account: what it asked for less what returned to it.
Paid(a) == Asked(a) - Back(a)

ConsInv == Inv /\ IsFiniteSet(ledger) /\ Conservation

\* What the three sums of an account are made of.
LEMMA SumTypes ==
  ASSUME ConsInv, NEW c \in Accounts
  PROVE  /\ Paid(c) \in Int /\ Debited(c) \in Nat /\ Credited(c) \in Nat
         /\ wallet[c] \in Summary /\ wallet[c].paidOut = Paid(c)
         /\ wallet[c].balance + wallet[c].paidOut + Debited(c) = wallet[c].earned
         /\ Credited(c) <= wallet[c].earned
<1>1. Paid(c) \in Int /\ Debited(c) \in Nat /\ Credited(c) \in Nat
  BY RequestedType, EntriesType, Types DEF ConsInv, Inv, Debited, Credited, Paid
<1>2. wallet[c] \in Summary
  BY Types DEF ConsInv, Inv
<1> QED BY <1>1, <1>2 DEF ConsInv, Conservation, Paid, Asked, Back, Debited, Credited

\* What a step does to the wallets and to the sums: those of one account move.
WalletMoves(a, b, e, p) ==
  \A c \in Accounts : /\ wallet'[c].balance = wallet[c].balance + (IF c = a THEN b ELSE 0)
                      /\ wallet'[c].earned  = wallet[c].earned  + (IF c = a THEN e ELSE 0)
                      /\ wallet'[c].paidOut = wallet[c].paidOut + (IF c = a THEN p ELSE 0)
SumsMove(a, p, d, k) ==
  \A c \in Accounts : /\ Paid(c)'     = Paid(c)     + (IF c = a THEN p ELSE 0)
                      /\ Debited(c)'  = Debited(c)  + (IF c = a THEN d ELSE 0)
                      /\ Credited(c)' = Credited(c) + (IF c = a THEN k ELSE 0)

\* A step that moves the wallet of one account as it moves its sums.
LEMMA Moved ==
  ASSUME ConsInv, NEW a \in Accounts,
         NEW b \in Int, NEW e \in Int, NEW p \in Int, NEW d \in Int, NEW k \in Int,
         b + p + d = e, k <= e, WalletMoves(a, b, e, p), SumsMove(a, p, d, k)
  PROVE  Conservation'
<1>1. ASSUME NEW c \in Accounts
      PROVE  /\ wallet'[c].paidOut = Paid(c)'
             /\ wallet'[c].balance + wallet'[c].paidOut + Debited(c)' = wallet'[c].earned
             /\ Credited(c)' <= wallet'[c].earned
  <2>1. /\ Paid(c) \in Int /\ Debited(c) \in Nat /\ Credited(c) \in Nat
        /\ wallet[c].balance \in Nat /\ wallet[c].earned \in Nat /\ wallet[c].paidOut = Paid(c)
        /\ wallet[c].balance + wallet[c].paidOut + Debited(c) = wallet[c].earned
        /\ Credited(c) <= wallet[c].earned
    BY SumTypes DEF Summary
  <2>2. CASE c = a
    BY <2>1, <2>2 DEF WalletMoves, SumsMove
  <2>3. CASE c # a
    BY <2>1, <2>3 DEF WalletMoves, SumsMove
  <2> QED BY <2>2, <2>3
<1> QED BY <1>1 DEF Conservation, Paid, Asked, Back, Debited, Credited

\* The wallets after one was replaced.
LEMMA Replaced ==
  ASSUME ConsInv, NEW a \in Accounts, NEW b \in Int, NEW e \in Int, NEW p \in Int, NEW new,
         new.balance = wallet[a].balance + b, new.earned = wallet[a].earned + e,
         new.paidOut = wallet[a].paidOut + p, wallet' = [wallet EXCEPT ![a] = new]
  PROVE  WalletMoves(a, b, e, p)
<1>1. \A c \in Accounts : wallet'[c] = IF c = a THEN new ELSE wallet[c]
  BY Types DEF ConsInv, Inv
<1> SUFFICES ASSUME NEW c \in Accounts
             PROVE  /\ wallet'[c].balance = wallet[c].balance + (IF c = a THEN b ELSE 0)
                    /\ wallet'[c].earned  = wallet[c].earned  + (IF c = a THEN e ELSE 0)
                    /\ wallet'[c].paidOut = wallet[c].paidOut + (IF c = a THEN p ELSE 0)
  BY DEF WalletMoves
<1>2. CASE c = a
  BY <1>1, <1>2
<1>3. CASE c # a
  <2>1. wallet'[c] = wallet[c]
    BY <1>1, <1>3
  <2> QED BY <1>3, <2>1, EarnedType DEF ConsInv
<1> QED BY <1>2, <1>3

LEMMA Adjusted ==
  ASSUME ConsInv, NEW a \in Accounts, NEW b \in Int, NEW e \in Int, NEW p \in Int, Adjust(a, b, e, p)
  PROVE  WalletMoves(a, b, e, p)
<1> DEFINE new == [balance |-> wallet[a].balance + b, pending |-> wallet[a].pending,
                   earned |-> wallet[a].earned + e, paidOut |-> wallet[a].paidOut + p]
<1>1. /\ new.balance = wallet[a].balance + b /\ new.earned = wallet[a].earned + e
      /\ new.paidOut = wallet[a].paidOut + p
  OBVIOUS
<1>2. wallet' = [wallet EXCEPT ![a] = new]
  BY DEF Adjust
<1> HIDE DEF new
<1> QED BY <1>1, <1>2, Replaced

\* Sums that nothing touches.
LEMMA SamePaid == ASSUME UNCHANGED payouts, NEW c PROVE Paid(c)' = Paid(c)
BY DEF Paid, Asked, Back, PayoutSum, Requested, Returned

LEMMA SameEntries ==
  ASSUME UNCHANGED ledger, NEW c PROVE Debited(c)' = Debited(c) /\ Credited(c)' = Credited(c)
BY DEF Debited, Credited, EntrySum, Entries

LEMMA Untouched ==
  ASSUME ConsInv, UNCHANGED <<wallet, ledger, payouts>> PROVE IsFiniteSet(ledger)' /\ Conservation'
<1>1. \A c : Paid(c)' = Paid(c) /\ Debited(c)' = Debited(c) /\ Credited(c)' = Credited(c)
  BY SamePaid, SameEntries
<1> QED BY <1>1 DEF ConsInv, Conservation, Paid, Asked, Back, Debited, Credited

\* A new entry is one debit or one credit of its account.
LEMMA Entered ==
  ASSUME ConsInv, UNCHANGED payouts, NEW a \in Accounts, NEW id \in Nat \cup CallerIds,
         ~Applied(id), NEW n \in Nat, NEW type \in {"credit", "debit"}, Enter(id, a, type, n)
  PROVE  /\ IsFiniteSet(ledger')
         /\ SumsMove(a, 0, IF type = "debit" THEN n ELSE 0, IF type = "credit" THEN n ELSE 0)
<1> DEFINE x == [id |-> id, account |-> a, type |-> type, amount |-> n]
<1>1. x \in Entry /\ x \notin ledger /\ ledger' = ledger \cup {x}
  BY DEF Entry, Enter, Applied
<1>2. IsFiniteSet(ledger') /\ ledger \subseteq Entry /\ IsFiniteSet(ledger)
  BY <1>1, FS_AddElement, Types DEF ConsInv, Inv
<1>3. \A c, t : EntrySum(Entries(c, t))' =
                  EntrySum(Entries(c, t)) + (IF x.account = c /\ x.type = t THEN x.amount ELSE 0)
  <2> HIDE DEF x
  <2> QED BY <1>1, <1>2, EntryStep
<1>4. \A c \in Accounts : Paid(c)' = Paid(c) /\ Paid(c) \in Int
  BY SamePaid, SumTypes
<1>5. \A c \in Accounts :
        /\ Debited(c)'  = Debited(c)  + (IF c = a THEN (IF type = "debit" THEN n ELSE 0) ELSE 0)
        /\ Credited(c)' = Credited(c) + (IF c = a THEN (IF type = "credit" THEN n ELSE 0) ELSE 0)
  <2>1. \A c \in Accounts : Debited(c) \in Nat /\ Credited(c) \in Nat
    BY SumTypes
  <2> QED BY <1>3, <2>1 DEF Debited, Credited
<1> QED BY <1>2, <1>4, <1>5 DEF SumsMove

LEMMA InitCons == Init => ConsInv
<1> SUFFICES ASSUME Init PROVE ConsInv
  OBVIOUS
<1>1. ledger = {} /\ payouts = <<>>
  BY DEF Init
<1>2. \A S : S = {} => EntrySum(S) = 0 /\ PayoutSum(S) = 0
  BY SumEmpty DEF EntrySum, PayoutSum
<1>3. \A a, type : Requested(a) = {} /\ Returned(a) = {} /\ Entries(a, type) = {}
  BY <1>1 DEF Requested, Returned, Entries
<1>4. \A a \in Accounts : wallet[a].balance = 0 /\ wallet[a].earned = 0 /\ wallet[a].paidOut = 0
  BY DEF Init
<1>5. \A a : /\ PayoutSum(Requested(a)) = 0 /\ PayoutSum(Returned(a)) = 0
             /\ EntrySum(Entries(a, "debit")) = 0 /\ EntrySum(Entries(a, "credit")) = 0
  BY <1>2, <1>3
<1>6. Conservation
  BY <1>4, <1>5 DEF Conservation
<1> QED BY <1>1, <1>6, InitInv, FS_EmptySet DEF ConsInv

\* A credit is earned and in the balance, or changes nothing.
LEMMA CreditCons ==
  ASSUME ConsInv, NEW a \in Accounts, NEW id \in Nat \cup CallerIds, NEW n \in Nat,
         Credit(a, id, n), UNCHANGED payouts
  PROVE  IsFiniteSet(ledger)' /\ Conservation'
<1>1. CASE Applied(id)
  BY <1>1, Untouched DEF Credit, money
<1>2. CASE ~Applied(id)
  <2>1. Enter(id, a, "credit", n) /\ Adjust(a, n, n, 0)
    BY <1>2 DEF Credit
  <2>2. IsFiniteSet(ledger') /\ SumsMove(a, 0, 0, n)
    BY <1>2, <2>1, Entered
  <2>3. WalletMoves(a, n, n, 0)
    BY <2>1, Adjusted
  <2> QED BY <2>2, <2>3, Moved
<1> QED BY <1>1, <1>2

LEMMA DebitCons ==
  ASSUME ConsInv, NEW a \in Accounts, NEW amount \in WalletAmounts, NEW id \in CallerIds,
         Debit(a, id, amount)
  PROVE  IsFiniteSet(ledger)' /\ Conservation'
<1>1. /\ ~Applied(id) /\ Enter(id, a, "debit", amount) /\ Adjust(a, -amount, 0, 0)
      /\ UNCHANGED payouts /\ amount \in Nat
  BY AmountAssumption DEF Debit
<1>2. IsFiniteSet(ledger') /\ SumsMove(a, 0, amount, 0)
  BY <1>1, Entered
<1>3. WalletMoves(a, -amount, 0, 0)
  BY <1>1, Adjusted
<1>4. -amount + 0 + amount = 0 /\ -amount \in Int
  BY <1>1
<1> QED BY <1>1, <1>2, <1>3, <1>4, Moved

\* Pending money is outside the balance until it is settled, then it is earned.
LEMMA SettleCons ==
  ASSUME ConsInv, NEW a \in Accounts,
         SettlePending(a) \/ \E amount \in WalletAmounts : AddPendingSettlement(a, amount)
  PROVE  IsFiniteSet(ledger)' /\ Conservation'
<1>1. wallet[a] \in Summary /\ wallet[a].balance \in Nat /\ wallet[a].earned \in Nat
      /\ wallet[a].pending \in Nat /\ wallet[a].paidOut \in Int
  BY SumTypes DEF Summary
<1>2. PICK n \in Nat : WalletMoves(a, n, n, 0) /\ UNCHANGED <<ledger, payouts>>
  <2>1. CASE SettlePending(a)
    <3> DEFINE n == wallet[a].pending
               new == [balance |-> wallet[a].balance + n, pending |-> 0,
                       earned |-> wallet[a].earned + n, paidOut |-> wallet[a].paidOut]
               none == 0
    <3>1. wallet' = [wallet EXCEPT ![a] = new] /\ UNCHANGED <<ledger, payouts>>
      BY <2>1 DEF SettlePending
    <3>2. /\ new.balance = wallet[a].balance + n /\ new.earned = wallet[a].earned + n
          /\ new.paidOut = wallet[a].paidOut + none /\ n \in Nat /\ n \in Int /\ none \in Int
      BY <1>1
    <3>3. WalletMoves(a, n, n, none)
      <4> HIDE DEF n, new, none
      <4> QED BY <3>1, <3>2, Replaced
    <3> QED BY <3>1, <3>2, <3>3
  <2>2. ASSUME NEW amount \in WalletAmounts, AddPendingSettlement(a, amount)
        PROVE  WalletMoves(a, 0, 0, 0) /\ UNCHANGED <<ledger, payouts>>
    <3> DEFINE new == [balance |-> wallet[a].balance, pending |-> wallet[a].pending + amount,
                       earned |-> wallet[a].earned, paidOut |-> wallet[a].paidOut]
               none == 0
    <3>1. wallet' = [wallet EXCEPT ![a] = new] /\ UNCHANGED <<ledger, payouts>>
      BY <2>2 DEF AddPendingSettlement
    <3>2. /\ new.balance = wallet[a].balance + none /\ new.earned = wallet[a].earned + none
          /\ new.paidOut = wallet[a].paidOut + none /\ none \in Int
      BY <1>1
    <3>3. WalletMoves(a, none, none, none)
      <4> HIDE DEF new, none
      <4> QED BY <3>1, <3>2, Replaced
    <3> QED BY <3>1, <3>3
  <2> QED BY <2>1, <2>2
<1>3. SumsMove(a, 0, 0, 0) /\ IsFiniteSet(ledger')
  BY <1>2, SamePaid, SameEntries, SumTypes DEF SumsMove, ConsInv
<1>4. Conservation'
  BY <1>2, <1>3, Moved
<1> QED BY <1>3, <1>4

LEMMA RequestCons ==
  ASSUME ConsInv, NEW u \in Users, NEW amount \in WalletAmounts, RequestPayout(u, amount)
  PROVE  IsFiniteSet(ledger)' /\ Conservation'
<1> DEFINE x == [user |-> u, amount |-> amount, status |-> "pending"]
<1>0. PICK a \in Accounts : a = WalletKey(u)
  BY KeysAre
<1>1. /\ amount \in Nat /\ x \in Payout /\ x.status = "pending" /\ payouts' = Append(payouts, x)
      /\ Adjust(a, -amount, 0, amount) /\ UNCHANGED ledger /\ Inv /\ IsFiniteSet(ledger)
  BY <1>0, AmountAssumption DEF RequestPayout, ConsInv, Payout
<1>2. \A c : Paid(c)' = Paid(c) + (IF a = c THEN amount ELSE 0)
  <2>1. x.user = u /\ x.amount = amount /\ payouts \in Seq(Payout)
    BY <1>1, Types DEF Inv
  <2> HIDE DEF x
  <2>2. \A c : /\ Asked(c)' = Asked(c) + (IF a = c THEN amount ELSE 0) /\ Back(c)' = Back(c)
              /\ Asked(c) \in Nat /\ Back(c) \in Nat
    BY <1>0, <1>1, <2>1, RequestedStep, RequestedType
  <2> QED BY <1>1, <2>2 DEF Paid
<1>3. SumsMove(a, amount, 0, 0)
  BY <1>1, <1>2, SameEntries, SumTypes DEF SumsMove
<1>4. WalletMoves(a, -amount, 0, amount)
  BY <1>1, Adjusted
<1>5. -amount + amount + 0 = 0 /\ -amount \in Int
  BY <1>1
<1> QED BY <1>1, <1>3, <1>4, <1>5, Moved

\* A payout that failed adds to one balance what that totalPaidOut gives up.
LEMMA EndCons ==
  ASSUME ConsInv, NEW i \in DOMAIN payouts, CompletePayout(i) \/ FailPayout(i)
  PROVE  IsFiniteSet(ledger)' /\ Conservation'
<1>1. payouts \in Seq(Payout) /\ payouts[i].status = "pending" /\ IsFiniteSet(ledger)
  BY Types DEF ConsInv, Inv, CompletePayout, FailPayout
<1>2. PICK a \in Accounts, n \in Nat : a = ReturnKey(payouts[i].user) /\ n = payouts[i].amount
  BY <1>1, RequestedType, KeysAre DEF Payout
<1>3. ASSUME NEW end \in {"completed", "failed"}, payouts' = [payouts EXCEPT ![i].status = end]
      PROVE  \A c : /\ Asked(c)' = Asked(c) /\ Asked(c) \in Nat /\ Back(c) \in Nat
                   /\ Back(c)' = Back(c) + (IF end = "failed" /\ a = c THEN n ELSE 0)
  BY <1>1, <1>2, <1>3, EndedStep, RequestedType
<1>4. CASE CompletePayout(i)
  <2>1. payouts' = [payouts EXCEPT ![i].status = "completed"] /\ UNCHANGED <<wallet, ledger>>
    BY <1>4 DEF CompletePayout, money
  <2>2. \A c : Asked(c)' = Asked(c) /\ Back(c)' = Back(c)
    BY <1>3, <2>1
  <2>3. \A c \in Accounts : Debited(c)' = Debited(c) /\ Credited(c)' = Credited(c)
    BY <2>1, SameEntries
  <2> QED BY <1>1, <2>1, <2>2, <2>3 DEF ConsInv, Conservation, Asked, Back, Debited, Credited
<1>5. CASE FailPayout(i)
  <2>1. /\ payouts' = [payouts EXCEPT ![i].status = "failed"] /\ Adjust(a, n, 0, -n)
        /\ UNCHANGED ledger
    BY <1>2, <1>5 DEF FailPayout
  <2>2. SumsMove(a, -n, 0, 0)
    <3>1. \A c : /\ Asked(c)' = Asked(c) /\ Asked(c) \in Nat /\ Back(c) \in Nat
                /\ Back(c)' = Back(c) + (IF a = c THEN n ELSE 0)
      BY <1>3, <2>1
    <3>2. \A c : Paid(c)' = Paid(c) + (IF c = a THEN -n ELSE 0)
      BY <1>2, <3>1 DEF Paid
    <3> QED BY <2>1, <3>2, SameEntries, SumTypes DEF SumsMove
  <2>3. n \in Int /\ -n \in Int /\ n + (-n) + 0 = 0
    BY <1>2
  <2>4. WalletMoves(a, n, 0, -n)
    <3>1. \A m \in Int : Adjust(a, n, 0, m) => WalletMoves(a, n, 0, m)
      BY <1>2, <2>3, Adjusted
    <3> QED BY <2>1, <2>3, <3>1
  <2>5. Conservation'
    BY <1>2, <2>2, <2>3, <2>4, Moved
  <2> QED BY <1>1, <2>1, <2>5
<1> QED BY <1>4, <1>5

LEMMA StepCons == ConsInv /\ [Next]_vars => ConsInv'
<1> SUFFICES ASSUME ConsInv, [Next]_vars PROVE IsFiniteSet(ledger)' /\ Conservation'
  BY StepInv DEF ConsInv
<1>1. ASSUME UNCHANGED <<money, payouts>> PROVE IsFiniteSet(ledger)' /\ Conservation'
  BY <1>1, Untouched DEF money
<1>2. CASE UNCHANGED vars
  BY <1>1, <1>2 DEF vars
<1>3. ASSUME NEW a \in Accounts, NEW gross \in SaleAmounts, Sale(a, gross)
      PROVE  IsFiniteSet(ledger)' /\ Conservation'
  <2>1. UNCHANGED payouts /\ Share(gross) \in Nat /\ Len(events) + 1 \in Nat
    BY <1>3, ShareType, Types DEF Sale, ConsInv, Inv
  <2>2. UNCHANGED money \/ Credit(a, Len(events) + 1, Share(gross))
    BY <1>3 DEF Sale, money
  <2> QED BY <1>1, <2>1, <2>2, CreditCons
<1>4. ASSUME NEW a \in Accounts, NEW amount \in WalletAmounts, NEW id \in CallerIds \cup DOMAIN events,
             TreasuryCredit(a, id, amount)
      PROVE  IsFiniteSet(ledger)' /\ Conservation'
  <2>1. amount \in Nat /\ id \in Nat \cup CallerIds /\ Credit(a, id, amount) /\ UNCHANGED payouts
    BY <1>4, AmountAssumption, Types DEF TreasuryCredit, ConsInv, Inv
  <2> QED BY <2>1, CreditCons
<1>5. ASSUME NEW u \in Users, WalletStep(u) PROVE IsFiniteSet(ledger)' /\ Conservation'
  BY <1>4, <1>5, DebitCons, SettleCons, RequestCons, KeysAre DEF WalletStep
<1>6. CASE NextHour \/ \E a \in Accounts : CreateCreatorProfile(a)
  BY <1>1, <1>6 DEF NextHour, CreateCreatorProfile
<1>7. CASE Next
  BY <1>3, <1>5, <1>6, <1>7, EndCons, KeysAre DEF Next
<1> QED BY <1>2, <1>7

\* For all users, whatever colons their ids have: totalPaidOut is what a wallet
\* requested less what failed payouts returned to it, with it the balance is what
\* was earned less the debits, and the credits of the ledger were all earned.
THEOREM MoneyConserved == Spec => []Conservation
<1>1. ConsInv => Conservation
  BY DEF ConsInv
<1> QED BY <1>1, InitCons, StepCons, PTL DEF Spec

\* The stores keep their shape and no wallet is overdrawn, in any order of
\* credits, debits, settlements and payouts.
THEOREM TypeCorrect == Spec => []TypeOK
<1>1. Inv => TypeOK
  BY DEF Inv
<1> QED BY <1>1, Invariance, PTL

\* What governance approves on a day and in an hour is within its limits.
THEOREM Limits == Spec => []LimitsHold
<1>1. Inv => LimitsHold
  BY DEF Inv
<1> QED BY <1>1, Invariance, PTL

\* An approved sale has one entry, the credit of its creator's share.
THEOREM SalesCredited == Spec => []ApprovedIsCredited
<1>1. Inv => ApprovedIsCredited
  BY DEF Inv
<1> QED BY <1>1, Invariance, PTL

\* The reputation shows only revenue that reached the wallet.
THEOREM ReputationEarned == Spec => []ReputationIsEarned
<1>1. Inv => ReputationIsEarned
  BY DEF Inv
<1> QED BY <1>1, Invariance, PTL

(***************************************************************************)
(* Refinement: every step is one step of Funds, on functions of the settled  *)
(* accounts, or leaves those alone.                                        *)
(***************************************************************************)
receivedF  == [a \in Settled |-> wallet[a].earned + wallet[a].pending]
pendingF   == [a \in Settled |-> wallet[a].pending]
availableF == [a \in Settled |-> wallet[a].balance]
heldF      == [a \in Settled |-> PayoutSum(InStatus(a, "pending"))]
goneF      == [a \in Settled |-> PayoutSum(InStatus(a, "completed")) + EntrySum(Entries(a, "debit"))]

\* From f to g, an account moved by n; isF: a function of the settled accounts.
Adds(f, g, a, n) == \A c \in Settled : g[c] = IF c = a THEN f[c] + n ELSE f[c]
IsF(f) == f = [c \in Settled |-> f[c]]

LEMMA SettledIn == Settled \subseteq Accounts
BY DEF Settled

LEMMA AreF == /\ IsF(receivedF) /\ IsF(pendingF) /\ IsF(availableF) /\ IsF(heldF) /\ IsF(goneF)
              /\ IsF(receivedF') /\ IsF(pendingF') /\ IsF(availableF') /\ IsF(heldF') /\ IsF(goneF')
BY DEF IsF, receivedF, pendingF, availableF, heldF, goneF

LEMMA Added ==
  ASSUME NEW f, NEW g, IsF(f), IsF(g), NEW a \in Settled, NEW n \in Int, f[a] \in Int, Adds(f, g, a, n)
  PROVE  g = [f EXCEPT ![a] = @ + n] /\ n = g[a] - f[a]
<1>1. g[a] = f[a] + n
  BY DEF Adds
<1>2. g = [f EXCEPT ![a] = @ + n]
  BY DEF Adds, IsF
<1> QED BY <1>1, <1>2

LEMMA Same ==
  ASSUME NEW f, NEW g, IsF(f), IsF(g), \A c \in Settled : g[c] = f[c]
  PROVE  g = f
BY DEF IsF

\* The steps of Funds, said of these functions.
LEMMA ReceiveIs ==
  ASSUME NEW a, NEW n, n = receivedF'[a] - receivedF[a], n >= 0,
         receivedF' = [receivedF EXCEPT ![a] = @ + n],
         \/ pendingF' = [pendingF EXCEPT ![a] = @ + n] /\ availableF' = availableF
         \/ availableF' = [availableF EXCEPT ![a] = @ + n] /\ pendingF' = pendingF,
         heldF' = heldF, goneF' = goneF
  PROVE  WalletFunds!Receive(a)
BY DEF WalletFunds!Receive, WalletFunds!Add, receivedF, pendingF, availableF, heldF, goneF

LEMMA MatureIs ==
  ASSUME NEW a, NEW n, n = availableF'[a] - availableF[a], n >= 0,
         pendingF' = [pendingF EXCEPT ![a] = @ + (-n)],
         availableF' = [availableF EXCEPT ![a] = @ + n],
         receivedF' = receivedF, heldF' = heldF, goneF' = goneF
  PROVE  WalletFunds!Mature(a)
BY DEF WalletFunds!Mature, WalletFunds!Add, receivedF, pendingF, availableF, heldF, goneF

LEMMA SpendIs ==
  ASSUME NEW a, NEW n, n = goneF'[a] - goneF[a], n >= 0, n <= availableF[a],
         availableF' = [availableF EXCEPT ![a] = @ + (-n)], goneF' = [goneF EXCEPT ![a] = @ + n],
         receivedF' = receivedF, pendingF' = pendingF, heldF' = heldF
  PROVE  WalletFunds!Spend(a)
BY DEF WalletFunds!Spend, WalletFunds!Add, receivedF, pendingF, availableF, heldF, goneF

LEMMA HoldIs ==
  ASSUME NEW a, NEW n, n = heldF'[a] - heldF[a], n >= 0, n <= availableF[a],
         availableF' = [availableF EXCEPT ![a] = @ + (-n)], heldF' = [heldF EXCEPT ![a] = @ + n],
         receivedF' = receivedF, pendingF' = pendingF, goneF' = goneF
  PROVE  WalletFunds!Hold(a)
BY DEF WalletFunds!Hold, WalletFunds!Add, receivedF, pendingF, availableF, heldF, goneF

LEMMA DeliverIs ==
  ASSUME NEW a, NEW n, n = goneF'[a] - goneF[a], n >= 0, n <= heldF[a],
         heldF' = [heldF EXCEPT ![a] = @ + (-n)], goneF' = [goneF EXCEPT ![a] = @ + n],
         receivedF' = receivedF, pendingF' = pendingF, availableF' = availableF
  PROVE  WalletFunds!Deliver(a)
BY DEF WalletFunds!Deliver, WalletFunds!Add, receivedF, pendingF, availableF, heldF, goneF

LEMMA RefundIs ==
  ASSUME NEW a, NEW n, n = availableF'[a] - availableF[a], n >= 0, n <= heldF[a],
         heldF' = [heldF EXCEPT ![a] = @ + (-n)], availableF' = [availableF EXCEPT ![a] = @ + n],
         receivedF' = receivedF, pendingF' = pendingF, goneF' = goneF
  PROVE  WalletFunds!Refund(a)
BY DEF WalletFunds!Refund, WalletFunds!Add, receivedF, pendingF, availableF, heldF, goneF

-----------------------------------------------------------------------------
\* The payouts of an account in a status.
LEMMA InStatusType ==
  ASSUME payouts \in Seq(Payout), NEW a, NEW st
  PROVE  /\ IsFiniteSet(InStatus(a, st)) /\ PayoutSum(InStatus(a, st)) = SumAt(payouts, InStatus(a, st))
         /\ \A j \in InStatus(a, st) : payouts[j].amount \in Nat
         /\ PayoutSum(InStatus(a, st)) \in Nat
<1>1. InStatus(a, st) \in SUBSET DOMAIN payouts
  BY DEF InStatus
<1> QED BY <1>1, PlacesType

LEMMA RequestedIn ==
  ASSUME payouts \in Seq(Payout), NEW x \in Payout, x.status = "pending",
         payouts' = Append(payouts, x), NEW a, NEW st
  PROVE  PayoutSum(InStatus(a, st))' = IF a = WalletKey(x.user) /\ st = "pending"
                                       THEN PayoutSum(InStatus(a, st)) + x.amount
                                       ELSE PayoutSum(InStatus(a, st))
<1> DEFINE S == InStatus(a, st)
           n == Len(payouts) + 1
<1>1. /\ DOMAIN payouts' = DOMAIN payouts \cup {n} /\ n \notin DOMAIN payouts /\ payouts'[n] = x
      /\ \A i \in DOMAIN payouts : payouts'[i] = payouts[i]
  OBVIOUS
<1>2. n \notin S /\ S' = IF a = WalletKey(x.user) /\ st = "pending" THEN S \cup {n} ELSE S
  BY <1>1 DEF InStatus
<1>3. /\ IsFiniteSet(S) /\ payouts'[n].amount = x.amount /\ x.amount \in Nat
      /\ Agree(payouts, payouts', S)
  <2>1. \A j \in S : j \in DOMAIN payouts
    BY DEF InStatus
  <2> QED BY <1>1, <2>1, InStatusType, AmountAssumption DEF Payout, Agree
<1>4. PayoutSum(S)' = SumAt(payouts', S') /\ PayoutSum(S) = SumAt(payouts, S)
  BY DEF PayoutSum, SumAt
<1>5. /\ SumAt(payouts', S) = SumAt(payouts, S)
      /\ SumAt(payouts', S \cup {n}) = SumAt(payouts, S) + x.amount
  <2>1. SumAt(payouts', S) = SumAt(payouts, S)
    <3> HIDE DEF S
    <3> QED BY <1>3, SumAtSame
  <2>2. \A j \in S : payouts'[j].amount \in Nat
    BY <1>3 DEF Agree
  <2>3. SumAt(payouts', S \cup {n}) = SumAt(payouts', S) + payouts'[n].amount
    <3> HIDE DEF S, n
    <3> QED BY <1>2, <1>3, <2>2, SumAtAdded
  <2> QED BY <1>3, <2>1, <2>3
<1> HIDE DEF n
<1> QED BY <1>2, <1>4, <1>5

\* The end of a pending payout takes its amount from one status to the other.
LEMMA EndedIn ==
  ASSUME payouts \in Seq(Payout), NEW i \in DOMAIN payouts, payouts[i].status = "pending",
         NEW end \in {"completed", "failed"}, payouts' = [payouts EXCEPT ![i].status = end], NEW a
  PROVE  /\ PayoutSum(InStatus(a, "pending"))' = IF a = WalletKey(payouts[i].user)
                THEN PayoutSum(InStatus(a, "pending")) + (-payouts[i].amount)
                ELSE PayoutSum(InStatus(a, "pending"))
         /\ PayoutSum(InStatus(a, "completed"))' = IF a = WalletKey(payouts[i].user) /\ end = "completed"
                THEN PayoutSum(InStatus(a, "completed")) + payouts[i].amount
                ELSE PayoutSum(InStatus(a, "completed"))
         /\ a = WalletKey(payouts[i].user) => payouts[i].amount <= PayoutSum(InStatus(a, "pending"))
<1> DEFINE n == payouts[i].amount
           P == InStatus(a, "pending")
           C == InStatus(a, "completed")
           T == P \ {i}
<1>1. payouts[i] \in Payout /\ n \in Nat
  BY RequestedType
<1>2. /\ DOMAIN payouts' = DOMAIN payouts /\ payouts'[i].status = end /\ payouts'[i].amount = n
      /\ \A j \in DOMAIN payouts : /\ payouts'[j].amount = payouts[j].amount
                                   /\ payouts'[j].user = payouts[j].user
                                   /\ j # i => payouts'[j] = payouts[j]
  BY <1>1 DEF Payout
<1>3. /\ P' = T /\ (a = WalletKey(payouts[i].user) => P = T \cup {i}) /\ (a # WalletKey(payouts[i].user) => P = T)
      /\ i \notin T /\ i \notin C
      /\ C' = IF a = WalletKey(payouts[i].user) /\ end = "completed" THEN C \cup {i} ELSE C
  BY <1>2 DEF InStatus
<1>4. /\ IsFiniteSet(T) /\ IsFiniteSet(C)
      /\ Agree(payouts, payouts', T)
      /\ Agree(payouts, payouts', C)
  <2>1. \A j \in T \cup C : j \in DOMAIN payouts
    BY DEF InStatus
  <2> QED BY <1>2, <2>1, InStatusType, FS_Subset DEF Agree
<1>5. /\ PayoutSum(P)' = SumAt(payouts', P') /\ PayoutSum(P) = SumAt(payouts, P)
      /\ PayoutSum(C)' = SumAt(payouts', C') /\ PayoutSum(C) = SumAt(payouts, C)
  BY DEF PayoutSum, SumAt
<1> HIDE DEF P, C, T
<1>6. /\ SumAt(payouts', T) = SumAt(payouts, T) /\ SumAt(payouts, T) \in Nat
      /\ SumAt(payouts, T \cup {i}) = SumAt(payouts, T) + n
  <2>1. \A j \in T : payouts[j].amount \in Nat
    BY <1>4 DEF Agree
  <2> QED BY <1>1, <1>3, <1>4, <2>1, SumAtSame, SumAtAdded
<1>7. /\ SumAt(payouts', C) = SumAt(payouts, C)
      /\ SumAt(payouts', C \cup {i}) = SumAt(payouts, C) + n
  <2>1. SumAt(payouts', C) = SumAt(payouts, C)
    BY <1>4, SumAtSame
  <2>2. \A j \in C : payouts'[j].amount \in Nat
    BY <1>4 DEF Agree
  <2>3. SumAt(payouts', C \cup {i}) = SumAt(payouts', C) + payouts'[i].amount
    <3>1. i \notin C /\ IsFiniteSet(C) /\ payouts'[i].amount \in Nat
      BY <1>1, <1>2, <1>3, <1>4
    <3> QED BY <2>2, <3>1, SumAtAdded
  <2> QED BY <1>2, <2>1, <2>3
<1>8. /\ PayoutSum(P)' = IF a = WalletKey(payouts[i].user) THEN PayoutSum(P) + (-n) ELSE PayoutSum(P)
      /\ a = WalletKey(payouts[i].user) => n <= PayoutSum(P)
  <2>1. PayoutSum(P)' = SumAt(payouts, T)
    BY <1>3, <1>5, <1>6
  <2>2. CASE a = WalletKey(payouts[i].user)
    <3>1. PayoutSum(P) = SumAt(payouts, T) + n
      BY <1>3, <1>5, <1>6, <2>2
    <3> HIDE DEF n
    <3> QED BY <1>1, <1>6, <2>1, <2>2, <3>1
  <2>3. CASE a # WalletKey(payouts[i].user)
    BY <1>3, <1>5, <2>1, <2>3
  <2> QED BY <2>2, <2>3
<1>9. PayoutSum(C)' = IF a = WalletKey(payouts[i].user) /\ end = "completed" THEN PayoutSum(C) + n ELSE PayoutSum(C)
  BY <1>3, <1>5, <1>7
<1> QED BY <1>8, <1>9 DEF P, C

-----------------------------------------------------------------------------
\* What the functions are at an account.
LEMMA FundsTypes ==
  ASSUME ConsInv, NEW c \in Settled
  PROVE  /\ receivedF[c] \in Nat /\ pendingF[c] \in Nat /\ availableF[c] \in Nat
         /\ heldF[c] \in Nat /\ goneF[c] \in Nat
         /\ PayoutSum(InStatus(c, "completed")) \in Nat /\ Debited(c) \in Nat
<1>1. wallet[c] \in Summary /\ Debited(c) \in Nat
  BY SumTypes, SettledIn
<1>2. wallet[c].balance \in Nat /\ wallet[c].pending \in Nat /\ wallet[c].earned \in Nat
  BY <1>1 DEF Summary
<1>3. PayoutSum(InStatus(c, "pending")) \in Nat /\ PayoutSum(InStatus(c, "completed")) \in Nat
  BY InStatusType, Types DEF ConsInv, Inv
<1> QED BY <1>1, <1>2, <1>3 DEF receivedF, pendingF, availableF, heldF, goneF, Debited

\* A wallet that changed moves the three functions of the wallets.
LEMMA WalletAdds ==
  ASSUME ConsInv, NEW a \in Settled, NEW b \in Int, NEW p \in Int, NEW e \in Int, NEW new,
         new.balance = wallet[a].balance + b, new.pending = wallet[a].pending + p,
         new.earned = wallet[a].earned + e, wallet' = [wallet EXCEPT ![a] = new]
  PROVE  /\ Adds(availableF, availableF', a, b) /\ Adds(pendingF, pendingF', a, p)
         /\ Adds(receivedF, receivedF', a, e + p)
<1>1. wallet \in [Accounts -> Summary] /\ wallet[a] \in Summary
  BY Types, SettledIn DEF ConsInv, Inv
<1>2. wallet[a].balance \in Nat /\ wallet[a].pending \in Nat /\ wallet[a].earned \in Nat
  BY <1>1 DEF Summary
<1>3. \A c \in Settled : wallet'[c] = IF c = a THEN new ELSE wallet[c]
  BY <1>1, SettledIn
<1>4. ASSUME NEW c \in Settled
      PROVE  /\ availableF'[c] = IF c = a THEN availableF[c] + b ELSE availableF[c]
             /\ pendingF'[c]   = IF c = a THEN pendingF[c] + p ELSE pendingF[c]
             /\ receivedF'[c]  = IF c = a THEN receivedF[c] + (e + p) ELSE receivedF[c]
  <2>1. /\ availableF'[c] = wallet'[c].balance /\ availableF[c] = wallet[c].balance
        /\ pendingF'[c] = wallet'[c].pending /\ pendingF[c] = wallet[c].pending
        /\ receivedF'[c] = wallet'[c].earned + wallet'[c].pending
        /\ receivedF[c] = wallet[c].earned + wallet[c].pending
    BY DEF availableF, pendingF, receivedF
  <2>2. CASE c = a
    <3>1. wallet'[c] = new
      BY <1>3, <2>2
    <3>2. receivedF'[c] = receivedF[c] + (e + p)
      BY <1>2, <2>1, <2>2, <3>1
    <3> QED BY <2>1, <2>2, <3>1, <3>2
  <2>3. CASE c # a
    BY <1>3, <2>1, <2>3
  <2> QED BY <2>2, <2>3
<1> QED BY <1>4 DEF Adds

\* The functions a step does not touch.
LEMMA SameWallets ==
  ASSUME UNCHANGED wallet
  PROVE  receivedF' = receivedF /\ pendingF' = pendingF /\ availableF' = availableF
BY DEF receivedF, pendingF, availableF

LEMMA SameHeld == ASSUME UNCHANGED payouts PROVE heldF' = heldF
BY DEF heldF, PayoutSum, InStatus

LEMMA SameGone == ASSUME UNCHANGED <<payouts, ledger>> PROVE goneF' = goneF
BY DEF goneF, PayoutSum, InStatus, EntrySum, Entries

\* Functions that a step adds nothing to.
LEMMA NoneAdded ==
  ASSUME NEW f, NEW g, IsF(f), IsF(g), NEW a \in Settled, f[a] \in Int, Adds(f, g, a, 0)
  PROVE  g = f
<1>1. \A c \in Settled : g[c] = f[c]
  BY DEF Adds
<1> QED BY <1>1, Same

RestsF == UNCHANGED <<receivedF, pendingF, availableF, heldF, goneF>>

LEMMA QuietFunds == ASSUME UNCHANGED <<money, payouts>> PROVE RestsF
BY SameWallets, SameHeld, SameGone DEF RestsF, money

\* An adjusted wallet has what was pending before.
LEMMA AdjustAdds ==
  ASSUME ConsInv, NEW a \in Settled, NEW b \in Int, NEW e \in Int, NEW p, Adjust(a, b, e, p)
  PROVE  /\ Adds(availableF, availableF', a, b) /\ Adds(receivedF, receivedF', a, e)
         /\ pendingF' = pendingF
<1> DEFINE new == [balance |-> wallet[a].balance + b, pending |-> wallet[a].pending,
                   earned |-> wallet[a].earned + e, paidOut |-> wallet[a].paidOut + p]
           none == 0
<1>1. wallet' = [wallet EXCEPT ![a] = new] /\ none \in Int
  BY DEF Adjust
<1>2. wallet[a].pending \in Nat
  BY FundsTypes DEF pendingF
<1>3. /\ new.balance = wallet[a].balance + b /\ new.pending = wallet[a].pending + none
      /\ new.earned = wallet[a].earned + e
  BY <1>2
<1>4. /\ Adds(availableF, availableF', a, b) /\ Adds(pendingF, pendingF', a, none)
      /\ Adds(receivedF, receivedF', a, e + none)
  <2> HIDE DEF new, none
  <2> QED BY <1>1, <1>3, WalletAdds
<1>5. e + none = e
  OBVIOUS
<1>6. pendingF' = pendingF
  <2>1. Adds(pendingF, pendingF', a, 0) /\ pendingF[a] \in Int
    BY <1>4, FundsTypes
  <2> QED BY <2>1, AreF, NoneAdded
<1> QED BY <1>4, <1>5, <1>6

\* A new debit is gone; a new credit is not.
LEMMA DebitAdds ==
  ASSUME ConsInv, UNCHANGED payouts, NEW a \in Settled, NEW n \in Nat,
         \A c \in Settled : Debited(c)' = Debited(c) + (IF c = a THEN n ELSE 0)
  PROVE  Adds(goneF, goneF', a, n)
<1>1. \A c : PayoutSum(InStatus(c, "completed"))' = PayoutSum(InStatus(c, "completed"))
  BY DEF PayoutSum, InStatus
<1>2. ASSUME NEW c \in Settled PROVE goneF'[c] = IF c = a THEN goneF[c] + n ELSE goneF[c]
  <2>1. /\ goneF[c] = PayoutSum(InStatus(c, "completed")) + Debited(c)
        /\ goneF'[c] = PayoutSum(InStatus(c, "completed"))' + Debited(c)'
    BY DEF goneF, Debited
  <2>2. PayoutSum(InStatus(c, "completed")) \in Nat /\ Debited(c) \in Nat
    BY FundsTypes
  <2> QED BY <1>1, <2>1, <2>2
<1> QED BY <1>2 DEF Adds

-----------------------------------------------------------------------------
\* A credit is received into what is available, or nothing happens.
LEMMA CreditReceives ==
  ASSUME ConsInv, NEW a \in Settled, NEW id \in Nat \cup CallerIds, NEW n \in Nat,
         Credit(a, id, n), UNCHANGED payouts
  PROVE  WalletFunds!Receive(a) \/ RestsF
<1>1. CASE Applied(id)
  BY <1>1, QuietFunds DEF Credit
<1>2. CASE ~Applied(id)
  <2>1. Enter(id, a, "credit", n) /\ Adjust(a, n, n, 0)
    BY <1>2 DEF Credit
  <2>2. SumsMove(a, 0, 0, n)
    BY <1>2, <2>1, Entered, SettledIn
  <2>3. \A c \in Settled : Debited(c)' = Debited(c) + (IF c = a THEN 0 ELSE 0)
    BY <2>2, SettledIn DEF SumsMove
  <2>4. Adds(goneF, goneF', a, 0) /\ goneF[a] \in Int
    BY <2>3, DebitAdds, FundsTypes
  <2>5. goneF' = goneF
    BY <2>4, AreF, NoneAdded
  <2>6. /\ Adds(availableF, availableF', a, n) /\ Adds(receivedF, receivedF', a, n)
        /\ pendingF' = pendingF
    BY <2>1, AdjustAdds
  <2>7. /\ receivedF' = [receivedF EXCEPT ![a] = @ + n] /\ n = receivedF'[a] - receivedF[a]
        /\ availableF' = [availableF EXCEPT ![a] = @ + n]
    BY <2>6, AreF, Added, FundsTypes
  <2>8. n >= 0
    OBVIOUS
  <2> QED BY <2>5, <2>6, <2>7, <2>8, SameHeld, ReceiveIs
<1> QED BY <1>1, <1>2

\* A debit is spent out of what the balance check compared it with.
LEMMA DebitSpends ==
  ASSUME ConsInv, NEW a \in Settled, NEW n \in WalletAmounts, NEW id \in CallerIds, Debit(a, id, n)
  PROVE  WalletFunds!Spend(a)
<1>1. /\ ~Applied(id) /\ Enter(id, a, "debit", n) /\ Adjust(a, -n, 0, 0)
      /\ UNCHANGED payouts /\ n \in Nat /\ wallet[a].balance >= n
  BY AmountAssumption DEF Debit
<1>2. -n \in Int /\ n >= 0 /\ n <= availableF[a]
  BY <1>1, FundsTypes DEF availableF
<1>3. SumsMove(a, 0, n, 0)
  BY <1>1, Entered, SettledIn
<1>4. Adds(goneF, goneF', a, n)
  BY <1>1, <1>3, DebitAdds, SettledIn DEF SumsMove
<1>5. goneF' = [goneF EXCEPT ![a] = @ + n] /\ n = goneF'[a] - goneF[a]
  BY <1>1, <1>4, AreF, Added, FundsTypes
<1>6. \A m \in Int : Adjust(a, m, 0, 0) =>
        /\ Adds(availableF, availableF', a, m) /\ Adds(receivedF, receivedF', a, 0)
        /\ pendingF' = pendingF
  BY AdjustAdds
<1>7. /\ Adds(availableF, availableF', a, -n) /\ Adds(receivedF, receivedF', a, 0)
      /\ pendingF' = pendingF
  BY <1>1, <1>2, <1>6
<1>8. availableF' = [availableF EXCEPT ![a] = @ + (-n)]
  BY <1>2, <1>7, AreF, Added, FundsTypes
<1>9. receivedF' = receivedF
  BY <1>7, AreF, NoneAdded, FundsTypes
<1> QED BY <1>1, <1>2, <1>5, <1>7, <1>8, <1>9, SameHeld, SpendIs

\* A pending settlement is received, and matures when it is settled.
LEMMA PendingReceives ==
  ASSUME ConsInv, NEW a \in Settled, NEW n \in WalletAmounts, AddPendingSettlement(a, n)
  PROVE  WalletFunds!Receive(a)
<1> DEFINE new == [balance |-> wallet[a].balance, pending |-> wallet[a].pending + n,
                   earned |-> wallet[a].earned, paidOut |-> wallet[a].paidOut]
           none == 0
<1>1. wallet' = [wallet EXCEPT ![a] = new] /\ UNCHANGED <<ledger, payouts>> /\ n \in Nat
  BY AmountAssumption DEF AddPendingSettlement
<1>2. wallet[a].balance \in Nat /\ wallet[a].earned \in Nat
  BY SumTypes, SettledIn DEF Summary
<1>3. /\ new.balance = wallet[a].balance + none /\ new.pending = wallet[a].pending + n
      /\ new.earned = wallet[a].earned + none /\ none \in Int /\ n \in Int
  BY <1>1, <1>2
<1>4. /\ Adds(availableF, availableF', a, none) /\ Adds(pendingF, pendingF', a, n)
      /\ Adds(receivedF, receivedF', a, none + n)
  <2> HIDE DEF new, none
  <2> QED BY <1>1, <1>3, WalletAdds
<1>5. none + n = n
  BY <1>1
<1>6. /\ receivedF' = [receivedF EXCEPT ![a] = @ + n] /\ n = receivedF'[a] - receivedF[a]
      /\ pendingF' = [pendingF EXCEPT ![a] = @ + n]
  BY <1>3, <1>4, <1>5, AreF, Added, FundsTypes
<1>7. availableF' = availableF
  BY <1>4, AreF, NoneAdded, FundsTypes
<1>8. n >= 0
  BY <1>1
<1> QED BY <1>1, <1>6, <1>7, <1>8, SameHeld, SameGone, ReceiveIs

LEMMA SettleMatures == ASSUME ConsInv, NEW a \in Settled, SettlePending(a) PROVE WalletFunds!Mature(a)
<1> DEFINE n == wallet[a].pending
           new == [balance |-> wallet[a].balance + n, pending |-> 0,
                   earned |-> wallet[a].earned + n, paidOut |-> wallet[a].paidOut]
<1>1. wallet' = [wallet EXCEPT ![a] = new] /\ UNCHANGED <<ledger, payouts>>
  BY DEF SettlePending
<1>2. n \in Nat
  BY FundsTypes DEF pendingF
<1>3. /\ new.balance = wallet[a].balance + n /\ new.pending = wallet[a].pending + (-n)
      /\ new.earned = wallet[a].earned + n /\ n \in Int /\ -n \in Int /\ n >= 0 /\ n + (-n) = 0
  BY <1>2
<1> HIDE DEF n, new
<1>4. \A m \in Int : new.pending = wallet[a].pending + m =>
        /\ Adds(availableF, availableF', a, n) /\ Adds(pendingF, pendingF', a, m)
        /\ Adds(receivedF, receivedF', a, n + m)
  BY <1>1, <1>3, WalletAdds
<1>5. /\ Adds(availableF, availableF', a, n) /\ Adds(pendingF, pendingF', a, -n)
      /\ Adds(receivedF, receivedF', a, 0)
  BY <1>3, <1>4
<1>6. /\ availableF' = [availableF EXCEPT ![a] = @ + n] /\ n = availableF'[a] - availableF[a]
      /\ pendingF' = [pendingF EXCEPT ![a] = @ + (-n)]
  BY <1>3, <1>5, AreF, Added, FundsTypes
<1>7. receivedF' = receivedF
  BY <1>5, AreF, NoneAdded, FundsTypes
<1> QED BY <1>1, <1>3, <1>6, <1>7, SameHeld, SameGone, MatureIs

\* A requested payout is held out of what is available.
LEMMA RequestHolds ==
  ASSUME ConsInv, NEW u \in Users, NEW a \in Settled, a = WalletKey(u), NEW n \in WalletAmounts,
         RequestPayout(u, n)
  PROVE  WalletFunds!Hold(a)
<1> DEFINE x == [user |-> u, amount |-> n, status |-> "pending"]
<1>1. /\ n \in Nat /\ x \in Payout /\ x.status = "pending" /\ x.user = u /\ x.amount = n
      /\ payouts' = Append(payouts, x) /\ Adjust(a, -n, 0, n) /\ UNCHANGED ledger
      /\ wallet[a].balance >= n /\ payouts \in Seq(Payout)
  BY AmountAssumption, Types DEF RequestPayout, Payout, ConsInv, Inv
<1> HIDE DEF x
<1>2. -n \in Int /\ n >= 0 /\ n <= availableF[a]
  BY <1>1, FundsTypes DEF availableF
<1>3. \A c, st : PayoutSum(InStatus(c, st))' = IF c = a /\ st = "pending"
                                               THEN PayoutSum(InStatus(c, st)) + x.amount
                                               ELSE PayoutSum(InStatus(c, st))
  BY <1>1, RequestedIn
<1>4. Adds(heldF, heldF', a, n)
  BY <1>1, <1>3 DEF Adds, heldF
<1>5. heldF' = [heldF EXCEPT ![a] = @ + n] /\ n = heldF'[a] - heldF[a]
  BY <1>1, <1>4, AreF, Added, FundsTypes
<1>6. goneF' = goneF
  <2>1. \A c : PayoutSum(InStatus(c, "completed"))' = PayoutSum(InStatus(c, "completed"))
    BY <1>3
  <2>2. \A c : EntrySum(Entries(c, "debit"))' = EntrySum(Entries(c, "debit"))
    BY <1>1 DEF EntrySum, Entries
  <2> QED BY <2>1, <2>2 DEF goneF
<1>7. \A b, m \in Int : Adjust(a, b, 0, m) =>
        /\ Adds(availableF, availableF', a, b) /\ Adds(receivedF, receivedF', a, 0)
        /\ pendingF' = pendingF
  BY AdjustAdds
<1>8. /\ Adds(availableF, availableF', a, -n) /\ Adds(receivedF, receivedF', a, 0)
      /\ pendingF' = pendingF
  BY <1>1, <1>2, <1>7
<1>9. availableF' = [availableF EXCEPT ![a] = @ + (-n)]
  BY <1>2, <1>8, AreF, Added, FundsTypes
<1>10. receivedF' = receivedF
  BY <1>8, AreF, NoneAdded, FundsTypes
<1> QED BY <1>1, <1>2, <1>5, <1>6, <1>8, <1>9, <1>10, HoldIs

\* What is held is delivered, or returns, once.
LEMMA EndDelivers ==
  ASSUME ConsInv, NEW i \in DOMAIN payouts, CompletePayout(i) \/ FailPayout(i),
         NEW a \in Settled, a = WalletKey(payouts[i].user)
  PROVE  WalletFunds!Deliver(a) \/ WalletFunds!Refund(a)
<1>1. payouts \in Seq(Payout) /\ payouts[i].status = "pending" /\ UNCHANGED ledger
  BY Types DEF ConsInv, Inv, CompletePayout, FailPayout, money
<1>2. PICK n \in Nat : n = payouts[i].amount
  BY <1>1, RequestedType
<1>0. a = ReturnKey(payouts[i].user)
  BY <1>1, RequestedType DEF Payout, Settled
<1>3. ASSUME NEW end \in {"completed", "failed"}, payouts' = [payouts EXCEPT ![i].status = end]
      PROVE  /\ \A c : PayoutSum(InStatus(c, "pending"))' = IF c = a
                           THEN PayoutSum(InStatus(c, "pending")) + (-n)
                           ELSE PayoutSum(InStatus(c, "pending"))
             /\ \A c : PayoutSum(InStatus(c, "completed"))' = IF c = a /\ end = "completed"
                           THEN PayoutSum(InStatus(c, "completed")) + n
                           ELSE PayoutSum(InStatus(c, "completed"))
             /\ n <= PayoutSum(InStatus(a, "pending"))
  BY <1>1, <1>2, <1>3, EndedIn
<1>4. \A c : EntrySum(Entries(c, "debit"))' = EntrySum(Entries(c, "debit"))
  BY <1>1 DEF EntrySum, Entries
<1>5. CASE CompletePayout(i)
  <2>1. payouts' = [payouts EXCEPT ![i].status = "completed"] /\ UNCHANGED wallet
    BY <1>5 DEF CompletePayout, money
  <2>2. /\ \A c : PayoutSum(InStatus(c, "pending"))' = IF c = a
                      THEN PayoutSum(InStatus(c, "pending")) + (-n)
                      ELSE PayoutSum(InStatus(c, "pending"))
        /\ \A c : PayoutSum(InStatus(c, "completed"))' = IF c = a
                      THEN PayoutSum(InStatus(c, "completed")) + n
                      ELSE PayoutSum(InStatus(c, "completed"))
        /\ n <= PayoutSum(InStatus(a, "pending"))
    BY <1>3, <2>1
  <2>3. Adds(heldF, heldF', a, -n) /\ n <= heldF[a] /\ n >= 0 /\ -n \in Int
    BY <1>2, <2>2 DEF Adds, heldF
  <2>4. Adds(goneF, goneF', a, n)
    <3>1. ASSUME NEW c \in Settled PROVE goneF'[c] = IF c = a THEN goneF[c] + n ELSE goneF[c]
      <4>1. /\ goneF[c] = PayoutSum(InStatus(c, "completed")) + EntrySum(Entries(c, "debit"))
            /\ goneF'[c] = PayoutSum(InStatus(c, "completed"))' + EntrySum(Entries(c, "debit"))'
        BY DEF goneF
      <4>2. PayoutSum(InStatus(c, "completed")) \in Nat /\ EntrySum(Entries(c, "debit")) \in Nat
        BY FundsTypes DEF Debited
      <4> QED BY <1>2, <1>4, <2>2, <4>1, <4>2
    <3> QED BY <3>1 DEF Adds
  <2>5. heldF' = [heldF EXCEPT ![a] = @ + (-n)]
    BY <1>2, <2>3, AreF, Added, FundsTypes
  <2>6. goneF' = [goneF EXCEPT ![a] = @ + n] /\ n = goneF'[a] - goneF[a]
    BY <1>2, <2>4, AreF, Added, FundsTypes
  <2>7. WalletFunds!Deliver(a)
    BY <2>1, <2>3, <2>5, <2>6, SameWallets, DeliverIs
  <2> QED BY <2>7
<1>6. CASE FailPayout(i)
  <2>1. payouts' = [payouts EXCEPT ![i].status = "failed"] /\ Adjust(a, n, 0, -n)
    BY <1>0, <1>2, <1>6 DEF FailPayout
  <2>2. /\ \A c : PayoutSum(InStatus(c, "pending"))' = IF c = a
                      THEN PayoutSum(InStatus(c, "pending")) + (-n)
                      ELSE PayoutSum(InStatus(c, "pending"))
        /\ \A c : PayoutSum(InStatus(c, "completed"))' = PayoutSum(InStatus(c, "completed"))
        /\ n <= PayoutSum(InStatus(a, "pending"))
    BY <1>3, <2>1
  <2>3. Adds(heldF, heldF', a, -n) /\ n <= heldF[a] /\ n >= 0 /\ n \in Int /\ -n \in Int
    BY <1>2, <2>2 DEF Adds, heldF
  <2>4. heldF' = [heldF EXCEPT ![a] = @ + (-n)]
    BY <1>2, <2>3, AreF, Added, FundsTypes
  <2>5. goneF' = goneF
    BY <1>4, <2>2 DEF goneF
  <2>6. \A m \in Int : Adjust(a, n, 0, m) =>
          /\ Adds(availableF, availableF', a, n) /\ Adds(receivedF, receivedF', a, 0)
          /\ pendingF' = pendingF
    BY <1>2, <2>3, AdjustAdds
  <2>7. /\ Adds(availableF, availableF', a, n) /\ Adds(receivedF, receivedF', a, 0)
        /\ pendingF' = pendingF
    BY <2>1, <2>3, <2>6
  <2>8. availableF' = [availableF EXCEPT ![a] = @ + n] /\ n = availableF'[a] - availableF[a]
    BY <1>2, <2>3, <2>7, AreF, Added, FundsTypes
  <2>9. receivedF' = receivedF
    BY <1>2, <2>7, AreF, NoneAdded, FundsTypes
  <2>10. WalletFunds!Refund(a)
    BY <2>3, <2>4, <2>5, <2>7, <2>8, <2>9, RefundIs
  <2> QED BY <2>10
<1> QED BY <1>5, <1>6

-----------------------------------------------------------------------------
\* Steps of a wallet that is not settled leave the settled ones alone.
LEMMA Apart ==
  ASSUME NEW a, a \notin Settled, ConsInv, NEW new, wallet' = [wallet EXCEPT ![a] = new],
         \A c \in Settled : /\ EntrySum(Entries(c, "debit"))' = EntrySum(Entries(c, "debit"))
                           /\ PayoutSum(InStatus(c, "pending"))' = PayoutSum(InStatus(c, "pending"))
                           /\ PayoutSum(InStatus(c, "completed"))' = PayoutSum(InStatus(c, "completed"))
  PROVE  RestsF
<1>1. wallet \in [Accounts -> Summary]
  BY Types DEF ConsInv, Inv
<1>2. \A c \in Settled : wallet'[c] = wallet[c]
  BY <1>1, SettledIn
<1>3. receivedF' = receivedF /\ pendingF' = pendingF /\ availableF' = availableF
  BY <1>2 DEF receivedF, pendingF, availableF
<1>4. heldF' = heldF
  BY DEF heldF
<1>5. goneF' = goneF
  BY DEF goneF
<1> QED BY <1>3, <1>4, <1>5 DEF RestsF

LEMMA SameStatus ==
  ASSUME UNCHANGED payouts, NEW c, NEW st PROVE PayoutSum(InStatus(c, st))' = PayoutSum(InStatus(c, st))
BY DEF PayoutSum, InStatus

\* A credit or a debit enters the ledger for its own account.
LEMMA EntryApart ==
  ASSUME ConsInv, NEW a \in Accounts, a \notin Settled, NEW id \in Nat \cup CallerIds, NEW n \in Nat,
         NEW type \in {"credit", "debit"}, NEW b, NEW e, ~Applied(id), Enter(id, a, type, n),
         Adjust(a, b, e, 0), UNCHANGED payouts
  PROVE  RestsF
<1> DEFINE d == IF type = "debit" THEN n ELSE 0
           k == IF type = "credit" THEN n ELSE 0
<1>1. SumsMove(a, 0, d, k)
  BY Entered
<1>2. \A c \in Settled : Debited(c)' = Debited(c)
  BY <1>1, SettledIn, SumTypes DEF SumsMove
<1>3. \A c \in Settled : EntrySum(Entries(c, "debit"))' = EntrySum(Entries(c, "debit"))
  BY <1>2 DEF Debited
<1>4. PICK new : wallet' = [wallet EXCEPT ![a] = new]
  BY DEF Adjust
<1> QED BY <1>3, <1>4, SameStatus, Apart

LEMMA CreditApart ==
  ASSUME ConsInv, NEW a \in Accounts, a \notin Settled, NEW id \in Nat \cup CallerIds, NEW n \in Nat,
         Credit(a, id, n), UNCHANGED payouts
  PROVE  RestsF
<1>1. CASE Applied(id)
  BY <1>1, QuietFunds DEF Credit
<1>2. CASE ~Applied(id)
  BY <1>2, EntryApart DEF Credit
<1> QED BY <1>1, <1>2

LEMMA WalletApart ==
  ASSUME ConsInv, NEW u \in Users, WalletKey(u) \notin Settled, WalletStep(u)
  PROVE  RestsF
<1>1. PICK a \in Accounts : a = WalletKey(u)
  BY KeysAre
<1>2. ASSUME NEW n \in WalletAmounts, NEW id \in CallerIds \cup DOMAIN events, TreasuryCredit(a, id, n)
      PROVE  RestsF
  <2>1. n \in Nat /\ id \in Nat \cup CallerIds /\ Credit(a, id, n) /\ UNCHANGED payouts
    BY <1>2, AmountAssumption, Types DEF TreasuryCredit, ConsInv, Inv
  <2> QED BY <1>1, <2>1, CreditApart
<1>3. ASSUME NEW n \in WalletAmounts, NEW id \in CallerIds, Debit(a, id, n) PROVE RestsF
  <2>1. /\ ~Applied(id) /\ Enter(id, a, "debit", n) /\ Adjust(a, -n, 0, 0)
        /\ UNCHANGED payouts /\ n \in Nat
    BY <1>3, AmountAssumption DEF Debit
  <2>2. PICK b : Adjust(a, b, 0, 0)
    BY <2>1
  <2> QED BY <1>1, <2>1, <2>2, EntryApart
<1>4. ASSUME SettlePending(a) \/ \E n \in WalletAmounts : AddPendingSettlement(a, n) PROVE RestsF
  <2>1. (\E new : wallet' = [wallet EXCEPT ![a] = new]) /\ UNCHANGED <<ledger, payouts>>
    BY <1>4 DEF SettlePending, AddPendingSettlement
  <2>2. \A c : EntrySum(Entries(c, "debit"))' = EntrySum(Entries(c, "debit"))
    BY <2>1 DEF EntrySum, Entries
  <2> QED BY <1>1, <2>1, <2>2, SameStatus, Apart
<1>5. ASSUME NEW n \in WalletAmounts, RequestPayout(u, n) PROVE RestsF
  <2> DEFINE x == [user |-> u, amount |-> n, status |-> "pending"]
  <2>1. /\ x \in Payout /\ x.status = "pending" /\ WalletKey(x.user) = a
        /\ payouts' = Append(payouts, x) /\ UNCHANGED ledger /\ payouts \in Seq(Payout)
        /\ Adjust(a, -n, 0, n)
    BY <1>1, <1>5, Types DEF RequestPayout, Payout, ConsInv, Inv
  <2>2. PICK new : wallet' = [wallet EXCEPT ![a] = new]
    BY <2>1 DEF Adjust
  <2>3. \A c : EntrySum(Entries(c, "debit"))' = EntrySum(Entries(c, "debit"))
    BY <2>1 DEF EntrySum, Entries
  <2>4. \A c, st : c # a => PayoutSum(InStatus(c, st))' = PayoutSum(InStatus(c, st))
    <3> HIDE DEF x
    <3> QED BY <2>1, RequestedIn
  <2> QED BY <1>1, <2>2, <2>3, <2>4, Apart
<1> QED BY <1>1, <1>2, <1>3, <1>4, <1>5 DEF WalletStep

\* The money of an unsettled wallet's payout returns to an unsettled one.
LEMMA EndApart ==
  ASSUME ConsInv, NEW i \in DOMAIN payouts, CompletePayout(i) \/ FailPayout(i),
         WalletKey(payouts[i].user) \notin Settled
  PROVE  RestsF
<1>1. payouts \in Seq(Payout) /\ payouts[i].status = "pending" /\ UNCHANGED ledger
  BY Types DEF ConsInv, Inv, CompletePayout, FailPayout, money
<1>2. payouts[i].user \in Users
  BY <1>1, RequestedType DEF Payout
<1>3. PICK w \in Accounts, r \in Accounts : w = WalletKey(payouts[i].user) /\ r = ReturnKey(payouts[i].user)
  BY <1>2, KeysAre
<1>4. r \notin Settled
  BY <1>2, <1>3 DEF Settled
<1>5. PICK new : wallet' = [wallet EXCEPT ![r] = new]
  <2>1. CASE FailPayout(i)
    BY <1>3, <2>1 DEF FailPayout, Adjust
  <2>2. CASE CompletePayout(i)
    <3>1. wallet' = [wallet EXCEPT ![r] = wallet[r]]
      BY <2>2, Types DEF CompletePayout, money, ConsInv, Inv
    <3> QED BY <3>1
  <2> QED BY <2>1, <2>2
<1>6. PICK end \in {"completed", "failed"} : payouts' = [payouts EXCEPT ![i].status = end]
  BY DEF CompletePayout, FailPayout
<1>7. \A c \in Settled : /\ PayoutSum(InStatus(c, "pending"))' = PayoutSum(InStatus(c, "pending"))
                        /\ PayoutSum(InStatus(c, "completed"))' = PayoutSum(InStatus(c, "completed"))
  BY <1>1, <1>3, <1>6, EndedIn
<1>8. \A c : EntrySum(Entries(c, "debit"))' = EntrySum(Entries(c, "debit"))
  BY <1>1 DEF EntrySum, Entries
<1> QED BY <1>4, <1>5, <1>7, <1>8, Apart

LEMMA StepRefines == ConsInv /\ [Next]_vars => [WalletFunds!Next]_(WalletFunds!vars)
<1> SUFFICES ASSUME ConsInv, [Next]_vars PROVE WalletFunds!Next \/ RestsF
  BY DEF WalletFunds!vars, RestsF, receivedF, pendingF, availableF, heldF, goneF
<1>1. ASSUME UNCHANGED <<money, payouts>> PROVE RestsF
  BY <1>1, QuietFunds
<1>2. CASE UNCHANGED vars
  BY <1>1, <1>2 DEF vars
<1>3. ASSUME NEW a \in Accounts, NEW gross \in SaleAmounts, Sale(a, gross)
      PROVE  (a \in Settled /\ WalletFunds!Receive(a)) \/ RestsF
  <2>1. UNCHANGED payouts /\ Share(gross) \in Nat /\ Len(events) + 1 \in Nat
    BY <1>3, ShareType, Types DEF Sale, ConsInv, Inv
  <2>2. UNCHANGED money \/ Credit(a, Len(events) + 1, Share(gross))
    BY <1>3 DEF Sale, money
  <2>3. CASE a \in Settled
    BY <1>1, <2>1, <2>2, <2>3, CreditReceives
  <2>4. CASE a \notin Settled
    BY <1>1, <2>1, <2>2, <2>4, CreditApart
  <2> QED BY <2>3, <2>4
<1>4. ASSUME NEW a \in Settled, NEW amount \in WalletAmounts, NEW id \in CallerIds \cup DOMAIN events,
             TreasuryCredit(a, id, amount)
      PROVE  WalletFunds!Receive(a) \/ RestsF
  <2>1. amount \in Nat /\ id \in Nat \cup CallerIds /\ Credit(a, id, amount) /\ UNCHANGED payouts
    BY <1>4, AmountAssumption, Types DEF TreasuryCredit, ConsInv, Inv
  <2> QED BY <2>1, CreditReceives
<1>5. ASSUME NEW u \in Users, NEW a \in Settled, a = WalletKey(u), WalletStep(u)
      PROVE  \/ WalletFunds!Receive(a) \/ WalletFunds!Mature(a) \/ WalletFunds!Spend(a)
             \/ WalletFunds!Hold(a) \/ RestsF
  BY <1>4, <1>5, DebitSpends, PendingReceives, SettleMatures, RequestHolds DEF WalletStep
<1>6. ASSUME NEW u \in Users, WalletStep(u) PROVE WalletFunds!Next \/ RestsF
  <2>1. CASE WalletKey(u) \in Settled
    BY <1>5, <1>6, <2>1 DEF WalletFunds!Next
  <2>2. CASE WalletKey(u) \notin Settled
    BY <1>6, <2>2, WalletApart
  <2> QED BY <2>1, <2>2
<1>7. ASSUME NEW i \in DOMAIN payouts, CompletePayout(i) \/ FailPayout(i)
      PROVE  WalletFunds!Next \/ RestsF
  <2>1. CASE WalletKey(payouts[i].user) \in Settled
    BY <1>7, <2>1, EndDelivers DEF WalletFunds!Next
  <2>2. CASE WalletKey(payouts[i].user) \notin Settled
    BY <1>7, <2>2, EndApart
  <2> QED BY <2>1, <2>2
<1>8. ASSUME NEW u \in Users, NEW gross \in SaleAmounts, Sale(WalletKey(u), gross)
      PROVE  WalletFunds!Next \/ RestsF
  BY <1>3, <1>8, KeysAre DEF WalletFunds!Next
<1>9. CASE NextHour \/ \E u \in Users : CreateCreatorProfile(WalletKey(u))
  BY <1>1, <1>9 DEF NextHour, CreateCreatorProfile
<1>10. CASE Next
  BY <1>6, <1>7, <1>8, <1>9, <1>10 DEF Next
<1> QED BY <1>2, <1>10

LEMMA InitRefines == Init => WalletFunds!Init
<1> SUFFICES ASSUME Init PROVE WalletFunds!Init
  OBVIOUS
<1>1. ledger = {} /\ payouts = <<>>
  BY DEF Init
<1>2. \A S : S = {} => EntrySum(S) = 0 /\ PayoutSum(S) = 0
  BY SumEmpty DEF EntrySum, PayoutSum
<1>3. \A a, st : InStatus(a, st) = {} /\ Entries(a, st) = {}
  BY <1>1 DEF InStatus, Entries
<1>4. \A a, st : PayoutSum(InStatus(a, st)) = 0 /\ EntrySum(Entries(a, st)) = 0
  BY <1>2, <1>3
<1>5. \A a \in Settled : wallet[a].balance = 0 /\ wallet[a].earned = 0 /\ wallet[a].pending = 0
  BY SettledIn DEF Init
<1> QED BY <1>4, <1>5 DEF WalletFunds!Init, WalletFunds!Zero

\* For all users, amounts and orders of operations the settled wallets, those
\* whose failed payouts return to them and that get no others', evolve as Funds:
\* no step moves more than there is, and a payout ends once.
THEOREM Refinement == Spec => FundsDiscipline
BY InitRefines, InitCons, StepCons, StepRefines, PTL DEF Spec, FundsDiscipline, WalletFunds!Spec
=============================================================================
