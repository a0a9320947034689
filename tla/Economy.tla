-------------------------------- MODULE Economy --------------------------------
(***************************************************************************)
(* The money flow of domains/economy as server.ts composes it: a sale is    *)
(* recorded in the revenue ledger, judged by economic governance, added to  *)
(* the creator's profile and credited to the wallet; treasury credits and   *)
(* payout requests come from routes of their own, debits, settlements and   *)
(* the ends of a payout from the wallet's other callers.  Every operation is *)
(* synchronous, so it is one step; the orders of operations are what can go *)
(* wrong.  Amounts are cents.  An account is a key `tenant:principal`, and    *)
(* ids may hold colons of their own, so a key is the sequence of the parts   *)
(* between its colons.  The route never passes a policyDecision, so POL-004  *)
(* cannot fire and is left out; so is the second balance in a profile        *)
(* (profile.wallet), which sales only add to.                              *)
(***************************************************************************)
EXTENDS Sequences, Sums

CONSTANTS
  Users,         \* the tenant and principal ids that come, cut at their colons
  SaleAmounts,   \* gross amounts of sales
  WalletAmounts, \* amounts of treasury credits, debits, settlements, payouts
  CallerIds,     \* event ids chosen by the callers of credit() and debit()
  MaxSingle,     \* MAX_SINGLE_TRANSACTION
  MaxDaily,      \* MAX_DAILY_VOLUME
  MaxPerHour,    \* MAX_VELOCITY_PER_HOUR
  HoursPerDay,
  MaxHour, MaxEvents, MaxPayouts, MaxEarned  \* bounds of the model

\* split(":") of a string has at least one part.
ASSUME UserAssumption == \A u \in Users : u.tenant # <<>> /\ u.principal # <<>>
ASSUME AmountAssumption == /\ SaleAmounts \subseteq Nat \ {0}
                           /\ WalletAmounts \subseteq Nat \ {0}
\* Event ids are random, so no caller's own id is that of a sale.
ASSUME IdAssumption == CallerIds \cap Nat = {}
ASSUME LimitAssumption == /\ {MaxSingle, MaxDaily, MaxPerHour} \subseteq Nat
                          /\ MaxSingle <= MaxDaily /\ MaxPerHour > 0
                          /\ HoursPerDay \in Nat \ {0}

VARIABLES
  hour,          \* hours since the start
  daily,         \* dailyVolumes: the counted volume of an account's last day
  hourly,        \* hourlyCounts: the counted sales of its last hour
  events,        \* revenue ledger; an event's id is its position
  wallet,        \* summaries of the wallets
  ledger,        \* wallet entries, at most one per event id (ledgerByEvent)
  payouts,       \* payout requests; a payout's id is its position
  profile,       \* reputation totals of the accounts that have a profile
  granted        \* history: what was approved on this day and in this hour

policy == <<hour, daily, hourly, granted>>
money  == <<wallet, ledger>>
vars   == <<policy, events, money, payouts, profile>>

WalletKey(u) == u.tenant \o u.principal

\* Where the money of a failed payout goes: failPayout() takes the first part
\* of the wallet's key for the tenant.
ReturnKey(u) == <<Head(WalletKey(u))>> \o u.principal

Accounts == {WalletKey(u) : u \in Users} \cup {ReturnKey(u) : u \in Users}

Today == hour \div HoursPerDay

\* 10 percent for the creator, rounded to the cent.
Share(gross) == (gross + 5) \div 10

Init ==
  /\ hour = 0
  /\ daily = [a \in Accounts |-> [date |-> -1, total |-> 0]]
  /\ hourly = [a \in Accounts |-> [hour |-> -1, count |-> 0]]
  /\ events = <<>>
  /\ wallet = [a \in Accounts |-> [balance |-> 0, pending |-> 0, earned |-> 0, paidOut |-> 0]]
  /\ ledger = {}
  /\ payouts = <<>>
  /\ profile = [a \in Accounts |-> [exists |-> FALSE, revenue |-> 0]]
  /\ granted = [a \in Accounts |-> [volume |-> 0, count |-> 0]]

-----------------------------------------------------------------------------
\* wallet.ts

Adjust(a, balance, earned, paidOut) ==
  wallet' = [wallet EXCEPT ![a] =
    [balance |-> @.balance + balance, pending |-> @.pending,
     earned |-> @.earned + earned, paidOut |-> @.paidOut + paidOut]]

Applied(id) == \E e \in ledger : e.id = id

Enter(id, a, type, amount) ==
  ledger' = ledger \cup {[id |-> id, account |-> a, type |-> type, amount |-> amount]}

\* Mutant: the answer of a repeated id is not looked up.
MutCredit(a, id, amount) ==
  Enter(id, a, "credit", amount) /\ Adjust(a, amount, amount, 0)
\* credit(): an id that was applied before, in any wallet, changes nothing.
Credit(a, id, amount) ==
  IF Applied(id) THEN UNCHANGED money
  ELSE Enter(id, a, "credit", amount) /\ Adjust(a, amount, amount, 0)

\* Mutant: the balance check compares with what was ever earned.
MutDebit(a, id, amount) ==
  /\ ~Applied(id) /\ wallet[a].earned >= amount
  /\ Enter(id, a, "debit", amount) /\ Adjust(a, -amount, 0, 0)
  /\ UNCHANGED <<policy, events, payouts, profile>>
\* debit(): null when the balance is short.
Debit(a, id, amount) ==
  /\ ~Applied(id) /\ wallet[a].balance >= amount
  /\ Enter(id, a, "debit", amount) /\ Adjust(a, -amount, 0, 0)
  /\ UNCHANGED <<policy, events, payouts, profile>>

AddPendingSettlement(a, amount) ==
  /\ wallet[a].pending + wallet[a].earned + amount <= MaxEarned
  /\ wallet' = [wallet EXCEPT ![a] =
       [balance |-> @.balance, pending |-> @.pending + amount,
        earned |-> @.earned, paidOut |-> @.paidOut]]
  /\ UNCHANGED <<policy, events, ledger, payouts, profile>>

SettlePending(a) ==
  /\ wallet[a].pending > 0
  /\ wallet' = [wallet EXCEPT ![a] =
       [balance |-> @.balance + @.pending, pending |-> 0,
        earned |-> @.earned + @.pending, paidOut |-> @.paidOut]]
  /\ UNCHANGED <<policy, events, ledger, payouts, profile>>

RequestPayout(u, amount) ==
  /\ Len(payouts) < MaxPayouts
  /\ wallet[WalletKey(u)].balance >= amount
  /\ Adjust(WalletKey(u), -amount, 0, amount)
  /\ payouts' = Append(payouts, [user |-> u, amount |-> amount, status |-> "pending"])
  /\ UNCHANGED <<policy, events, ledger, profile>>

CompletePayout(i) ==
  /\ payouts[i].status = "pending"
  /\ payouts' = [payouts EXCEPT ![i].status = "completed"]
  /\ UNCHANGED <<policy, events, money, profile>>

\* Mutant: a completed payout can still fail.
MutFailPayout(i) ==
  /\ payouts[i].status # "failed"
  /\ payouts' = [payouts EXCEPT ![i].status = "failed"]
  /\ Adjust(ReturnKey(payouts[i].user), payouts[i].amount, 0, 0)
  /\ UNCHANGED <<policy, events, ledger, profile>>
\* Mutant: a completed payout can still fail, and its money returns.
MutReturn(i) ==
  /\ payouts[i].status # "failed"
  /\ payouts' = [payouts EXCEPT ![i].status = "failed"]
  /\ Adjust(ReturnKey(payouts[i].user), payouts[i].amount, 0, -payouts[i].amount)
  /\ UNCHANGED <<policy, events, ledger, profile>>
\* The money of a payout that failed returns to a balance: that of its own
\* wallet when the tenant's id has no colon.
FailPayout(i) ==
  /\ payouts[i].status = "pending"
  /\ payouts' = [payouts EXCEPT ![i].status = "failed"]
  /\ Adjust(ReturnKey(payouts[i].user), payouts[i].amount, 0, -payouts[i].amount)
  /\ UNCHANGED <<policy, events, ledger, profile>>

-----------------------------------------------------------------------------
\* economic-governance.ts: the rules in their order

\* The first sale of a day or an hour starts a count.
Volume(a, gross) == gross + (IF daily[a].date = Today THEN daily[a].total ELSE 0)
Count(a)         == 1 + (IF hourly[a].hour = hour THEN hourly[a].count ELSE 0)

\* Mutant: a sale is compared with what was counted before it.
MutVerdict(a, gross) ==
  CASE gross > MaxSingle -> "POL-001"
    [] gross <= MaxSingle /\ Volume(a, gross) - gross > MaxDaily -> "POL-002"
    [] gross <= MaxSingle /\ Volume(a, gross) - gross <= MaxDaily /\ Count(a) - 1 > MaxPerHour -> "POL-003"
    [] OTHER -> "approved"
\* The rule that stops a sale.  A day or an hour that starts is approved.
Verdict(a, gross) ==
  IF gross > MaxSingle THEN "POL-001"
  ELSE IF daily[a].date = Today /\ Volume(a, gross) > MaxDaily THEN "POL-002"
  ELSE IF hourly[a].hour = hour /\ Count(a) > MaxPerHour THEN "POL-003"
  ELSE "approved"

\* A rule counts the sale before it judges it; the rules after it are skipped.
EvaluatePolicy(a, gross, verdict) ==
  /\ daily' = IF verdict = "POL-001" THEN daily
              ELSE [daily EXCEPT ![a] = [date |-> Today, total |-> Volume(a, gross)]]
  /\ hourly' = IF verdict \in {"POL-001", "POL-002"} THEN hourly
               ELSE [hourly EXCEPT ![a] = [hour |-> hour, count |-> Count(a)]]

-----------------------------------------------------------------------------
\* Routes of server.ts

CreateCreatorProfile(a) ==
  /\ ~profile[a].exists
  /\ profile' = [profile EXCEPT ![a].exists = TRUE]
  /\ UNCHANGED <<policy, events, money, payouts>>

\* recordTransaction(): null for an account without a profile.
RecordTransaction(a, amount) ==
  profile' = IF profile[a].exists THEN [profile EXCEPT ![a].revenue = @ + amount]
             ELSE profile

\* Mutant: the reputation is updated before the verdict is read.
MutSale(a, gross) ==
  LET verdict == Verdict(a, gross) IN
  /\ Len(events) < MaxEvents
  /\ events' = Append(events, [account |-> a, gross |-> gross, verdict |-> verdict])
  /\ EvaluatePolicy(a, gross, verdict)
  /\ RecordTransaction(a, Share(gross))
  /\ IF verdict = "approved"
     THEN /\ Credit(a, Len(events) + 1, Share(gross))
          /\ granted' = [granted EXCEPT ![a] = [volume |-> @.volume + gross, count |-> @.count + 1]]
     ELSE UNCHANGED <<money, granted>>
  /\ UNCHANGED <<hour, payouts>>
\* POST /economy/transactions: the event is in the ledger before the verdict.
Sale(a, gross) ==
  LET verdict == Verdict(a, gross) IN
  /\ Len(events) < MaxEvents
  /\ events' = Append(events, [account |-> a, gross |-> gross, verdict |-> verdict])
  /\ EvaluatePolicy(a, gross, verdict)
  /\ IF verdict = "approved"
     THEN /\ RecordTransaction(a, Share(gross))
          /\ Credit(a, Len(events) + 1, Share(gross))
          /\ granted' = [granted EXCEPT ![a] = [volume |-> @.volume + gross, count |-> @.count + 1]]
     ELSE UNCHANGED <<profile, money, granted>>
  /\ UNCHANGED <<hour, payouts>>

\* POST /economy/wallet/credit: the operator may name an event, a sale's too;
\* without one the id is made of the clock and may repeat.
TreasuryCredit(a, id, amount) ==
  /\ wallet[a].earned + wallet[a].pending + amount <= MaxEarned
  /\ Credit(a, id, amount)
  /\ UNCHANGED <<policy, events, payouts, profile>>

NextHour ==
  /\ hour < MaxHour
  /\ hour' = hour + 1
  /\ granted' = [a \in Accounts |->
       [volume |-> IF (hour + 1) \div HoursPerDay = Today THEN granted[a].volume ELSE 0,
        count |-> 0]]
  /\ UNCHANGED <<daily, hourly, events, money, payouts, profile>>

WalletStep(u) ==
  \/ \E amount \in WalletAmounts :
       \/ \E id \in CallerIds \cup DOMAIN events : TreasuryCredit(WalletKey(u), id, amount)
       \/ \E id \in CallerIds : Debit(WalletKey(u), id, amount)
       \/ AddPendingSettlement(WalletKey(u), amount)
       \/ RequestPayout(u, amount)
  \/ SettlePending(WalletKey(u))

Next ==
  \/ \E u \in Users :
       \/ CreateCreatorProfile(WalletKey(u))
       \/ \E gross \in SaleAmounts : Sale(WalletKey(u), gross)
       \/ WalletStep(u)
  \/ \E i \in DOMAIN payouts : CompletePayout(i) \/ FailPayout(i)
  \/ NextHour

Spec == Init /\ [][Next]_vars

-----------------------------------------------------------------------------
Rules == {"POL-001", "POL-002", "POL-003", "approved"}

\* The stores keep their shape; no order of credits, debits, settlements and
\* payouts overdraws a wallet.
TypeOK ==
  /\ hour \in Nat
  /\ daily \in [Accounts -> [date : Int, total : Nat]]
  /\ hourly \in [Accounts -> [hour : Int, count : Nat]]
  /\ events \in Seq([account : Accounts, gross : SaleAmounts, verdict : Rules])
  /\ wallet \in [Accounts -> [balance : Nat, pending : Nat, earned : Nat, paidOut : Int]]
  /\ ledger \subseteq [id : Nat \cup CallerIds, account : Accounts,
                       type : {"credit", "debit"}, amount : Nat]
  /\ payouts \in Seq([user : Users, amount : WalletAmounts,
                      status : {"pending", "completed", "failed"}])
  /\ profile \in [Accounts -> [exists : BOOLEAN, revenue : Nat]]
  /\ granted \in [Accounts -> [volume : Nat, count : Nat]]

Entries(a, type)  == {e \in ledger : e.account = a /\ e.type = type}
Requested(a)      == {i \in DOMAIN payouts : WalletKey(payouts[i].user) = a}
Returned(a)       == {i \in DOMAIN payouts : /\ ReturnKey(payouts[i].user) = a
                                             /\ payouts[i].status = "failed"}
EntrySum(entries) == SumOver([e \in entries |-> e.amount], entries)
PayoutSum(ids)    == SumOver([i \in ids |-> payouts[i].amount], ids)

\* totalPaidOut is what was requested from a wallet less what returned to it,
\* each failed payout to one wallet, once; with it a wallet's balance is what it
\* earned less its debits, and the credits of the ledger were all earned.  A
\* wallet that gets a payout back which another requested has paid out less
\* than nothing.
Conservation ==
  \A a \in Accounts :
    /\ wallet[a].paidOut = PayoutSum(Requested(a)) - PayoutSum(Returned(a))
    /\ wallet[a].balance + wallet[a].paidOut + EntrySum(Entries(a, "debit")) = wallet[a].earned
    /\ EntrySum(Entries(a, "credit")) <= wallet[a].earned

\* What governance approves for an account on one day and in one hour stays
\* within the limits, whatever order of small, large and flagged sales and
\* whatever hour they come in.
LimitsHold ==
  \A a \in Accounts : granted[a].volume <= MaxDaily /\ granted[a].count <= MaxPerHour

\* An approved sale is in its creator's wallet once, with the creator's share;
\* no treasury credit or debit that names the same event takes its place.
ApprovedIsCredited ==
  \A i \in DOMAIN events : events[i].verdict = "approved" =>
    {e \in ledger : e.id = i} =
      {[id |-> i, account |-> events[i].account, type |-> "credit",
        amount |-> Share(events[i].gross)]}

\* A creator's reputation shows no revenue that the wallet did not receive.
ReputationIsEarned == \A a \in Accounts : profile[a].revenue <= wallet[a].earned

InStatus(a, status) ==
  {i \in DOMAIN payouts : WalletKey(payouts[i].user) = a /\ payouts[i].status = status}

\* The wallets whose failed payouts return to them, and that get no others'.
Settled == {a \in Accounts : \A u \in Users : WalletKey(u) = a <=> ReturnKey(u) = a}

WalletFunds == INSTANCE Funds WITH
  Owners <- Settled,
  received <- [a \in Settled |-> wallet[a].earned + wallet[a].pending],
  pending <- [a \in Settled |-> wallet[a].pending],
  available <- [a \in Settled |-> wallet[a].balance],
  held <- [a \in Settled |-> PayoutSum(InStatus(a, "pending"))],
  gone <- [a \in Settled |-> PayoutSum(InStatus(a, "completed")) + EntrySum(Entries(a, "debit"))]

\* The wallets of tenants whose id is one part, their entries and the payouts
\* evolve as Funds, whatever the other tenants do: a step moves one amount of
\* one account, never more than there is to move; only a payout that did not end
\* returns, and its money is delivered or returned, not both.  Of a tenant with a
\* colon it does not hold: failPayout() makes its money available elsewhere.
FundsDiscipline == WalletFunds!Spec
=============================================================================
