------------------------------- MODULE Ledger -------------------------------
(***************************************************************************)
(* The MySQL ledger of the persistent service: the tables that hold money  *)
(* and payment orders, one action per committed transaction, and the       *)
(* status-compensation job, which works on the tables directly.            *)
(*                                                                         *)
(* A transaction is atomic: the rows it decides on are locked (FOR UPDATE, *)
(* or a conditional UPDATE), and one that meets an error is rolled back,   *)
(* which is no step at all.  What happens between the transactions of one  *)
(* request is modelled in PersistentPay.  The job is not atomic: it reads  *)
(* the SETTLING orders once, without locks, and then runs one transaction  *)
(* per row of what it read.                                                *)
(*                                                                         *)
(* Amounts are integers, in units of the last decimal of DECIMAL(24, 8).   *)
(* Order and hold number i are created by the same transaction; numbers    *)
(* follow creation time, like the UnixNano identifiers of the code.        *)
(*                                                                         *)
(* A definition named Mutant_... is no part of the specification: it is    *)
(* the definition after it with a plausible bug, which some property of    *)
(* the module has to notice.                                               *)
(***************************************************************************)
EXTENDS Integers, Sums

CONSTANTS
  Agents,            \* agent DIDs; each owns one VA account (agent_did is UNIQUE)
  NoAgent,           \* the agent of a row that does not exist yet
  MaxOrders,         \* bound: payments ever attempted against the channel
  Amounts,           \* payment and transfer amounts
  RechargeAmounts,   \* recharge amounts; a reversal is negative
  MaxRecharge,       \* bound on one account's recharges, net of reversals
  Jobs,              \* server instances, each running the compensation job
  Subscribed         \* the events some developer_webhook row is registered for

Orders == 1 .. MaxOrders

ASSUME LedgerAssumption ==
  /\ NoAgent \notin Agents
  /\ MaxOrders \in Nat
  /\ Amounts \subseteq Nat \ {0}
  /\ RechargeAmounts \subseteq Int \ {0}
  /\ MaxRecharge \in Int

VARIABLES
  account,    \* asset_va_account: balance and frozen_balance by agent
  hold,       \* account_hold rows
  order,      \* pay_order rows
  nextId,     \* the number the next hold and order get
  recharged,  \* SUM(amount) of each account's fund_recharge_order rows
  moved,      \* net amount each account got by transfers, minus what it spent
              \*   by withdrawals, x402 outbound transfers and card payments
  outbox,     \* webhook_delivery_task rows, one per event and order
  refunds,    \* history: the orders whose amount a refund gave back
  agedUpTo,   \* orders numbered up to this are more than 5 minutes old
  scanned     \* rows each compensation job has read and not yet handled

ledgerVars ==
  <<account, hold, order, nextId, recharged, moved, outbox, refunds,
    agedUpTo, scanned>>

HoldStatus  == {"NONE", "FROZEN", "DEBITED", "RELEASED"}
OrderStatus == {"NONE", "SETTLING", "SETTLED", "FAILED", "REFUNDED"}
Events      == {"payment.settled", "payment.refunded"}

Account  == [balance : Int, frozen : Int]
HoldRow  == [agent : Agents \union {NoAgent}, amount : Nat, status : HoldStatus]
OrderRow == [agent : Agents \union {NoAgent}, amount : Nat, status : OrderStatus]

NoRow == [agent |-> NoAgent, amount |-> 0, status |-> "NONE"]

Row(a, v, s) == [agent |-> a, amount |-> v, status |-> s]

LedgerInit ==
  /\ account = [a \in Agents |-> [balance |-> 0, frozen |-> 0]]
  /\ hold = [i \in Orders |-> NoRow]
  /\ order = [i \in Orders |-> NoRow]
  /\ nextId = 1
  /\ recharged = [a \in Agents |-> 0]
  /\ moved = [a \in Agents |-> 0]
  /\ outbox = {}
  /\ refunds = {}
  /\ agedUpTo = 0
  /\ scanned = [j \in Jobs |-> {}]

-----------------------------------------------------------------------------
(***************************************************************************)
(* The three updates of an account row.  The last two carry the condition  *)
(* frozen_balance >= amount in their WHERE clause and nobody looks at the  *)
(* number of affected rows: when it fails, the account stays as it was and *)
(* the transaction goes on.                                                *)
(***************************************************************************)
Frozen(acc, v) == [balance |-> acc.balance - v, frozen |-> acc.frozen + v]

Debited(acc, v) ==
  IF acc.frozen >= v THEN [acc EXCEPT !.frozen = @ - v] ELSE acc

Released(acc, v) ==
  IF acc.frozen >= v
  THEN [balance |-> acc.balance + v, frozen |-> acc.frozen - v]
  ELSE acc

Credit(a, v) == account' = [account EXCEPT ![a].balance = @ + v]

\* enqueueWebhookEventTx: INSERT IGNORE, unique on webhook, event and order.
Announce(event, i) ==
  outbox' = outbox \union (IF event \in Subscribed THEN {<<event, i>>} ELSE {})

-----------------------------------------------------------------------------
\* RechargeTx with the check of a reversal against the balance left out.
Mutant_RechargeTx(a, v) ==
  /\ recharged[a] + v <= MaxRecharge
  /\ Credit(a, v)
  /\ recharged' = [recharged EXCEPT ![a] = @ + v]
  /\ UNCHANGED <<hold, order, nextId, moved, outbox, refunds, agedUpTo, scanned>>

(***************************************************************************)
(* Recharge.  A negative amount is a reversal; the code adds it first and  *)
(* then compares the new balance with the amount it took away.             *)
(***************************************************************************)
RechargeTx(a, v) ==
  /\ v < 0 => account[a].balance + v >= -v
  /\ recharged[a] + v <= MaxRecharge
  /\ Credit(a, v)
  /\ recharged' = [recharged EXCEPT ![a] = @ + v]
  /\ UNCHANGED <<hold, order, nextId, moved, outbox, refunds, agedUpTo, scanned>>

\* TransferVA and TransferFunds: debit, credit and order row in one transaction.
TransferTx(a, b, v) ==
  /\ a # b
  /\ account[a].balance >= v
  /\ account' = [account EXCEPT ![a].balance = @ - v, ![b].balance = @ + v]
  /\ moved' = [moved EXCEPT ![a] = @ - v, ![b] = @ + v]
  /\ UNCHANGED <<hold, order, nextId, recharged, outbox, refunds, agedUpTo, scanned>>

\* WithdrawFunds, TransferX402Outbound and PayVirtualCard: money leaves.
SpendTx(a, v) ==
  /\ account[a].balance >= v
  /\ Credit(a, -v)
  /\ moved' = [moved EXCEPT ![a] = @ - v]
  /\ UNCHANGED <<hold, order, nextId, recharged, outbox, refunds, agedUpTo, scanned>>

-----------------------------------------------------------------------------
(***************************************************************************)
(* Pay's transaction: freezeAmountTx, then what the channel answered.  The *)
(* hold row is written in its final status; the account update is that of  *)
(* every statement in turn.                                                *)
(***************************************************************************)
OpenPayment(a, v, holdStatus, newAccount) ==
  /\ nextId <= MaxOrders
  /\ account[a].balance >= v
  /\ account' = [account EXCEPT ![a] = newAccount]
  /\ hold' = [hold EXCEPT ![nextId] = Row(a, v, holdStatus)]
  /\ nextId' = nextId + 1
  /\ UNCHANGED <<recharged, moved, outbox, refunds, agedUpTo, scanned>>

\* The channel failed: the hold is released again and no order is written.
PayFailedTx(a, v) ==
  /\ OpenPayment(a, v, "RELEASED", Released(Frozen(account[a], v), v))
  /\ UNCHANGED order

\* The channel answers later: the order waits for a callback.
PaySettlingTx(a, v) ==
  /\ OpenPayment(a, v, "FROZEN", Frozen(account[a], v))
  /\ order' = [order EXCEPT ![nextId] = Row(a, v, "SETTLING")]

\* The channel settled at once.
PaySettledTx(a, v) ==
  /\ OpenPayment(a, v, "DEBITED", Debited(Frozen(account[a], v), v))
  /\ order' = [order EXCEPT ![nextId] = Row(a, v, "SETTLED")]

-----------------------------------------------------------------------------
\* debitHoldTx: the hold row is selected with status = 'FROZEN', or it fails.
DebitHoldTx(i) ==
  /\ hold[i].status = "FROZEN"
  /\ account' = [account EXCEPT ![hold[i].agent] = Debited(@, hold[i].amount)]
  /\ hold' = [hold EXCEPT ![i].status = "DEBITED"]

\* releaseHoldTx with a status that nothing else knows.
Mutant_ReleaseHoldTx(i) ==
  /\ hold[i].status = "FROZEN"
  /\ account' = [account EXCEPT ![hold[i].agent] = Released(@, hold[i].amount)]
  /\ hold' = [hold EXCEPT ![i].status = "UNFROZEN"]

\* releaseHoldTx, under the same condition.
ReleaseHoldTx(i) ==
  /\ hold[i].status = "FROZEN"
  /\ account' = [account EXCEPT ![hold[i].agent] = Released(@, hold[i].amount)]
  /\ hold' = [hold EXCEPT ![i].status = "RELEASED"]

\* ResolveSettling(i, true)
SettleTx(i) ==
  /\ order[i].status = "SETTLING"
  /\ DebitHoldTx(i)
  /\ order' = [order EXCEPT ![i].status = "SETTLED"]
  /\ Announce("payment.settled", i)
  /\ UNCHANGED <<nextId, recharged, moved, refunds, agedUpTo, scanned>>

\* FailTx that forgets to release the hold.
Mutant_FailTx_KeepsHold(i) ==
  /\ order[i].status = "SETTLING"
  /\ order' = [order EXCEPT ![i].status = "FAILED"]
  /\ UNCHANGED <<account, hold, nextId, recharged, moved, outbox, refunds, agedUpTo,
                 scanned>>

\* FailTx that announces the payment like SettleTx does.
Mutant_FailTx_Announces(i) ==
  /\ order[i].status = "SETTLING"
  /\ ReleaseHoldTx(i)
  /\ order' = [order EXCEPT ![i].status = "FAILED"]
  /\ Announce("payment.settled", i)
  /\ UNCHANGED <<nextId, recharged, moved, refunds, agedUpTo, scanned>>

\* ResolveSettling(i, false), from the callback and from Unfreeze
FailTx(i) ==
  /\ order[i].status = "SETTLING"
  /\ ReleaseHoldTx(i)
  /\ order' = [order EXCEPT ![i].status = "FAILED"]
  /\ UNCHANGED <<nextId, recharged, moved, outbox, refunds, agedUpTo, scanned>>

\* RefundTx that leaves the order SETTLED.
Mutant_RefundTx(i) ==
  /\ order[i].status = "SETTLED"
  /\ Credit(order[i].agent, order[i].amount)
  /\ refunds' = refunds \union {i}
  /\ Announce("payment.refunded", i)
  /\ UNCHANGED <<hold, order, nextId, recharged, moved, agedUpTo, scanned>>

\* Refund: only a SETTLED order; the full amount goes back to the balance.
RefundTx(i) ==
  /\ order[i].status = "SETTLED"
  /\ Credit(order[i].agent, order[i].amount)
  /\ order' = [order EXCEPT ![i].status = "REFUNDED"]
  /\ refunds' = refunds \union {i}
  /\ Announce("payment.refunded", i)
  /\ UNCHANGED <<hold, nextId, recharged, moved, agedUpTo, scanned>>

-----------------------------------------------------------------------------
(***************************************************************************)
(* RunStatusCompensation.  The scan reads the SETTLING orders older than   *)
(* five minutes; each of them is then handled in a transaction of its own, *)
(* which looks at the hold again but not at the order: it is set to FAILED *)
(* whatever it has become.                                                 *)
(***************************************************************************)
TimePasses ==
  \E n \in Orders :
    /\ agedUpTo < n /\ n < nextId
    /\ agedUpTo' = n
    /\ UNCHANGED <<account, hold, order, nextId, recharged, moved, outbox,
                   refunds, scanned>>

\* The scan's comparison off by one: the last order to grow old never does.
Mutant_Stale == {i \in Orders : order[i].status = "SETTLING" /\ i < agedUpTo}

Stale == {i \in Orders : order[i].status = "SETTLING" /\ i <= agedUpTo}

CompensationScan(j) ==
  /\ scanned[j] = {}
  /\ Stale # {}
  /\ scanned' = [scanned EXCEPT ![j] = Stale]
  /\ UNCHANGED <<account, hold, order, nextId, recharged, moved, outbox,
                 refunds, agedUpTo>>

\* CompensateTx that trusts the scan and does not look at the hold again.
Mutant_CompensateTx(j, i) ==
  /\ i \in scanned[j]
  /\ account' = [account EXCEPT ![hold[i].agent] = Released(@, hold[i].amount)]
  /\ hold' = [hold EXCEPT ![i].status = "RELEASED"]
  /\ order' = [order EXCEPT ![i].status = "FAILED"]
  /\ scanned' = [scanned EXCEPT ![j] = @ \ {i}]
  /\ UNCHANGED <<nextId, recharged, moved, outbox, refunds, agedUpTo>>

CompensateTx(j, i) ==
  /\ i \in scanned[j]
  /\ \/ ReleaseHoldTx(i)
     \/ hold[i].status # "FROZEN" /\ UNCHANGED <<account, hold>>
  /\ order' = [order EXCEPT ![i].status = "FAILED"]
  /\ scanned' = [scanned EXCEPT ![j] = @ \ {i}]
  /\ UNCHANGED <<nextId, recharged, moved, outbox, refunds, agedUpTo>>

\* An error ends the run of the job; so does the end of its process.
CompensationAborts(j) ==
  /\ scanned[j] # {}
  /\ scanned' = [scanned EXCEPT ![j] = {}]
  /\ UNCHANGED <<account, hold, order, nextId, recharged, moved, outbox,
                 refunds, agedUpTo>>

-----------------------------------------------------------------------------
FundStep ==
  \/ \E a \in Agents, v \in RechargeAmounts : RechargeTx(a, v)
  \/ \E a, b \in Agents, v \in Amounts : TransferTx(a, b, v)
  \/ \E a \in Agents, v \in Amounts : SpendTx(a, v)

PayStep ==
  \E a \in Agents, v \in Amounts :
    PayFailedTx(a, v) \/ PaySettlingTx(a, v) \/ PaySettledTx(a, v)

OrderStep == \E i \in Orders : SettleTx(i) \/ FailTx(i) \/ RefundTx(i)

JobStep ==
  \E j \in Jobs :
    \/ CompensationScan(j)
    \/ \E i \in Orders : CompensateTx(j, i)
    \/ CompensationAborts(j)

LedgerNext == FundStep \/ PayStep \/ OrderStep \/ TimePasses \/ JobStep

LedgerSpec == LedgerInit /\ [][LedgerNext]_ledgerVars

(***************************************************************************)
(* Time passes, every instance's ticker fires again and again, and a       *)
(* transaction of the job that is tried again and again is not rolled back *)
(* for ever.  Nobody owes a callback, an unfreeze or a refund.             *)
(***************************************************************************)
LedgerFairness ==
  /\ WF_ledgerVars(TimePasses)
  /\ \A j \in Jobs :
       /\ WF_ledgerVars(CompensationScan(j))
       /\ \A i \in Orders : SF_ledgerVars(CompensateTx(j, i))

FairLedgerSpec == LedgerSpec /\ LedgerFairness

-----------------------------------------------------------------------------
(* Properties *)

LedgerTypeOK ==
  /\ account \in [Agents -> Account]
  /\ hold \in [Orders -> HoldRow]
  /\ order \in [Orders -> OrderRow]
  /\ nextId \in 1 .. MaxOrders + 1
  /\ recharged \in [Agents -> Int]
  /\ moved \in [Agents -> Int]
  /\ outbox \subseteq Events \X Orders
  /\ refunds \subseteq Orders
  /\ agedUpTo \in 0 .. MaxOrders
  /\ scanned \in [Jobs -> SUBSET Orders]

\* The amounts of agent a's holds in a status, by number.
HoldAmounts(a, status) ==
  [i \in Orders |-> IF hold[i].agent = a /\ hold[i].status = status
                    THEN hold[i].amount ELSE 0]

\* The counter frozen_balance is always the sum of the agent's FROZEN holds,
\* so the unchecked WHERE frozen_balance >= amount of debitHoldTx,
\* releaseHoldTx and the compensation job never silently skips an update.
FrozenIsSumOfHolds ==
  \A a \in Agents : account[a].frozen = Total(HoldAmounts(a, "FROZEN"), MaxOrders)

Charges(a) ==
  [i \in Orders |-> IF hold[i].agent = a /\ hold[i].status = "DEBITED" /\ i \notin refunds
                    THEN hold[i].amount ELSE 0]

\* No transaction, in any order, creates or destroys money: what an account
\* holds, free and frozen, is what came in minus the charges not given back.
MoneyConserved ==
  \A a \in Agents :
    account[a].balance + account[a].frozen
      = recharged[a] + moved[a] - Total(Charges(a), MaxOrders)

\* Neither column of an account goes below zero, reversals included.
NoOverdraft == \A a \in Agents : account[a].balance >= 0 /\ account[a].frozen >= 0

\* What an order's status says happened to its hold, except FAILED, which the
\* compensation job also writes over orders that were already resolved.
OrderMatchesHold ==
  \A i \in Orders :
    /\ order[i].status = "SETTLING" <=> hold[i].status = "FROZEN"
    /\ order[i].status = "SETTLED" => hold[i].status = "DEBITED" /\ i \notin refunds
    /\ order[i].status = "REFUNDED" => hold[i].status = "DEBITED" /\ i \in refunds
    /\ hold[i].status = "RELEASED" => order[i].status \in {"NONE", "FAILED"}
    /\ order[i].status # "NONE" =>
         order[i].agent = hold[i].agent /\ order[i].amount = hold[i].amount

\* The rows hang together: numbers are used in order and once, a hold of an
\* agent always has an amount, only a charge is ever refunded, and the job
\* only ever holds numbers of orders that exist.
RowsWellFormed ==
  /\ \A i \in Orders :
       /\ i < nextId => hold[i].status # "NONE" /\ hold[i].agent \in Agents /\ hold[i].amount > 0
       /\ i >= nextId => hold[i] = NoRow /\ order[i] = NoRow
       /\ i \in refunds =>
            hold[i].status = "DEBITED" /\ order[i].status \in {"REFUNDED", "FAILED"}
  /\ agedUpTo < nextId
  /\ \A j \in Jobs : \A i \in scanned[j] : order[i].status # "NONE"

\* The transactional outbox: a webhook task exists only for money that really
\* moved, and no refund is lost or announced without having happened.
AnnouncedMoneyMoved ==
  /\ \A i \in Orders : <<"payment.settled", i>> \in outbox => hold[i].status = "DEBITED"
  /\ "payment.refunded" \in Subscribed =>
       refunds = {i \in Orders : <<"payment.refunded", i>> \in outbox}

\* A hold is decided once: no callback, unfreeze or job ever takes a debited
\* or released hold up again; and an order, once FAILED or REFUNDED, never
\* becomes payable or refundable again.
DecidedOnce ==
  [][\A i \in Orders :
       /\ hold[i].status \in {"DEBITED", "RELEASED"} => hold'[i] = hold[i]
       /\ order[i].status \in {"FAILED", "REFUNDED"} =>
            order'[i].status \in {"FAILED", "REFUNDED"}]_<<hold, order>>

\* The job leaves no order SETTLING for ever, with or without a callback.
SettlingEnds ==
  \A i \in Orders : order[i].status = "SETTLING" ~> order[i].status # "SETTLING"

\* The claim of the product document (line 831): a payment that ended FAILED
\* has had its money restored.
FailedMeansRestored ==
  \A i \in Orders :
    order[i].status = "FAILED" => hold[i].status = "RELEASED" \/ i \in refunds

-----------------------------------------------------------------------------
(***************************************************************************)
(* The refinement: the balance is what can be spent, and the state of a    *)
(* payment is read off its hold, never off the status of its order.        *)
(***************************************************************************)
SpendableView == [a \in Agents |-> account[a].balance]

PaymentView ==
  [i \in Orders |->
     [agent  |-> hold[i].agent,
      amount |-> hold[i].amount,
      state  |-> CASE hold[i].status = "NONE"     -> "none"
                   [] hold[i].status = "FROZEN"   -> "held"
                   [] hold[i].status = "RELEASED" -> "returned"
                   [] hold[i].status = "DEBITED"  ->
                        IF i \in refunds THEN "refunded" ELSE "charged"]]

E == INSTANCE Escrow WITH
       Payments <- Orders, spendable <- SpendableView, payment <- PaymentView

\* Every transaction of the ledger, the compensation job's included, does to
\* the agents' money what the escrow promises, or nothing.
ImplementsEscrow == E!EscrowSpec
=============================================================================
