--------------------------- MODULE FundMovements ---------------------------
(***************************************************************************)
(* The requests of the persistent service that move an agent's funds       *)
(* without a payment: transfers between accounts, withdrawals, x402        *)
(* outbound transfers and virtual-card payments.  Each of them looks up a  *)
(* marker in Redis, checks, commits one MySQL transaction and writes the   *)
(* marker, and everything else runs in between.                            *)
(*                                                                         *)
(* Unlike payments (module PersistentPay), three of the four leave a row   *)
(* in an order table whose idem_key is UNIQUE, so that MySQL refuses what  *)
(* the marker failed to stop.  A card payment leaves no such row.          *)
(*                                                                         *)
(* TransferVA and TransferFunds differ in their tables only and are one    *)
(* operation here.  The status and limit of a card, which its transaction  *)
(* reads under a lock, only ever refuse a payment; so do the risk rules.   *)
(* Definitions named Mutant_... are no part of the specification (see      *)
(* module Ledger).                                                         *)
(***************************************************************************)
EXTENDS Ledger, FiniteSets, FiniteSetsExt

CONSTANTS
  Handlers,        \* requests that can be in progress at the same time
  Keys,            \* idempotency keys
  MayLoseMarker,   \* can a handler stop between its commit and its marker?
  MayExpire        \* can a marker outlive its 24 hours?

ASSUME MovementAssumption == MayLoseMarker \in BOOLEAN /\ MayExpire \in BOOLEAN

VARIABLES
  marker,    \* Redis: the <<operation, key>> that were answered
  row,       \* rows of fund_transfer_order, fund_withdraw_order and
             \*   x402_outbound_transfer: the requests that were committed
  cardPaid,  \* history: what each agent paid by card, of which no table has a row
  pc,        \* where each handler is
  req        \* the request each handler works on

handlerVars == <<marker, row, cardPaid, pc, req>>
vars == <<ledgerVars, handlerVars>>

Tabled == {"transfer", "withdraw", "outbound"}
Operations == Tabled \union {"card"}

\* to: the receiving agent of a transfer; ref: the order an outbound transfer
\* refers to.
Request(op, a, b, v, i, k) ==
  [op |-> op, from |-> a, to |-> b, amount |-> v, ref |-> i, key |-> k]

Requests ==
  {Request("transfer", a, b, v, 0, k) : a \in Agents, b \in Agents, v \in Amounts, k \in Keys}
    \union {Request(op, a, NoAgent, v, 0, k) :
              op \in {"withdraw", "card"}, a \in Agents, v \in Amounts, k \in Keys}
    \union {Request("outbound", a, NoAgent, v, i, k) :
              a \in Agents, v \in Amounts, i \in 1 .. nextId - 1, k \in Keys}

NoRequest == [op |-> "none"]

Init ==
  /\ LedgerInit
  /\ marker = {}
  /\ row = {}
  /\ cardPaid = [a \in Agents |-> 0]
  /\ pc = [h \in Handlers |-> "idle"]
  /\ req = [h \in Handlers |-> NoRequest]

\* Payable that takes every order that is no longer SETTLING for settled.
Mutant_Payable(r) ==
  /\ order[r.ref].status # "SETTLING"
  /\ order[r.ref].amount = r.amount
  /\ order[r.ref].agent = r.from

\* TransferX402Outbound looks, without a lock, at the order it refers to.
Payable(r) ==
  /\ order[r.ref].status = "SETTLED"
  /\ order[r.ref].amount = r.amount
  /\ order[r.ref].agent = r.from

\* Begin that reserves the key by writing its marker before the commit.
Mutant_Begin(h, r) ==
  /\ pc[h] = "idle"
  /\ <<r.op, r.key>> \notin marker
  /\ r.from # r.to
  /\ r.op = "outbound" => Payable(r)
  /\ pc' = [pc EXCEPT ![h] = "commit"]
  /\ req' = [req EXCEPT ![h] = r]
  /\ marker' = marker \union {<<r.op, r.key>>}
  /\ UNCHANGED <<ledgerVars, row, cardPaid>>

\* A request finds no marker and passes the checks made before the transaction.
Begin(h, r) ==
  /\ pc[h] = "idle"
  /\ <<r.op, r.key>> \notin marker
  /\ r.from # r.to
  /\ r.op = "outbound" => Payable(r)
  /\ pc' = [pc EXCEPT ![h] = "commit"]
  /\ req' = [req EXCEPT ![h] = r]
  /\ UNCHANGED <<ledgerVars, marker, row, cardPaid>>

\* An INSERT that meets its table's UNIQUE KEY on idem_key fails, and the
\* transaction with it.
InsertRow(r) ==
  /\ \A o \in row : ~ (o.op = r.op /\ o.key = r.key)
  /\ row' = row \union {r}

MoveMoney(r) ==
  \/ r.op = "transfer" /\ TransferTx(r.from, r.to, r.amount)
  \/ r.op # "transfer" /\ SpendTx(r.from, r.amount)

\* Commit that writes the row also when the UPDATE found too little money.
Mutant_Commit(h) ==
  LET r == req[h] IN
  /\ pc[h] = "commit"
  /\ \/ MoveMoney(r)
     \/ account[r.from].balance < r.amount /\ UNCHANGED ledgerVars
  /\ \/ r.op \in Tabled /\ InsertRow(r) /\ UNCHANGED cardPaid
     \/ /\ r.op = "card"
        /\ cardPaid' = [cardPaid EXCEPT ![r.from] = @ + r.amount]
        /\ UNCHANGED row
  /\ pc' = [pc EXCEPT ![h] = "mark"]
  /\ UNCHANGED <<marker, req>>

Commit(h) ==
  LET r == req[h] IN
  /\ pc[h] = "commit"
  /\ MoveMoney(r)
  /\ \/ r.op \in Tabled /\ InsertRow(r) /\ UNCHANGED cardPaid
     \/ /\ r.op = "card"
        /\ cardPaid' = [cardPaid EXCEPT ![r.from] = @ + r.amount]
        /\ UNCHANGED row
  /\ pc' = [pc EXCEPT ![h] = "mark"]
  /\ UNCHANGED <<marker, req>>

Answer(h) ==
  /\ pc' = [pc EXCEPT ![h] = "idle"]
  /\ req' = [req EXCEPT ![h] = NoRequest]

\* SetMarker with the prefix and the key the wrong way round.
Mutant_SetMarker(h) ==
  /\ pc[h] = "mark"
  /\ marker' = marker \union {<<req[h].key, req[h].op>>}
  /\ Answer(h)
  /\ UNCHANGED <<ledgerVars, row, cardPaid>>

SetMarker(h) ==
  /\ pc[h] = "mark"
  /\ marker' = marker \union {<<req[h].op, req[h].key>>}
  /\ Answer(h)
  /\ UNCHANGED <<ledgerVars, row, cardPaid>>

\* The request is refused, meets an error or loses its process, before the
\* commit or after it.
GiveUp(h) ==
  /\ \/ pc[h] = "commit"
     \/ pc[h] = "mark" /\ MayLoseMarker
  /\ Answer(h)
  /\ UNCHANGED <<ledgerVars, marker, row, cardPaid>>

Expire(m) ==
  /\ MayExpire
  /\ marker' = marker \ {m}
  /\ UNCHANGED <<ledgerVars, row, cardPaid, pc, req>>

\* Recharges, payments, callbacks, refunds and the job, a transaction each.
LedgerOnly ==
  /\ \/ \E a \in Agents, v \in RechargeAmounts : RechargeTx(a, v)
     \/ PayStep \/ OrderStep \/ TimePasses \/ JobStep
  /\ UNCHANGED handlerVars

Next ==
  \/ \E h \in Handlers :
       \/ \E r \in Requests : Begin(h, r)
       \/ Commit(h) \/ SetMarker(h) \/ GiveUp(h)
  \/ \E m \in marker : Expire(m)
  \/ LedgerOnly

Spec == Init /\ [][Next]_vars

-----------------------------------------------------------------------------
(* Properties *)

TypeOK ==
  /\ LedgerTypeOK
  /\ marker \subseteq Operations \X Keys
  /\ \A o \in row : o.op \in Tabled /\ o.from \in Agents /\ o.amount \in Amounts
  /\ cardPaid \in [Agents -> Nat]
  /\ pc \in [Handlers -> {"idle", "commit", "mark"}]

AmountOf(o) == o.amount

\* The order tables tell the truth about money: whatever requests overlap, lose
\* their markers or are tried again after them, an account received and spent
\* what the rows say, and its card payments.
RowsExplainMoved ==
  \A a \in Agents :
    moved[a] = MapThenSumSet(AmountOf, {o \in row : o.to = a})
                 - MapThenSumSet(AmountOf, {o \in row : o.from = a}) - cardPaid[a]

\* A request that is answered from a marker was really carried out (by one of
\* the same operation and key; what it asked for is not compared).
MarkersAreTrue ==
  \A m \in marker : m[1] \in Tabled => \E o \in row : o.op = m[1] /\ o.key = m[2]

\* An outbound transfer pays on a payment of the same agent and amount that was
\* charged, even if it was refunded between the look at it and the transfer.
OutboundFollowsCharge ==
  \A o \in row :
    o.op = "outbound" =>
      /\ hold[o.ref].status = "DEBITED"
      /\ hold[o.ref].agent = o.from /\ hold[o.ref].amount = o.amount
=============================================================================
