------------------------ MODULE PersistentPay_proofs ------------------------
(***************************************************************************)
(* Theorems about the request handlers, for any handlers, keys, limits and *)
(* failures: every theorem about the ledger is one about them; what they   *)
(* answer is true; and a key charges no more often than requests for it    *)
(* were in progress at once and charges were forgotten.                    *)
(***************************************************************************)
EXTENDS PersistentPay, FiniteSetTheorems, Ledger_proofs

\* A request with what its operation needs.
ValidRequest(r) ==
  /\ r.key \in KeysOf(r.op)
  /\ r.op = "pay" => r.agent \in Agents /\ r.amount \in Amounts
  /\ r.op = "recharge" => r.agent \in Agents /\ r.amount \in RechargeAmounts
  /\ r.op \in {"unfreeze", "refund"} => r.id \in Orders

\* The type of a request, complete or not, and of a reply.
RequestType ==
  [op : Operations, agent : Agents \union {NoAgent}, amount : Int,
   key : Keys \union {NoKey}, id : 0 .. MaxOrders]

ReplyType ==
  [status : {"SETTLING", "SETTLED", "FAILED", "REFUNDED", "OK"},
   source : {"nothing", "marker", "row", "guess", "commit"}]

Phases == {"idle", "found", "check", "commit", "mark", "told"}

\* What the handlers rely on between their steps.
HandlersInv ==
  /\ nextId \in 1 .. MaxOrders + 1
  /\ marker \in [Keys -> {None} \union 0 .. MaxOrders]
  /\ dayStart \in 0 .. MaxOrders
  /\ pc \in [Handlers -> Phases]
  /\ req \in [Handlers -> RequestType]
  /\ reply = [h \in Handlers |-> reply[h]]
  /\ chargedFor \in [Orders -> Keys \union {NoKey}]
  /\ forgotten \in [Keys -> Nat]
  /\ peak \in [Keys -> Nat]
  /\ \A h \in Handlers :
       /\ pc[h] \in {"check", "commit", "mark"} => ValidRequest(req[h])
       /\ pc[h] # "idle" => req[h].key \in Keys
       /\ pc[h] = "check" => req[h].op = "pay"

\* A key of an operation is one of the keys.
LEMMA KeysTyped ==
  ASSUME NEW op \in Operations, NEW k \in KeysOf(op)
  PROVE  k \in Keys
BY DEF Keys

\* What a client sends has what its operation needs.
LEMMA RequestsValid ==
  ASSUME nextId \in 1 .. MaxOrders + 1, NEW r \in Requests
  PROVE  r \in RequestType /\ ValidRequest(r) /\ r.key \in Keys
<1> USE LedgerAssumption, PayAssumption
<1>0. /\ KeysOf("pay") = PayKeys /\ KeysOf("recharge") = RechargeKeys
      /\ KeysOf("unfreeze") = UnfreezeKeys /\ KeysOf("refund") = RefundKeys
  BY DEF KeysOf
<1>1. /\ PayKeys \subseteq Keys /\ RechargeKeys \subseteq Keys
      /\ UnfreezeKeys \subseteq Keys /\ RefundKeys \subseteq Keys
  BY <1>0, KeysTyped DEF Operations
<1>2. ASSUME NEW a \in Agents, NEW v \in Amounts, NEW k \in PayKeys,
             r = Request("pay", a, v, k, 0)
      PROVE  r \in RequestType /\ ValidRequest(r) /\ r.key \in Keys
  BY <1>0, <1>1, <1>2 DEF Request, RequestType, ValidRequest, Operations
<1>3. ASSUME NEW a \in Agents, NEW v \in RechargeAmounts, NEW k \in RechargeKeys,
             r = Request("recharge", a, v, k, 0)
      PROVE  r \in RequestType /\ ValidRequest(r) /\ r.key \in Keys
  BY <1>0, <1>1, <1>3 DEF Request, RequestType, ValidRequest, Operations
<1>4. ASSUME NEW k \in UnfreezeKeys, NEW i \in 1 .. nextId - 1,
             r = Request("unfreeze", NoAgent, 0, k, i)
      PROVE  r \in RequestType /\ ValidRequest(r) /\ r.key \in Keys
  BY <1>0, <1>1, <1>4 DEF Request, RequestType, ValidRequest, Operations, Orders
<1>5. ASSUME NEW k \in RefundKeys, NEW i \in 1 .. nextId - 1,
             r = Request("refund", NoAgent, 0, k, i)
      PROVE  r \in RequestType /\ ValidRequest(r) /\ r.key \in Keys
  BY <1>0, <1>1, <1>5 DEF Request, RequestType, ValidRequest, Operations, Orders
<1>6. QED
  BY <1>2, <1>3, <1>4, <1>5 DEF Requests

\* What is counted of a key is finite.
LEMMA CountsTyped ==
  ASSUME NEW k
  PROVE  /\ IsFiniteSet(ChargesFor(k)) /\ Cardinality(ChargesFor(k)) \in Nat
         /\ IsFiniteSet(InProgress(k)) /\ Cardinality(InProgress(k)) \in Nat
<1>1. IsFiniteSet(Orders)
  BY LedgerAssumption, FS_Interval DEF Orders
<1>2. ChargesFor(k) \in SUBSET Orders /\ InProgress(k) \in SUBSET Handlers
  BY DEF ChargesFor, InProgress
<1>3. QED
  BY <1>1, <1>2, FS_Subset, FS_CardinalityType, PayAssumption

\* Numbers are only ever handed out, one at a time and within the bound.
LEMMA NumbersGrow ==
  ASSUME nextId \in 1 .. MaxOrders + 1, [LedgerNext]_ledgerVars
  PROVE  nextId' \in 1 .. MaxOrders + 1 /\ nextId <= nextId'
<1>1. CASE UNCHANGED nextId
  BY <1>1
<1>2. CASE nextId <= MaxOrders /\ nextId' = nextId + 1
  BY <1>2, LedgerAssumption
<1>3. nextId' = nextId \/ (nextId <= MaxOrders /\ nextId' = nextId + 1)
  <2>1. CASE FundStep
    BY <2>1 DEF FundStep, RechargeTx, TransferTx, SpendTx, Credit
  <2>2. CASE PayStep
    BY <2>2 DEF PayStep, PayFailedTx, PaySettlingTx, PaySettledTx, OpenPayment
  <2>3. CASE OrderStep
    BY <2>3 DEF OrderStep, SettleTx, FailTx, RefundTx
  <2>4. CASE TimePasses
    BY <2>4 DEF TimePasses
  <2>5. CASE JobStep
    BY <2>5 DEF JobStep, CompensationScan, CompensateTx, CompensationAborts
  <2>6. CASE UNCHANGED ledgerVars
    BY <2>6 DEF ledgerVars
  <2>7. QED
    BY <2>1, <2>2, <2>3, <2>4, <2>5, <2>6 DEF LedgerNext
<1>4. QED
  BY <1>1, <1>2, <1>3

\* A step of a handler, of Redis, of the clock or of another request is a
\* transaction of the ledger or leaves the tables alone.
LEMMA StepImplementsLedger ==
  ASSUME HandlersInv, [Next]_vars
  PROVE  [LedgerNext]_ledgerVars
<1>1. ASSUME NEW h \in Handlers, CommitPay(h)
      PROVE  LedgerNext
  <2>1. req[h].agent \in Agents /\ req[h].amount \in Amounts
    BY <1>1 DEF CommitPay, HandlersInv, ValidRequest
  <2>2. QED
    BY <1>1, <2>1 DEF CommitPay, LedgerNext, PayStep
<1>2. ASSUME NEW h \in Handlers, CommitFailedPay(h)
      PROVE  LedgerNext
  <2>1. req[h].agent \in Agents /\ req[h].amount \in Amounts
    BY <1>2 DEF CommitFailedPay, HandlersInv, ValidRequest
  <2>2. QED
    BY <1>2, <2>1 DEF CommitFailedPay, LedgerNext, PayStep
<1>3. ASSUME NEW h \in Handlers, CommitOther(h)
      PROVE  LedgerNext
  <2>1. /\ req[h].op = "recharge" => req[h].agent \in Agents /\ req[h].amount \in RechargeAmounts
        /\ req[h].op \in {"unfreeze", "refund"} => req[h].id \in Orders
    BY <1>3 DEF CommitOther, HandlersInv, ValidRequest
  <2>2. QED
    BY <1>3, <2>1 DEF CommitOther, LedgerNext, FundStep, OrderStep
<1>4. ASSUME NEW h \in Handlers, HandlerStep(h)
      PROVE  LedgerNext \/ UNCHANGED ledgerVars
  BY <1>1, <1>2, <1>3, <1>4
     DEF HandlerStep, Begin, Start, Replay, ReadStatus, CheckRule, SetMarker, Receive, GiveUp, LoseMarker
<1>5. ASSUME LedgerOnly
      PROVE  LedgerNext
  BY <1>5 DEF LedgerOnly, LedgerNext, OrderStep, FundStep
<1>6. QED
  BY <1>4, <1>5 DEF Next, Expire, Midnight, vars

\* Every step leaves the handlers with the requests they need to go on.
LEMMA HandlersStep ==
  ASSUME HandlersInv, [Next]_vars
  PROVE  HandlersInv'
<1> USE LedgerAssumption, PayAssumption
<1>1. nextId' \in 1 .. MaxOrders + 1 /\ nextId <= nextId'
  BY StepImplementsLedger, NumbersGrow DEF HandlersInv
<1>2. ASSUME NEW h \in Handlers, Answer(h),
             marker' \in [Keys -> {None} \union 0 .. MaxOrders],
             forgotten' \in [Keys -> Nat],
             UNCHANGED <<dayStart, chargedFor, peak>>
      PROVE  HandlersInv'
  <2>1. NoRequest \in RequestType
    BY DEF NoRequest, Request, RequestType, Operations
  <2>2. /\ pc' = [pc EXCEPT ![h] = "idle"]
        /\ req' = [req EXCEPT ![h] = NoRequest]
        /\ reply' = [reply EXCEPT ![h] = NoReply]
    BY <1>2 DEF Answer
  <2>3. pc' \in [Handlers -> Phases] /\ req' \in [Handlers -> RequestType] /\ reply' = [g \in Handlers |-> reply'[g]]
    BY <2>1, <2>2 DEF HandlersInv, Phases
  <2>4. ASSUME NEW g \in Handlers
        PROVE  /\ pc'[g] \in {"check", "commit", "mark"} => ValidRequest(req'[g])
               /\ pc'[g] # "idle" => req'[g].key \in Keys
               /\ pc'[g] = "check" => req'[g].op = "pay"
    BY <2>2 DEF HandlersInv
  <2>5. QED
    BY <1>1, <1>2, <2>3, <2>4 DEF HandlersInv, ValidRequest
<1>3. ASSUME NEW h \in Handlers, NEW p \in Phases, NEW r \in RequestType, NEW q,
             p \in {"check", "commit", "mark"} => ValidRequest(r), r.key \in Keys,
             p = "check" => r.op = "pay",
             pc' = [pc EXCEPT ![h] = p], req' = [req EXCEPT ![h] = r],
             reply' = [reply EXCEPT ![h] = q],
             UNCHANGED <<marker, dayStart, forgotten>>,
             chargedFor' \in [Orders -> Keys \union {NoKey}],
             peak' \in [Keys -> Nat]
      PROVE  HandlersInv'
  <2>1. pc' \in [Handlers -> Phases] /\ req' \in [Handlers -> RequestType] /\ reply' = [g \in Handlers |-> reply'[g]]
    BY <1>3 DEF HandlersInv
  <2>2. ASSUME NEW g \in Handlers
        PROVE  /\ pc'[g] \in {"check", "commit", "mark"} => ValidRequest(req'[g])
               /\ pc'[g] # "idle" => req'[g].key \in Keys
               /\ pc'[g] = "check" => req'[g].op = "pay"
    <3>1. CASE g = h
      BY <1>3, <3>1 DEF HandlersInv
    <3>2. CASE g # h
      BY <1>3, <3>2 DEF HandlersInv
    <3>3. QED
      BY <3>1, <3>2
  <2>3. QED
    BY <1>1, <1>3, <2>1, <2>2 DEF HandlersInv, ValidRequest
<1>4. ASSUME UNCHANGED <<pc, req, reply, chargedFor, peak>>,
             marker' \in [Keys -> {None} \union 0 .. MaxOrders],
             forgotten' \in [Keys -> Nat],
             dayStart' \in 0 .. MaxOrders
      PROVE  HandlersInv'
  BY <1>1, <1>4 DEF HandlersInv, ValidRequest
<1>5. ASSUME NEW h \in Handlers, NEW r \in Requests, Begin(h, r)
      PROVE  HandlersInv'
  <2>1. r \in RequestType /\ ValidRequest(r) /\ r.key \in Keys
    BY RequestsValid DEF HandlersInv
  <2>2. peak' \in [Keys -> Nat]
    <3>1. \A k \in Keys : Cardinality(InProgress(k)') \in Nat
      <4>1. ASSUME NEW k \in Keys
            PROVE  InProgress(k)' \in SUBSET Handlers
        BY DEF InProgress
      <4>2. QED
        BY <4>1, FS_Subset, FS_CardinalityType
    <3>2. QED
      BY <1>5, <3>1 DEF Begin, Start, HandlersInv
  <2>3. PICK p \in {"check", "commit"} : p = FirstStep(r) /\ (p = "check" => r.op = "pay")
    BY DEF FirstStep
  <2>4. pc' = [pc EXCEPT ![h] = p] /\ req' = [req EXCEPT ![h] = r] /\ reply' = [reply EXCEPT ![h] = reply[h]]
    BY <1>5, <2>3 DEF Begin, Start, HandlersInv
  <2>5. p \in Phases
    BY DEF Phases
  <2>6. UNCHANGED <<marker, dayStart, forgotten>> /\ chargedFor' \in [Orders -> Keys \union {NoKey}]
    BY <1>5 DEF Begin, Start, HandlersInv
  <2>7. p \in {"check", "commit", "mark"} => ValidRequest(r)
    BY <2>1
  <2>8. QED
    BY <1>3, <2>1, <2>2, <2>3, <2>4, <2>5, <2>6, <2>7
<1>6. ASSUME NEW h \in Handlers, NEW r \in Requests, Replay(h, r)
      PROVE  HandlersInv'
  <2>1. r \in RequestType /\ r.key \in Keys
    BY RequestsValid DEF HandlersInv
  <2>2. marker[r.key] \in 0 .. MaxOrders
    BY <1>6, <2>1 DEF Replay, Marked, HandlersInv
  <2>3. PICK q : q = [r EXCEPT !.id = marker[r.key]]
    OBVIOUS
  <2>4. q \in RequestType /\ q.key \in Keys
    BY <2>1, <2>2, <2>3 DEF RequestType
  <2>5. PICK p \in {"found", "told"} : pc' = [pc EXCEPT ![h] = p]
    BY <1>6 DEF Replay
  <2>6. p \in Phases
    BY DEF Phases
  <2>7. QED
    BY <1>3, <1>6, <2>3, <2>4, <2>5, <2>6 DEF Replay, HandlersInv, history
<1>7. ASSUME NEW h \in Handlers, ReadStatus(h)
      PROVE  HandlersInv'
  <2>1. req[h] \in RequestType /\ req[h].key \in Keys /\ req' = [req EXCEPT ![h] = req[h]]
    BY <1>7 DEF ReadStatus, HandlersInv
  <2>2. PICK q : reply' = [reply EXCEPT ![h] = q]
    BY <1>7 DEF ReadStatus
  <2>3. QED
    BY <1>3, <1>7, <2>1, <2>2 DEF ReadStatus, HandlersInv, history, Phases
<1>8. ASSUME NEW h \in Handlers, CheckRule(h)
      PROVE  HandlersInv'
  <2>1. /\ req[h] \in RequestType /\ ValidRequest(req[h]) /\ req[h].key \in Keys
        /\ req' = [req EXCEPT ![h] = req[h]] /\ reply' = [reply EXCEPT ![h] = reply[h]]
    BY <1>8 DEF CheckRule, HandlersInv
  <2>2. /\ pc' = [pc EXCEPT ![h] = "commit"] /\ "commit" \in Phases
        /\ UNCHANGED <<marker, dayStart, forgotten>>
        /\ chargedFor' \in [Orders -> Keys \union {NoKey}] /\ peak' \in [Keys -> Nat]
    BY <1>8 DEF CheckRule, HandlersInv, history, Phases
  <2>3. QED
    BY <1>3, <2>1, <2>2
<1>9. ASSUME NEW h \in Handlers, NEW i \in 0 .. MaxOrders, NEW s, pc[h] = "commit",
             Committed(h, i, s), req[h].op \in {"unfreeze", "refund"} => i \in Orders,
             UNCHANGED <<marker, dayStart, forgotten, peak>>,
             chargedFor' \in [Orders -> Keys \union {NoKey}]
      PROVE  HandlersInv'
  <2>1. req[h] \in RequestType /\ ValidRequest(req[h]) /\ req[h].key \in Keys
    BY <1>9 DEF HandlersInv
  <2>2. PICK r : r = [req[h] EXCEPT !.id = i]
    OBVIOUS
  <2>3. r \in RequestType /\ ValidRequest(r) /\ r.key \in Keys
    BY <1>9, <2>1, <2>2 DEF RequestType, ValidRequest
  <2>4. /\ pc' = [pc EXCEPT ![h] = "mark"] /\ req' = [req EXCEPT ![h] = r]
        /\ reply' = [reply EXCEPT ![h] = Reply(s, "commit")]
    BY <1>9, <2>2 DEF Committed
  <2>5. QED
    BY <1>3, <1>9, <2>3, <2>4 DEF Phases, HandlersInv
<1>10. ASSUME NEW h \in Handlers, CommitPay(h)
       PROVE  HandlersInv'
  <2>1. nextId \in Orders /\ nextId \in 0 .. MaxOrders
    BY <1>10 DEF CommitPay, PaySettlingTx, PaySettledTx, OpenPayment, HandlersInv, Orders
  <2>2. req[h].key \in Keys /\ req[h].op = "pay"
    BY <1>10 DEF CommitPay, HandlersInv
  <2>3. chargedFor' \in [Orders -> Keys \union {NoKey}]
    BY <1>10, <2>1, <2>2 DEF CommitPay, HandlersInv
  <2>4. PICK s : Committed(h, nextId, s)
    BY <1>10 DEF CommitPay
  <2>5. QED
    BY <1>9, <1>10, <2>1, <2>2, <2>3, <2>4 DEF CommitPay
<1>11. ASSUME NEW h \in Handlers, CommitOther(h)
       PROVE  HandlersInv'
  <2>1. /\ req[h].id \in 0 .. MaxOrders
        /\ req[h].op \in {"unfreeze", "refund"} => req[h].id \in Orders
    BY <1>11 DEF CommitOther, HandlersInv, ValidRequest, RequestType
  <2>2. QED
    BY <1>9, <1>11, <2>1 DEF CommitOther, HandlersInv, history
<1>12. ASSUME NEW h \in Handlers, SetMarker(h)
       PROVE  HandlersInv'
  <2>1. req[h].key \in Keys /\ req[h].id \in 0 .. MaxOrders
    BY <1>12 DEF SetMarker, HandlersInv, RequestType
  <2>2. marker' \in [Keys -> {None} \union 0 .. MaxOrders]
    BY <1>12, <2>1 DEF SetMarker, HandlersInv
  <2>3. QED
    BY <1>2, <1>12, <2>2 DEF SetMarker, HandlersInv, history
<1>13. ASSUME NEW h \in Handlers, CommitFailedPay(h) \/ Receive(h) \/ GiveUp(h)
       PROVE  HandlersInv'
  BY <1>2, <1>13 DEF CommitFailedPay, Receive, GiveUp, HandlersInv, history
<1>14. ASSUME NEW h \in Handlers, LoseMarker(h)
       PROVE  HandlersInv'
  <2>1. forgotten' \in [Keys -> Nat]
    <3>1. CASE req[h].op = "pay"
      BY <1>14, <3>1 DEF LoseMarker, HandlersInv
    <3>2. CASE req[h].op # "pay"
      BY <1>14, <3>2 DEF LoseMarker, HandlersInv
    <3>3. QED
      BY <3>1, <3>2
  <2>2. QED
    BY <1>2, <1>14, <2>1 DEF LoseMarker, HandlersInv
<1>15. ASSUME NEW k \in Keys, Expire(k)
       PROVE  HandlersInv'
  <2>1. Cardinality(ChargesFor(k)) \in Nat
    BY CountsTyped
  <2>2. /\ marker' \in [Keys -> {None} \union 0 .. MaxOrders] /\ forgotten' \in [Keys -> Nat]
    BY <1>15, <2>1 DEF Expire, HandlersInv
  <2>3. QED
    BY <1>4, <1>15, <2>2 DEF Expire, HandlersInv
<1>16. CASE Midnight
  BY <1>4, <1>16 DEF Midnight, HandlersInv, history
<1>17. CASE LedgerOnly \/ UNCHANGED vars
  BY <1>4, <1>17 DEF LedgerOnly, handlerVars, vars, HandlersInv, history
<1>18. QED
  BY <1>5, <1>6, <1>7, <1>8, <1>10, <1>11, <1>12, <1>13, <1>14, <1>15, <1>16, <1>17
     DEF Next, HandlerStep

\* The handlers' requests are always ones they can serve.
THEOREM HandlersAlwaysValid == Spec => []HandlersInv
<1>1. Init => HandlersInv
  BY LedgerAssumption, PayAssumption
     DEF Init, LedgerInit, HandlersInv, NoRequest, Request, RequestType, Operations, Phases, history
<1>2. HandlersInv /\ [Next]_vars => HandlersInv'
  BY HandlersStep
<1>3. QED
  BY <1>1, <1>2, PTL DEF Spec

\* The handlers touch the tables only through the ledger's transactions, so
\* what is proved of the ledger can be used for them.
THEOREM HandlersImplementLedger == Spec => LedgerSpec
<1>1. Init => LedgerInit
  BY DEF Init
<1>2. HandlersInv /\ [Next]_vars => [LedgerNext]_ledgerVars
  BY StepImplementsLedger
<1>3. QED
  BY <1>1, <1>2, HandlersAlwaysValid, PTL DEF Spec, LedgerSpec

\* The ledger's guarantees hold of the whole persistent service: lost markers
\* and overlapping retries may charge twice, but never lose or create money.
THEOREM HandlersKeepMoney ==
  Spec => []FundsInv /\ []RowsInv /\ DecidedOnce /\ ImplementsEscrow
BY HandlersImplementLedger, LedgerFunds, LedgerRows, LedgerDecidesOnce, LedgerImplementsEscrow, PTL

-----------------------------------------------------------------------------
(***************************************************************************)
(* Replies                                                                 *)
(***************************************************************************)

\* Some operation that uses key k was done about order i for it: what a marker
\* is worth to somebody who cannot tell who wrote it.
Known(k, i) == \E op \in Operations : k \in KeysOf(op) /\ Done(op, k, i)

\* What operation op may answer about order i under key k.
MayAnswer(op, k, i, status, source) ==
  /\ Known(k, i)
  /\ source = "commit" => Done(op, k, i)
  /\ source \in {"row", "commit"} /\ op = "pay" => StatusHolds(i, status)

\* Every marker, and every answer on its way, is about something done; and only
\* orders that exist have a key.
RepliesInv ==
  /\ \A k \in Keys : Marked(k) => Known(k, marker[k])
  /\ \A h \in Handlers : pc[h] \in {"mark", "found", "told"} =>
       MayAnswer(req[h].op, req[h].key, req[h].id, reply[h].status, reply[h].source)
  /\ \A i \in Orders : chargedFor[i] # NoKey => i < nextId
  /\ reply \in [Handlers -> ReplyType]

\* One step of DecidedOnce.
HoldsFinal ==
  \A i \in Orders :
    /\ hold[i].status \in {"DEBITED", "RELEASED"} => hold'[i] = hold[i]
    /\ order[i].status \in {"FAILED", "REFUNDED"} => order'[i].status \in {"FAILED", "REFUNDED"}

\* Nothing is ever taken out of the refunds.
LEMMA RefundsGrow ==
  ASSUME [LedgerNext]_ledgerVars
  PROVE  refunds \subseteq refunds'
<1>1. CASE FundStep
  BY <1>1 DEF FundStep, RechargeTx, TransferTx, SpendTx, Credit
<1>2. CASE PayStep
  BY <1>2 DEF PayStep, PayFailedTx, PaySettlingTx, PaySettledTx, OpenPayment
<1>3. CASE OrderStep
  BY <1>3 DEF OrderStep, SettleTx, FailTx, RefundTx
<1>4. CASE TimePasses
  BY <1>4 DEF TimePasses
<1>5. CASE JobStep
  BY <1>5 DEF JobStep, CompensationScan, CompensateTx, CompensationAborts
<1>6. CASE UNCHANGED ledgerVars
  BY <1>6 DEF ledgerVars
<1>7. QED
  BY <1>1, <1>2, <1>3, <1>4, <1>5, <1>6 DEF LedgerNext

\* Only a Pay changes the key of an order, and only that of a new one.
LEMMA KeysStay ==
  ASSUME HandlersInv, RepliesInv, [Next]_vars, NEW i \in Orders, chargedFor[i] # NoKey
  PROVE  chargedFor'[i] = chargedFor[i]
<1>1. i < nextId /\ i \in Int /\ nextId \in Int
  BY LedgerAssumption DEF RepliesInv, HandlersInv, Orders
<1>2. ASSUME NEW h \in Handlers, CommitPay(h)
      PROVE  chargedFor'[i] = chargedFor[i]
  BY <1>1, <1>2 DEF CommitPay, HandlersInv
<1>3. ASSUME NEW h \in Handlers, HandlerStep(h), ~ CommitPay(h)
      PROVE  chargedFor' = chargedFor
  BY <1>3 DEF HandlerStep, Begin, Start, Replay, ReadStatus, CheckRule, CommitFailedPay,
              CommitOther, SetMarker, Receive, GiveUp, LoseMarker, history
<1>4. ASSUME \/ \E k \in Keys : Expire(k)
             \/ Midnight
             \/ LedgerOnly
             \/ UNCHANGED vars
      PROVE  chargedFor' = chargedFor
  BY <1>4 DEF Expire, Midnight, LedgerOnly, handlerVars, vars, history
<1>5. QED
  BY <1>2, <1>3, <1>4 DEF Next

\* What was once done stays done.
LEMMA DoneStays ==
  ASSUME HandlersInv, RepliesInv, [Next]_vars, [HoldsFinal]_<<hold, order>>,
         NEW op, NEW k \in Keys, NEW i, Done(op, k, i)
  PROVE  Done(op, k, i)'
<1>1. refunds \subseteq refunds'
  BY StepImplementsLedger, RefundsGrow
<1>2. ASSUME i \in Orders, chargedFor[i] = k
      PROVE  chargedFor'[i] = k
  BY <1>2, KeysStay, PayAssumption
<1>3. ASSUME i \in Orders, hold[i].status = "RELEASED"
      PROVE  hold'[i].status = "RELEASED"
  BY <1>3 DEF HoldsFinal
<1>4. QED
  BY <1>1, <1>2, <1>3 DEF Done

\* So does what a marker is known for.
LEMMA KnownStays ==
  ASSUME HandlersInv, RepliesInv, [Next]_vars, [HoldsFinal]_<<hold, order>>,
         NEW k \in Keys, NEW i, Known(k, i)
  PROVE  Known(k, i)'
<1>1. PICK op \in Operations : k \in KeysOf(op) /\ Done(op, k, i)
  BY DEF Known
<1>2. Done(op, k, i)'
  BY <1>1, DoneStays
<1>3. QED
  BY <1>1, <1>2 DEF Known

\* And so does every answer.
LEMMA AnswersStay ==
  ASSUME HandlersInv, RepliesInv, [Next]_vars, [HoldsFinal]_<<hold, order>>,
         NEW op, NEW k \in Keys, NEW i, NEW status, NEW source,
         MayAnswer(op, k, i, status, source)
  PROVE  MayAnswer(op, k, i, status, source)'
<1>1. Known(k, i)'
  BY KnownStays DEF MayAnswer
<1>2. source = "commit" => Done(op, k, i)'
  BY DoneStays DEF MayAnswer
<1>3. refunds \subseteq refunds'
  BY StepImplementsLedger, RefundsGrow
<1>4. ASSUME i \in Orders, hold[i].status = "DEBITED"
      PROVE  hold'[i].status = "DEBITED"
  BY <1>4 DEF HoldsFinal
<1>5. StatusHolds(i, status) => StatusHolds(i, status)'
  BY <1>3, <1>4 DEF StatusHolds
<1>6. QED
  BY <1>1, <1>2, <1>5 DEF MayAnswer

\* A reply is a record with the fields it was made of.
LEMMA ReplyFields ==
  ASSUME NEW s \in {"SETTLING", "SETTLED", "FAILED", "REFUNDED", "OK"},
         NEW source \in {"nothing", "marker", "row", "guess", "commit"}
  PROVE  \E e \in ReplyType : e = Reply(s, source) /\ e.status = s /\ e.source = source
<1>1. /\ Reply(s, source) \in ReplyType
      /\ Reply(s, source).status = s /\ Reply(s, source).source = source
  BY DEF Reply, ReplyType
<1>2. QED
  BY <1>1

\* A commit does what its handler will answer.
LEMMA CommitDoes ==
  ASSUME HandlersInv, LedgerTypeOK, NEW h \in Handlers, CommitPay(h) \/ CommitOther(h),
         NEW op, NEW k, op = req[h].op, k = req[h].key
  PROVE  /\ \E i \in 0 .. MaxOrders, s \in {"SETTLING", "SETTLED", "OK"} :
              Committed(h, i, s) /\ MayAnswer(op, k, i, s, "commit")'
         /\ marker' = marker
         /\ \A i \in Orders : chargedFor'[i] # NoKey => chargedFor[i] # NoKey \/ i < nextId'
<1> USE LedgerAssumption
<1>0. PICK r \in RequestType : r = req[h]
  BY DEF HandlersInv
<1>1. r.key \in KeysOf(r.op) /\ r.op \in Operations /\ r.key \in Keys
  BY <1>0 DEF HandlersInv, ValidRequest, RequestType, CommitPay, CommitOther
<1>2. CASE CommitPay(h)
  <2>1. /\ nextId \in Orders /\ nextId \in 0 .. MaxOrders /\ nextId' = nextId + 1
        /\ nextId \in Int
    BY <1>2 DEF CommitPay, PaySettlingTx, PaySettledTx, OpenPayment, HandlersInv, Orders
  <2>2. PICK s \in {"SETTLING", "SETTLED"} :
          Committed(h, nextId, s) /\ (s = "SETTLED" => hold'[nextId].status = "DEBITED")
    <3>1. ASSUME PaySettledTx(r.agent, r.amount)
          PROVE  hold'[nextId].status = "DEBITED"
      BY <2>1, <3>1 DEF PaySettledTx, OpenPayment, Row, LedgerTypeOK
    <3>2. QED
      BY <1>0, <1>2, <3>1 DEF CommitPay
  <2>3. /\ chargedFor' = [chargedFor EXCEPT ![nextId] = r.key]
        /\ marker' = marker /\ r.op = "pay"
    BY <1>0, <1>2 DEF CommitPay
  <2>4. /\ chargedFor'[nextId] = r.key
        /\ \A i \in Orders : i # nextId => chargedFor'[i] = chargedFor[i]
    BY <2>1, <2>3 DEF HandlersInv
  <2>5. PICK i \in 0 .. MaxOrders : i = nextId
    BY <2>1
  <2>6. Done(r.op, r.key, i)' /\ StatusHolds(i, s)'
    BY <2>1, <2>2, <2>3, <2>4, <2>5 DEF Done, StatusHolds
  <2>7. MayAnswer(r.op, r.key, i, s, "commit")'
    BY <1>1, <2>6 DEF MayAnswer, Known
  <2>8. ASSUME NEW n \in Orders, chargedFor'[n] # NoKey
        PROVE  chargedFor[n] # NoKey \/ n < nextId'
    <3>1. CASE n = nextId
      BY <2>1, <3>1
    <3>2. CASE n # nextId
      BY <2>4, <2>8, <3>2
    <3>3. QED
      BY <3>1, <3>2
  <2>9. r.op = op /\ r.key = k
    BY <1>0
  <2>10. Committed(h, i, s) /\ MayAnswer(op, k, i, s, "commit")'
    BY <2>2, <2>5, <2>7, <2>9
  <2>11. QED
    BY <2>3, <2>8, <2>10
<1>3. CASE CommitOther(h)
  <2>1. PICK i \in 0 .. MaxOrders : i = r.id
    BY DEF RequestType
  <2>2. /\ r.op \in {"unfreeze", "refund"} => i \in Orders
        /\ marker' = marker /\ chargedFor' = chargedFor /\ Committed(h, i, "OK")
    BY <1>0, <1>3, <2>1 DEF CommitOther, HandlersInv, ValidRequest, history
  <2>3. /\ r.op # "pay"
        /\ r.op = "unfreeze" => hold'[i].status = "RELEASED"
        /\ r.op = "refund" => i \in refunds'
    <3>1. CASE r.op = "recharge" /\ RechargeTx(r.agent, r.amount)
      BY <3>1
    <3>2. CASE r.op = "unfreeze" /\ FailTx(i)
      BY <2>2, <3>2 DEF FailTx, ReleaseHoldTx, LedgerTypeOK, HoldRow
    <3>3. CASE r.op = "refund" /\ RefundTx(i)
      BY <3>3 DEF RefundTx
    <3>4. QED
      BY <1>0, <1>3, <2>1, <3>1, <3>2, <3>3 DEF CommitOther
  <2>4. Done(r.op, r.key, i)'
    BY <2>2, <2>3 DEF Done
  <2>5. MayAnswer(r.op, r.key, i, "OK", "commit")'
    BY <1>1, <2>3, <2>4 DEF MayAnswer, Known
  <2>6. r.op = op /\ r.key = k
    BY <1>0
  <2>7. MayAnswer(op, k, i, "OK", "commit")'
    BY <2>5, <2>6
  <2>8. QED
    BY <2>2, <2>7
<1>4. QED
  BY <1>2, <1>3

\* Every step keeps the markers and the answers on their way true.
LEMMA RepliesStep ==
  ASSUME HandlersInv, LedgerTypeOK, OrderMatchesHold, RepliesInv,
         [Next]_vars, [HoldsFinal]_<<hold, order>>
  PROVE  RepliesInv'
<1>1. ASSUME NEW k \in Keys, Marked(k)
      PROVE  Known(k, marker[k])'  \/ marker'[k] # marker[k]
  <2>1. PICK i : i = marker[k]
    OBVIOUS
  <2>2. Known(k, i)'
    BY <1>1, <2>1, KnownStays DEF RepliesInv
  <2>3. QED
    BY <2>1, <2>2
<1>2. ASSUME NEW h \in Handlers, pc[h] \in {"mark", "found", "told"},
             req'[h] = req[h], reply'[h] = reply[h]
      PROVE  MayAnswer(req[h].op, req[h].key, req[h].id, reply[h].status, reply[h].source)'
  <2>1. PICK r, q : r = req[h] /\ q = reply[h]
    OBVIOUS
  <2>2. r.key \in Keys /\ MayAnswer(r.op, r.key, r.id, q.status, q.source)
    BY <1>2, <2>1 DEF HandlersInv, RepliesInv
  <2>3. MayAnswer(r.op, r.key, r.id, q.status, q.source)'
    BY <2>2, AnswersStay
  <2>4. QED
    BY <1>2, <2>1, <2>3
<1>3. \A i \in Orders : chargedFor[i] # NoKey => i < nextId'
  <2>1. nextId \in Int /\ nextId' \in Int /\ nextId <= nextId' /\ \A i \in Orders : i \in Int
    BY StepImplementsLedger, NumbersGrow, LedgerAssumption DEF HandlersInv, Orders
  <2>2. QED
    BY <2>1 DEF RepliesInv
\* A step after which handler h may answer r as q says, or has nothing to answer.
<1>4. ASSUME NEW h \in Handlers, NEW p, NEW r, NEW q \in ReplyType,
             pc' = [pc EXCEPT ![h] = p], req' = [req EXCEPT ![h] = r],
             reply' = [reply EXCEPT ![h] = q],
             p \in {"mark", "found", "told"} =>
               MayAnswer(r.op, r.key, r.id, q.status, q.source)',
             \A k \in Keys : Marked(k)' => Known(k, marker[k])',
             \A i \in Orders : chargedFor'[i] # NoKey => chargedFor[i] # NoKey \/ i < nextId'
      PROVE  RepliesInv'
  <2>1. ASSUME NEW g \in Handlers, pc'[g] \in {"mark", "found", "told"}
        PROVE  MayAnswer(req[g].op, req[g].key, req[g].id, reply[g].status, reply[g].source)'
    <3>1. CASE g = h
      <4>1. req'[g] = r /\ reply'[g] = q /\ pc'[g] = p
        BY <1>4, <3>1 DEF HandlersInv, RepliesInv
      <4>2. QED
        BY <1>4, <2>1, <4>1
    <3>2. CASE g # h
      <4>1. req'[g] = req[g] /\ reply'[g] = reply[g] /\ pc'[g] = pc[g]
        BY <1>4, <3>2 DEF HandlersInv, RepliesInv
      <4>2. QED
        BY <1>2, <2>1, <4>1
    <3>3. QED
      BY <3>1, <3>2
  <2>2. \A i \in Orders : chargedFor'[i] # NoKey => i < nextId'
    BY <1>3, <1>4
  <2>3. reply' \in [Handlers -> ReplyType]
    BY <1>4 DEF RepliesInv
  <2>4. QED
    BY <1>4, <2>1, <2>2, <2>3 DEF RepliesInv
<1>5. marker' = marker => \A k \in Keys : Marked(k)' => Known(k, marker[k])'
  BY <1>1 DEF Marked
<1>6. ASSUME NEW h \in Handlers, Answer(h), chargedFor' = chargedFor,
             \A k \in Keys : Marked(k)' => Known(k, marker[k])'
      PROVE  RepliesInv'
  <2>1. NoReply \in ReplyType
    BY DEF NoReply, Reply, ReplyType
  <2>2. /\ pc' = [pc EXCEPT ![h] = "idle"] /\ req' = [req EXCEPT ![h] = NoRequest]
        /\ reply' = [reply EXCEPT ![h] = NoReply]
    BY <1>6 DEF Answer
  <2>3. QED
    BY <1>4, <1>6, <2>1, <2>2
<1>7. ASSUME NEW h \in Handlers, NEW r \in Requests, Begin(h, r)
      PROVE  RepliesInv'
  <2>1. /\ FirstStep(r) \notin {"mark", "found", "told"}
        /\ reply[h] \in ReplyType /\ reply' = [reply EXCEPT ![h] = reply[h]]
    BY <1>7 DEF FirstStep, RepliesInv, Begin, Start
  <2>2. /\ pc' = [pc EXCEPT ![h] = FirstStep(r)] /\ req' = [req EXCEPT ![h] = r]
        /\ marker' = marker /\ chargedFor' = chargedFor
    BY <1>7 DEF Begin, Start
  <2> HIDE DEF FirstStep
  <2>3. QED
    BY <1>4, <1>5, <2>1, <2>2
<1>8. ASSUME NEW h \in Handlers, NEW r \in Requests, Replay(h, r)
      PROVE  RepliesInv'
  <2>1. r \in RequestType /\ r.key \in Keys
    BY RequestsValid DEF HandlersInv
  <2>2. PICK i : i = marker[r.key]
    OBVIOUS
  <2>3. PICK q : q = [r EXCEPT !.id = i]
    OBVIOUS
  <2>4. q.op = r.op /\ q.key = r.key /\ q.id = i
    BY <2>1, <2>3 DEF RequestType
  <2>5. Known(r.key, i)'
    BY <1>8, <2>1, <2>2, KnownStays DEF Replay, RepliesInv
  <2>6. PICK e \in ReplyType : e = Reply("OK", "marker") /\ e.source = "marker"
    BY ReplyFields
  <2>7. MayAnswer(q.op, q.key, q.id, e.status, e.source)'
    BY <2>4, <2>5, <2>6 DEF MayAnswer
  <2>8. PICK p : pc' = [pc EXCEPT ![h] = p]
    BY <1>8 DEF Replay
  <2>9. /\ req' = [req EXCEPT ![h] = q] /\ reply' = [reply EXCEPT ![h] = e]
        /\ marker' = marker /\ chargedFor' = chargedFor
    BY <1>8, <2>2, <2>3, <2>6 DEF Replay, history
  <2>10. QED
    BY <1>4, <1>5, <2>7, <2>8, <2>9
<1>9. ASSUME NEW h \in Handlers, ReadStatus(h)
      PROVE  RepliesInv'
  <2>1. PICK r : r = req[h] /\ req' = [req EXCEPT ![h] = r]
    BY <1>9 DEF ReadStatus, HandlersInv
  <2>2. r.key \in Keys /\ Known(r.key, r.id)
    BY <1>9, <2>1 DEF ReadStatus, HandlersInv, RepliesInv, MayAnswer
  <2>3. Known(r.key, r.id)'
    BY <2>2, KnownStays
  <2>4. PICK e \in ReplyType :
          /\ reply' = [reply EXCEPT ![h] = e]
          /\ e.source # "commit" /\ (e.source = "row" => StatusHolds(r.id, e.status)')
    <3>1. CASE reply' = [reply EXCEPT ![h] = Reply("SETTLED", "guess")]
      <4>1. PICK e \in ReplyType : e = Reply("SETTLED", "guess") /\ e.source = "guess"
        BY ReplyFields
      <4>2. QED
        BY <3>1, <4>1
    <3>2. ASSUME NEW i \in Orders, i = r.id, order[i].status # "NONE",
                 reply' = [reply EXCEPT ![h] = Reply(order[i].status, "row")]
          PROVE  \E e \in ReplyType :
                   /\ reply' = [reply EXCEPT ![h] = e]
                   /\ e.source # "commit" /\ (e.source = "row" => StatusHolds(r.id, e.status)')
      <4>1. order[i].status \in {"SETTLING", "SETTLED", "FAILED", "REFUNDED"}
        BY <3>2 DEF LedgerTypeOK, OrderRow, OrderStatus
      <4>2. PICK e \in ReplyType : e = Reply(order[i].status, "row") /\ e.status = order[i].status
                                  /\ e.source = "row"
        BY <4>1, ReplyFields
      <4>3. /\ order[i].status = "SETTLED" => hold[i].status = "DEBITED"
            /\ order[i].status = "REFUNDED" => i \in refunds
            /\ hold' = hold /\ refunds' = refunds
        BY <1>9 DEF OrderMatchesHold, ReadStatus, ledgerVars
      <4>4. StatusHolds(r.id, e.status)'
        BY <3>2, <4>2, <4>3 DEF StatusHolds
      <4>5. QED
        BY <3>2, <4>2, <4>4
    <3>3. QED
      BY <1>9, <2>1, <3>1, <3>2 DEF ReadStatus
  <2>5. MayAnswer(r.op, r.key, r.id, e.status, e.source)'
    BY <2>3, <2>4 DEF MayAnswer
  <2>6. pc' = [pc EXCEPT ![h] = "told"] /\ marker' = marker /\ chargedFor' = chargedFor
    BY <1>9 DEF ReadStatus, history
  <2>7. QED
    BY <1>4, <1>5, <2>1, <2>4, <2>5, <2>6
<1>10. ASSUME NEW h \in Handlers, CheckRule(h)
       PROVE  RepliesInv'
  <2>1. /\ pc' = [pc EXCEPT ![h] = "commit"] /\ req' = [req EXCEPT ![h] = req[h]]
        /\ reply' = [reply EXCEPT ![h] = reply[h]] /\ reply[h] \in ReplyType
        /\ marker' = marker /\ chargedFor' = chargedFor
    BY <1>10 DEF CheckRule, HandlersInv, RepliesInv, history
  <2>2. QED
    BY <1>4, <1>5, <2>1
<1>11. ASSUME NEW h \in Handlers, CommitPay(h) \/ CommitOther(h)
       PROVE  RepliesInv'
  <2>1. PICK op, k : op = req[h].op /\ k = req[h].key
    OBVIOUS
  <2>2. PICK i \in 0 .. MaxOrders, s \in {"SETTLING", "SETTLED", "OK"} :
          Committed(h, i, s) /\ MayAnswer(op, k, i, s, "commit")'
    BY <1>11, <2>1, CommitDoes
  <2>3. PICK q : q = [req[h] EXCEPT !.id = i]
    OBVIOUS
  <2>4. q.op = op /\ q.key = k /\ q.id = i
    BY <2>1, <2>3 DEF HandlersInv, RequestType
  <2>5. PICK e \in ReplyType : e = Reply(s, "commit") /\ e.status = s /\ e.source = "commit"
    BY ReplyFields
  <2>6. /\ pc' = [pc EXCEPT ![h] = "mark"] /\ req' = [req EXCEPT ![h] = q]
        /\ reply' = [reply EXCEPT ![h] = e]
    BY <2>2, <2>3, <2>5 DEF Committed
  <2>7. MayAnswer(q.op, q.key, q.id, e.status, e.source)'
    BY <2>2, <2>4, <2>5
  <2>8. /\ marker' = marker
        /\ \A n \in Orders : chargedFor'[n] # NoKey => chargedFor[n] # NoKey \/ n < nextId'
    BY <1>11, <2>1, CommitDoes
  <2>9. QED
    BY <1>4, <1>5, <2>6, <2>7, <2>8
<1>12. ASSUME NEW h \in Handlers, SetMarker(h)
       PROVE  RepliesInv'
  <2>1. PICK r : r = req[h]
    OBVIOUS
  <2>2. r.key \in Keys /\ Known(r.key, r.id)
    BY <1>12, <2>1 DEF SetMarker, HandlersInv, RepliesInv, MayAnswer
  <2>3. Known(r.key, r.id)'
    BY <2>2, KnownStays
  <2>4. marker' = [marker EXCEPT ![r.key] = r.id]
    BY <1>12, <2>1 DEF SetMarker
  <2>5. ASSUME NEW k \in Keys, Marked(k)'
        PROVE  Known(k, marker[k])'
    <3>1. CASE k = r.key
      <4>1. marker'[k] = r.id
        BY <2>4, <3>1 DEF HandlersInv
      <4>2. QED
        BY <2>3, <3>1, <4>1
    <3>2. CASE k # r.key
      <4>1. marker'[k] = marker[k]
        BY <2>4, <3>2 DEF HandlersInv
      <4>2. QED
        BY <1>1, <2>5, <4>1 DEF Marked
    <3>3. QED
      BY <3>1, <3>2
  <2>6. QED
    BY <1>6, <1>12, <2>5 DEF SetMarker, history
<1>13. ASSUME NEW h \in Handlers, CommitFailedPay(h) \/ Receive(h) \/ GiveUp(h) \/ LoseMarker(h)
       PROVE  RepliesInv'
  BY <1>5, <1>6, <1>13 DEF CommitFailedPay, Receive, GiveUp, LoseMarker, history
<1>14. ASSUME UNCHANGED <<pc, req, reply, chargedFor>>,
              \A k \in Keys : Marked(k)' => Known(k, marker[k])'
       PROVE  RepliesInv'
  <2>1. ASSUME NEW g \in Handlers, pc'[g] \in {"mark", "found", "told"}
        PROVE  MayAnswer(req[g].op, req[g].key, req[g].id, reply[g].status, reply[g].source)'
    BY <1>2, <1>14, <2>1
  <2>2. QED
    BY <1>3, <1>14, <2>1 DEF RepliesInv
<1>15. ASSUME NEW k \in Keys, Expire(k)
       PROVE  RepliesInv'
  <2>1. ASSUME NEW n \in Keys, Marked(n)'
        PROVE  marker'[n] = marker[n] /\ Marked(n)
    BY <1>15, <2>1 DEF Expire, Marked, HandlersInv
  <2>2. \A n \in Keys : Marked(n)' => Known(n, marker[n])'
    BY <1>1, <2>1
  <2>3. QED
    BY <1>14, <1>15, <2>2 DEF Expire
<1>16. CASE Midnight \/ LedgerOnly \/ UNCHANGED vars
  BY <1>5, <1>14, <1>16 DEF Midnight, LedgerOnly, handlerVars, vars, history
<1>17. QED
  BY <1>7, <1>8, <1>9, <1>10, <1>11, <1>12, <1>13, <1>15, <1>16 DEF Next, HandlerStep

\* Markers, and the answers on their way, are true at all times.
THEOREM RepliesAlwaysKept == Spec => []RepliesInv
<1>1. Init => RepliesInv
  BY DEF Init, RepliesInv, Marked, NoReply, Reply, ReplyType
<1>2. HandlersInv /\ LedgerTypeOK /\ OrderMatchesHold /\ RepliesInv /\ [Next]_vars
        /\ [HoldsFinal]_<<hold, order>> => RepliesInv'
  BY RepliesStep
<1>3. LedgerSpec => [][HoldsFinal]_<<hold, order>>
  BY LedgerDecidesOnce DEF DecidedOnce, HoldsFinal
<1>4. QED
  BY <1>1, <1>2, <1>3, HandlersAlwaysValid, HandlersImplementLedger, LedgerTyping,
     LedgerOrdersMatch, PTL DEF Spec

\* Every variable of the handlers and of the ledger under them is typed.
THEOREM HandlersTyping == Spec => []TypeOK
<1>1. HandlersInv /\ RepliesInv /\ LedgerTypeOK => TypeOK
  BY DEF HandlersInv, RepliesInv, TypeOK, RequestType, ReplyType, Phases
<1>2. QED
  BY <1>1, HandlersAlwaysValid, RepliesAlwaysKept, HandlersImplementLedger, LedgerTyping, PTL

\* What a request is told, at first or again, was done for its key, is still
\* done while it is told, and agrees with the money: no crash, retry, callback
\* or job makes an answer lie, unless operations share a key or Pay guesses.
THEOREM RepliesAlwaysTrue == Spec => []RepliesAreTrue
<1>1. ASSUME HandlersInv, RepliesInv, NEW h \in Handlers, pc[h] \in {"mark", "told"}
      PROVE  /\ reply[h].source = "commit" \/ ~ Shared(req[h].op, req[h].key)
                  => Done(req[h].op, req[h].key, req[h].id)
             /\ reply[h].source \in {"row", "commit"} /\ req[h].op = "pay"
                  => StatusHolds(req[h].id, reply[h].status)
  <2>1. MayAnswer(req[h].op, req[h].key, req[h].id, reply[h].status, reply[h].source)
    BY <1>1 DEF RepliesInv
  <2>2. ASSUME ~ Shared(req[h].op, req[h].key)
        PROVE  Done(req[h].op, req[h].key, req[h].id)
    <3>1. PICK op \in Operations : req[h].key \in KeysOf(op) /\ Done(op, req[h].key, req[h].id)
      BY <2>1 DEF MayAnswer, Known
    <3>2. op = req[h].op
      BY <2>2, <3>1 DEF Shared
    <3>3. QED
      BY <3>1, <3>2
  <2>3. QED
    BY <2>1, <2>2 DEF MayAnswer
<1>2. HandlersInv /\ RepliesInv => RepliesAreTrue
  BY <1>1 DEF RepliesAreTrue
<1>3. QED
  BY <1>2, HandlersAlwaysValid, RepliesAlwaysKept, PTL

-----------------------------------------------------------------------------
(***************************************************************************)
(* Charges of a key                                                        *)
(***************************************************************************)

\* The requests that can still charge key k, and those that have and are about
\* to write its marker.
Open(k) ==
  {h \in Handlers : pc[h] \in {"check", "commit"} /\ req[h].op = "pay" /\ req[h].key = k}

Marking(k) ==
  {h \in Handlers : pc[h] = "mark" /\ req[h].op = "pay" /\ req[h].key = k}

\* Every charge of a key without a marker has a request that is still on its way
\* to the marker, or was forgotten; so those that can charge next are among the
\* others that were in progress with it.
OverlapInv ==
  \A k \in Keys :
    /\ ~ Marked(k) => Cardinality(ChargesFor(k)) <= Cardinality(Marking(k)) + forgotten[k]
    /\ Cardinality(ChargesFor(k)) + Cardinality(Open(k)) <= peak[k] + forgotten[k]
    /\ Cardinality(Open(k)) + Cardinality(Marking(k)) <= peak[k]

\* Two disjoint parts of a finite set are finite, and together no larger.
LEMMA PartsCount ==
  ASSUME NEW U, IsFiniteSet(U), NEW S \in SUBSET U, NEW T \in SUBSET U, S \cap T = {}
  PROVE  /\ IsFiniteSet(S) /\ Cardinality(S) \in Nat
         /\ IsFiniteSet(T) /\ Cardinality(T) \in Nat
         /\ Cardinality(S) + Cardinality(T) <= Cardinality(U) /\ Cardinality(U) \in Nat
<1>1. IsFiniteSet(S) /\ IsFiniteSet(T)
  BY FS_Subset
<1>2. Cardinality(S) \in Nat /\ Cardinality(T) \in Nat /\ Cardinality(U) \in Nat
  BY <1>1, FS_CardinalityType
<1>3. Cardinality(S \cap T) = 0
  BY FS_EmptySet
<1>4. Cardinality(S \union T) = Cardinality(S) + Cardinality(T) - Cardinality(S \cap T)
  BY <1>1, FS_Union
<1>5. S \union T \in SUBSET U
  OBVIOUS
<1>6. Cardinality(S \union T) <= Cardinality(U)
  BY <1>5, FS_Subset
<1>7. QED
  BY <1>1, <1>2, <1>3, <1>4, <1>6

\* What OverlapInv counts is finite.
LEMMA OverlapNumbers ==
  ASSUME NEW k
  PROVE  /\ IsFiniteSet(ChargesFor(k)) /\ Cardinality(ChargesFor(k)) \in Nat
         /\ IsFiniteSet(Open(k)) /\ Cardinality(Open(k)) \in Nat
         /\ IsFiniteSet(Marking(k)) /\ Cardinality(Marking(k)) \in Nat
<1>1. /\ Open(k) \in SUBSET Handlers /\ Marking(k) \in SUBSET Handlers
      /\ Open(k) \cap Marking(k) = {}
  BY DEF Open, Marking
<1>2. QED
  BY <1>1, CountsTyped, PartsCount, PayAssumption

\* A step that charges key k no further, lets no more requests charge it, and
\* loses none that is on its way to the marker, unless it writes that.
LEMMA OverlapKept ==
  ASSUME HandlersInv, HandlersInv', OverlapInv, NEW k \in Keys,
         ChargesFor(k)' = ChargesFor(k), Open(k)' \subseteq Open(k),
         Marking(k)' \subseteq Marking(k),
         Marking(k)' = Marking(k) \/ Marked(k)',
         Marked(k) => Marked(k)',
         forgotten'[k] = forgotten[k], peak[k] <= peak'[k]
  PROVE  /\ ~ Marked(k)' => Cardinality(ChargesFor(k)') <= Cardinality(Marking(k)') + forgotten'[k]
         /\ Cardinality(ChargesFor(k)') + Cardinality(Open(k)') <= peak'[k] + forgotten'[k]
         /\ Cardinality(Open(k)') + Cardinality(Marking(k)') <= peak'[k]
<1>1. /\ Cardinality(Open(k)') <= Cardinality(Open(k)) /\ Cardinality(Open(k)') \in Nat
      /\ Cardinality(Marking(k)') <= Cardinality(Marking(k)) /\ Cardinality(Marking(k)') \in Nat
  <2>1. /\ Open(k)' \in SUBSET Open(k) /\ IsFiniteSet(Open(k))
        /\ Marking(k)' \in SUBSET Marking(k) /\ IsFiniteSet(Marking(k))
    BY OverlapNumbers
  <2>2. QED
    BY <2>1, FS_Subset, FS_CardinalityType
<1>2. /\ Cardinality(ChargesFor(k)) \in Nat /\ Cardinality(Open(k)) \in Nat
      /\ Cardinality(Marking(k)) \in Nat /\ forgotten[k] \in Nat /\ peak[k] \in Nat
      /\ peak'[k] \in Nat
  BY OverlapNumbers DEF HandlersInv
<1>3. /\ ~ Marked(k) => Cardinality(ChargesFor(k)) <= Cardinality(Marking(k)) + forgotten[k]
      /\ Cardinality(ChargesFor(k)) + Cardinality(Open(k)) <= peak[k] + forgotten[k]
      /\ Cardinality(Open(k)) + Cardinality(Marking(k)) <= peak[k]
  BY DEF OverlapInv
<1>4. QED
  BY <1>1, <1>2, <1>3

\* No step charges a key more often than requests overlap.
LEMMA OverlapStep ==
  ASSUME HandlersInv, HandlersInv', RepliesInv, OverlapInv, [Next]_vars
  PROVE  OverlapInv'
<1>0. \A k \in Keys : forgotten[k] \in Nat /\ peak[k] \in Nat
  BY DEF HandlersInv
<1>1. ASSUME \A k \in Keys :
               /\ ChargesFor(k)' = ChargesFor(k) /\ Open(k)' \subseteq Open(k)
               /\ Marking(k)' \subseteq Marking(k)
               /\ Marking(k)' = Marking(k) \/ Marked(k)'
               /\ Marked(k) => Marked(k)'
               /\ forgotten'[k] = forgotten[k] /\ peak'[k] = peak[k]
      PROVE  OverlapInv'
  <2>1. ASSUME NEW k \in Keys
        PROVE  peak[k] <= peak'[k]
    BY <1>0, <1>1
  <2>2. QED
    BY <1>1, <2>1, OverlapKept DEF OverlapInv
<1>2. ASSUME NEW h \in Handlers, Answer(h), pc[h] \in {"check", "commit", "found", "told"},
             UNCHANGED <<marker, history>>
      PROVE  OverlapInv'
  BY <1>1, <1>2 DEF Answer, HandlersInv, ChargesFor, Open, Marking, Marked, history
<1>3. ASSUME UNCHANGED <<marker, pc, req, history>>
      PROVE  OverlapInv'
  BY <1>1, <1>3 DEF ChargesFor, Open, Marking, Marked, history
<1>4. ASSUME NEW h \in Handlers, NEW r \in Requests, Begin(h, r)
      PROVE  OverlapInv'
  <2>1. /\ \A k \in Keys : ChargesFor(k)' = ChargesFor(k) /\ Marking(k)' = Marking(k)
        /\ \A k \in Keys : Marked(k)' <=> Marked(k)
        /\ forgotten' = forgotten
    BY <1>4 DEF Begin, Start, FirstStep, HandlersInv, ChargesFor, Marking, Marked
  <2>2. ASSUME NEW k \in Keys
        PROVE  Cardinality(InProgress(k)') <= peak'[k] /\ peak[k] <= peak'[k] /\ peak'[k] \in Nat
    <3>1. Cardinality(InProgress(k)') \in Nat
      <4>1. InProgress(k)' \in SUBSET Handlers
        BY DEF InProgress
      <4>2. QED
        BY <4>1, FS_Subset, FS_CardinalityType, PayAssumption
    <3>2. peak'[k] = IF Cardinality(InProgress(k)') > peak[k] THEN Cardinality(InProgress(k)') ELSE peak[k]
      BY <1>4 DEF Begin, Start
    <3>3. CASE Cardinality(InProgress(k)') > peak[k]
      BY <1>0, <3>1, <3>2, <3>3
    <3>4. CASE ~ (Cardinality(InProgress(k)') > peak[k])
      BY <1>0, <3>1, <3>2, <3>4
    <3>5. QED
      BY <3>3, <3>4
  <2>3. ASSUME NEW k \in Keys, Marked(k) \/ r.op # "pay" \/ r.key # k
        PROVE  Open(k)' \subseteq Open(k)
    BY <1>4, <2>3 DEF Begin, Start, FirstStep, HandlersInv, Open
  <2>4. ASSUME NEW k \in Keys, ~ Marked(k)
        PROVE  /\ Cardinality(ChargesFor(k)') <= Cardinality(Marking(k)') + forgotten'[k]
               /\ Cardinality(ChargesFor(k)') + Cardinality(Open(k)') <= peak'[k] + forgotten'[k]
               /\ Cardinality(Open(k)') + Cardinality(Marking(k)') <= peak'[k]
    <3>1. Cardinality(ChargesFor(k)) <= Cardinality(Marking(k)) + forgotten[k]
      BY <2>4 DEF OverlapInv
    <3>2. Cardinality(ChargesFor(k)) \in Nat /\ Cardinality(Marking(k)) \in Nat
      BY OverlapNumbers
    <3>3. /\ Cardinality(Open(k)') \in Nat /\ Cardinality(InProgress(k)') \in Nat
          /\ Cardinality(Open(k)') + Cardinality(Marking(k)') <= Cardinality(InProgress(k)')
      <4>1. /\ Open(k)' \in SUBSET InProgress(k)' /\ Marking(k)' \in SUBSET InProgress(k)'
            /\ Open(k)' \cap Marking(k)' = {} /\ InProgress(k)' \in SUBSET Handlers
        BY DEF Open, Marking, InProgress
      <4>2. IsFiniteSet(InProgress(k)')
        BY <4>1, FS_Subset, PayAssumption
      <4>3. QED
        BY <4>1, <4>2, PartsCount
    <3>4. QED
      BY <1>0, <2>1, <2>2, <3>1, <3>2, <3>3
  <2>5. ASSUME NEW k \in Keys
        PROVE  /\ ~ Marked(k)' => Cardinality(ChargesFor(k)') <= Cardinality(Marking(k)') + forgotten'[k]
               /\ Cardinality(ChargesFor(k)') + Cardinality(Open(k)') <= peak'[k] + forgotten'[k]
               /\ Cardinality(Open(k)') + Cardinality(Marking(k)') <= peak'[k]
    <3>1. CASE Marked(k)
      BY <2>1, <2>2, <2>3, <3>1, OverlapKept
    <3>2. CASE ~ Marked(k)
      BY <2>4, <3>2
    <3>3. QED
      BY <3>1, <3>2
  <2>6. QED
    BY <2>5 DEF OverlapInv
<1>5. ASSUME NEW h \in Handlers, NEW r \in Requests, Replay(h, r)
      PROVE  OverlapInv'
  BY <1>1, <1>5 DEF Replay, HandlersInv, ChargesFor, Open, Marking, Marked, history
<1>6. ASSUME NEW h \in Handlers, ReadStatus(h) \/ CheckRule(h)
      PROVE  OverlapInv'
  BY <1>1, <1>6 DEF ReadStatus, CheckRule, HandlersInv, ChargesFor, Open, Marking, Marked, history
<1>7. ASSUME NEW h \in Handlers, NEW i, NEW s, Committed(h, i, s)
      PROVE  /\ req'[h].op = req[h].op /\ req'[h].key = req[h].key
             /\ pc' = [pc EXCEPT ![h] = "mark"]
             /\ \A g \in Handlers : g # h => pc'[g] = pc[g] /\ req'[g] = req[g]
  BY <1>7 DEF Committed, HandlersInv, RequestType
<1>8. ASSUME NEW h \in Handlers, CommitOther(h)
      PROVE  OverlapInv'
  <2>1. req[h].op # "pay" /\ pc[h] = "commit"
    BY <1>8 DEF CommitOther
  <2>2. /\ req'[h].op # "pay" /\ UNCHANGED <<marker, history>>
        /\ \A g \in Handlers : g # h => pc'[g] = pc[g] /\ req'[g] = req[g]
    BY <1>7, <1>8, <2>1 DEF CommitOther
  <2>3. QED
    BY <1>1, <2>1, <2>2 DEF ChargesFor, Open, Marking, Marked, history
<1>9. ASSUME NEW h \in Handlers, SetMarker(h)
      PROVE  OverlapInv'
  <2>1. /\ pc[h] = "mark" /\ UNCHANGED history
        /\ pc' = [pc EXCEPT ![h] = "idle"] /\ req' = [req EXCEPT ![h] = NoRequest]
        /\ marker' = [marker EXCEPT ![req[h].key] = req[h].id]
        /\ req[h].key \in Keys /\ req[h].id # None
    BY <1>9 DEF SetMarker, Answer, HandlersInv, RequestType, None
  <2>2. ASSUME NEW k \in Keys
        PROVE  ChargesFor(k)' = ChargesFor(k) /\ Open(k)' \subseteq Open(k)
               /\ Marking(k)' \subseteq Marking(k)
    BY <2>1 DEF HandlersInv, ChargesFor, Open, Marking, history
  <2>3. ASSUME NEW k \in Keys
        PROVE  (Marked(k) => Marked(k)') /\ (req[h].key = k => Marked(k)')
    BY <2>1 DEF Marked, HandlersInv
  <2>4. ASSUME NEW k \in Keys
        PROVE  Marking(k)' = Marking(k) \/ Marked(k)'
    <3>1. CASE req[h].key = k
      BY <2>3, <3>1
    <3>2. CASE req[h].key # k
      BY <2>1, <3>2 DEF HandlersInv, Marking
    <3>3. QED
      BY <3>1, <3>2
  <2>5. QED
    BY <1>1, <2>1, <2>2, <2>3, <2>4 DEF history
<1>10. ASSUME NEW h \in Handlers, CommitPay(h)
      PROVE  OverlapInv'
  <2> PICK key \in Keys : key = req[h].key
    BY <1>10 DEF CommitPay, HandlersInv
  <2>1. /\ pc[h] = "commit" /\ req[h].op = "pay" /\ UNCHANGED <<marker, forgotten, peak>>
        /\ nextId \in Orders /\ \E s : Committed(h, nextId, s)
        /\ chargedFor' = [chargedFor EXCEPT ![nextId] = key]
    BY <1>10 DEF CommitPay, PaySettlingTx, PaySettledTx, OpenPayment, HandlersInv, Orders
  <2>2. /\ pc' = [pc EXCEPT ![h] = "mark"] /\ req'[h].op = "pay" /\ req'[h].key = key
        /\ \A g \in Handlers : g # h => pc'[g] = pc[g] /\ req'[g] = req[g]
    BY <1>7, <2>1
  <2>3. chargedFor[nextId] = NoKey
    <3>1. nextId \in Int
      BY <2>1, LedgerAssumption DEF Orders
    <3>2. QED
      BY <2>1, <3>1 DEF RepliesInv
  <2>4. \A k \in Keys : Marked(k)' <=> Marked(k)
    BY <2>1 DEF Marked
  <2>5. ASSUME NEW k \in Keys, k # key
        PROVE  ChargesFor(k)' = ChargesFor(k) /\ Open(k)' \subseteq Open(k) /\ Marking(k)' = Marking(k)
    <3>1. ChargesFor(k)' = ChargesFor(k)
      BY <2>1, <2>3, <2>5, PayAssumption DEF HandlersInv, ChargesFor
    <3>2. Open(k)' \subseteq Open(k) /\ Marking(k)' = Marking(k)
      BY <2>1, <2>2, <2>5 DEF HandlersInv, Open, Marking
    <3>3. QED
      BY <3>1, <3>2
  <2>6. /\ Cardinality(ChargesFor(key)') = Cardinality(ChargesFor(key)) + 1
        /\ Cardinality(ChargesFor(key)) \in Nat
    <3>1. ChargesFor(key)' = ChargesFor(key) \union {nextId} /\ nextId \notin ChargesFor(key)
      BY <2>1, <2>3, PayAssumption DEF HandlersInv, ChargesFor
    <3>2. QED
      BY <3>1, OverlapNumbers, FS_AddElement
  <2>7. /\ Cardinality(Open(key)') = Cardinality(Open(key)) - 1
        /\ Cardinality(Open(key)) \in Nat
    <3>1. Open(key)' = Open(key) \ {h} /\ h \in Open(key)
      BY <2>1, <2>2 DEF HandlersInv, Open
    <3>2. QED
      BY <3>1, OverlapNumbers, FS_RemoveElement
  <2>8. /\ Cardinality(Marking(key)') = Cardinality(Marking(key)) + 1
        /\ Cardinality(Marking(key)) \in Nat
    <3>1. Marking(key)' = Marking(key) \union {h} /\ h \notin Marking(key)
      BY <2>1, <2>2 DEF HandlersInv, Marking
    <3>2. QED
      BY <3>1, OverlapNumbers, FS_AddElement
  <2>9. ASSUME NEW k \in Keys
        PROVE  /\ ~ Marked(k)' => Cardinality(ChargesFor(k)') <= Cardinality(Marking(k)') + forgotten'[k]
               /\ Cardinality(ChargesFor(k)') + Cardinality(Open(k)') <= peak'[k] + forgotten'[k]
               /\ Cardinality(Open(k)') + Cardinality(Marking(k)') <= peak'[k]
    <3>1. CASE k # key
      <4>1. peak[k] <= peak'[k]
        BY <1>0, <2>1
      <4>2. QED
        BY <2>1, <2>4, <2>5, <3>1, <4>1, OverlapKept
    <3>2. CASE k = key
      <4>1. /\ ~ Marked(key) => Cardinality(ChargesFor(key)) <= Cardinality(Marking(key)) + forgotten[key]
            /\ Cardinality(ChargesFor(key)) + Cardinality(Open(key)) <= peak[key] + forgotten[key]
            /\ Cardinality(Open(key)) + Cardinality(Marking(key)) <= peak[key]
        BY DEF OverlapInv
      <4>2. QED
        BY <1>0, <2>1, <2>4, <2>6, <2>7, <2>8, <3>2, <4>1
    <3>3. QED
      BY <3>1, <3>2
  <2>10. QED
    BY <2>9 DEF OverlapInv
<1>11. ASSUME NEW h \in Handlers, LoseMarker(h)
       PROVE  OverlapInv'
  <2>1. /\ pc[h] = "mark" /\ UNCHANGED <<marker, chargedFor, peak>>
        /\ pc' = [pc EXCEPT ![h] = "idle"] /\ req' = [req EXCEPT ![h] = NoRequest]
        /\ req[h].key \in Keys
    BY <1>11 DEF LoseMarker, Answer, HandlersInv
  <2>2. ASSUME NEW k \in Keys
        PROVE  ChargesFor(k)' = ChargesFor(k) /\ Open(k)' = Open(k) /\ (Marked(k)' <=> Marked(k))
    BY <2>1 DEF HandlersInv, ChargesFor, Open, Marked
  <2>3. ASSUME NEW k \in Keys, req[h].op = "pay", req[h].key = k
        PROVE  /\ forgotten'[k] = forgotten[k] + 1
               /\ Cardinality(Marking(k)') = Cardinality(Marking(k)) - 1
    <3>1. forgotten'[k] = forgotten[k] + 1
      BY <1>11, <2>3 DEF LoseMarker, HandlersInv
    <3>2. Marking(k)' = Marking(k) \ {h} /\ h \in Marking(k)
      BY <2>1, <2>3 DEF HandlersInv, Marking
    <3>3. QED
      BY <3>1, <3>2, OverlapNumbers, FS_RemoveElement
  <2>4. ASSUME NEW k \in Keys, ~ (req[h].op = "pay" /\ req[h].key = k)
        PROVE  forgotten'[k] = forgotten[k] /\ Marking(k)' = Marking(k)
    <3>1. Marking(k)' = Marking(k)
      BY <2>1, <2>4 DEF HandlersInv, Marking
    <3>2. CASE req[h].op = "pay"
      BY <1>11, <2>1, <2>4, <3>1, <3>2 DEF LoseMarker, HandlersInv
    <3>3. CASE req[h].op # "pay"
      BY <1>11, <3>1, <3>3 DEF LoseMarker
    <3>4. QED
      BY <3>2, <3>3
  <2>5. ASSUME NEW k \in Keys
        PROVE  /\ ~ Marked(k)' => Cardinality(ChargesFor(k)') <= Cardinality(Marking(k)') + forgotten'[k]
               /\ Cardinality(ChargesFor(k)') + Cardinality(Open(k)') <= peak'[k] + forgotten'[k]
               /\ Cardinality(Open(k)') + Cardinality(Marking(k)') <= peak'[k]
    <3>1. /\ ~ Marked(k) => Cardinality(ChargesFor(k)) <= Cardinality(Marking(k)) + forgotten[k]
          /\ Cardinality(ChargesFor(k)) + Cardinality(Open(k)) <= peak[k] + forgotten[k]
          /\ Cardinality(Open(k)) + Cardinality(Marking(k)) <= peak[k]
      BY DEF OverlapInv
    <3>2. /\ Cardinality(ChargesFor(k)) \in Nat /\ Cardinality(Open(k)) \in Nat
          /\ Cardinality(Marking(k)) \in Nat /\ peak' = peak
      BY <2>1, OverlapNumbers
    <3>3. CASE req[h].op = "pay" /\ req[h].key = k
      BY <1>0, <2>2, <2>3, <3>1, <3>2, <3>3
    <3>4. CASE ~ (req[h].op = "pay" /\ req[h].key = k)
      BY <1>0, <2>2, <2>4, <3>1, <3>2, <3>4
    <3>5. QED
      BY <3>3, <3>4
  <2>6. QED
    BY <2>5 DEF OverlapInv
<1>12. ASSUME NEW h \in Handlers, HandlerStep(h)
       PROVE  OverlapInv'
  BY <1>2, <1>4, <1>5, <1>6, <1>8, <1>9, <1>10, <1>11, <1>12
     DEF HandlerStep, CommitFailedPay, Receive, GiveUp
<1>13. ASSUME NEW key \in Keys, Expire(key)
       PROVE  OverlapInv'
  <2>1. /\ UNCHANGED <<pc, req, chargedFor, peak>>
        /\ marker' = [marker EXCEPT ![key] = None]
        /\ forgotten' = [forgotten EXCEPT ![key] = Cardinality(ChargesFor(key))]
    BY <1>13 DEF Expire
  <2>2. ASSUME NEW k \in Keys
        PROVE  /\ ChargesFor(k)' = ChargesFor(k) /\ Open(k)' = Open(k) /\ Marking(k)' = Marking(k)
               /\ k # key => (forgotten'[k] = forgotten[k] /\ (Marked(k)' <=> Marked(k)))
               /\ k = key => forgotten'[k] = Cardinality(ChargesFor(k))
    <3>1. ChargesFor(k)' = ChargesFor(k) /\ Open(k)' = Open(k) /\ Marking(k)' = Marking(k)
      BY <2>1 DEF ChargesFor, Open, Marking
    <3>2. CASE k = key
      <4>1. forgotten'[key] = Cardinality(ChargesFor(key))
        BY <2>1 DEF HandlersInv
      <4>2. QED
        BY <3>1, <3>2, <4>1
    <3>3. CASE k # key
      <4>1. forgotten'[k] = forgotten[k] /\ marker'[k] = marker[k]
        BY <2>1, <3>3 DEF HandlersInv
      <4>2. QED
        BY <3>1, <3>3, <4>1 DEF Marked
    <3>4. QED
      BY <3>2, <3>3
  <2>3. ASSUME NEW k \in Keys
        PROVE  /\ ~ Marked(k)' => Cardinality(ChargesFor(k)') <= Cardinality(Marking(k)') + forgotten'[k]
               /\ Cardinality(ChargesFor(k)') + Cardinality(Open(k)') <= peak'[k] + forgotten'[k]
               /\ Cardinality(Open(k)') + Cardinality(Marking(k)') <= peak'[k]
    <3>1. /\ ~ Marked(k) => Cardinality(ChargesFor(k)) <= Cardinality(Marking(k)) + forgotten[k]
          /\ Cardinality(ChargesFor(k)) + Cardinality(Open(k)) <= peak[k] + forgotten[k]
          /\ Cardinality(Open(k)) + Cardinality(Marking(k)) <= peak[k]
      BY DEF OverlapInv
    <3>2. /\ Cardinality(ChargesFor(k)) \in Nat /\ Cardinality(Open(k)) \in Nat
          /\ Cardinality(Marking(k)) \in Nat /\ peak' = peak
      BY <2>1, OverlapNumbers
    <3>3. CASE k = key
      BY <1>0, <2>2, <3>1, <3>2, <3>3
    <3>4. CASE k # key
      BY <1>0, <2>2, <3>1, <3>2, <3>4
    <3>5. QED
      BY <3>3, <3>4
  <2>4. QED
    BY <2>3 DEF OverlapInv
<1>14. CASE Midnight \/ LedgerOnly \/ UNCHANGED vars
  BY <1>3, <1>14 DEF Midnight, LedgerOnly, handlerVars, vars
<1>15. QED
  BY <1>12, <1>13, <1>14 DEF Next

\* A key is charged at most as often as requests for it were in progress at
\* once, and again for every charge whose marker was lost or expired: retries
\* that do not overlap charge once.
THEOREM ChargesBounded == Spec => []ChargesAccountedFor
<1>1. Init => OverlapInv
  <2>1. ASSUME Init, NEW k \in Keys
        PROVE  ChargesFor(k) = {} /\ Open(k) = {} /\ Marking(k) = {} /\ forgotten[k] = 0 /\ peak[k] = 0
    BY <2>1, PayAssumption DEF Init, ChargesFor, Open, Marking
  <2>2. ASSUME Init, NEW k \in Keys
        PROVE  /\ Cardinality(ChargesFor(k)) = 0 /\ Cardinality(Open(k)) = 0
               /\ Cardinality(Marking(k)) = 0 /\ forgotten[k] = 0 /\ peak[k] = 0
    BY <2>1, <2>2, FS_EmptySet
  <2>3. QED
    BY <2>2 DEF OverlapInv
<1>2. HandlersInv /\ HandlersInv' /\ RepliesInv /\ OverlapInv /\ [Next]_vars => OverlapInv'
  BY OverlapStep
<1>3. HandlersInv /\ OverlapInv => ChargesAccountedFor
  <2>1. ASSUME HandlersInv, OverlapInv, NEW k \in Keys
        PROVE  Cardinality(ChargesFor(k)) <= peak[k] + forgotten[k]
    <3>1. /\ Cardinality(ChargesFor(k)) \in Nat /\ Cardinality(Open(k)) \in Nat
          /\ peak[k] \in Nat /\ forgotten[k] \in Nat
          /\ Cardinality(ChargesFor(k)) + Cardinality(Open(k)) <= peak[k] + forgotten[k]
      BY <2>1, OverlapNumbers DEF OverlapInv, HandlersInv
    <3>2. QED
      BY <3>1
  <2>2. QED
    BY <2>1 DEF ChargesAccountedFor
<1>4. QED
  BY <1>1, <1>2, <1>3, HandlersAlwaysValid, RepliesAlwaysKept, PTL DEF Spec
=============================================================================
