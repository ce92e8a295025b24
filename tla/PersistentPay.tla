---------------------------- MODULE PersistentPay ----------------------------
(***************************************************************************)
(* The request handlers of the persistent service around the ledger's      *)
(* transactions: Pay, Recharge, Unfreeze and Refund.  Each of them         *)
(*                                                                         *)
(*   looks up its idempotency marker in Redis, and answers a replay from   *)
(*   the marker and, if it is Pay, from the order's row;                   *)
(*   checks what it has to check (Pay: the authorization rule),            *)
(*   commits one MySQL transaction,                                        *)
(*   writes the marker,                                                    *)
(*   and answers,                                                          *)
(*                                                                         *)
(* and other requests, callbacks and jobs run between any two of these     *)
(* steps.  The tables pay_order and fund_recharge_order do not know the    *)
(* idempotency key: only the marker does.                                  *)
(*                                                                         *)
(* A key here is the one in Redis, with its prefix: "idem:" for Pay,       *)
(* "idem:rch:", "idem:unfreeze:", "idem:refund:" for the others.  As Pay's *)
(* prefix begins theirs, a client that pays with the key "rch:x" shares    *)
(* its marker with one that recharges with "x".                            *)
(***************************************************************************)
EXTENDS Ledger, FiniteSets

CONSTANTS
  Handlers,        \* requests that can be in progress at the same time
  PayKeys,         \* the keys in Redis that clients pay with,
  RechargeKeys,    \*   recharge with,
  UnfreezeKeys,    \*   unfreeze with
  RefundKeys,      \*   and refund with: Pay's may overlap with the others
  NoKey,           \* the key of an order not yet created
  SingleLimit,     \* the agents' authorization rule: single_limit
  DailyLimit,      \*   and daily_limit
  MayLoseMarker,   \* can a handler stop between its commit and its marker?
  MayExpire        \* can a marker outlive its 24 hours?

Operations == {"pay", "recharge", "unfreeze", "refund"}

KeysOf(op) == CASE op = "pay"      -> PayKeys
                [] op = "recharge" -> RechargeKeys
                [] op = "unfreeze" -> UnfreezeKeys
                [] op = "refund"   -> RefundKeys

Keys == UNION {KeysOf(op) : op \in Operations}

ASSUME PayAssumption ==
  /\ NoKey \notin Keys
  /\ SingleLimit \in Nat /\ DailyLimit \in Nat
  /\ MayLoseMarker \in BOOLEAN /\ MayExpire \in BOOLEAN
  /\ IsFiniteSet(Handlers)

VARIABLES
  marker,      \* Redis: the number of the order a key names, 0 for the id of a
               \*   recharge, which no order has
  dayStart,    \* orders numbered above this were created today (UTC)
  pc,          \* where each handler is
  req,         \* the request each handler works on
  reply,       \* what it will answer, and from what it knows that
  chargedFor,  \* history: the key of the Pay request that created an order
  forgotten,   \* history: the charges of a key whose marker was lost or expired
  peak         \* history: the most Pay requests for a key ever in progress at once

history == <<chargedFor, forgotten, peak>>
handlerVars == <<marker, dayStart, pc, req, reply, history>>
vars == <<ledgerVars, handlerVars>>

None == -1
Marked(k) == marker[k] # None

Request(op, a, v, k, i) == [op |-> op, agent |-> a, amount |-> v, key |-> k, id |-> i]

\* What clients send.  They learn an order's number from an answer.
Requests ==
  {Request("pay", a, v, k, 0) : a \in Agents, v \in Amounts, k \in PayKeys}
    \union {Request("recharge", a, v, k, 0) :
              a \in Agents, v \in RechargeAmounts, k \in RechargeKeys}
    \union {Request("unfreeze", NoAgent, 0, k, i) : k \in UnfreezeKeys, i \in 1 .. nextId - 1}
    \union {Request("refund", NoAgent, 0, k, i) : k \in RefundKeys, i \in 1 .. nextId - 1}

NoRequest == Request("pay", NoAgent, 0, NoKey, 0)

\* "OK" stands for the plain success of everything but Pay.
Reply(s, source) == [status |-> s, source |-> source]

NoReply == Reply("OK", "nothing")

Init ==
  /\ LedgerInit
  /\ marker = [k \in Keys |-> None]
  /\ dayStart = 0
  /\ pc = [h \in Handlers |-> "idle"]
  /\ req = [h \in Handlers |-> NoRequest]
  /\ reply = [h \in Handlers |-> NoReply]
  /\ chargedFor = [i \in Orders |-> NoKey]
  /\ forgotten = [k \in Keys |-> 0]
  /\ peak = [k \in Keys |-> 0]

\* The handler ends; what it answered is not kept.
Answer(h) ==
  /\ pc' = [pc EXCEPT ![h] = "idle"]
  /\ req' = [req EXCEPT ![h] = NoRequest]
  /\ reply' = [reply EXCEPT ![h] = NoReply]

FirstStep(r) == IF r.op = "pay" THEN "check" ELSE "commit"

ChargesFor(k) == {i \in Orders : chargedFor[i] = k}

\* The Pay requests for a key that found no marker and wrote none yet.
InProgress(k) ==
  {h \in Handlers : pc[h] \in {"check", "commit", "mark"} /\ req[h].op = "pay" /\ req[h].key = k}

Start(h, r) ==
  /\ pc[h] = "idle"
  /\ pc' = [pc EXCEPT ![h] = FirstStep(r)]
  /\ req' = [req EXCEPT ![h] = r]
  /\ peak' = [k \in Keys |-> LET n == Cardinality(InProgress(k)')
                            IN IF n > peak[k] THEN n ELSE peak[k]]
  /\ UNCHANGED <<ledgerVars, dayStart, reply, chargedFor, forgotten>>

\* Begin that reserves the key by writing its marker before the commit.
Mutant_Begin(h, r) ==
  ~ Marked(r.key) /\ Start(h, r) /\ marker' = [marker EXCEPT ![r.key] = r.id]

\* Begin that does not look for a marker.
Mutant_Begin_Blind(h, r) == Start(h, r) /\ UNCHANGED marker

\* A request finds no marker.
Begin(h, r) == ~ Marked(r.key) /\ Start(h, r) /\ UNCHANGED marker

\* A request finds a marker, and is answered about the order it names: Pay's
\* answer has its number and status, the others' only says that all is done.
Replay(h, r) ==
  /\ pc[h] = "idle"
  /\ Marked(r.key)
  /\ pc' = [pc EXCEPT ![h] = IF r.op = "pay" THEN "found" ELSE "told"]
  /\ req' = [req EXCEPT ![h] = [r EXCEPT !.id = marker[r.key]]]
  /\ reply' = [reply EXCEPT ![h] = Reply("OK", "marker")]
  /\ UNCHANGED <<ledgerVars, marker, dayStart, history>>

\* Pay reads the order's status; without a row, or when the query fails, it
\* answers SETTLED.
ReadStatus(h) ==
  /\ pc[h] = "found"
  /\ pc' = [pc EXCEPT ![h] = "told"]
  /\ \/ reply' = [reply EXCEPT ![h] = Reply("SETTLED", "guess")]
     \/ \E i \in Orders :
          /\ i = req[h].id /\ order[i].status # "NONE"
          /\ reply' = [reply EXCEPT ![h] = Reply(order[i].status, "row")]
  /\ UNCHANGED <<ledgerVars, marker, dayStart, req, history>>

SettledToday(a) ==
  Total([i \in Orders |-> IF i > dayStart /\ order[i].agent = a /\ order[i].status = "SETTLED"
                          THEN order[i].amount ELSE 0], MaxOrders)

\* Pay's checks, made outside the transaction.  Only SETTLED orders count.
CheckRule(h) ==
  /\ pc[h] = "check"
  /\ req[h].amount <= SingleLimit
  /\ SettledToday(req[h].agent) + req[h].amount <= DailyLimit
  /\ pc' = [pc EXCEPT ![h] = "commit"]
  /\ UNCHANGED <<ledgerVars, marker, dayStart, req, reply, history>>

\* The transaction has committed order number i for handler h, which will
\* answer status s.
Committed(h, i, s) ==
  /\ pc' = [pc EXCEPT ![h] = "mark"]
  /\ req' = [req EXCEPT ![h].id = i]
  /\ reply' = [reply EXCEPT ![h] = Reply(s, "commit")]

CommitPay(h) ==
  LET a == req[h].agent
      v == req[h].amount
  IN
  /\ pc[h] = "commit" /\ req[h].op = "pay"
  /\ \/ PaySettlingTx(a, v) /\ Committed(h, nextId, "SETTLING")
     \/ PaySettledTx(a, v) /\ Committed(h, nextId, "SETTLED")
  /\ chargedFor' = [chargedFor EXCEPT ![nextId] = req[h].key]
  /\ UNCHANGED <<marker, dayStart, forgotten, peak>>

\* A failing channel is answered with PAY-007; no order and no marker.
CommitFailedPay(h) ==
  /\ pc[h] = "commit" /\ req[h].op = "pay"
  /\ PayFailedTx(req[h].agent, req[h].amount)
  /\ Answer(h)
  /\ UNCHANGED <<marker, dayStart, history>>

CommitOther(h) ==
  LET r == req[h] IN
  /\ pc[h] = "commit"
  /\ \/ r.op = "recharge" /\ RechargeTx(r.agent, r.amount)
     \/ r.op = "unfreeze" /\ FailTx(r.id)
     \/ r.op = "refund" /\ RefundTx(r.id)
  /\ Committed(h, r.id, "OK")
  /\ UNCHANGED <<marker, dayStart, history>>

\* SetMarker that stores the key instead of the order's number.
Mutant_SetMarker(h) ==
  /\ pc[h] = "mark"
  /\ marker' = [marker EXCEPT ![req[h].key] = req[h].key]
  /\ Answer(h)
  /\ UNCHANGED <<ledgerVars, dayStart, history>>

\* The request is answered once its marker is written.
SetMarker(h) ==
  /\ pc[h] = "mark"
  /\ marker' = [marker EXCEPT ![req[h].key] = req[h].id]
  /\ Answer(h)
  /\ UNCHANGED <<ledgerVars, dayStart, history>>

\* A replay's answer arrives, or its client is gone.
Receive(h) ==
  /\ pc[h] = "told"
  /\ Answer(h)
  /\ UNCHANGED <<ledgerVars, marker, dayStart, history>>

\* The request is refused by a check, or meets an error of Redis or MySQL, or
\* its process stops: before a commit ...
GiveUp(h) ==
  /\ pc[h] \in {"check", "commit", "found"}
  /\ Answer(h)
  /\ UNCHANGED <<ledgerVars, marker, dayStart, history>>

\* ... or after it, when the money has moved and the marker is not written.
LoseMarker(h) ==
  /\ MayLoseMarker
  /\ pc[h] = "mark"
  /\ Answer(h)
  /\ forgotten' = IF req[h].op = "pay" THEN [forgotten EXCEPT ![req[h].key] = @ + 1] ELSE forgotten
  /\ UNCHANGED <<ledgerVars, marker, dayStart, chargedFor, peak>>

HandlerStep(h) ==
  \/ \E r \in Requests : Begin(h, r) \/ Replay(h, r)
  \/ ReadStatus(h)
  \/ CheckRule(h) \/ CommitPay(h) \/ CommitFailedPay(h) \/ CommitOther(h)
  \/ SetMarker(h) \/ Receive(h) \/ GiveUp(h) \/ LoseMarker(h)

Expire(k) ==
  /\ MayExpire
  /\ Marked(k)
  /\ marker' = [marker EXCEPT ![k] = None]
  /\ forgotten' = [forgotten EXCEPT ![k] = Cardinality(ChargesFor(k))]
  /\ UNCHANGED <<ledgerVars, dayStart, pc, req, reply, chargedFor, peak>>

\* A new day begins.
Midnight ==
  /\ dayStart < nextId - 1
  /\ dayStart' = nextId - 1
  /\ UNCHANGED <<ledgerVars, marker, pc, req, reply, history>>

\* Callbacks, the job, and the requests modelled elsewhere, a transaction each.
LedgerOnly ==
  /\ \/ \E i \in Orders : SettleTx(i) \/ FailTx(i)
     \/ \E a, b \in Agents, v \in Amounts : TransferTx(a, b, v)
     \/ \E a \in Agents, v \in Amounts : SpendTx(a, v)
     \/ Jobs # {} /\ TimePasses      \* only jobs look at the age of an order
     \/ JobStep
  /\ UNCHANGED handlerVars

Next ==
  \/ \E h \in Handlers : HandlerStep(h)
  \/ \E k \in Keys : Expire(k)
  \/ Midnight
  \/ LedgerOnly

Spec == Init /\ [][Next]_vars

-----------------------------------------------------------------------------
(* Properties *)

TypeOK ==
  /\ LedgerTypeOK
  /\ marker \in [Keys -> {None} \union 0 .. MaxOrders]
  /\ dayStart \in 0 .. MaxOrders
  /\ pc \in [Handlers -> {"idle", "found", "check", "commit", "mark", "told"}]
  /\ req \in [Handlers -> [op : Operations, agent : Agents \union {NoAgent}, amount : Int,
                           key : Keys \union {NoKey}, id : 0 .. MaxOrders]]
  /\ reply \in [Handlers -> [status : {"SETTLING", "SETTLED", "FAILED", "REFUNDED", "OK"},
                             source : {"nothing", "marker", "row", "guess", "commit"}]]
  /\ chargedFor \in [Orders -> Keys \union {NoKey}]
  /\ forgotten \in [Keys -> Nat]
  /\ peak \in [Keys -> Nat]

\* What an answer of operation op about order i says was done for key k.
Done(op, k, i) ==
  /\ op = "pay" => i \in Orders /\ chargedFor[i] = k
  /\ op = "unfreeze" => i \in Orders /\ hold[i].status = "RELEASED"
  /\ op = "refund" => i \in Orders /\ i \in refunds

\* What a status says of the money.
StatusHolds(i, s) ==
  /\ i \in Orders
  /\ s = "SETTLED" => hold[i].status = "DEBITED"
  /\ s = "REFUNDED" => i \in refunds

\* Clients use the key for another operation as well.
Shared(op, k) == \E other \in Operations \ {op} : k \in KeysOf(other)

\* What a client is told is true while the answer is on its way, whatever
\* callbacks, jobs, refunds and retries do meanwhile.  The order that an answer
\* names was charged, released or refunded for the key, be the answer the first
\* or a replay; and a status read from the order's row still describes the
\* money: SETTLED that the hold is debited, REFUNDED that the money is back.
\* The exceptions are the code's own: a replay under a key that another
\* operation uses too, and the SETTLED that Pay guesses when it cannot read the
\* order.  (A replay is about the order of the marker, not of the request.)
RepliesAreTrue ==
  \A h \in Handlers : pc[h] \in {"mark", "told"} =>
    LET r == req[h] IN
    /\ reply[h].source = "commit" \/ ~ Shared(r.op, r.key) => Done(r.op, r.key, r.id)
    /\ reply[h].source \in {"row", "commit"} /\ r.op = "pay" =>
         StatusHolds(r.id, reply[h].status)

\* The claim of the release checklist (line 38): the same key charges once.
ChargedOncePerKey == \A k \in Keys : Cardinality(ChargesFor(k)) <= 1

\* What does hold: a key charges at most as often as requests for it were ever
\* in progress at once, and again for every charge whose marker was not written
\* or expired, however many retries there are.  Requests that never overlap, and
\* whose marker is neither lost nor expired, charge once.
ChargesAccountedFor == \A k \in Keys : Cardinality(ChargesFor(k)) <= peak[k] + forgotten[k]

\* The claim of the development plan (line 6) and of the product document
\* (line 826): what an agent's orders of one day settle for stays within its
\* daily limit.
DailyLimitHeld == \A a \in Agents : SettledToday(a) <= DailyLimit
=============================================================================
