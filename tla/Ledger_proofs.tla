---------------------------- MODULE Ledger_proofs ----------------------------
(***************************************************************************)
(* Theorems about the ledger, for any agents, amounts, jobs and number of  *)
(* orders.                                                                 *)
(***************************************************************************)
EXTENDS Ledger, WellFoundedInduction, TLAPS

(***************************************************************************)
(* Finite sums: they exist, they are unique, and how they change with      *)
(* their entries.  The library's theorems about recursive functions take   *)
(* operators as parameters and cannot be used here, so existence and       *)
(* uniqueness are proved with a least counterexample.                      *)
(***************************************************************************)

\* A set of naturals that has an element has a least one.
LEMMA LeastElement ==
  ASSUME NEW T \in SUBSET Nat, T # {}
  PROVE  \E m \in T : \A k \in T : m <= k
<1> DEFINE R == OpToRel(<, Nat)
<1>1. \A x, y \in Nat : x < y => <<x, y>> \in R
  BY DEF OpToRel
<1>2. IsWellFoundedOn(R, Nat)
  BY NatLessThanWellFounded
<1> HIDE DEF R
<1>3. PICK m \in T : \A y \in T : ~ (<<y, m>> \in R)
  BY <1>2, WFMin
<1>4. ASSUME NEW k \in T
      PROVE  m <= k
  <2>1. m \in Nat /\ k \in Nat
    OBVIOUS
  <2>2. ~ (k < m)
    BY <1>1, <1>3, <2>1
  <2>3. QED
    BY <2>1, <2>2
<1>5. QED
  BY <1>3, <1>4

\* t is a table of the running totals of f up to n.
Running(t, f, n) ==
  t = [i \in 0 .. n |-> IF i = 0 THEN 0 ELSE t[i - 1] + f[i]]

\* There is at most one table of running totals.
LEMMA RunningUnique ==
  ASSUME NEW n \in Nat, NEW f, NEW s, NEW t,
         Running(s, f, n), Running(t, f, n)
  PROVE  s = t
<1> DEFINE D == {i \in 0 .. n : s[i] # t[i]}
<1>1. CASE D = {}
  <2>1. \A i \in 0 .. n : s[i] = t[i]
    BY <1>1
  <2>2. s = [i \in 0 .. n |-> s[i]] /\ t = [i \in 0 .. n |-> t[i]]
    BY DEF Running
  <2>3. [i \in 0 .. n |-> s[i]] = [i \in 0 .. n |-> t[i]]
    BY <2>1
  <2>4. QED
    BY <2>2, <2>3
<1>2. CASE D # {}
  <2>1. PICK m \in D : \A k \in D : m <= k
    <3>1. D \in SUBSET Nat
      OBVIOUS
    <3> HIDE DEF D
    <3>2. QED
      BY <1>2, <3>1, LeastElement
  <2>2. m # 0
    BY DEF Running
  <2>3. m - 1 \in 0 .. n /\ m - 1 \notin D
    BY <2>1, <2>2
  <2>4. s[m - 1] = t[m - 1]
    BY <2>3
  <2>5. s[m] = s[m - 1] + f[m] /\ t[m] = t[m - 1] + f[m]
    BY <2>2 DEF Running
  <2>6. QED
    BY <2>4, <2>5
<1>3. QED
  BY <1>1, <1>2

\* There is a table of running totals, and its entries are integers.
LEMMA RunningExists ==
  ASSUME NEW n \in Nat, NEW f \in [1 .. n -> Int]
  PROVE  \E t \in [0 .. n -> Int] : Running(t, f, n)
<1> DEFINE Has(k) == \E t \in [0 .. k -> Int] : Running(t, f, k)
           Bad == {k \in 0 .. n : ~ Has(k)}
<1>1. SUFFICES Bad = {}
  OBVIOUS
<1>2. SUFFICES ASSUME Bad # {} PROVE FALSE
  OBVIOUS
<1>3. PICK m \in Bad : \A k \in Bad : m <= k
  <2>1. Bad \in SUBSET Nat
    OBVIOUS
  <2> HIDE DEF Bad
  <2>2. QED
    BY <1>2, <2>1, LeastElement
<1>4. m \in 0 .. n /\ ~ Has(m)
  OBVIOUS
<1>5. Has(0)
  <2> DEFINE z == [i \in 0 .. 0 |-> 0]
  <2>1. z \in [0 .. 0 -> Int] /\ Running(z, f, 0)
    BY DEF Running
  <2>2. QED
    BY <2>1
<1>6. m # 0 /\ m - 1 \in 0 .. n
  <2> HIDE DEF Has, Bad
  <2>1. m # 0
    BY <1>4, <1>5
  <2>2. QED
    BY <1>4, <2>1
<1>7. Has(m - 1)
  BY <1>3, <1>6
<1>8. PICK t \in [0 .. m - 1 -> Int] : Running(t, f, m - 1)
  BY <1>7
<1> DEFINE u == [i \in 0 .. m |-> IF i = m THEN t[m - 1] + f[m] ELSE t[i]]
<1>9. u \in [0 .. m -> Int]
  BY <1>4, <1>6
<1>10. Running(u, f, m)
  <2>1. ASSUME NEW i \in 0 .. m
        PROVE  u[i] = IF i = 0 THEN 0 ELSE u[i - 1] + f[i]
    <3>1. CASE i = 0
      BY <3>1, <1>4, <1>6, <1>8 DEF Running
    <3>2. CASE i = m
      BY <3>2, <1>4, <1>6
    <3>3. CASE i # 0 /\ i # m
      BY <3>3, <1>4, <1>6, <1>8 DEF Running
    <3>4. QED
      BY <3>1, <3>2, <3>3
  <2>2. QED
    BY <2>1 DEF Running
<1>11. QED
  BY <1>4, <1>9, <1>10

\* RunningTotal, the recursive function that sums, is such a table.
LEMMA RunningTotalRuns ==
  ASSUME NEW n \in Nat, NEW f \in [1 .. n -> Int]
  PROVE  /\ Running(RunningTotal(f, n), f, n)
         /\ RunningTotal(f, n) \in [0 .. n -> Int]
<1>1. PICK t \in [0 .. n -> Int] : Running(t, f, n)
  BY RunningExists
<1>2. Running(RunningTotal(f, n), f, n)
  BY <1>1 DEF Running, RunningTotal
<1>3. RunningTotal(f, n) = t
  BY <1>1, <1>2, RunningUnique
<1>4. QED
  BY <1>1, <1>2, <1>3

\* Total is the last entry of any table of running totals.
LEMMA TotalIsRunning ==
  ASSUME NEW n \in Nat, NEW f \in [1 .. n -> Int],
         NEW t, Running(t, f, n)
  PROVE  Total(f, n) = t[n] /\ t \in [0 .. n -> Int]
<1>1. Running(RunningTotal(f, n), f, n) /\ RunningTotal(f, n) \in [0 .. n -> Int]
  BY RunningTotalRuns
<1>2. RunningTotal(f, n) = t
  BY <1>1, RunningUnique
<1>3. QED
  BY <1>1, <1>2 DEF Total

\* The total of integers is an integer.
LEMMA TotalType ==
  ASSUME NEW n \in Nat, NEW f \in [1 .. n -> Int]
  PROVE  Total(f, n) \in Int
BY RunningTotalRuns DEF Total

\* The total of nothing but zeros is zero.
LEMMA TotalZero ==
  ASSUME NEW n \in Nat, NEW f \in [1 .. n -> Int],
         \A i \in 1 .. n : f[i] = 0
  PROVE  Total(f, n) = 0
<1> DEFINE z == [i \in 0 .. n |-> 0]
<1>1. Running(z, f, n)
  BY DEF Running
<1>2. QED
  BY <1>1, TotalIsRunning

(* Changing one entry of f changes its total by the difference.            *)
LEMMA TotalUpdate ==
  ASSUME NEW n \in Nat, NEW f \in [1 .. n -> Int], NEW g \in [1 .. n -> Int],
         NEW k \in 1 .. n, \A i \in 1 .. n : i # k => g[i] = f[i]
  PROVE  Total(g, n) = Total(f, n) + (g[k] - f[k])
<1> DEFINE t == RunningTotal(f, n)
           u == [i \in 0 .. n |-> IF i < k THEN t[i] ELSE t[i] + (g[k] - f[k])]
<1>1. Running(t, f, n) /\ t \in [0 .. n -> Int]
  BY RunningTotalRuns
<1> HIDE DEF t
<1>2. ASSUME NEW i \in 0 .. n
      PROVE  u[i] = IF i = 0 THEN 0 ELSE u[i - 1] + g[i]
  <2>1. CASE i = 0
    BY <1>1, <2>1 DEF Running
  <2>2. CASE i # 0
    <3>1. t[i] = t[i - 1] + f[i] /\ t[i - 1] \in Int /\ f[i] \in Int /\ g[i] \in Int
      BY <1>1, <2>2 DEF Running
    <3>2. i - 1 \in 0 .. n
      BY <2>2
    <3>3. CASE i < k
      BY <2>2, <3>1, <3>2, <3>3
    <3>4. CASE i = k
      BY <2>2, <3>1, <3>2, <3>4
    <3>5. CASE i > k
      BY <2>2, <3>1, <3>2, <3>5
    <3>6. QED
      BY <3>3, <3>4, <3>5
  <2>3. QED
    BY <2>1, <2>2
<1>3. Running(u, g, n)
  BY <1>2 DEF Running
<1>4. Total(g, n) = u[n]
  BY <1>3, TotalIsRunning
<1>5. Total(f, n) = t[n]
  BY <1>1, TotalIsRunning
<1>6. QED
  BY <1>4, <1>5

(* A total of naturals is at least each of its entries.                    *)
LEMMA TotalBoundsEntry ==
  ASSUME NEW n \in Nat, NEW f \in [1 .. n -> Nat], NEW k \in 1 .. n
  PROVE  Total(f, n) >= f[k]
<1>1. f \in [1 .. n -> Int]
  OBVIOUS
<1> DEFINE t == RunningTotal(f, n)
<1>2. Running(t, f, n) /\ t \in [0 .. n -> Int]
  BY <1>1, RunningTotalRuns
<1> HIDE DEF t
<1>3. ASSUME NEW i \in 1 .. n
      PROVE  t[i] = t[i - 1] + f[i] /\ t[i - 1] \in Int
  BY <1>2 DEF Running
<1> DEFINE Low(i) == t[i] < IF i < k THEN 0 ELSE f[k]
           Bad == {i \in 0 .. n : Low(i)}
<1>4. Bad = {}
  <2>1. SUFFICES ASSUME Bad # {} PROVE FALSE
    OBVIOUS
  <2>2. PICK m \in Bad : \A j \in Bad : m <= j
    <3>1. Bad \in SUBSET Nat
      OBVIOUS
    <3> HIDE DEF Bad
    <3>2. QED
      BY <2>1, <3>1, LeastElement
  <2>3. m \in 0 .. n /\ Low(m)
    OBVIOUS
  <2>4. m # 0
    BY <1>2, <2>3 DEF Running
  <2>5. m - 1 \in 0 .. n /\ ~ Low(m - 1)
    BY <2>2, <2>3, <2>4
  <2>6. t[m] = t[m - 1] + f[m] /\ t[m - 1] \in Int /\ f[m] \in Nat /\ f[k] \in Nat
    BY <1>3, <2>3, <2>4
  <2>7. QED
    BY <2>3, <2>4, <2>5, <2>6
<1>5. ~ Low(n)
  BY <1>4
<1>6. Total(f, n) = t[n]
  BY <1>1, <1>2, TotalIsRunning
<1>7. t[n] \in Int /\ f[k] \in Nat
  BY <1>2
<1>8. QED
  BY <1>5, <1>6, <1>7

-----------------------------------------------------------------------------

(***************************************************************************)
(* Types                                                                   *)
(***************************************************************************)

\* Whatever a statement does to an account row, an account row is left.
LEMMA AccountUpdates ==
  ASSUME NEW acc \in Account, NEW v \in Int
  PROVE  /\ [acc EXCEPT !.balance = @ + v] \in Account
         /\ [acc EXCEPT !.balance = @ - v] \in Account
         /\ Frozen(acc, v) \in Account
         /\ Debited(acc, v) \in Account
         /\ Released(acc, v) \in Account
BY DEF Account, Frozen, Debited, Released

\* A credit leaves account rows behind.
LEMMA CreditTyped ==
  ASSUME NEW a \in Agents, NEW v \in Int, account \in [Agents -> Account], Credit(a, v)
  PROVE  account' \in [Agents -> Account]
<1>1. [account[a] EXCEPT !.balance = @ + v] \in Account
  BY AccountUpdates
<1>2. account' = [account EXCEPT ![a] = [account[a] EXCEPT !.balance = @ + v]]
  BY DEF Credit
<1>3. QED
  BY <1>1, <1>2

\* So does the debit or the release of a hold.
LEMMA HoldUpdateTyped ==
  ASSUME NEW i \in Orders, account \in [Agents -> Account], hold[i].amount \in Int,
         DebitHoldTx(i) \/ ReleaseHoldTx(i)
  PROVE  account' \in [Agents -> Account]
<1> DEFINE a == hold[i].agent
           v == hold[i].amount
<1>1. PICK acc \in {Debited(account[a], v), Released(account[a], v)} :
        account' = [account EXCEPT ![a] = acc]
  BY DEF DebitHoldTx, ReleaseHoldTx
<1>2. CASE a \in Agents
  <2>1. acc \in Account
    BY <1>2, AccountUpdates
  <2>2. QED
    BY <1>1, <2>1
<1>3. CASE a \notin Agents
  BY <1>1, <1>3
<1>4. QED
  BY <1>2, <1>3

\* A row with its status set is still a row.
LEMMA RowUpdates ==
  /\ \A r \in HoldRow, s \in HoldStatus : [r EXCEPT !.status = s] \in HoldRow
  /\ \A r \in OrderRow, s \in OrderStatus : [r EXCEPT !.status = s] \in OrderRow
  /\ \A a \in Agents, v \in Nat, s \in HoldStatus : Row(a, v, s) \in HoldRow
  /\ \A a \in Agents, v \in Nat, s \in OrderStatus : Row(a, v, s) \in OrderRow
  /\ NoRow \in HoldRow /\ NoRow \in OrderRow
BY DEF HoldRow, OrderRow, Row, NoRow, HoldStatus, OrderStatus

\* Every variable of the ledger keeps its type, whatever the constants.
THEOREM LedgerTyping == LedgerSpec => []LedgerTypeOK
<1>1. LedgerInit => LedgerTypeOK
  BY LedgerAssumption, RowUpdates DEF LedgerInit, LedgerTypeOK, Orders, Account
<1>2. LedgerTypeOK /\ [LedgerNext]_ledgerVars => LedgerTypeOK'
  <2> SUFFICES ASSUME LedgerTypeOK, [LedgerNext]_ledgerVars
               PROVE  LedgerTypeOK'
    OBVIOUS
  <2> USE LedgerAssumption DEF LedgerTypeOK
  <2>0. /\ \A i \in Orders : hold[i].amount \in Int /\ order[i].amount \in Int
        /\ "FROZEN" \in HoldStatus /\ "DEBITED" \in HoldStatus /\ "RELEASED" \in HoldStatus
        /\ "SETTLING" \in OrderStatus /\ "SETTLED" \in OrderStatus
        /\ "FAILED" \in OrderStatus /\ "REFUNDED" \in OrderStatus
        /\ \A v \in Amounts : v \in Int /\ v \in Nat /\ -v \in Int
        /\ \A v \in RechargeAmounts : v \in Int
    BY DEF HoldRow, OrderRow, HoldStatus, OrderStatus
  <2>1. ASSUME NEW a \in Agents, NEW v \in RechargeAmounts, RechargeTx(a, v)
        PROVE  LedgerTypeOK'
    <3>1. account' \in [Agents -> Account]
      BY <2>0, <2>1, CreditTyped DEF RechargeTx
    <3>2. recharged' \in [Agents -> Int]
      BY <2>0, <2>1 DEF RechargeTx
    <3>3. QED
      BY <2>1, <3>1, <3>2 DEF RechargeTx
  <2>2. ASSUME NEW a \in Agents, NEW b \in Agents, NEW v \in Amounts, TransferTx(a, b, v)
        PROVE  LedgerTypeOK'
    <3>1. account' \in [Agents -> Account]
      <4> DEFINE mid == [account EXCEPT ![a].balance = @ - v]
      <4>1. mid \in [Agents -> Account]
        BY <2>0, AccountUpdates
      <4>2. account' = [mid EXCEPT ![b].balance = @ + v]
        BY <2>2 DEF TransferTx
      <4> HIDE DEF mid
      <4>3. QED
        BY <2>0, <4>1, <4>2, AccountUpdates
    <3>2. moved' \in [Agents -> Int]
      BY <2>0, <2>2 DEF TransferTx
    <3>3. QED
      BY <2>2, <3>1, <3>2 DEF TransferTx
  <2>3. ASSUME NEW a \in Agents, NEW v \in Amounts, SpendTx(a, v)
        PROVE  LedgerTypeOK'
    <3>1. account' \in [Agents -> Account]
      BY <2>0, <2>3, CreditTyped DEF SpendTx
    <3>2. moved' \in [Agents -> Int]
      BY <2>0, <2>3 DEF SpendTx
    <3>3. QED
      BY <2>3, <3>1, <3>2 DEF SpendTx
  <2>4. ASSUME NEW a \in Agents, NEW v \in Amounts, NEW s \in HoldStatus, NEW acc \in Account,
               OpenPayment(a, v, s, acc)
        PROVE  /\ account' \in [Agents -> Account]
               /\ hold' \in [Orders -> HoldRow]
               /\ nextId \in Orders /\ nextId' \in 1 .. MaxOrders + 1
    <3>1. account' \in [Agents -> Account]
      BY <2>4 DEF OpenPayment
    <3>2. hold' \in [Orders -> HoldRow]
      BY <2>0, <2>4, RowUpdates DEF OpenPayment
    <3>3. nextId \in Orders /\ nextId' \in 1 .. MaxOrders + 1
      BY <2>4 DEF OpenPayment, Orders
    <3>4. QED
      BY <3>1, <3>2, <3>3
  <2>5. ASSUME NEW a \in Agents, NEW v \in Amounts, PayFailedTx(a, v)
        PROVE  LedgerTypeOK'
    <3>1. Released(Frozen(account[a], v), v) \in Account
      BY <2>0, AccountUpdates
    <3>2. QED
      BY <2>0, <2>4, <2>5, <3>1 DEF PayFailedTx, OpenPayment
  <2>6. ASSUME NEW a \in Agents, NEW v \in Amounts, PaySettlingTx(a, v)
        PROVE  LedgerTypeOK'
    <3>1. Frozen(account[a], v) \in Account
      BY <2>0, AccountUpdates
    <3>2. order' \in [Orders -> OrderRow]
      BY <2>0, <2>6, RowUpdates DEF PaySettlingTx
    <3>3. QED
      BY <2>0, <2>4, <2>6, <3>1, <3>2 DEF PaySettlingTx, OpenPayment
  <2>7. ASSUME NEW a \in Agents, NEW v \in Amounts, PaySettledTx(a, v)
        PROVE  LedgerTypeOK'
    <3>1. Debited(Frozen(account[a], v), v) \in Account
      BY <2>0, AccountUpdates
    <3>2. order' \in [Orders -> OrderRow]
      BY <2>0, <2>7, RowUpdates DEF PaySettledTx
    <3>3. QED
      BY <2>0, <2>4, <2>7, <3>1, <3>2 DEF PaySettledTx, OpenPayment
  <2>8. ASSUME NEW i \in Orders, DebitHoldTx(i) \/ ReleaseHoldTx(i)
        PROVE  account' \in [Agents -> Account] /\ hold' \in [Orders -> HoldRow]
    <3>1. hold' \in [Orders -> HoldRow]
      BY <2>0, <2>8, RowUpdates DEF DebitHoldTx, ReleaseHoldTx
    <3>2. account' \in [Agents -> Account]
      BY <2>0, <2>8, HoldUpdateTyped
    <3>3. QED
      BY <3>1, <3>2
  <2>9. ASSUME NEW i \in Orders, NEW s \in OrderStatus,
               order' = [order EXCEPT ![i].status = s]
        PROVE  order' \in [Orders -> OrderRow]
    BY <2>9, RowUpdates
  <2>10. ASSUME NEW i \in Orders, NEW e \in Events, Announce(e, i)
         PROVE  outbox' \subseteq Events \X Orders
    BY <2>10 DEF Announce
  <2>11. ASSUME NEW i \in Orders, SettleTx(i)
         PROVE  LedgerTypeOK'
    BY <2>0, <2>8, <2>9, <2>10, <2>11 DEF SettleTx, Events
  <2>12. ASSUME NEW i \in Orders, FailTx(i)
         PROVE  LedgerTypeOK'
    BY <2>0, <2>8, <2>9, <2>12 DEF FailTx
  <2>13. ASSUME NEW i \in Orders, RefundTx(i)
         PROVE  LedgerTypeOK'
    <3>1. account' \in [Agents -> Account]
      BY <2>0, <2>13, AccountUpdates DEF RefundTx, Credit
    <3>2. QED
      BY <2>0, <2>9, <2>10, <2>13, <3>1 DEF RefundTx, Events
  <2>14. ASSUME TimePasses
         PROVE  LedgerTypeOK'
    BY <2>14 DEF TimePasses, Orders
  <2>15. ASSUME NEW j \in Jobs, CompensationScan(j)
         PROVE  LedgerTypeOK'
    BY <2>15 DEF CompensationScan, Stale
  <2>16. ASSUME NEW j \in Jobs, NEW i \in Orders, CompensateTx(j, i)
         PROVE  LedgerTypeOK'
    <3>1. account' \in [Agents -> Account] /\ hold' \in [Orders -> HoldRow]
      BY <2>8, <2>16 DEF CompensateTx
    <3>2. scanned' \in [Jobs -> SUBSET Orders]
      BY <2>16 DEF CompensateTx
    <3>3. QED
      BY <2>0, <2>9, <2>16, <3>1, <3>2 DEF CompensateTx
  <2>17. ASSUME NEW j \in Jobs, CompensationAborts(j)
         PROVE  LedgerTypeOK'
    BY <2>17 DEF CompensationAborts
  <2>18. CASE UNCHANGED ledgerVars
    BY <2>18 DEF ledgerVars
  <2>19. QED
    BY <2>1, <2>2, <2>3, <2>5, <2>6, <2>7, <2>11, <2>12, <2>13, <2>14, <2>15, <2>16, <2>17, <2>18
       DEF LedgerNext, FundStep, PayStep, OrderStep, JobStep
<1>3. QED
  BY <1>1, <1>2, PTL DEF LedgerSpec

-----------------------------------------------------------------------------
(***************************************************************************)
(* Orders, holds and announcements                                         *)
(***************************************************************************)

\* What the rows of the tables say about each other; inductive given the types.
RowsInv == OrderMatchesHold /\ RowsWellFormed /\ AnnouncedMoneyMoved

\* A statement that changes neither rows nor what was announced keeps RowsInv
\* (time may pass, a job may read or drop rows).
LEMMA RowsUntouched ==
  ASSUME RowsInv, UNCHANGED <<hold, order, nextId, outbox, refunds>>,
         agedUpTo' < nextId,
         \A j \in Jobs : \A i \in scanned'[j] : order[i].status # "NONE"
  PROVE  RowsInv'
BY DEF RowsInv, OrderMatchesHold, RowsWellFormed, AnnouncedMoneyMoved

\* Opening a payment writes the rows of a number never used before.
LEMMA RowsOpened ==
  ASSUME LedgerTypeOK, RowsInv,
         NEW a \in Agents, NEW v \in Amounts, NEW acc, NEW s, NEW t,
         OpenPayment(a, v, s, acc),
         \/ t = "NONE" /\ s = "RELEASED" /\ order' = order
         \/ /\ <<s, t>> \in {<<"FROZEN", "SETTLING">>, <<"DEBITED", "SETTLED">>}
            /\ order' = [order EXCEPT ![nextId] = Row(a, v, t)]
  PROVE  RowsInv'
<1> USE LedgerAssumption
<1>1. /\ nextId \in Orders /\ nextId \in Int
      /\ hold[nextId] = NoRow /\ order[nextId] = NoRow
      /\ nextId \notin refunds
      /\ <<"payment.settled", nextId>> \notin outbox
      /\ v \in Nat /\ v > 0
  BY DEF LedgerTypeOK, OpenPayment, Orders, RowsInv, RowsWellFormed,
         AnnouncedMoneyMoved, NoRow
<1>2. /\ hold'[nextId] = Row(a, v, s)
      /\ \A i \in Orders : i # nextId => hold'[i] = hold[i] /\ order'[i] = order[i]
      /\ order'[nextId] = IF t = "NONE" THEN NoRow ELSE Row(a, v, t)
  BY <1>1 DEF OpenPayment, LedgerTypeOK
<1>3. UNCHANGED <<outbox, refunds, agedUpTo, scanned>> /\ nextId' = nextId + 1
  BY DEF OpenPayment
<1>4. OrderMatchesHold'
  BY <1>1, <1>2, <1>3 DEF RowsInv, OrderMatchesHold, Row, NoRow
<1>5. RowsWellFormed'
  <2>1. ASSUME NEW i \in Orders
        PROVE  /\ i < nextId' => hold'[i].status # "NONE" /\ hold'[i].agent \in Agents /\ hold'[i].amount > 0
               /\ i >= nextId' => hold'[i] = NoRow /\ order'[i] = NoRow
               /\ i \in refunds' =>
                    hold'[i].status = "DEBITED" /\ order'[i].status \in {"REFUNDED", "FAILED"}
    <3>1. CASE i = nextId
      BY <3>1, <1>1, <1>2, <1>3 DEF Row
    <3>2. CASE i # nextId
      <4>1. i \in Int /\ (i < nextId' => i < nextId) /\ (i >= nextId' => i >= nextId)
        BY <3>2, <1>1, <1>3 DEF Orders
      <4>2. QED
        BY <4>1, <3>2, <1>2, <1>3 DEF RowsInv, RowsWellFormed
    <3>3. QED
      BY <3>1, <3>2
  <2>2. agedUpTo' < nextId'
    BY <1>1, <1>3 DEF RowsInv, RowsWellFormed, LedgerTypeOK
  <2>3. ASSUME NEW j \in Jobs, NEW i \in scanned'[j]
        PROVE  order'[i].status # "NONE"
    <3>1. i \in Orders /\ order[i].status # "NONE"
      BY <1>3 DEF RowsInv, RowsWellFormed, LedgerTypeOK
    <3>2. i # nextId
      BY <3>1, <1>1 DEF NoRow
    <3>3. QED
      BY <3>1, <3>2, <1>2
  <2>4. QED
    BY <2>1, <2>2, <2>3 DEF RowsWellFormed
<1>6. AnnouncedMoneyMoved'
  BY <1>1, <1>2, <1>3 DEF RowsInv, AnnouncedMoneyMoved
<1>7. QED
  BY <1>4, <1>5, <1>6 DEF RowsInv

\* Resolving, refunding and compensating touch the rows of one number: s and t
\* are the new statuses of its hold and its order.
LEMMA RowsResolved ==
  ASSUME LedgerTypeOK, RowsInv, NEW i \in Orders, NEW s, NEW t,
         order[i].status # "NONE",
         hold' = [hold EXCEPT ![i].status = s],
         order' = [order EXCEPT ![i].status = t],
         nextId' = nextId, agedUpTo' = agedUpTo,
         \A j \in Jobs : scanned'[j] \subseteq scanned[j],
         \/ /\ s = "DEBITED" /\ t = "SETTLED" /\ hold[i].status = "FROZEN"
            /\ Announce("payment.settled", i) /\ refunds' = refunds
         \/ /\ s = "DEBITED" /\ t = "REFUNDED" /\ order[i].status = "SETTLED"
            /\ Announce("payment.refunded", i) /\ refunds' = refunds \union {i}
         \/ /\ s = "RELEASED" /\ t = "FAILED" /\ hold[i].status = "FROZEN"
            /\ UNCHANGED <<outbox, refunds>>
         \/ /\ s = hold[i].status /\ s # "FROZEN" /\ t = "FAILED"
            /\ UNCHANGED <<outbox, refunds>>
  PROVE  RowsInv'
<1>1. /\ hold'[i].status = s /\ hold'[i].agent = hold[i].agent /\ hold'[i].amount = hold[i].amount
      /\ order'[i].status = t /\ order'[i].agent = order[i].agent /\ order'[i].amount = order[i].amount
      /\ \A k \in Orders : k # i => hold'[k] = hold[k] /\ order'[k] = order[k]
  BY DEF LedgerTypeOK, HoldRow, OrderRow
<1>2. /\ i \in Int /\ nextId \in Int /\ i < nextId
      /\ order[i].agent = hold[i].agent /\ order[i].amount = hold[i].amount
      /\ order[i].status = "SETTLED" => hold[i].status = "DEBITED" /\ i \notin refunds
      /\ order[i].status = "SETTLING" <=> hold[i].status = "FROZEN"
      /\ hold[i].status # "NONE"
      /\ i \in refunds => hold[i].status = "DEBITED"
  BY DEF LedgerTypeOK, RowsInv, RowsWellFormed, OrderMatchesHold, NoRow, Orders
<1>3. OrderMatchesHold'
  BY <1>1, <1>2 DEF RowsInv, OrderMatchesHold
<1>4. RowsWellFormed'
  <2>1. ASSUME NEW k \in Orders
        PROVE  /\ k < nextId' => hold'[k].status # "NONE" /\ hold'[k].agent \in Agents /\ hold'[k].amount > 0
               /\ k >= nextId' => hold'[k] = NoRow /\ order'[k] = NoRow
               /\ k \in refunds' =>
                    hold'[k].status = "DEBITED" /\ order'[k].status \in {"REFUNDED", "FAILED"}
    <3>1. CASE k = i
      BY <3>1, <1>1, <1>2 DEF RowsInv, RowsWellFormed
    <3>2. CASE k # i
      BY <3>2, <1>1 DEF RowsInv, RowsWellFormed
    <3>3. QED
      BY <3>1, <3>2
  <2>2. ASSUME NEW j \in Jobs, NEW k \in scanned'[j]
        PROVE  order'[k].status # "NONE"
    BY <1>1 DEF RowsInv, RowsWellFormed, LedgerTypeOK
  <2>3. QED
    BY <2>1, <2>2 DEF RowsInv, RowsWellFormed
<1>5. AnnouncedMoneyMoved'
  <2>1. outbox' \subseteq outbox \union {<<"payment.settled", i>>, <<"payment.refunded", i>>}
    BY DEF Announce
  <2>2. <<"payment.settled", i>> \in outbox' => s = "DEBITED"
    BY <1>2 DEF Announce, RowsInv, AnnouncedMoneyMoved
  <2>3. ASSUME NEW k \in Orders, <<"payment.settled", k>> \in outbox'
        PROVE  hold'[k].status = "DEBITED"
    BY <2>1, <2>2, <2>3, <1>1 DEF RowsInv, AnnouncedMoneyMoved
  <2>4. "payment.refunded" \in Subscribed =>
          refunds' = {k \in Orders : <<"payment.refunded", k>> \in outbox'}
    BY DEF Announce, RowsInv, AnnouncedMoneyMoved
  <2>5. QED
    BY <2>3, <2>4 DEF AnnouncedMoneyMoved
<1>6. QED
  BY <1>3, <1>4, <1>5 DEF RowsInv
\* The order, hold and webhook rows stay consistent with one another under
\* every interleaving of requests, callbacks and compensation jobs.
THEOREM LedgerRows == LedgerSpec => []RowsInv
<1>1. LedgerInit => RowsInv
  BY LedgerAssumption
     DEF LedgerInit, RowsInv, OrderMatchesHold, RowsWellFormed, AnnouncedMoneyMoved,
         NoRow, Orders
<1>2. LedgerTypeOK /\ RowsInv /\ [LedgerNext]_ledgerVars => RowsInv'
  <2> SUFFICES ASSUME LedgerTypeOK, RowsInv, [LedgerNext]_ledgerVars
               PROVE  RowsInv'
    OBVIOUS
  <2>0. /\ agedUpTo < nextId
        /\ \A j \in Jobs : \A i \in scanned[j] : order[i].status # "NONE"
    BY DEF RowsInv, RowsWellFormed
  <2>1. ASSUME NEW a \in Agents, NEW v \in RechargeAmounts, RechargeTx(a, v)
        PROVE  RowsInv'
    BY <2>0, <2>1, RowsUntouched DEF RechargeTx
  <2>2. ASSUME NEW a \in Agents, NEW b \in Agents, NEW v \in Amounts, TransferTx(a, b, v)
        PROVE  RowsInv'
    BY <2>0, <2>2, RowsUntouched DEF TransferTx
  <2>3. ASSUME NEW a \in Agents, NEW v \in Amounts, SpendTx(a, v)
        PROVE  RowsInv'
    BY <2>0, <2>3, RowsUntouched DEF SpendTx
  <2>4. ASSUME NEW a \in Agents, NEW v \in Amounts, PayFailedTx(a, v)
        PROVE  RowsInv'
    BY <2>4, RowsOpened DEF PayFailedTx
  <2>5. ASSUME NEW a \in Agents, NEW v \in Amounts, PaySettlingTx(a, v)
        PROVE  RowsInv'
    BY <2>5, RowsOpened DEF PaySettlingTx
  <2>6. ASSUME NEW a \in Agents, NEW v \in Amounts, PaySettledTx(a, v)
        PROVE  RowsInv'
    BY <2>6, RowsOpened DEF PaySettledTx
  <2>7. ASSUME NEW i \in Orders, SettleTx(i)
        PROVE  RowsInv'
    BY <2>7, RowsResolved DEF SettleTx, DebitHoldTx
  <2>8. ASSUME NEW i \in Orders, FailTx(i)
        PROVE  RowsInv'
    BY <2>8, RowsResolved DEF FailTx, ReleaseHoldTx
  <2>9. ASSUME NEW i \in Orders, RefundTx(i)
        PROVE  RowsInv'
    <3>1. hold[i].status = "DEBITED"
      BY <2>9 DEF RefundTx, RowsInv, OrderMatchesHold
    <3>2. hold' = [hold EXCEPT ![i].status = "DEBITED"]
      BY <2>9, <3>1 DEF RefundTx, LedgerTypeOK, HoldRow
    <3>3. QED
      BY <2>9, <3>1, <3>2, RowsResolved DEF RefundTx
  <2>10. CASE TimePasses
    BY <2>0, <2>10, RowsUntouched DEF TimePasses
  <2>11. ASSUME NEW j \in Jobs, CompensationScan(j)
         PROVE  RowsInv'
    BY <2>0, <2>11, RowsUntouched DEF CompensationScan, Stale, LedgerTypeOK
  <2>12. ASSUME NEW j \in Jobs, NEW i \in Orders, CompensateTx(j, i)
         PROVE  RowsInv'
    <3>1. order[i].status # "NONE"
      BY <2>0, <2>12 DEF CompensateTx
    <3>2. \A k \in Jobs : scanned'[k] \subseteq scanned[k]
      BY <2>12 DEF CompensateTx, LedgerTypeOK
    <3>3. CASE ReleaseHoldTx(i)
      BY <2>12, <3>1, <3>2, <3>3, RowsResolved DEF CompensateTx, ReleaseHoldTx
    <3>4. CASE hold[i].status # "FROZEN" /\ UNCHANGED <<account, hold>>
      <4>1. hold' = [hold EXCEPT ![i].status = hold[i].status]
        BY <3>4 DEF LedgerTypeOK, HoldRow
      <4>2. QED
        BY <2>12, <3>1, <3>2, <3>4, <4>1, RowsResolved DEF CompensateTx
    <3>5. QED
      BY <2>12, <3>3, <3>4 DEF CompensateTx
  <2>13. ASSUME NEW j \in Jobs, CompensationAborts(j)
         PROVE  RowsInv'
    BY <2>0, <2>13, RowsUntouched DEF CompensationAborts, LedgerTypeOK
  <2>14. CASE UNCHANGED ledgerVars
    BY <2>0, <2>14, RowsUntouched DEF ledgerVars
  <2>15. QED
    BY <2>1, <2>2, <2>3, <2>4, <2>5, <2>6, <2>7, <2>8, <2>9, <2>10, <2>11, <2>12, <2>13, <2>14
       DEF LedgerNext, FundStep, PayStep, OrderStep, JobStep
<1>3. QED
  BY <1>1, <1>2, LedgerTyping, PTL DEF LedgerSpec

-----------------------------------------------------------------------------
(***************************************************************************)
(* Money                                                                   *)
(***************************************************************************)

\* What the balances say about the rows; inductive given RowsInv.
FundsInv == NoOverdraft /\ FrozenIsSumOfHolds /\ MoneyConserved

\* What agent b has in FROZEN holds, and in charges not given back.
HeldSum(b) == Total(HoldAmounts(b, "FROZEN"), MaxOrders)
ChargedSum(b) == Total(Charges(b), MaxOrders)

\* The two sums over an agent's holds are sums of naturals.
LEMMA SumsTyped ==
  ASSUME LedgerTypeOK, NEW b \in Agents
  PROVE  /\ HoldAmounts(b, "FROZEN") \in [1 .. MaxOrders -> Nat]
         /\ HoldAmounts(b, "FROZEN") \in [1 .. MaxOrders -> Int]
         /\ Charges(b) \in [1 .. MaxOrders -> Int]
         /\ HeldSum(b) \in Int
         /\ ChargedSum(b) \in Int
<1>1. \A i \in Orders : hold[i].amount \in Nat
  BY DEF LedgerTypeOK, HoldRow
<1>2. HoldAmounts(b, "FROZEN") \in [1 .. MaxOrders -> Nat]
  BY <1>1 DEF HoldAmounts, Orders
<1>3. Charges(b) \in [1 .. MaxOrders -> Nat]
  BY <1>1 DEF Charges, Orders
<1>4. QED
  BY <1>2, <1>3, TotalType, LedgerAssumption DEF HeldSum, ChargedSum

\* The agent of a FROZEN hold has at least its amount frozen, so the WHERE
\* clause of the updates that take it out of frozen_balance is met.
LEMMA FrozenCoversHold ==
  ASSUME LedgerTypeOK, FrozenIsSumOfHolds, NEW i \in Orders,
         hold[i].status = "FROZEN", hold[i].agent \in Agents
  PROVE  account[hold[i].agent].frozen >= hold[i].amount
<1> DEFINE b == hold[i].agent
<1>1. HoldAmounts(b, "FROZEN")[i] = hold[i].amount
  BY DEF HoldAmounts
<1>2. HoldAmounts(b, "FROZEN") \in [1 .. MaxOrders -> Nat] /\ i \in 1 .. MaxOrders
  BY SumsTyped DEF Orders
<1>3. Total(HoldAmounts(b, "FROZEN"), MaxOrders) >= HoldAmounts(b, "FROZEN")[i]
  BY <1>2, TotalBoundsEntry, LedgerAssumption
<1>4. QED
  BY <1>1, <1>3 DEF FrozenIsSumOfHolds

\* What one hold adds to its agent's frozen amount and to its charges.
HeldPart(b, i) ==
  IF hold[i].agent = b /\ hold[i].status = "FROZEN" THEN hold[i].amount ELSE 0
ChargedPart(b, i) ==
  IF hold[i].agent = b /\ hold[i].status = "DEBITED" /\ i \notin refunds
  THEN hold[i].amount ELSE 0

\* A step that touches the rows of one number changes the sums by what that
\* hold adds to them.
LEMMA SumsFollow ==
  ASSUME LedgerTypeOK, LedgerTypeOK', NEW i \in Orders, NEW b \in Agents,
         \A k \in Orders : k # i => hold'[k] = hold[k] /\ (k \in refunds' <=> k \in refunds)
  PROVE  /\ HeldSum(b)' = HeldSum(b) + (HeldPart(b, i)' - HeldPart(b, i))
         /\ ChargedSum(b)' = ChargedSum(b) + (ChargedPart(b, i)' - ChargedPart(b, i))
<1> DEFINE f == HoldAmounts(b, "FROZEN")
           g == Charges(b)
<1>1. f \in [1 .. MaxOrders -> Int] /\ g \in [1 .. MaxOrders -> Int]
  BY SumsTyped
<1>2. f' \in [1 .. MaxOrders -> Int] /\ g' \in [1 .. MaxOrders -> Int]
  <2>1. LedgerTypeOK => f \in [1 .. MaxOrders -> Int] /\ g \in [1 .. MaxOrders -> Int]
    BY SumsTyped
  <2>2. \A k \in Orders : hold'[k].amount \in Int
    BY DEF LedgerTypeOK, HoldRow
  <2>3. QED
    BY <2>2 DEF HoldAmounts, Charges, Orders
<1>3. /\ f[i] = HeldPart(b, i) /\ f'[i] = HeldPart(b, i)'
      /\ g[i] = ChargedPart(b, i) /\ g'[i] = ChargedPart(b, i)'
      /\ \A k \in 1 .. MaxOrders : k # i => f'[k] = f[k] /\ g'[k] = g[k]
  BY DEF HoldAmounts, Charges, HeldPart, ChargedPart, Orders
<1>4. i \in 1 .. MaxOrders /\ MaxOrders \in Nat
  BY LedgerAssumption DEF Orders
<1> HIDE DEF f, g
<1>5. Total(f', MaxOrders) = Total(f, MaxOrders) + (f'[i] - f[i])
  BY <1>1, <1>2, <1>3, <1>4, TotalUpdate
<1>6. Total(g', MaxOrders) = Total(g, MaxOrders) + (g'[i] - g[i])
  BY <1>1, <1>2, <1>3, <1>4, TotalUpdate
<1>7. HeldSum(b)' = Total(f', MaxOrders) /\ ChargedSum(b)' = Total(g', MaxOrders)
  BY DEF HeldSum, ChargedSum, f, g
<1>8. HeldSum(b) = Total(f, MaxOrders) /\ ChargedSum(b) = Total(g, MaxOrders)
  BY DEF HeldSum, ChargedSum, f, g
<1>9. QED
  BY <1>3, <1>5, <1>6, <1>7, <1>8

\* Money that comes, goes or moves between balances while no hold changes.
LEMMA FundsMoved ==
  ASSUME LedgerTypeOK, LedgerTypeOK', FundsInv, UNCHANGED <<hold, refunds>>,
         \A b \in Agents :
           /\ account'[b].frozen = account[b].frozen
           /\ account'[b].balance >= 0
           /\ account'[b].balance - account[b].balance
                = (recharged'[b] + moved'[b]) - (recharged[b] + moved[b])
  PROVE  FundsInv'
<1>1. ASSUME NEW b \in Agents
      PROVE  /\ account'[b].frozen >= 0
             /\ account'[b].frozen = HeldSum(b)'
             /\ account'[b].balance + account'[b].frozen
                  = recharged'[b] + moved'[b] - ChargedSum(b)'
  <2>1. HeldSum(b)' = HeldSum(b) /\ ChargedSum(b)' = ChargedSum(b)
    BY DEF HeldSum, ChargedSum, HoldAmounts, Charges
  <2>2. /\ account[b].frozen >= 0 /\ account[b].frozen = HeldSum(b)
        /\ account[b].balance + account[b].frozen = recharged[b] + moved[b] - ChargedSum(b)
    BY DEF FundsInv, NoOverdraft, FrozenIsSumOfHolds, MoneyConserved, HeldSum, ChargedSum
  <2>3. /\ account[b].balance \in Int /\ account[b].frozen \in Int /\ account'[b].balance \in Int
        /\ recharged[b] \in Int /\ moved[b] \in Int /\ recharged'[b] \in Int /\ moved'[b] \in Int
        /\ ChargedSum(b) \in Int
    BY SumsTyped DEF LedgerTypeOK, Account
  <2>4. account'[b].balance - account[b].balance
          = (recharged'[b] + moved'[b]) - (recharged[b] + moved[b])
        /\ account'[b].frozen = account[b].frozen
    OBVIOUS
  <2>5. QED
    BY <2>1, <2>2, <2>3, <2>4
<1>2. QED
  BY <1>1 DEF FundsInv, NoOverdraft, FrozenIsSumOfHolds, MoneyConserved, HeldSum, ChargedSum

\* A step on the hold numbered i, and on the account of that hold's agent a:
\* df and db are what frozen_balance and balance change by.
LEMMA FundsFollow ==
  ASSUME LedgerTypeOK, LedgerTypeOK', FundsInv, NEW i \in Orders, NEW a \in Agents,
         NEW db \in Int, NEW df \in Int,
         \A k \in Orders : k # i => hold'[k] = hold[k] /\ (k \in refunds' <=> k \in refunds),
         UNCHANGED <<recharged, moved>>,
         account' = [account EXCEPT ![a] =
                       [balance |-> account[a].balance + db, frozen |-> account[a].frozen + df]],
         account[a].balance + db >= 0, account[a].frozen + df >= 0,
         HeldPart(a, i)' - HeldPart(a, i) = df,
         ChargedPart(a, i)' - ChargedPart(a, i) = -(db + df),
         \A b \in Agents \ {a} : HeldPart(b, i)' = 0 /\ HeldPart(b, i) = 0
                              /\ ChargedPart(b, i)' = 0 /\ ChargedPart(b, i) = 0
  PROVE  FundsInv'
<1>1. ASSUME NEW b \in Agents
      PROVE  /\ account'[b].balance >= 0 /\ account'[b].frozen >= 0
             /\ account'[b].frozen = HeldSum(b)'
             /\ account'[b].balance + account'[b].frozen
                  = recharged'[b] + moved'[b] - ChargedSum(b)'
  <2>1. /\ account[b].balance >= 0
        /\ account[b].frozen >= 0 /\ account[b].frozen = HeldSum(b)
        /\ account[b].balance + account[b].frozen = recharged[b] + moved[b] - ChargedSum(b)
    BY DEF FundsInv, NoOverdraft, FrozenIsSumOfHolds, MoneyConserved, HeldSum, ChargedSum
  <2>2. /\ account[b].balance \in Int /\ account[b].frozen \in Int
        /\ recharged[b] \in Int /\ moved[b] \in Int
        /\ HeldSum(b) \in Int /\ ChargedSum(b) \in Int
    BY SumsTyped DEF LedgerTypeOK, Account
  <2>3. /\ HeldSum(b)' = HeldSum(b) + (HeldPart(b, i)' - HeldPart(b, i))
        /\ ChargedSum(b)' = ChargedSum(b) + (ChargedPart(b, i)' - ChargedPart(b, i))
    BY SumsFollow
  <2>4. CASE b = a
    <3>1. account'[b].balance = account[b].balance + db /\ account'[b].frozen = account[b].frozen + df
      BY <2>4 DEF LedgerTypeOK
    <3>2. /\ HeldSum(b)' = HeldSum(b) + df /\ ChargedSum(b)' = ChargedSum(b) - (db + df)
      BY <2>2, <2>3, <2>4 DEF HeldPart, ChargedPart
    <3>3. account[b].balance + db >= 0 /\ account[b].frozen + df >= 0
      BY <2>4
    <3>4. recharged'[b] = recharged[b] /\ moved'[b] = moved[b] /\ db \in Int /\ df \in Int
      OBVIOUS
    <3>5. account'[b].balance >= 0 /\ account'[b].frozen >= 0
      BY <3>1, <3>3
    <3>6. account'[b].frozen = HeldSum(b)'
      BY <2>1, <3>1, <3>2
    <3>7. account'[b].balance + account'[b].frozen
            = recharged'[b] + moved'[b] - ChargedSum(b)'
      BY <2>1, <2>2, <3>1, <3>2, <3>4
    <3>8. QED
      BY <3>5, <3>6, <3>7
  <2>5. CASE b # a
    <3>1. account'[b] = account[b]
      BY <2>5 DEF LedgerTypeOK
    <3>2. /\ HeldSum(b)' = HeldSum(b) /\ ChargedSum(b)' = ChargedSum(b)
      BY <2>2, <2>3, <2>5
    <3>3. QED
      BY <2>1, <3>1, <3>2
  <2>6. QED
    BY <2>4, <2>5
<1>2. QED
  BY <1>1 DEF FundsInv, NoOverdraft, FrozenIsSumOfHolds, MoneyConserved, HeldSum, ChargedSum

\* A recharge, a reversal, a transfer or an outgoing payment keeps the sums.
LEMMA FundStepKeepsFunds ==
  ASSUME LedgerTypeOK, LedgerTypeOK', FundsInv, FundStep
  PROVE  FundsInv'
<1> USE LedgerAssumption
<1>0. \A b \in Agents : /\ account[b].balance \in Int /\ account[b].frozen \in Int
                        /\ account[b].balance >= 0
                        /\ recharged[b] \in Int /\ moved[b] \in Int
  BY DEF LedgerTypeOK, Account, FundsInv, NoOverdraft
<1>1. ASSUME NEW a \in Agents, NEW v \in RechargeAmounts, RechargeTx(a, v)
      PROVE  FundsInv'
  <2>1. v \in Int
    OBVIOUS
  <2>2. account[a].balance + v >= 0
    BY <1>0, <1>1, <2>1 DEF RechargeTx
  <2>3. ASSUME NEW b \in Agents
        PROVE  /\ account'[b].frozen = account[b].frozen
               /\ account'[b].balance = account[b].balance + IF b = a THEN v ELSE 0
               /\ recharged'[b] = recharged[b] + IF b = a THEN v ELSE 0
    BY <1>0, <1>1, <2>1 DEF RechargeTx, Credit, LedgerTypeOK, Account
  <2>4. UNCHANGED <<hold, refunds, moved>>
    BY <1>1 DEF RechargeTx
  <2>5. QED
    BY <1>0, <2>1, <2>2, <2>3, <2>4, FundsMoved
<1>2. ASSUME NEW a \in Agents, NEW c \in Agents, NEW v \in Amounts, TransferTx(a, c, v)
      PROVE  FundsInv'
  <2>1. v \in Int /\ v > 0 /\ a # c /\ account[a].balance >= v
    BY <1>2 DEF TransferTx
  <2> DEFINE d(b) == IF b = a THEN -v ELSE IF b = c THEN v ELSE 0
  <2>2. ASSUME NEW b \in Agents
        PROVE  /\ account'[b].frozen = account[b].frozen
               /\ account'[b].balance = account[b].balance + d(b)
    BY <1>0, <1>2, <2>1 DEF TransferTx, LedgerTypeOK, Account
  <2>3. ASSUME NEW b \in Agents
        PROVE  moved'[b] = moved[b] + d(b)
    BY <1>0, <1>2, <2>1 DEF TransferTx, LedgerTypeOK
  <2>4. UNCHANGED <<hold, refunds, recharged>>
    BY <1>2 DEF TransferTx
  <2>5. QED
    BY <1>0, <2>1, <2>2, <2>3, <2>4, FundsMoved
<1>3. ASSUME NEW a \in Agents, NEW v \in Amounts, SpendTx(a, v)
      PROVE  FundsInv'
  <2>1. v \in Int /\ v > 0 /\ account[a].balance >= v
    BY <1>3 DEF SpendTx, Credit
  <2>2. ASSUME NEW b \in Agents
        PROVE  /\ account'[b].frozen = account[b].frozen
               /\ account'[b].balance = account[b].balance - IF b = a THEN v ELSE 0
               /\ moved'[b] = moved[b] - IF b = a THEN v ELSE 0
    BY <1>0, <1>3, <2>1 DEF SpendTx, Credit, LedgerTypeOK, Account
  <2>3. UNCHANGED <<hold, refunds, recharged>>
    BY <1>3 DEF SpendTx
  <2>4. QED
    BY <1>0, <2>1, <2>2, <2>3, FundsMoved
<1>4. QED
  BY <1>1, <1>2, <1>3 DEF FundStep

\* Opening a payment, whatever the channel answers, keeps the sums.
LEMMA PayStepKeepsFunds ==
  ASSUME LedgerTypeOK, LedgerTypeOK', RowsInv, FundsInv, PayStep
  PROVE  FundsInv'
<1> USE LedgerAssumption
<1>1. ASSUME NEW a \in Agents, NEW v \in Amounts, NEW s \in {"RELEASED", "FROZEN", "DEBITED"},
             OpenPayment(a, v, s,
               [balance |-> account[a].balance - (IF s = "RELEASED" THEN 0 ELSE v),
                frozen  |-> account[a].frozen + (IF s = "FROZEN" THEN v ELSE 0)])
      PROVE  FundsInv'
  <2> DEFINE db == IF s = "RELEASED" THEN 0 ELSE -v
             df == IF s = "FROZEN" THEN v ELSE 0
  <2>0. PICK i \in Orders : i = nextId
    BY <1>1 DEF OpenPayment, LedgerTypeOK, Orders
  <2>1. /\ hold[i] = NoRow /\ i \notin refunds
        /\ v \in Nat /\ v > 0 /\ account[a].balance >= v
        /\ account[a].balance \in Int /\ account[a].frozen \in Int
        /\ account[a].frozen >= 0
    BY <1>1, <2>0 DEF OpenPayment, Orders, LedgerTypeOK, Account, RowsInv, RowsWellFormed, NoRow,
                FundsInv, NoOverdraft
  <2>2. /\ hold'[i] = Row(a, v, s)
        /\ \A k \in Orders : k # i => hold'[k] = hold[k]
    BY <1>1, <2>0 DEF OpenPayment, LedgerTypeOK
  <2>3. UNCHANGED <<recharged, moved, refunds>>
    BY <1>1 DEF OpenPayment
  <2>4. account' = [account EXCEPT ![a] =
                       [balance |-> account[a].balance + db, frozen |-> account[a].frozen + df]]
    <3>1. /\ account[a].balance - (IF s = "RELEASED" THEN 0 ELSE v) = account[a].balance + db
          /\ account[a].frozen + (IF s = "FROZEN" THEN v ELSE 0) = account[a].frozen + df
      BY <2>1
    <3>2. QED
      BY <1>1, <3>1 DEF OpenPayment
  <2>5. \A b \in Agents :
          /\ HeldPart(b, i)' = (IF b = a THEN df ELSE 0) /\ HeldPart(b, i) = 0
          /\ ChargedPart(b, i)' = (IF b = a /\ s = "DEBITED" THEN v ELSE 0)
          /\ ChargedPart(b, i) = 0
    <3>1. /\ hold'[i].agent = a /\ hold'[i].amount = v /\ hold'[i].status = s
          /\ i \notin refunds'
      BY <2>1, <2>2, <2>3 DEF Row
    <3>2. HeldPart(a, i)' = df /\ ChargedPart(a, i)' = IF s = "DEBITED" THEN v ELSE 0
      BY <3>1 DEF HeldPart, ChargedPart
    <3>3. QED
      BY <2>1, <3>1 DEF HeldPart, ChargedPart, NoRow
  <2>6. /\ db \in Int /\ df \in Int
        /\ account[a].balance + db >= 0 /\ account[a].frozen + df >= 0
        /\ (IF s = "DEBITED" THEN v ELSE 0) - 0 = -(db + df) /\ df - 0 = df
    BY <2>1
  <2> HIDE DEF db, df
  <2>7. /\ HeldPart(a, i)' - HeldPart(a, i) = df
        /\ ChargedPart(a, i)' - ChargedPart(a, i) = -(db + df)
    BY <2>5, <2>6
  <2>8. \A b \in Agents \ {a} :
          /\ HeldPart(b, i)' = 0 /\ HeldPart(b, i) = 0
          /\ ChargedPart(b, i)' = 0 /\ ChargedPart(b, i) = 0
    BY <2>5
  <2>9. \A k \in Orders : k # i => hold'[k] = hold[k] /\ (k \in refunds' <=> k \in refunds)
    BY <2>2, <2>3
  <2>10. account[a].balance + db >= 0 /\ account[a].frozen + df >= 0 /\ db \in Int /\ df \in Int
    BY <2>6
  <2>11. UNCHANGED <<recharged, moved>>
    BY <2>3
  <2>12. QED
    BY <2>4, <2>7, <2>8, <2>9, <2>10, <2>11, FundsFollow
<1>2. ASSUME NEW a \in Agents, NEW v \in Amounts
      PROVE  /\ Frozen(account[a], v)
                  = [balance |-> account[a].balance - v, frozen |-> account[a].frozen + v]
             /\ Debited(Frozen(account[a], v), v)
                  = [balance |-> account[a].balance - v, frozen |-> account[a].frozen + 0]
             /\ Released(Frozen(account[a], v), v)
                  = [balance |-> account[a].balance - 0, frozen |-> account[a].frozen + 0]
  <2>1. v \in Int
    OBVIOUS
  <2>2. /\ account[a].balance \in Int /\ account[a].frozen \in Int
        /\ account[a].frozen >= 0
    BY DEF LedgerTypeOK, Account, FundsInv, NoOverdraft
  <2>3. QED
    BY <2>1, <2>2 DEF Frozen, Debited, Released
<1>3. QED
  BY <1>1, <1>2 DEF PayStep, PayFailedTx, PaySettlingTx, PaySettledTx

\* Deciding a FROZEN hold, by whichever actor, keeps the sums.
LEMMA DecisionKeepsFunds ==
  ASSUME LedgerTypeOK, LedgerTypeOK', RowsInv, FundsInv, NEW i \in Orders,
         DebitHoldTx(i) \/ ReleaseHoldTx(i), UNCHANGED <<recharged, moved, refunds>>
  PROVE  FundsInv'
<1> DEFINE a == hold[i].agent
           v == hold[i].amount
<1>1. hold[i].status = "FROZEN"
  BY DEF DebitHoldTx, ReleaseHoldTx
<1>2. a \in Agents /\ v \in Nat /\ i \notin refunds
  <2>1. i < nextId \/ i >= nextId
    BY DEF Orders, LedgerTypeOK
  <2>2. QED
    BY <1>1, <2>1 DEF RowsInv, RowsWellFormed, NoRow, LedgerTypeOK, HoldRow
<1>3. /\ account[a].frozen >= v
      /\ account[a].balance \in Int /\ account[a].frozen \in Int /\ account[a].balance >= 0
  BY <1>1, <1>2, FrozenCoversHold DEF FundsInv, NoOverdraft, LedgerTypeOK, Account
<1>4. PICK s \in {"DEBITED", "RELEASED"} :
        /\ hold' = [hold EXCEPT ![i].status = s]
        /\ account' = [account EXCEPT ![a] =
             IF s = "DEBITED" THEN Debited(account[a], v) ELSE Released(account[a], v)]
  BY DEF DebitHoldTx, ReleaseHoldTx
<1> DEFINE db == IF s = "RELEASED" THEN v ELSE 0
<1>5. account' = [account EXCEPT ![a] =
                    [balance |-> account[a].balance + db, frozen |-> account[a].frozen + (-v)]]
  <2>1. /\ Debited(account[a], v)
             = [balance |-> account[a].balance + 0, frozen |-> account[a].frozen + (-v)]
        /\ Released(account[a], v)
             = [balance |-> account[a].balance + v, frozen |-> account[a].frozen + (-v)]
    BY <1>2, <1>3 DEF Debited, Released, LedgerTypeOK, Account
  <2>2. QED
    BY <1>4, <2>1
<1>6. /\ hold'[i].agent = a /\ hold'[i].amount = v /\ hold'[i].status = s
      /\ \A k \in Orders : k # i => hold'[k] = hold[k]
  BY <1>4 DEF LedgerTypeOK, HoldRow
<1>7. PICK b \in Agents : b = a
  BY <1>2
<1>8. /\ HeldPart(b, i) = v /\ HeldPart(b, i)' = 0
      /\ ChargedPart(b, i) = 0 /\ ChargedPart(b, i)' = IF s = "DEBITED" THEN v ELSE 0
      /\ \A c \in Agents \ {b} :
           HeldPart(c, i)' = 0 /\ HeldPart(c, i) = 0
        /\ ChargedPart(c, i)' = 0 /\ ChargedPart(c, i) = 0
  BY <1>1, <1>2, <1>6, <1>7 DEF HeldPart, ChargedPart
<1>9. /\ db \in Int /\ -v \in Int
      /\ account[b].balance + db >= 0 /\ account[b].frozen + (-v) >= 0
      /\ HeldPart(b, i)' - HeldPart(b, i) = -v
      /\ ChargedPart(b, i)' - ChargedPart(b, i) = -(db + (-v))
  BY <1>2, <1>3, <1>7, <1>8
<1>10. account' = [account EXCEPT ![b] =
                     [balance |-> account[b].balance + db, frozen |-> account[b].frozen + (-v)]]
  BY <1>5, <1>7
<1> HIDE DEF a, v, db
<1>11. QED
  BY <1>6, <1>8, <1>9, <1>10, FundsFollow

\* A refund gives the charge back, so the charge leaves the sum of charges.
LEMMA RefundKeepsFunds ==
  ASSUME LedgerTypeOK, LedgerTypeOK', RowsInv, FundsInv, NEW i \in Orders, RefundTx(i)
  PROVE  FundsInv'
<1>1. /\ hold[i].status = "DEBITED" /\ i \notin refunds /\ order[i].status # "NONE"
      /\ order[i].agent = hold[i].agent /\ order[i].amount = hold[i].amount
  BY DEF RefundTx, RowsInv, OrderMatchesHold
<1>2. hold[i].agent \in Agents /\ hold[i].amount \in Nat
  <2>1. i < nextId \/ i >= nextId
    BY DEF Orders, LedgerTypeOK
  <2>2. QED
    BY <1>1, <2>1 DEF RowsInv, RowsWellFormed, NoRow, LedgerTypeOK, HoldRow
<1>3. PICK a \in Agents, v \in Nat : a = hold[i].agent /\ v = hold[i].amount
  BY <1>2
<1>4. account[a] \in Account /\ account[a].balance >= 0 /\ account[a].frozen >= 0
  BY DEF LedgerTypeOK, FundsInv, NoOverdraft
<1>5. account' = [account EXCEPT ![a] =
                    [balance |-> account[a].balance + v, frozen |-> account[a].frozen + 0]]
  <2>1. [account[a] EXCEPT !.balance = @ + v]
          = [balance |-> account[a].balance + v, frozen |-> account[a].frozen + 0]
    BY <1>4 DEF Account
  <2>2. account' = [account EXCEPT ![a] = [account[a] EXCEPT !.balance = @ + v]]
    BY <1>1, <1>3 DEF RefundTx, Credit
  <2>3. QED
    BY <2>1, <2>2
<1>6. /\ hold' = hold /\ refunds' = refunds \union {i} /\ UNCHANGED <<recharged, moved>>
  BY DEF RefundTx
<1>7. \A k \in Orders : k # i => hold'[k] = hold[k] /\ (k \in refunds' <=> k \in refunds)
  BY <1>6
<1>8. /\ HeldPart(a, i) = 0 /\ HeldPart(a, i)' = 0
      /\ ChargedPart(a, i) = v /\ ChargedPart(a, i)' = 0
      /\ \A c \in Agents \ {a} :
           HeldPart(c, i)' = 0 /\ HeldPart(c, i) = 0
        /\ ChargedPart(c, i)' = 0 /\ ChargedPart(c, i) = 0
  BY <1>1, <1>3, <1>6 DEF HeldPart, ChargedPart
<1>9. /\ v \in Int /\ 0 \in Int
      /\ account[a].balance + v >= 0 /\ account[a].frozen + 0 >= 0
      /\ HeldPart(a, i)' - HeldPart(a, i) = 0
      /\ ChargedPart(a, i)' - ChargedPart(a, i) = -(v + 0)
  BY <1>4, <1>8 DEF Account
<1>10. QED
  BY <1>5, <1>6, <1>7, <1>8, <1>9, FundsFollow

\* No interleaving of requests, callbacks and jobs loses or creates money, lets
\* a column go below zero, or separates frozen_balance from the FROZEN holds.
THEOREM LedgerFunds == LedgerSpec => []FundsInv
<1>1. LedgerInit => FundsInv
  <2> SUFFICES ASSUME LedgerInit, NEW b \in Agents
               PROVE  /\ account[b].balance = 0 /\ account[b].frozen = 0
                      /\ recharged[b] = 0 /\ moved[b] = 0
                      /\ HeldSum(b) = 0 /\ ChargedSum(b) = 0
    BY DEF FundsInv, NoOverdraft, FrozenIsSumOfHolds, MoneyConserved, HeldSum, ChargedSum
  <2>1. /\ HoldAmounts(b, "FROZEN") \in [1 .. MaxOrders -> Int]
        /\ Charges(b) \in [1 .. MaxOrders -> Int]
        /\ \A i \in 1 .. MaxOrders : HoldAmounts(b, "FROZEN")[i] = 0 /\ Charges(b)[i] = 0
    BY DEF LedgerInit, HoldAmounts, Charges, NoRow, Orders
  <2>2. HeldSum(b) = 0 /\ ChargedSum(b) = 0
    BY <2>1, TotalZero, LedgerAssumption DEF HeldSum, ChargedSum
  <2>3. QED
    BY <2>2 DEF LedgerInit
<1>2. LedgerTypeOK /\ LedgerTypeOK' /\ RowsInv /\ FundsInv /\ [LedgerNext]_ledgerVars
        => FundsInv'
  <2> SUFFICES ASSUME LedgerTypeOK, LedgerTypeOK', RowsInv, FundsInv, [LedgerNext]_ledgerVars
               PROVE  FundsInv'
    OBVIOUS
  <2>1. CASE FundStep
    BY <2>1, FundStepKeepsFunds
  <2>2. CASE PayStep
    BY <2>2, PayStepKeepsFunds
  <2>3. ASSUME NEW i \in Orders, SettleTx(i) \/ FailTx(i)
        PROVE  FundsInv'
    BY <2>3, DecisionKeepsFunds DEF SettleTx, FailTx
  <2>4. ASSUME NEW i \in Orders, RefundTx(i)
        PROVE  FundsInv'
    BY <2>4, RefundKeepsFunds
  <2>5. ASSUME UNCHANGED <<account, hold, refunds, recharged, moved>>
        PROVE  FundsInv'
    BY <2>5, FundsMoved DEF LedgerTypeOK, Account, FundsInv, NoOverdraft
  <2>6. CASE TimePasses
    BY <2>5, <2>6 DEF TimePasses
  <2>7. ASSUME NEW j \in Jobs, CompensationScan(j) \/ CompensationAborts(j)
        PROVE  FundsInv'
    BY <2>5, <2>7 DEF CompensationScan, CompensationAborts
  <2>8. ASSUME NEW j \in Jobs, NEW i \in Orders, CompensateTx(j, i)
        PROVE  FundsInv'
    BY <2>5, <2>8, DecisionKeepsFunds DEF CompensateTx
  <2>9. CASE UNCHANGED ledgerVars
    BY <2>5, <2>9 DEF ledgerVars
  <2>10. QED
    BY <2>1, <2>2, <2>3, <2>4, <2>6, <2>7, <2>8, <2>9
       DEF LedgerNext, OrderStep, JobStep
<1>3. QED
  BY <1>1, <1>2, LedgerTyping, LedgerRows, PTL DEF LedgerSpec

\* The part of LedgerFunds the product document asks of the account book: what
\* an account holds is what came in minus what was charged and kept.
THEOREM LedgerConservesMoney == LedgerSpec => []MoneyConserved
<1>1. FundsInv => MoneyConserved
  BY DEF FundsInv
<1>2. QED
  BY <1>1, LedgerFunds, PTL

\* No transaction, the reversal that checks after it subtracted included, leaves
\* a column of an account below zero.
THEOREM LedgerNeverOverdrawn == LedgerSpec => []NoOverdraft
<1>1. FundsInv => NoOverdraft
  BY DEF FundsInv
<1>2. QED
  BY <1>1, LedgerFunds, PTL

\* A webhook task is only ever written for money that moved, and with every
\* refund.
THEOREM LedgerAnnouncesTruth == LedgerSpec => []AnnouncedMoneyMoved
<1>1. RowsInv => AnnouncedMoneyMoved
  BY DEF RowsInv
<1>2. QED
  BY <1>1, LedgerRows, PTL

\* The part the guarded updates of frozen_balance rest on.
THEOREM LedgerFrozenExact == LedgerSpec => []FrozenIsSumOfHolds
<1>1. FundsInv => FrozenIsSumOfHolds
  BY DEF FundsInv
<1>2. QED
  BY <1>1, LedgerFunds, PTL

\* The status of an order always tells the fate of its hold, FAILED excepted.
THEOREM LedgerOrdersMatch == LedgerSpec => []OrderMatchesHold
<1>1. RowsInv => OrderMatchesHold
  BY DEF RowsInv
<1>2. QED
  BY <1>1, LedgerRows, PTL

-----------------------------------------------------------------------------
(***************************************************************************)
(* Decisions are final                                                     *)
(***************************************************************************)

\* No step takes up a hold that was debited or released, and none revives an
\* order that is FAILED or REFUNDED.
THEOREM LedgerDecidesOnce == LedgerSpec => DecidedOnce
<1> DEFINE Final ==
      \A i \in Orders :
        /\ hold[i].status \in {"DEBITED", "RELEASED"} => hold'[i] = hold[i]
        /\ order[i].status \in {"FAILED", "REFUNDED"} =>
             order'[i].status \in {"FAILED", "REFUNDED"}
<1>1. LedgerTypeOK /\ RowsInv /\ [LedgerNext]_ledgerVars => [Final]_<<hold, order>>
  <2> SUFFICES ASSUME LedgerTypeOK, RowsInv, [LedgerNext]_ledgerVars
               PROVE  Final \/ UNCHANGED <<hold, order>>
    OBVIOUS
  <2>1. CASE FundStep
    BY <2>1 DEF FundStep, RechargeTx, TransferTx, SpendTx, Credit
  <2>2. ASSUME NEW a \in Agents, NEW v \in Amounts, NEW s, NEW acc, OpenPayment(a, v, s, acc),
               \/ order' = order
               \/ \E t : order' = [order EXCEPT ![nextId] = Row(a, v, t)]
        PROVE  Final
    <3>1. \A i \in Orders : i # nextId => hold'[i] = hold[i] /\ order'[i] = order[i]
      BY <2>2 DEF OpenPayment, LedgerTypeOK
    <3>2. \A i \in Orders : i = nextId => hold[i] = NoRow /\ order[i] = NoRow
      BY DEF RowsInv, RowsWellFormed, Orders, LedgerTypeOK
    <3>3. QED
      BY <3>1, <3>2 DEF NoRow
  <2>3. CASE PayStep
    BY <2>2, <2>3 DEF PayStep, PayFailedTx, PaySettlingTx, PaySettledTx
  <2>4. ASSUME NEW i \in Orders, DebitHoldTx(i) \/ ReleaseHoldTx(i) \/ hold' = hold,
               NEW t, order' = [order EXCEPT ![i].status = t],
               order[i].status \in {"FAILED", "REFUNDED"} => t \in {"FAILED", "REFUNDED"}
        PROVE  Final
    <3>1. \A k \in Orders : k # i => hold'[k] = hold[k] /\ order'[k] = order[k]
      BY <2>4 DEF DebitHoldTx, ReleaseHoldTx, LedgerTypeOK
    <3>2. hold[i].status = "FROZEN" \/ hold'[i] = hold[i]
      BY <2>4 DEF DebitHoldTx, ReleaseHoldTx
    <3>3. order'[i].status = t
      BY <2>4 DEF LedgerTypeOK, OrderRow
    <3>4. QED
      BY <2>4, <3>1, <3>2, <3>3
  <2>5. ASSUME NEW i \in Orders, SettleTx(i) \/ FailTx(i) \/ RefundTx(i)
        PROVE  Final
    <3>1. CASE SettleTx(i)
      BY <2>4, <3>1 DEF SettleTx
    <3>2. CASE FailTx(i)
      BY <2>4, <3>2 DEF FailTx
    <3>3. CASE RefundTx(i)
      BY <2>4, <3>3 DEF RefundTx
    <3>4. QED
      BY <2>5, <3>1, <3>2, <3>3
  <2>6. ASSUME NEW j \in Jobs, NEW i \in Orders, CompensateTx(j, i)
        PROVE  Final
    BY <2>4, <2>6 DEF CompensateTx
  <2>7. CASE TimePasses
    BY <2>7 DEF TimePasses
  <2>8. ASSUME NEW j \in Jobs, CompensationScan(j) \/ CompensationAborts(j)
        PROVE  UNCHANGED <<hold, order>>
    BY <2>8 DEF CompensationScan, CompensationAborts
  <2>9. CASE UNCHANGED ledgerVars
    BY <2>9 DEF ledgerVars
  <2>10. QED
    BY <2>1, <2>3, <2>5, <2>6, <2>7, <2>8, <2>9
       DEF LedgerNext, OrderStep, JobStep
<1>2. LedgerSpec => [][Final]_<<hold, order>>
  BY <1>1, LedgerTyping, LedgerRows, PTL DEF LedgerSpec
<1>3. QED
  BY <1>2 DEF DecidedOnce

-----------------------------------------------------------------------------
(***************************************************************************)
(* The ledger implements the escrow: under the views of module Ledger, its *)
(* initial state is an initial state of Escrow and each of its             *)
(* transactions is a step of Escrow or a stutter.                          *)
(***************************************************************************)
\* The views are functions over the agents and over the orders.
LEMMA Views ==
  /\ \A a \in Agents : SpendableView[a] = account[a].balance
  /\ PaymentView = [i \in Orders |-> PaymentView[i]]
  /\ \A i \in Orders :
       /\ PaymentView[i].agent = hold[i].agent
       /\ PaymentView[i].amount = hold[i].amount
       /\ PaymentView[i] = [agent |-> hold[i].agent, amount |-> hold[i].amount,
                            state |-> PaymentView[i].state]
BY DEF SpendableView, PaymentView

\* What the state of a payment says about its hold.
LEMMA StateViews ==
  ASSUME NEW i \in Orders
  PROVE  /\ hold[i].status = "NONE" => PaymentView[i].state = "none"
         /\ hold[i].status = "FROZEN" => PaymentView[i].state = "held"
         /\ hold[i].status = "RELEASED" => PaymentView[i].state = "returned"
         /\ hold[i].status = "DEBITED" /\ i \notin refunds => PaymentView[i].state = "charged"
         /\ hold[i].status = "DEBITED" /\ i \in refunds => PaymentView[i].state = "refunded"
BY DEF PaymentView

\* A step that leaves holds and refunds alone leaves every payment alone.
LEMMA PaymentsUntouched ==
  ASSUME UNCHANGED <<hold, refunds>>
  PROVE  PaymentView' = PaymentView
BY DEF PaymentView

\* One balance changes by d.
LEMMA BalanceChanges ==
  ASSUME LedgerTypeOK, NEW a \in Agents, NEW d \in Int,
         \A b \in Agents : account'[b].balance = account[b].balance + IF b = a THEN d ELSE 0
  PROVE  /\ SpendableView' = [SpendableView EXCEPT ![a] = @ + d]
         /\ SpendableView'[a] - SpendableView[a] = d
<1>1. \A b \in Agents : account[b].balance \in Int
  BY DEF LedgerTypeOK, Account
<1> DEFINE new == [b \in Agents |-> IF b = a THEN account[b].balance + d ELSE account[b].balance]
<1>2. SpendableView' = new
  BY <1>1 DEF SpendableView
<1>3. [SpendableView EXCEPT ![a] = @ + d] = new
  BY <1>1 DEF SpendableView
<1>4. new[a] - SpendableView[a] = d
  BY <1>1 DEF SpendableView
<1>5. QED
  BY <1>2, <1>3, <1>4

\* No balance changes.
LEMMA BalancesUntouched ==
  ASSUME \A b \in Agents : account'[b].balance = account[b].balance
  PROVE  SpendableView' = SpendableView
BY DEF SpendableView

\* No money and no payments, in both.
LEMMA EscrowInitially == LedgerInit => E!EscrowInit
<1> SUFFICES ASSUME LedgerInit PROVE E!EscrowInit
  OBVIOUS
<1>1. SpendableView = [a \in Agents |-> 0]
  BY DEF LedgerInit, SpendableView
<1>2. \A i \in Orders : PaymentView[i] = E!Unopened
  BY Views, StateViews DEF LedgerInit, NoRow, E!Unopened
<1>3. PaymentView = [i \in Orders |-> E!Unopened]
  BY <1>2, Views
<1>4. QED
  BY <1>1, <1>3 DEF E!EscrowInit

\* Recharges, reversals, transfers and outgoing payments are Fund and Move.
LEMMA EscrowFunds ==
  ASSUME LedgerTypeOK, FundsInv, FundStep
  PROVE  E!EscrowNext
<1> USE LedgerAssumption
<1>0. \A b \in Agents : account[b].balance \in Int /\ account[b].balance >= 0
  BY DEF LedgerTypeOK, Account, FundsInv, NoOverdraft
<1>1. ASSUME NEW a \in Agents, NEW d \in Int, UNCHANGED <<hold, refunds>>,
             account[a].balance + d >= 0,
             account' = [account EXCEPT ![a].balance = @ + d]
      PROVE  E!EscrowNext
  <2>1. \A b \in Agents : account'[b].balance = account[b].balance + IF b = a THEN d ELSE 0
    BY <1>0, <1>1 DEF LedgerTypeOK, Account
  <2>2. E!Fund(a, SpendableView'[a] - SpendableView[a])
    BY <1>1, <2>1, BalanceChanges, PaymentsUntouched, Views DEF E!Fund
  <2>3. QED
    BY <2>2 DEF E!EscrowNext
<1>2. ASSUME NEW a \in Agents, NEW v \in RechargeAmounts, RechargeTx(a, v)
      PROVE  E!EscrowNext
  <2>1. account[a].balance + v >= 0
    BY <1>0, <1>2 DEF RechargeTx, Credit
  <2>2. QED
    BY <1>1, <1>2, <2>1 DEF RechargeTx, Credit
<1>3. ASSUME NEW a \in Agents, NEW v \in Amounts, SpendTx(a, v)
      PROVE  E!EscrowNext
  <2>1. -v \in Int /\ account[a].balance + (-v) >= 0
    BY <1>0, <1>3 DEF SpendTx, Credit
  <2>2. QED
    BY <1>1, <1>3, <2>1 DEF SpendTx, Credit
<1>4. ASSUME NEW a \in Agents, NEW c \in Agents, NEW v \in Amounts, TransferTx(a, c, v)
      PROVE  E!EscrowNext
  <2>1. v \in Int /\ v > 0 /\ a # c /\ account[a].balance >= v
    BY <1>4 DEF TransferTx
  <2>2. \A b \in Agents : account'[b].balance =
          IF b = a THEN account[b].balance - v
          ELSE IF b = c THEN account[b].balance + v ELSE account[b].balance
    BY <1>0, <1>4, <2>1 DEF TransferTx, LedgerTypeOK, Account
  <2>3. /\ SpendableView' = [SpendableView EXCEPT ![a] = @ - v, ![c] = @ + v]
        /\ SpendableView[a] - SpendableView'[a] = v
    <3> DEFINE new == [b \in Agents |-> IF b = a THEN account[b].balance - v
                          ELSE IF b = c THEN account[b].balance + v ELSE account[b].balance]
    <3>1. SpendableView' = new
      BY <2>2 DEF SpendableView
    <3>2. [SpendableView EXCEPT ![a] = @ - v, ![c] = @ + v] = new
      BY <1>0, <2>1 DEF SpendableView
    <3>3. SpendableView[a] - new[a] = v
      BY <1>0, <2>1 DEF SpendableView
    <3>4. QED
      BY <3>1, <3>2, <3>3
  <2>4. E!Move(a, c, SpendableView[a] - SpendableView'[a])
    BY <1>4, <2>1, <2>3, PaymentsUntouched, Views DEF E!Move, TransferTx
  <2>5. QED
    BY <2>4 DEF E!EscrowNext
<1>5. QED
  BY <1>2, <1>3, <1>4 DEF FundStep

\* Each outcome of Pay opens a payment in the escrow.
LEMMA EscrowOpens ==
  ASSUME LedgerTypeOK, RowsInv, FundsInv, PayStep
  PROVE  E!EscrowNext
<1> USE LedgerAssumption
<1>0. /\ nextId \in Int
      /\ \A b \in Agents : /\ account[b].balance \in Int /\ account[b].balance >= 0
                           /\ account[b].frozen \in Int /\ account[b].frozen >= 0
  BY DEF LedgerTypeOK, Account, FundsInv, NoOverdraft
<1>1. ASSUME NEW a \in Agents, NEW v \in Amounts, NEW s \in {"RELEASED", "FROZEN", "DEBITED"},
             NEW acc, OpenPayment(a, v, s, acc),
             acc.balance = IF s = "RELEASED" THEN account[a].balance ELSE account[a].balance - v
      PROVE  E!EscrowNext
  <2>1. PICK i \in Orders : i = nextId
    BY <1>1 DEF OpenPayment, LedgerTypeOK, Orders
  <2>2. /\ hold[i] = NoRow /\ i \notin refunds
        /\ v \in Nat /\ v > 0 /\ account[a].balance >= v
    <3>1. i >= nextId
      BY <1>0, <2>1
    <3>2. hold[i] = NoRow /\ i \notin refunds
      BY <3>1 DEF RowsInv, RowsWellFormed, NoRow
    <3>3. account[a].balance >= v
      BY <1>1 DEF OpenPayment
    <3>4. v \in Nat /\ v > 0
      OBVIOUS
    <3>5. QED
      BY <3>2, <3>3, <3>4
  <2>3. /\ hold'[i] = Row(a, v, s) /\ refunds' = refunds
        /\ \A k \in Orders : k # i => hold'[k] = hold[k]
    BY <1>1, <2>1 DEF OpenPayment, LedgerTypeOK
  <2> DEFINE st == PaymentView'[i].state
  <2>4. PaymentView[i] = E!Unopened
    BY <2>2, Views, StateViews DEF E!Unopened, NoRow
  <2>5. PaymentView'[i] = [agent |-> a, amount |-> v, state |-> st]
    BY <2>3 DEF PaymentView, Row
  <2>6. /\ st \in {"held", "charged", "returned"}
        /\ st = "returned" <=> s = "RELEASED"
    BY <2>2, <2>3 DEF PaymentView, Row
  <2>7. PaymentView' = [PaymentView EXCEPT ![i] = [agent |-> a, amount |-> v, state |-> st]]
    <3>1. \A k \in Orders : k # i => PaymentView'[k] = PaymentView[k]
      BY <2>3 DEF PaymentView
    <3>2. PaymentView' = [k \in Orders |-> PaymentView'[k]]
      BY DEF PaymentView
    <3>3. PaymentView = [k \in Orders |-> PaymentView[k]]
      BY Views
    <3> HIDE DEF st
    <3>4. QED
      BY <2>5, <3>1, <3>2, <3>3
  <2>8. account' = [account EXCEPT ![a] = acc]
    BY <1>1 DEF OpenPayment
  <2>9. SpendableView' = IF st = "returned" THEN SpendableView
                         ELSE [SpendableView EXCEPT ![a] = @ - v]
    <3>1. CASE s = "RELEASED"
      <4>1. \A b \in Agents : account'[b].balance = account[b].balance
        BY <1>1, <2>8, <3>1 DEF LedgerTypeOK
      <4>2. QED
        BY <4>1, <3>1, <2>6, BalancesUntouched
    <3>2. CASE s # "RELEASED"
      <4>1. \A b \in Agents : account'[b].balance
                = IF b = a THEN account[b].balance - v ELSE account[b].balance
        BY <1>1, <2>8, <3>2 DEF LedgerTypeOK
      <4>2. SpendableView' = [b \in Agents |->
                IF b = a THEN account[b].balance - v ELSE account[b].balance]
        BY <4>1 DEF SpendableView
      <4>3. [SpendableView EXCEPT ![a] = @ - v] = [b \in Agents |->
                IF b = a THEN account[b].balance - v ELSE account[b].balance]
        BY <1>0 DEF SpendableView
      <4> HIDE DEF st
      <4>4. QED
        BY <4>2, <4>3, <3>2, <2>6
    <3>3. QED
      BY <3>1, <3>2
  <2> HIDE DEF st
  <2>10. E!Open(i, a, v, st)
    BY <2>2, <2>4, <2>6, <2>7, <2>9, Views DEF E!Open
  <2>11. PaymentView'[i].agent = a /\ PaymentView'[i].amount = v /\ PaymentView'[i].state = st
    BY <2>5
  <2>12. QED
    BY <2>10, <2>11 DEF E!EscrowNext
<1>2. ASSUME NEW a \in Agents, NEW v \in Amounts
      PROVE  /\ Frozen(account[a], v).balance = account[a].balance - v
             /\ Debited(Frozen(account[a], v), v).balance = account[a].balance - v
             /\ Released(Frozen(account[a], v), v).balance = account[a].balance
  <2>1. v \in Int /\ account[a].balance \in Int /\ account[a].frozen \in Int
        /\ account[a].frozen >= 0
    BY <1>0
  <2>2. QED
    BY <2>1 DEF Frozen, Debited, Released
<1>3. QED
  BY <1>1, <1>2 DEF PayStep, PayFailedTx, PaySettlingTx, PaySettledTx

\* Deciding a FROZEN hold charges the payment or returns its money.
LEMMA EscrowDecides ==
  ASSUME LedgerTypeOK, RowsInv, FundsInv, NEW i \in Orders,
         DebitHoldTx(i) \/ ReleaseHoldTx(i), refunds' = refunds
  PROVE  E!EscrowNext
<1> DEFINE a == hold[i].agent
           v == hold[i].amount
<1>1. hold[i].status = "FROZEN"
  BY DEF DebitHoldTx, ReleaseHoldTx
<1>2. a \in Agents /\ v \in Nat /\ i \notin refunds
  <2>1. i < nextId \/ i >= nextId
    BY DEF Orders, LedgerTypeOK
  <2>2. QED
    BY <1>1, <2>1 DEF RowsInv, RowsWellFormed, NoRow, LedgerTypeOK, HoldRow
<1>3. account[a].frozen >= v
  BY <1>1, <1>2, FrozenCoversHold DEF FundsInv
<1>4. \A b \in Agents : account[b].balance \in Int
  BY DEF LedgerTypeOK, Account
<1>5. PaymentView[i].state = "held"
  BY <1>1, StateViews
<1>6. ASSUME NEW s \in {"DEBITED", "RELEASED"}, hold' = [hold EXCEPT ![i].status = s]
      PROVE  PaymentView' = [PaymentView EXCEPT ![i].state =
                               IF s = "DEBITED" THEN "charged" ELSE "returned"]
  <2>1. /\ hold'[i].agent = a /\ hold'[i].amount = v /\ hold'[i].status = s
        /\ \A k \in Orders : k # i => hold'[k] = hold[k]
    BY <1>6 DEF LedgerTypeOK, HoldRow
  <2>2. \A k \in Orders : k # i => PaymentView'[k] = PaymentView[k]
    BY <2>1 DEF PaymentView
  <2>3. PaymentView'[i] = [agent |-> a, amount |-> v,
                           state |-> IF s = "DEBITED" THEN "charged" ELSE "returned"]
    BY <1>2, <2>1 DEF PaymentView
  <2>4. PaymentView[i] = [agent |-> a, amount |-> v, state |-> PaymentView[i].state]
    BY Views
  <2>5. PaymentView' = [k \in Orders |-> PaymentView'[k]]
    BY DEF PaymentView
  <2>6. PaymentView = [k \in Orders |-> PaymentView[k]]
    BY Views
  <2> HIDE DEF a, v
  <2>7. QED
    BY <2>2, <2>3, <2>4, <2>5, <2>6
<1>7. CASE DebitHoldTx(i)
  <2>1. \A b \in Agents : account'[b].balance = account[b].balance
    BY <1>7 DEF DebitHoldTx, Debited, LedgerTypeOK, Account
  <2>2. PaymentView' = [PaymentView EXCEPT ![i].state = "charged"]
    BY <1>6, <1>7 DEF DebitHoldTx
  <2>3. E!Charge(i)
    BY <1>5, <2>1, <2>2, BalancesUntouched DEF E!Charge
  <2>4. QED
    BY <2>3 DEF E!EscrowNext
<1>8. CASE ReleaseHoldTx(i)
  <2>1. \A b \in Agents : account'[b].balance = account[b].balance + IF b = a THEN v ELSE 0
    BY <1>2, <1>3, <1>4, <1>8 DEF ReleaseHoldTx, Released, LedgerTypeOK, Account
  <2>2. SpendableView' = [SpendableView EXCEPT ![a] = @ + v]
    BY <1>2, <2>1, BalanceChanges
  <2>3. PaymentView' = [PaymentView EXCEPT ![i].state = "returned"]
    BY <1>6, <1>8 DEF ReleaseHoldTx
  <2>4. E!GiveBack(i, "held", "returned")
    BY <1>5, <2>2, <2>3, Views DEF E!GiveBack
  <2>5. QED
    BY <2>4 DEF E!EscrowNext
<1>9. QED
  BY <1>7, <1>8

\* Refunding an order gives the whole charge back.
LEMMA EscrowRefunds ==
  ASSUME LedgerTypeOK, RowsInv, NEW i \in Orders, RefundTx(i)
  PROVE  E!EscrowNext
<1>1. /\ hold[i].status = "DEBITED" /\ i \notin refunds
      /\ order[i].agent = hold[i].agent /\ order[i].amount = hold[i].amount
  BY DEF RefundTx, RowsInv, OrderMatchesHold
<1>2. hold[i].agent \in Agents /\ hold[i].amount \in Nat
  <2>1. i < nextId \/ i >= nextId
    BY DEF Orders, LedgerTypeOK
  <2>2. QED
    BY <1>1, <2>1 DEF RowsInv, RowsWellFormed, NoRow, LedgerTypeOK, HoldRow
<1>3. PICK a \in Agents, v \in Nat : a = hold[i].agent /\ v = hold[i].amount
  BY <1>2
<1>4. \A b \in Agents : account'[b].balance = account[b].balance + IF b = a THEN v ELSE 0
  BY <1>1, <1>3 DEF RefundTx, Credit, LedgerTypeOK, Account
<1>5. SpendableView' = [SpendableView EXCEPT ![a] = @ + v]
  BY <1>4, BalanceChanges
<1>6. hold' = hold /\ refunds' = refunds \union {i}
  BY DEF RefundTx
<1>7. PaymentView' = [PaymentView EXCEPT ![i].state = "refunded"]
  <2>1. \A k \in Orders : k # i => PaymentView'[k] = PaymentView[k]
    BY <1>6 DEF PaymentView
  <2>2. PaymentView'[i] = [agent |-> a, amount |-> v, state |-> "refunded"]
    BY <1>1, <1>3, <1>6 DEF PaymentView
  <2>3. PaymentView[i] = [agent |-> a, amount |-> v, state |-> PaymentView[i].state]
    BY <1>3, Views
  <2>4. PaymentView' = [k \in Orders |-> PaymentView'[k]]
    BY DEF PaymentView
  <2>5. PaymentView = [k \in Orders |-> PaymentView[k]]
    BY Views
  <2>6. QED
    BY <2>1, <2>2, <2>3, <2>4, <2>5
<1>8. PaymentView[i].state = "charged"
  BY <1>1, StateViews
<1>9. E!GiveBack(i, "charged", "refunded")
  BY <1>3, <1>5, <1>7, <1>8, Views DEF E!GiveBack
<1>10. QED
  BY <1>9 DEF E!EscrowNext

\* Every transaction of the ledger is a step of the escrow or a stutter.
THEOREM LedgerImplementsEscrow == LedgerSpec => ImplementsEscrow
<1>1. LedgerTypeOK /\ RowsInv /\ FundsInv /\ [LedgerNext]_ledgerVars
        => [E!EscrowNext]_(E!escrowVars)
  <2> SUFFICES ASSUME LedgerTypeOK, RowsInv, FundsInv, [LedgerNext]_ledgerVars
               PROVE  E!EscrowNext \/ UNCHANGED E!escrowVars
    OBVIOUS
  <2>1. CASE FundStep
    BY <2>1, EscrowFunds
  <2>2. CASE PayStep
    BY <2>2, EscrowOpens
  <2>3. ASSUME NEW i \in Orders, SettleTx(i) \/ FailTx(i)
        PROVE  E!EscrowNext
    BY <2>3, EscrowDecides DEF SettleTx, FailTx
  <2>4. ASSUME NEW i \in Orders, RefundTx(i)
        PROVE  E!EscrowNext
    BY <2>4, EscrowRefunds
  <2>5. ASSUME UNCHANGED <<account, hold, refunds>>
        PROVE  UNCHANGED E!escrowVars
    BY <2>5, BalancesUntouched, PaymentsUntouched DEF E!escrowVars
  <2>6. CASE TimePasses
    BY <2>5, <2>6 DEF TimePasses
  <2>7. ASSUME NEW j \in Jobs, CompensationScan(j) \/ CompensationAborts(j)
        PROVE  UNCHANGED E!escrowVars
    BY <2>5, <2>7 DEF CompensationScan, CompensationAborts
  <2>8. ASSUME NEW j \in Jobs, NEW i \in Orders, CompensateTx(j, i)
        PROVE  E!EscrowNext \/ UNCHANGED E!escrowVars
    BY <2>5, <2>8, EscrowDecides DEF CompensateTx
  <2>9. CASE UNCHANGED ledgerVars
    BY <2>5, <2>9 DEF ledgerVars
  <2>10. QED
    BY <2>1, <2>2, <2>3, <2>4, <2>6, <2>7, <2>8, <2>9
       DEF LedgerNext, OrderStep, JobStep
<1>2. QED
  BY <1>1, EscrowInitially, LedgerTyping, LedgerRows, LedgerFunds, PTL
     DEF LedgerSpec, E!EscrowSpec, ImplementsEscrow

=============================================================================
