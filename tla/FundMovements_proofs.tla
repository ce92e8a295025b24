------------------------ MODULE FundMovements_proofs ------------------------
(***************************************************************************)
(* Theorems about transfers, withdrawals, outbound transfers and card      *)
(* payments, for any handlers, keys and failures: markers and outbound     *)
(* transfers rest on what was really done, and the rows of the tables      *)
(* explain what the accounts received and spent.  What is known of the     *)
(* ledger is used here because all of a handler's transactions are ones of *)
(* the ledger's.                                                           *)
(***************************************************************************)
EXTENDS FundMovements, FiniteSetTheorems, Ledger_proofs

\* A request with what its transaction needs.
ValidRequest(r) ==
  /\ r.op \in Operations
  /\ r.from \in Agents
  /\ r.amount \in Amounts
  /\ r.key \in Keys
  /\ IF r.op = "transfer" THEN r.to \in Agents ELSE r.to = NoAgent

\* What the handlers rely on between their steps.
HandlersInv ==
  /\ marker \subseteq Operations \X Keys
  /\ \A o \in row : ValidRequest(o) /\ o.op \in Tabled
  /\ cardPaid \in [Agents -> Nat]
  /\ pc \in [Handlers -> {"idle", "commit", "mark"}]
  /\ req = [h \in Handlers |-> req[h]]
  /\ \A h \in Handlers : pc[h] # "idle" => ValidRequest(req[h])

\* What a client sends has what its transaction needs.
LEMMA RequestsValid ==
  ASSUME NEW r \in Requests
  PROVE  /\ ValidRequest(r)
         /\ r.op = "outbound" => r.ref \in 1 .. nextId - 1
<1> USE DEF Request, ValidRequest, Operations, Tabled
<1>1. CASE r \in {Request("transfer", a, b, v, 0, k) :
                    a \in Agents, b \in Agents, v \in Amounts, k \in Keys}
  BY <1>1
<1>2. CASE r \in {Request(op, a, NoAgent, v, 0, k) :
                    op \in {"withdraw", "card"}, a \in Agents, v \in Amounts, k \in Keys}
  BY <1>2
<1>3. CASE r \in {Request("outbound", a, NoAgent, v, i, k) :
                    a \in Agents, v \in Amounts, i \in 1 .. nextId - 1, k \in Keys}
  BY <1>3
<1>4. QED
  BY <1>1, <1>2, <1>3 DEF Requests

\* A step of a handler, of Redis or of another request is a transaction of the
\* ledger or leaves its tables alone.
LEMMA StepImplementsLedger ==
  ASSUME HandlersInv, [Next]_vars
  PROVE  [LedgerNext]_ledgerVars
<1>1. ASSUME NEW h \in Handlers, Commit(h)
      PROVE  LedgerNext
  <2>1. ValidRequest(req[h]) /\ MoveMoney(req[h])
    BY <1>1 DEF Commit, HandlersInv
  <2>2. FundStep
    BY <2>1 DEF MoveMoney, ValidRequest, FundStep
  <2>3. QED
    BY <2>2 DEF LedgerNext
<1>2. ASSUME NEW h \in Handlers,
             (\E r \in Requests : Begin(h, r)) \/ SetMarker(h) \/ GiveUp(h)
      PROVE  UNCHANGED ledgerVars
  BY <1>2 DEF Begin, SetMarker, GiveUp
<1>3. ASSUME LedgerOnly
      PROVE  LedgerNext
  BY <1>3 DEF LedgerOnly, LedgerNext, FundStep
<1>4. QED
  BY <1>1, <1>2, <1>3 DEF Next, Expire, vars

\* A handler that answers is idle, and no other handler notices.
LEMMA RequestsStay ==
  ASSUME HandlersInv, NEW h \in Handlers, Answer(h)
  PROVE  /\ pc'[h] = "idle"
         /\ \A g \in Handlers : g # h => pc'[g] = pc[g] /\ req'[g] = req[g]
         /\ pc' \in [Handlers -> {"idle", "commit", "mark"}]
         /\ req' = [g \in Handlers |-> req'[g]]
BY DEF Answer, HandlersInv

\* A handler that begins has the request it got before it, and no other notices.
LEMMA BeginGives ==
  ASSUME HandlersInv, NEW h \in Handlers, NEW r, Begin(h, r)
  PROVE  /\ pc'[h] = "commit" /\ req'[h] = r
         /\ \A g \in Handlers : g # h => pc'[g] = pc[g] /\ req'[g] = req[g]
         /\ pc' \in [Handlers -> {"idle", "commit", "mark"}]
         /\ req' = [g \in Handlers |-> req'[g]]
BY DEF Begin, HandlersInv

\* Only its own commit brings a handler to its marker.
LEMMA CommitMarks ==
  ASSUME HandlersInv, NEW h \in Handlers, Commit(h)
  PROVE  /\ pc[h] = "commit" /\ pc'[h] = "mark" /\ req' = req
         /\ \A g \in Handlers : g # h => pc'[g] = pc[g]
         /\ pc' \in [Handlers -> {"idle", "commit", "mark"}]
BY DEF Commit, HandlersInv

\* Every step leaves the handlers with the requests they need to go on.
LEMMA HandlersStep ==
  ASSUME HandlersInv, [Next]_vars
  PROVE  HandlersInv'
<1> USE LedgerAssumption
<1>1. ASSUME NEW h \in Handlers, NEW r \in Requests, Begin(h, r)
      PROVE  HandlersInv'
  <2>1. ValidRequest(r)
    BY RequestsValid
  <2>2. \A g \in Handlers : pc'[g] # "idle" => ValidRequest(req'[g])
    BY <1>1, <2>1, BeginGives DEF HandlersInv
  <2>3. UNCHANGED <<marker, row, cardPaid>>
    BY <1>1 DEF Begin
  <2>4. QED
    BY <1>1, <2>2, <2>3, BeginGives DEF HandlersInv, ValidRequest
<1>2. ASSUME NEW h \in Handlers, Commit(h)
      PROVE  HandlersInv'
  <2>1. ValidRequest(req[h])
    BY <1>2, CommitMarks DEF HandlersInv
  <2>2. \A g \in Handlers : pc'[g] # "idle" => ValidRequest(req'[g])
    BY <1>2, <2>1, CommitMarks DEF HandlersInv
  <2>3. \A o \in row' : ValidRequest(o) /\ o.op \in Tabled
    BY <1>2, <2>1 DEF Commit, InsertRow, HandlersInv
  <2>4. cardPaid' \in [Agents -> Nat]
    <3>1. req[h].from \in Agents /\ req[h].amount \in Nat
      BY <2>1 DEF ValidRequest
    <3>2. QED
      BY <1>2, <3>1 DEF Commit, HandlersInv
  <2>5. req' = [g \in Handlers |-> req'[g]] /\ marker' = marker
    BY <1>2 DEF Commit, HandlersInv
  <2>6. QED
    BY <1>2, <2>2, <2>3, <2>4, <2>5, CommitMarks DEF HandlersInv, ValidRequest
<1>3. ASSUME NEW h \in Handlers, SetMarker(h) \/ GiveUp(h)
      PROVE  HandlersInv'
  <2>1. Answer(h) /\ UNCHANGED <<row, cardPaid>>
    BY <1>3 DEF SetMarker, GiveUp
  <2>2. marker' \subseteq Operations \X Keys
    BY <1>3 DEF SetMarker, GiveUp, HandlersInv, ValidRequest
  <2>3. \A g \in Handlers : pc'[g] # "idle" => ValidRequest(req'[g])
    BY <2>1, RequestsStay DEF HandlersInv
  <2>4. QED
    BY <2>1, <2>2, <2>3, RequestsStay DEF HandlersInv, ValidRequest
<1>4. ASSUME marker' \subseteq marker, UNCHANGED <<row, cardPaid, pc, req>>
      PROVE  HandlersInv'
  BY <1>4 DEF HandlersInv, ValidRequest
<1>5. CASE \E m \in marker : Expire(m)
  BY <1>4, <1>5 DEF Expire
<1>6. CASE LedgerOnly \/ UNCHANGED vars
  BY <1>4, <1>6 DEF LedgerOnly, handlerVars, vars
<1>7. QED
  BY <1>1, <1>2, <1>3, <1>5, <1>6 DEF Next

\* The handlers' requests are always ones they can serve.
THEOREM MovementsAlwaysValid == Spec => []HandlersInv
<1>1. Init => HandlersInv
  BY DEF Init, HandlersInv
<1>2. HandlersInv /\ [Next]_vars => HandlersInv'
  BY HandlersStep
<1>3. QED
  BY <1>1, <1>2, PTL DEF Spec

\* Every step here is one of the ledger's or leaves its tables alone, as the
\* actions say; so the ledger's own theorems hold here too.
THEOREM MovementsImplementLedger == Spec => LedgerSpec
<1>1. Init => LedgerInit
  BY DEF Init
<1>2. HandlersInv /\ [Next]_vars => [LedgerNext]_ledgerVars
  BY StepImplementsLedger
<1>3. QED
  BY <1>1, <1>2, MovementsAlwaysValid, PTL DEF Spec, LedgerSpec

\* Every variable of the handlers and of the ledger under them is typed.
THEOREM MovementsTyping == Spec => []TypeOK
<1>1. HandlersInv /\ LedgerTypeOK => TypeOK
  BY DEF HandlersInv, TypeOK, ValidRequest
<1>2. QED
  BY <1>1, MovementsAlwaysValid, MovementsImplementLedger, LedgerTyping, PTL

-----------------------------------------------------------------------------
(***************************************************************************)
(* Rows, markers and the payments outbound transfers rest on               *)
(***************************************************************************)

\* Among holds hs, the one request r refers to was charged, to r's agent and
\* for r's amount.
Charged(hs, r) ==
  /\ r.ref \in Orders
  /\ hs[r.ref].status = "DEBITED"
  /\ hs[r.ref].agent = r.from /\ hs[r.ref].amount = r.amount

\* Among rows rs there is one of operation op and key k.
Recorded(rs, op, k) == \E o \in rs : o.op = op /\ o.key = k

\* What markers and outbound transfers rest on, and what carries them through a
\* handler's steps: one about to write its marker has left its row, and one
\* about to transfer has seen a charge, which stays one.
MovementsInv ==
  /\ \A o, p \in row : o.op = p.op /\ o.key = p.key => o = p
  /\ \A m \in marker : m[1] \in Tabled => Recorded(row, m[1], m[2])
  /\ \A o \in row : o.op = "outbound" => Charged(hold, o)
  /\ \A h \in Handlers :
       pc[h] = "mark" /\ req[h].op \in Tabled => Recorded(row, req[h].op, req[h].key)
  /\ \A h \in Handlers :
       pc[h] # "idle" /\ req[h].op = "outbound" => Charged(hold, req[h])

\* One step of DecidedOnce.
HoldsFinal ==
  \A i \in Orders :
    /\ hold[i].status \in {"DEBITED", "RELEASED"} => hold'[i] = hold[i]
    /\ order[i].status \in {"FAILED", "REFUNDED"} => order'[i].status \in {"FAILED", "REFUNDED"}

\* A charge stays one, refunded or not.
LEMMA ChargesStay ==
  ASSUME [HoldsFinal]_<<hold, order>>, NEW r, Charged(hold, r)
  PROVE  Charged(hold', r)
BY DEF HoldsFinal, Charged

\* A request that passed the look at its order refers to a charge.
LEMMA PayableIsCharged ==
  ASSUME LedgerTypeOK, OrderMatchesHold, NEW r, Payable(r), r.ref \in 1 .. nextId - 1
  PROVE  Charged(hold, r)
<1>1. r.ref \in Orders
  BY LedgerAssumption DEF LedgerTypeOK, Orders
<1>2. QED
  BY <1>1 DEF Payable, Charged, OrderMatchesHold

\* A step that writes no row and no marker, and puts no handler before its
\* marker, keeps what the rows rest on.
LEMMA NothingRecorded ==
  ASSUME MovementsInv, [HoldsFinal]_<<hold, order>>, row' = row, marker' \subseteq marker,
         \A h \in Handlers :
           \/ pc'[h] = "idle"
           \/ pc'[h] = pc[h] /\ req'[h] = req[h]
           \/ pc'[h] = "commit" /\ (req'[h].op = "outbound" => Charged(hold, req'[h]))
  PROVE  MovementsInv'
<1>1. \A r : Charged(hold, r) => Charged(hold', r)
  BY ChargesStay
<1>2. ASSUME NEW h \in Handlers
      PROVE  /\ pc'[h] = "mark" /\ req'[h].op \in Tabled => Recorded(row', req'[h].op, req'[h].key)
             /\ pc'[h] # "idle" /\ req'[h].op = "outbound" => Charged(hold', req'[h])
  <2>1. CASE pc'[h] = "idle"
    BY <2>1
  <2>2. CASE pc'[h] = pc[h] /\ req'[h] = req[h]
    BY <1>1, <2>2 DEF MovementsInv
  <2>3. CASE pc'[h] = "commit" /\ (req'[h].op = "outbound" => Charged(hold, req'[h]))
    BY <1>1, <2>3
  <2>4. QED
    BY <2>1, <2>2, <2>3
<1>3. QED
  BY <1>1, <1>2 DEF MovementsInv

\* A commit writes a row no other has the key of, for the charge it has seen.
LEMMA CommitRecords ==
  ASSUME HandlersInv, MovementsInv, [HoldsFinal]_<<hold, order>>, NEW h \in Handlers, Commit(h)
  PROVE  MovementsInv'
<1>1. \A r : Charged(hold, r) => Charged(hold', r)
  BY ChargesStay
<1>2. /\ pc[h] = "commit" /\ pc'[h] = "mark" /\ req' = req
      /\ \A g \in Handlers : g # h => pc'[g] = pc[g]
      /\ marker' = marker
  BY CommitMarks DEF Commit
<1>3. /\ row \subseteq row'
      /\ \A o \in row' \ row : o = req[h]
      /\ req[h].op \in Tabled =>
           req[h] \in row' /\ ~ Recorded(row, req[h].op, req[h].key)
  BY DEF Commit, InsertRow, Recorded, Tabled
<1>4. \A o, p \in row' : o.op = p.op /\ o.key = p.key => o = p
  <2>1. CASE row' = row
    BY <2>1 DEF MovementsInv
  <2>2. CASE req[h].op \in Tabled
    BY <1>3, <2>2 DEF MovementsInv, Recorded
  <2>3. QED
    BY <2>1, <2>2 DEF Commit
<1>5. \A op, k : Recorded(row, op, k) => Recorded(row', op, k)
  BY <1>3 DEF Recorded
<1>6. \A o \in row' : o.op = "outbound" => Charged(hold', o)
  BY <1>1, <1>2, <1>3 DEF MovementsInv
<1>7. \A g \in Handlers :
        pc'[g] = "mark" /\ req'[g].op \in Tabled => Recorded(row', req'[g].op, req'[g].key)
  BY <1>2, <1>3, <1>5 DEF MovementsInv, Recorded
<1>8. \A g \in Handlers : pc'[g] # "idle" /\ req'[g].op = "outbound" => Charged(hold', req'[g])
  BY <1>1, <1>2 DEF MovementsInv
<1>9. QED
  BY <1>2, <1>4, <1>5, <1>6, <1>7, <1>8 DEF MovementsInv

\* A marker is written after the row of its request.
LEMMA MarkerRecorded ==
  ASSUME HandlersInv, MovementsInv, [HoldsFinal]_<<hold, order>>, NEW h \in Handlers, SetMarker(h)
  PROVE  MovementsInv'
<1>1. \A r : Charged(hold, r) => Charged(hold', r)
  BY ChargesStay
<1>2. /\ pc'[h] = "idle"
      /\ \A g \in Handlers : g # h => pc'[g] = pc[g] /\ req'[g] = req[g]
  BY RequestsStay DEF SetMarker
<1>3. /\ pc[h] = "mark" /\ row' = row
      /\ marker' = marker \union {<<req[h].op, req[h].key>>}
  BY DEF SetMarker
<1>4. \A m \in marker' : m[1] \in Tabled => Recorded(row', m[1], m[2])
  BY <1>3 DEF MovementsInv
<1>5. QED
  BY <1>1, <1>2, <1>3, <1>4 DEF MovementsInv

\* Every step keeps the rows, the markers and the charges they rest on.
LEMMA MovementsStep ==
  ASSUME HandlersInv, LedgerTypeOK, OrderMatchesHold, MovementsInv,
         [Next]_vars, [HoldsFinal]_<<hold, order>>
  PROVE  MovementsInv'
<1>1. ASSUME NEW h \in Handlers, NEW r \in Requests, Begin(h, r)
      PROVE  MovementsInv'
  <2>1. r.op = "outbound" => Charged(hold, r)
    BY <1>1, RequestsValid, PayableIsCharged DEF Begin
  <2>2. UNCHANGED <<row, marker>>
    BY <1>1 DEF Begin
  <2>3. QED
    BY <1>1, <2>1, <2>2, BeginGives, NothingRecorded
<1>2. ASSUME NEW h \in Handlers, GiveUp(h)
      PROVE  MovementsInv'
  <2>1. Answer(h) /\ UNCHANGED <<row, marker>>
    BY <1>2 DEF GiveUp
  <2>2. QED
    BY <2>1, RequestsStay, NothingRecorded
<1>3. ASSUME \/ \E m \in marker : Expire(m)
             \/ LedgerOnly
             \/ UNCHANGED vars
      PROVE  MovementsInv'
  <2>1. row' = row /\ marker' \subseteq marker /\ UNCHANGED <<pc, req>>
    BY <1>3 DEF Expire, LedgerOnly, handlerVars, vars
  <2>2. QED
    BY <2>1, NothingRecorded
<1>4. QED
  BY <1>1, <1>2, <1>3, CommitRecords, MarkerRecorded DEF Next

\* It holds of every state.
LEMMA MovementsHold == Spec => []MovementsInv
<1>1. Init => MovementsInv
  BY DEF Init, MovementsInv
<1>2. HandlersInv /\ LedgerTypeOK /\ OrderMatchesHold /\ MovementsInv
        /\ [Next]_vars /\ [HoldsFinal]_<<hold, order>>
        => MovementsInv'
  BY MovementsStep
<1>3. LedgerSpec => [][HoldsFinal]_<<hold, order>>
  BY LedgerDecidesOnce DEF DecidedOnce, HoldsFinal
<1>4. QED
  BY <1>1, <1>2, <1>3, MovementsAlwaysValid, MovementsImplementLedger, LedgerTyping,
     LedgerOrdersMatch, PTL
     DEF Spec

\* An answer taken from a marker is one of a request that was carried out.
THEOREM MovementMarkersTrue == Spec => []MarkersAreTrue
<1>1. MovementsInv => MarkersAreTrue
  BY DEF MovementsInv, MarkersAreTrue, Recorded
<1>2. QED
  BY <1>1, MovementsHold, PTL

\* What an outbound transfer pays on was charged, though nothing locks the order
\* between the look at it and the transfer.
THEOREM OutboundRestsOnCharge == Spec => []OutboundFollowsCharge
<1>1. MovementsInv => OutboundFollowsCharge
  BY DEF MovementsInv, OutboundFollowsCharge, Charged
<1>2. QED
  BY <1>1, MovementsHold, PTL

-----------------------------------------------------------------------------
(***************************************************************************)
(* Sums over sets of rows.  MapThenSumSet takes the rows in an order of    *)
(* its own; a table of the sums of all subsets, which does not depend on   *)
(* an order, shows that adding a row adds its amount.                      *)
(***************************************************************************)

\* The sum of the amounts of some rows.
Summed(rows) == MapThenSumSet(AmountOf, rows)

\* u has the sum of each set of the rows in S, whichever row is taken off first.
SumTable(u, S) ==
  /\ u \in [SUBSET S -> Int]
  /\ u[{}] = 0
  /\ \A T \in SUBSET S : \A x \in T : u[T] = AmountOf(x) + u[T \ {x}]

\* The recursive function inside MapThenSumSet.
SumsUp(v, S) ==
  v = [T \in SUBSET S |-> IF T = {} THEN 0
                          ELSE AmountOf(CHOOSE x \in T : TRUE) + v[T \ {CHOOSE x \in T : TRUE}]]

\* One more row, whose amount is a number, makes one more table.
LEMMA SumTableGrows ==
  ASSUME NEW S, NEW y \in S, AmountOf(y) \in Int, \A x \in S : AmountOf(x) \in Int,
         NEW w, SumTable(w, S \ {y})
  PROVE  \E u : SumTable(u, S)
<1> DEFINE u == [T \in SUBSET S |-> IF y \in T THEN AmountOf(y) + w[T \ {y}] ELSE w[T]]
<1>1. \A T \in SUBSET S : T \ {y} \in SUBSET (S \ {y}) /\ (y \notin T => T \in SUBSET (S \ {y}))
  OBVIOUS
<1>2. u \in [SUBSET S -> Int]
  BY <1>1 DEF SumTable
<1>3. u[{}] = 0
  BY DEF SumTable
<1>4. ASSUME NEW T \in SUBSET S, NEW x \in T
      PROVE  u[T] = AmountOf(x) + u[T \ {x}]
  <2>1. T \ {x} \in SUBSET S /\ AmountOf(x) \in Int
    OBVIOUS
  <2>2. CASE x = y
    <3>1. y \notin T \ {x} /\ T \ {x} = T \ {y}
      BY <2>2
    <3>2. QED
      BY <2>1, <2>2, <3>1
  <2>3. CASE x # y /\ y \in T
    <3>1. y \in T \ {x} /\ (T \ {x}) \ {y} = (T \ {y}) \ {x} /\ x \in T \ {y}
      BY <2>3
    <3>2. w[T \ {y}] = AmountOf(x) + w[(T \ {y}) \ {x}]
      BY <1>1, <3>1 DEF SumTable
    <3>3. u[T] = AmountOf(y) + w[T \ {y}] /\ u[T \ {x}] = AmountOf(y) + w[(T \ {y}) \ {x}]
      BY <2>1, <2>3, <3>1
    <3>4. w[(T \ {y}) \ {x}] \in Int
      <4>1. (T \ {y}) \ {x} \in SUBSET (S \ {y})
        OBVIOUS
      <4>2. QED
        BY <4>1 DEF SumTable
    <3> HIDE DEF u
    <3>5. QED
      BY <2>1, <3>2, <3>3, <3>4
  <2>4. CASE y \notin T
    <3>1. T \in SUBSET (S \ {y}) /\ y \notin T \ {x}
      BY <2>4
    <3>2. w[T] = AmountOf(x) + w[T \ {x}]
      BY <3>1 DEF SumTable
    <3>3. QED
      BY <2>1, <2>4, <3>1, <3>2
  <2>5. QED
    BY <2>2, <2>3, <2>4
<1> HIDE DEF u
<1>5. QED
  BY <1>2, <1>3, <1>4 DEF SumTable

\* Every finite set of rows has a table: none is a smallest one without.
LEMMA SumTableExists ==
  ASSUME NEW S, IsFiniteSet(S), \A x \in S : AmountOf(x) \in Int
  PROVE  \E u : SumTable(u, S)
<1> DEFINE Fine(R) == \E u : SumTable(u, R)
           Bad == {n \in Nat : \E R \in SUBSET S : Cardinality(R) = n /\ ~ Fine(R)}
<1>1. \A R \in SUBSET S : IsFiniteSet(R) /\ Cardinality(R) \in Nat
  BY FS_Subset, FS_CardinalityType
<1>2. SUFFICES Bad = {}
  BY <1>1
<1>3. SUFFICES ASSUME Bad # {} PROVE FALSE
  OBVIOUS
<1>4. PICK m \in Bad : \A k \in Bad : m <= k
  <2>1. Bad \in SUBSET Nat
    OBVIOUS
  <2> HIDE DEF Bad
  <2>2. QED
    BY <1>3, <2>1, LeastElement
<1>5. PICK R \in SUBSET S : Cardinality(R) = m /\ ~ Fine(R)
  OBVIOUS
<1>6. Fine({})
  <2> DEFINE z == [T \in SUBSET {} |-> 0]
  <2>1. SumTable(z, {})
    BY DEF SumTable
  <2>2. QED
    BY <2>1
<1>7. PICK y : y \in R
  <2> HIDE DEF Fine
  <2>1. QED
    BY <1>5, <1>6
<1>8. Cardinality(R \ {y}) = m - 1 /\ m - 1 \in Nat /\ R \ {y} \in SUBSET S
  <2>1. Cardinality(R \ {y}) = Cardinality(R) - 1
    BY <1>1, <1>7, FS_RemoveElement
  <2>2. R \ {y} \in SUBSET S
    OBVIOUS
  <2> HIDE DEF Fine
  <2>3. QED
    BY <1>1, <1>5, <2>1, <2>2
<1>9. Fine(R \ {y})
  <2> HIDE DEF Fine
  <2>1. m \in Nat /\ ~ (m <= m - 1)
    OBVIOUS
  <2>2. m - 1 \notin Bad
    BY <1>4, <1>8, <2>1
  <2>3. QED
    BY <1>8, <2>2
<1>10. PICK w : SumTable(w, R \ {y})
  BY <1>9
<1>11. \A x \in R : AmountOf(x) \in Int
  OBVIOUS
<1>12. Fine(R)
  BY <1>7, <1>10, <1>11, SumTableGrows
<1>13. QED
  BY <1>5, <1>12

\* MapThenSumSet finds the sum that is in the table.
LEMMA SummedIsInTable ==
  ASSUME NEW S, IsFiniteSet(S), NEW u, SumTable(u, S)
  PROVE  Summed(S) = u[S]
<1> DEFINE v == CHOOSE f : SumsUp(f, S)
<1>1. Summed(S) = v[S]
  BY DEF Summed, SumsUp, MapThenSumSet, MapThenFoldSet
<1>2. SumsUp(u, S)
  BY DEF SumsUp, SumTable
<1>3. SumsUp(v, S)
  BY <1>2
<1> HIDE DEF v
<1> DEFINE Bad == {n \in Nat : \E T \in SUBSET S : Cardinality(T) = n /\ v[T] # u[T]}
<1>4. \A T \in SUBSET S : IsFiniteSet(T) /\ Cardinality(T) \in Nat
  BY FS_Subset, FS_CardinalityType
<1>5. ASSUME Bad # {} PROVE FALSE
  <2>1. PICK m \in Bad : \A k \in Bad : m <= k
    <3>1. Bad \in SUBSET Nat
      OBVIOUS
    <3> HIDE DEF Bad
    <3>2. QED
      BY <1>5, <3>1, LeastElement
  <2>2. PICK T \in SUBSET S : Cardinality(T) = m /\ v[T] # u[T]
    OBVIOUS
  <2>3. T # {}
    BY <1>3, <2>2 DEF SumsUp, SumTable
  <2>4. PICK x \in T : x = CHOOSE y \in T : TRUE
    BY <2>3
  <2>5. v[T] = AmountOf(x) + v[T \ {x}] /\ u[T] = AmountOf(x) + u[T \ {x}]
    BY <1>2, <1>3, <2>3, <2>4 DEF SumsUp
  <2>6. v[T \ {x}] # u[T \ {x}] /\ T \ {x} \in SUBSET S
    BY <2>2, <2>5
  <2>7. Cardinality(T \ {x}) = m - 1 /\ m - 1 \in Nat
    <3>1. Cardinality(T \ {x}) = Cardinality(T) - 1
      BY <1>4, <2>4, FS_RemoveElement
    <3>2. Cardinality(T \ {x}) \in Nat
      BY <1>4, <2>6
    <3> HIDE DEF Bad
    <3>3. QED
      BY <2>2, <3>1, <3>2
  <2>8. m - 1 \in Bad
    BY <2>6, <2>7
  <2>9. QED
    BY <2>1, <2>8
<1>6. v[S] = u[S]
  <2>1. Cardinality(S) \notin Bad
    BY <1>5
  <2>2. QED
    BY <1>4, <2>1
<1>7. QED
  BY <1>1, <1>6

\* The sum of no rows is zero, and a new row adds its amount to a sum.
LEMMA SummedStep ==
  ASSUME NEW S, IsFiniteSet(S), \A x \in S : AmountOf(x) \in Int
  PROVE  /\ Summed(S) \in Int
         /\ Summed({}) = 0
         /\ \A y : y \notin S /\ AmountOf(y) \in Int =>
                     Summed(S \union {y}) = Summed(S) + AmountOf(y)
<1>1. PICK u : SumTable(u, S)
  BY SumTableExists
<1>2. Summed(S) = u[S] /\ u[S] \in Int
  BY <1>1, SummedIsInTable DEF SumTable
<1>3. Summed({}) = 0
  <2>1. PICK z : SumTable(z, {})
    BY FS_EmptySet, SumTableExists
  <2>2. QED
    BY <2>1, FS_EmptySet, SummedIsInTable DEF SumTable
<1>4. ASSUME NEW y, y \notin S, AmountOf(y) \in Int
      PROVE  Summed(S \union {y}) = Summed(S) + AmountOf(y)
  <2> DEFINE R == S \union {y}
  <2>1. IsFiniteSet(R) /\ (\A x \in R : AmountOf(x) \in Int)
    BY <1>4, FS_AddElement
  <2>2. PICK w : SumTable(w, R)
    BY <2>1, SumTableExists
  <2> DEFINE r == [T \in SUBSET S |-> w[T]]
  <2>3. SumTable(r, S)
    BY <2>2 DEF SumTable
  <2>4. Summed(S) = w[S] /\ w[S] \in Int
    <3>1. Summed(S) = r[S]
      BY <2>3, SummedIsInTable
    <3>2. S \in SUBSET R
      OBVIOUS
    <3>3. QED
      BY <2>2, <3>1, <3>2 DEF SumTable
  <2>5. R \ {y} = S
    BY <1>4
  <2>6. Summed(R) = AmountOf(y) + w[S]
    <3>1. R \in SUBSET R /\ y \in R
      OBVIOUS
    <3> HIDE DEF R
    <3>2. w[R] = AmountOf(y) + w[R \ {y}]
      BY <2>2, <3>1 DEF SumTable
    <3>3. Summed(R) = w[R]
      BY <2>1, <2>2, SummedIsInTable
    <3>4. QED
      BY <2>5, <3>2, <3>3
  <2> HIDE DEF R, r
  <2>7. Summed(R) = Summed(S) + AmountOf(y)
    BY <1>4, <2>4, <2>6
  <2>8. QED
    BY <2>7 DEF R
<1>5. QED
  BY <1>2, <1>3, <1>4

-----------------------------------------------------------------------------
(* Rows and money *)

\* The rows that gave agent a money, and those that took it.
To(rows, a) == {o \in rows : o.to = a}
From(rows, a) == {o \in rows : o.from = a}

\* What rows and card payments leave agent a with.
Net(rows, paid, a) == Summed(To(rows, a)) - Summed(From(rows, a)) - paid[a]

\* RowsExplainMoved, and that there are only finitely many rows to add up.
ExplainedInv ==
  /\ IsFiniteSet(row)
  /\ \A a \in Agents : moved[a] = Net(row, cardPaid, a)

\* The amounts of rows are numbers, and so are their sums.
LEMMA RowSums ==
  ASSUME HandlersInv, IsFiniteSet(row), NEW a
  PROVE  /\ IsFiniteSet(To(row, a)) /\ IsFiniteSet(From(row, a))
         /\ \A o \in row : AmountOf(o) \in Int
         /\ Summed(To(row, a)) \in Int /\ Summed(From(row, a)) \in Int
<1>1. \A o \in row : AmountOf(o) \in Int
  BY LedgerAssumption DEF AmountOf, HandlersInv, ValidRequest
<1>2. To(row, a) \subseteq row /\ From(row, a) \subseteq row
  BY DEF To, From
<1>3. IsFiniteSet(To(row, a)) /\ IsFiniteSet(From(row, a))
  BY <1>2, FS_Subset
<1>4. QED
  BY <1>1, <1>2, <1>3, SummedStep

\* A new row changes what it gives and takes by its amount, and nothing else.
LEMMA NetOfNewRow ==
  ASSUME HandlersInv, IsFiniteSet(row), NEW r, r \notin row, ValidRequest(r), NEW a \in Agents
  PROVE  Net(row \union {r}, cardPaid, a)
           = Net(row, cardPaid, a) + (IF r.to = a THEN r.amount ELSE 0)
                                   - (IF r.from = a THEN r.amount ELSE 0)
<1>1. AmountOf(r) = r.amount /\ r.amount \in Int /\ cardPaid[a] \in Int
  BY LedgerAssumption DEF AmountOf, ValidRequest, HandlersInv
<1>2. Summed(To(row \union {r}, a))
        = Summed(To(row, a)) + (IF r.to = a THEN r.amount ELSE 0)
  <2>1. /\ IsFiniteSet(To(row, a)) /\ \A o \in To(row, a) : AmountOf(o) \in Int
        /\ Summed(To(row, a)) \in Int
    BY RowSums DEF To
  <2>2. r \notin To(row, a)
    BY DEF To
  <2>3. CASE r.to = a
    <3>1. To(row \union {r}, a) = To(row, a) \union {r}
      BY <2>3 DEF To
    <3>2. Summed(To(row, a) \union {r}) = Summed(To(row, a)) + AmountOf(r)
      BY <1>1, <2>1, <2>2, SummedStep
    <3>3. QED
      BY <1>1, <2>3, <3>1, <3>2
  <2>4. CASE r.to # a
    <3>1. To(row \union {r}, a) = To(row, a)
      BY <2>4 DEF To
    <3>2. QED
      BY <2>1, <2>4, <3>1
  <2>5. QED
    BY <2>3, <2>4
<1>3. Summed(From(row \union {r}, a))
        = Summed(From(row, a)) + (IF r.from = a THEN r.amount ELSE 0)
  <2>1. /\ IsFiniteSet(From(row, a)) /\ \A o \in From(row, a) : AmountOf(o) \in Int
        /\ Summed(From(row, a)) \in Int
    BY RowSums DEF From
  <2>2. r \notin From(row, a)
    BY DEF From
  <2>3. CASE r.from = a
    <3>1. From(row \union {r}, a) = From(row, a) \union {r}
      BY <2>3 DEF From
    <3>2. Summed(From(row, a) \union {r}) = Summed(From(row, a)) + AmountOf(r)
      BY <1>1, <2>1, <2>2, SummedStep
    <3>3. QED
      BY <1>1, <2>3, <3>1, <3>2
  <2>4. CASE r.from # a
    <3>1. From(row \union {r}, a) = From(row, a)
      BY <2>4 DEF From
    <3>2. QED
      BY <2>1, <2>4, <3>1
  <2>5. QED
    BY <2>3, <2>4
<1>4. Summed(To(row, a)) \in Int /\ Summed(From(row, a)) \in Int
  BY RowSums
<1>5. QED
  BY <1>1, <1>2, <1>3, <1>4 DEF Net

\* A commit moves what its row, or its card payment, says.
LEMMA CommitExplained ==
  ASSUME HandlersInv, LedgerTypeOK, ExplainedInv, NEW h \in Handlers, Commit(h)
  PROVE  ExplainedInv'
<1> DEFINE r == req[h]
<1>1. ValidRequest(r)
  BY CommitMarks DEF HandlersInv
<1>2. /\ r.from \in Agents /\ r.amount \in Nat
      /\ moved \in [Agents -> Int] /\ cardPaid \in [Agents -> Nat]
      /\ NoAgent \notin Agents
  BY <1>1, LedgerAssumption DEF ValidRequest, LedgerTypeOK, HandlersInv
<1>3. \A a \in Agents :
        moved'[a] = moved[a] + (IF r.to = a THEN r.amount ELSE 0)
                             - (IF r.from = a THEN r.amount ELSE 0)
  <2>1. CASE r.op = "transfer"
    <3>1. r.to \in Agents /\ r.from # r.to
      BY <1>1, <2>1 DEF ValidRequest, Commit, MoveMoney, TransferTx
    <3>2. moved' = [moved EXCEPT ![r.from] = @ - r.amount, ![r.to] = @ + r.amount]
      BY <2>1 DEF Commit, MoveMoney, TransferTx
    <3> HIDE DEF r
    <3>3. QED
      BY <1>2, <3>1, <3>2
  <2>2. CASE r.op # "transfer"
    <3>1. r.to \notin Agents
      BY <1>1, <1>2, <2>2 DEF ValidRequest
    <3>2. moved' = [moved EXCEPT ![r.from] = @ - r.amount]
      BY <2>2 DEF Commit, MoveMoney, SpendTx
    <3> HIDE DEF r
    <3>3. QED
      BY <1>2, <3>1, <3>2
  <2>3. QED
    BY <2>1, <2>2
<1>4. \A a \in Agents : Summed(To(row, a)) \in Int /\ Summed(From(row, a)) \in Int
  BY RowSums DEF ExplainedInv
<1>5. CASE r.op \in Tabled
  <2>1. row' = row \union {r} /\ r \notin row /\ cardPaid' = cardPaid
    BY <1>5 DEF Commit, InsertRow, Tabled
  <2>2. IsFiniteSet(row')
    BY <2>1, FS_AddElement DEF ExplainedInv
  <2> HIDE DEF r
  <2>3. ASSUME NEW a \in Agents
        PROVE  moved'[a] = Net(row', cardPaid', a)
    <3>1. Net(row', cardPaid', a)
            = Net(row, cardPaid, a) + (IF r.to = a THEN r.amount ELSE 0)
                                    - (IF r.from = a THEN r.amount ELSE 0)
      BY <1>1, <2>1, NetOfNewRow DEF ExplainedInv
    <3>2. QED
      BY <1>3, <3>1 DEF ExplainedInv
  <2>4. QED
    BY <2>2, <2>3 DEF ExplainedInv
<1>6. CASE r.op = "card"
  <2>1. row' = row /\ cardPaid' = [cardPaid EXCEPT ![r.from] = @ + r.amount]
    BY <1>6 DEF Commit, Tabled
  <2>2. r.to \notin Agents
    BY <1>1, <1>2, <1>6 DEF ValidRequest
  <2> HIDE DEF r
  <2>3. ASSUME NEW a \in Agents
        PROVE  moved'[a] = Net(row', cardPaid', a)
    <3>1. moved'[a] = moved[a] - (IF r.from = a THEN r.amount ELSE 0) /\ moved[a] \in Int
      BY <1>2, <1>3, <2>2
    <3>2. cardPaid'[a] = cardPaid[a] + (IF r.from = a THEN r.amount ELSE 0) /\ cardPaid[a] \in Int
      BY <1>2, <2>1
    <3>3. moved[a] = Summed(To(row, a)) - Summed(From(row, a)) - cardPaid[a]
      BY DEF ExplainedInv, Net
    <3>4. QED
      BY <1>2, <1>4, <2>1, <3>1, <3>2, <3>3 DEF Net
  <2>4. QED
    BY <2>1, <2>3 DEF ExplainedInv
<1>7. QED
  BY <1>5, <1>6 DEF Commit

\* No other step moves money between the accounts and the outside, or writes a
\* row: recharges, payments, refunds and the job have columns of their own.
LEMMA OthersMoveNothing ==
  ASSUME [Next]_vars, \A h \in Handlers : ~ Commit(h)
  PROVE  UNCHANGED <<row, cardPaid, moved>>
<1>1. ASSUME NEW h \in Handlers,
             (\E r \in Requests : Begin(h, r)) \/ SetMarker(h) \/ GiveUp(h)
      PROVE  UNCHANGED <<row, cardPaid, moved>>
  BY <1>1 DEF Begin, SetMarker, GiveUp, ledgerVars
<1>2. CASE \E m \in marker : Expire(m)
  BY <1>2 DEF Expire, ledgerVars
<1>3. CASE LedgerOnly
  <2>1. UNCHANGED <<row, cardPaid>>
    BY <1>3 DEF LedgerOnly, handlerVars
  <2>2. CASE \E a \in Agents, v \in RechargeAmounts : RechargeTx(a, v)
    BY <2>1, <2>2 DEF RechargeTx
  <2>3. CASE PayStep
    BY <2>1, <2>3 DEF PayStep, PayFailedTx, PaySettlingTx, PaySettledTx, OpenPayment
  <2>4. CASE OrderStep
    BY <2>1, <2>4 DEF OrderStep, SettleTx, FailTx, RefundTx
  <2>5. CASE TimePasses
    BY <2>1, <2>5 DEF TimePasses
  <2>6. CASE JobStep
    BY <2>1, <2>6 DEF JobStep, CompensationScan, CompensateTx, CompensationAborts
  <2>7. QED
    BY <1>3, <2>2, <2>3, <2>4, <2>5, <2>6 DEF LedgerOnly
<1>4. CASE UNCHANGED vars
  BY <1>4 DEF vars, ledgerVars, handlerVars
<1>5. QED
  BY <1>1, <1>2, <1>3, <1>4 DEF Next

\* The order tables tell the truth about money: whatever overlaps, is lost or is
\* tried again, an account received and spent what the rows and its card
\* payments add up to.
THEOREM RowsAddUp == Spec => []RowsExplainMoved
<1>1. ExplainedInv => RowsExplainMoved
  BY DEF ExplainedInv, RowsExplainMoved, Net, To, From, Summed
<1>2. Init => ExplainedInv
  <2>1. \A a : To({}, a) = {} /\ From({}, a) = {}
    BY DEF To, From
  <2>2. Summed({}) = 0
    BY FS_EmptySet, SummedStep
  <2>3. QED
    BY <2>1, <2>2, FS_EmptySet DEF Init, LedgerInit, ExplainedInv, Net
<1>3. HandlersInv /\ LedgerTypeOK /\ ExplainedInv /\ [Next]_vars => ExplainedInv'
  BY CommitExplained, OthersMoveNothing DEF ExplainedInv
<1>4. QED
  BY <1>1, <1>2, <1>3, MovementsAlwaysValid, MovementsImplementLedger, LedgerTyping, PTL
     DEF Spec
=============================================================================
