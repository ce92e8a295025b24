--------------------------- MODULE TransactionsPage ---------------------------
(***************************************************************************)
(* The transactions page: the pay form, the three query tools, the error   *)
(* panel with its retry button, and the rows the answers leave on screen.  *)
(* No button is disabled while its call is pending.  A row takes its       *)
(* amount from the form as it is when the answer comes, or, for a call     *)
(* that a later one of the same button superseded, as it was at that time. *)
(* Left out: the table's filters and pages, and the message line.          *)
(***************************************************************************)
EXTENDS ConsoleShell, SequencesExt

CONSTANTS Amounts    \* amounts the pay form may hold

VARIABLES amount,    \* the form's amount
          rows,      \* the rows on screen, newest first
          recover,     \* the operation whose error is shown, or "none"
          txCalls,   \* the calls under way
          orders,    \* the payment orders the backend holds for the account
          txCalm,    \* no call was ever started while another was under way
          kept       \* the amount was never edited while a payment was under way

txVars == <<amount, rows, recover, txCalls, orders, txCalm, kept>>

Operation == {"pay", "status", "balance", "ledger"}
CallOf == [pay |-> "pay", status |-> "queryTransaction", balance |-> "queryBalance",
           ledger |-> "queryLedger"]
Live == 0   \* "the amount the form holds when the answer comes"

ASSUME AmountsAssumption == Amounts # {} /\ Live \notin Amounts

----------------------------------------------------------------------------
(* Starting a call *)

\* mutate(): a payment still pending keeps the amount it would have shown now.
Launch(op) ==
    /\ txCalls' =
          {IF c.op = op /\ c.shows = Live THEN [c EXCEPT !.shows = amount] ELSE c : c \in txCalls}
          \cup {[op |-> op, n |-> acts + 1, sent |-> amount, shows |-> Live, pc |-> "asked",
                 got |-> {}, here |-> TRUE]}
    /\ txCalm' = (txCalm /\ txCalls = {})

\* The form clears the panel, and goes no further when the input is refused.
SubmitPay(valid) ==
    /\ Act /\ page = "transactions"
    /\ recover' = "none"
    /\ IF valid THEN Launch("pay") ELSE UNCHANGED <<txCalls, txCalm>>
    /\ UNCHANGED <<session, page, amount, rows, orders, kept>>

AskTool(op) ==
    /\ Act /\ page = "transactions"
    /\ op # "pay"
    /\ Launch(op)
    /\ UNCHANGED <<session, page, amount, rows, recover, orders, kept>>

\* Whatever failed last is asked again, with what the form holds now.
RetryLastError ==
    /\ Act /\ page = "transactions"
    /\ recover # "none"
    /\ Launch(recover)
    /\ UNCHANGED <<session, page, amount, rows, recover, orders, kept>>

EditAmount(a) ==
    /\ Act /\ page = "transactions"
    /\ a # amount /\ amount' = a
    /\ kept' = (kept /\ \A c \in txCalls : c.op # "pay")
    /\ UNCHANGED <<session, page, rows, recover, txCalls, orders, txCalm>>

----------------------------------------------------------------------------
(* Answers *)

TxServe(c) ==
    /\ c.pc = "asked" /\ Reaches(CallOf[c.op])
    /\ orders' = IF c.op = "pay" THEN orders \cup {[id |-> c.n, amount |-> c.sent]} ELSE orders
    /\ txCalls' = (txCalls \ {c}) \cup {[c EXCEPT !.pc = "done",
                    !.got = IF c.op = "ledger" THEN orders ELSE {}]}
    /\ UNCHANGED <<shellVars, amount, rows, recover, txCalm, kept>>

PayRow(c) == [id |-> c.n, amount |-> IF c.shows = Live THEN amount ELSE c.shows]

\* onSuccess: a payment adds its row, a ledger replaces all rows.
Mutant_RowsAfter(c) ==
    IF c.op = "pay" THEN <<PayRow(c)>> \o rows
    ELSE IF c.op = "ledger" THEN SetToSeq(c.got) \o rows
    ELSE rows
RowsAfter(c) ==
    IF c.op = "pay" THEN <<PayRow(c)>> \o rows
    ELSE IF c.op = "ledger" THEN SetToSeq(c.got)
    ELSE rows

\* On a page that was left nothing shows.
TxAnswer(c) ==
    /\ c.pc = "done"
    /\ txCalls' = txCalls \ {c}
    /\ IF c.here
       THEN /\ recover' = "none"
            /\ rows' = RowsAfter(c)
       ELSE UNCHANGED <<recover, rows>>
    /\ UNCHANGED <<shellVars, amount, orders, txCalm, kept>>

\* Refused, failed, or its answer lost.
TxFail(c) ==
    /\ txCalls' = txCalls \ {c}
    /\ recover' = IF c.here THEN c.op ELSE recover
    /\ UNCHANGED <<shellVars, amount, rows, orders, txCalm, kept>>

\* A page that is left loses its form and rows; its calls go on.
TransactionsOpen ==
    /\ amount' = CHOOSE a \in Amounts : TRUE
    /\ rows' = <<>> /\ recover' = "none"
    /\ txCalls' = {[c EXCEPT !.here = FALSE] : c \in txCalls}
    /\ UNCHANGED <<orders, txCalm, kept>>

TransactionsInit ==
    /\ amount = CHOOSE a \in Amounts : TRUE
    /\ rows = <<>> /\ recover = "none"
    /\ txCalls = {} /\ orders = {}
    /\ txCalm = TRUE /\ kept = TRUE

TransactionsStep ==
    \/ \E valid \in BOOLEAN : SubmitPay(valid)
    \/ \E op \in Operation : AskTool(op)
    \/ RetryLastError
    \/ \E a \in Amounts : EditAmount(a)
    \/ \E c \in txCalls : TxServe(c) \/ TxAnswer(c) \/ TxFail(c)

----------------------------------------------------------------------------
(* Properties *)

Order == [id : 1..MaxActs, amount : Amounts]
TransactionsTypeOK ==
    /\ amount \in Amounts
    /\ \A i \in DOMAIN rows : rows[i] \in Order
    /\ recover \in Operation \cup {"none"}
    /\ \A c \in txCalls : /\ c.op \in Operation /\ c.n \in 1..MaxActs /\ c.sent \in Amounts
                          /\ c.shows \in Amounts \cup {Live}
                          /\ c.pc \in {"asked", "done"} /\ c.got \subseteq Order
                          /\ c.here \in BOOLEAN
    /\ orders \subseteq Order
    /\ txCalm \in BOOLEAN /\ kept \in BOOLEAN

\* What the page calls a payment is one the backend made, with its amount, as
\* long as nobody edits the amount while a payment is under way; and it is on
\* screen once, as long as calls never overlap.
RowsArePayments ==
    /\ kept => \A i \in DOMAIN rows : rows[i] \in orders
    /\ txCalm => \A i, j \in DOMAIN rows : rows[i].id = rows[j].id => i = j

=============================================================================
