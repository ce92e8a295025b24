----------------------------- MODULE BillingPage -----------------------------
(***************************************************************************)
(* The billing page.  A customer who comes back from the provider lands on *)
(* /billing?checkout=success&session_id=...; an effect has the backend     *)
(* look the session up, reads the subscription again, says so and cleans   *)
(* the address.  The effect depends on objects that are new at every       *)
(* render, so every render cancels the run under way and starts another.   *)
(* A cancelled run that succeeds stops; one that fails cleans the address  *)
(* all the same, and so does one that had passed its check before.         *)
(* Runs in the same position are not told apart, nor is what the backend   *)
(* answers to the page's other calls: they only render.                    *)
(***************************************************************************)
EXTENDS ConsoleShell

VARIABLES url,        \* the address, as far as this page is concerned
          sync,       \* the run that is not cancelled: "none" or "asked"
          stale,      \* cancelled runs are under way
          past,       \* where the runs beyond their check are
          awaited,    \* how many of its queries' answers the page still waits for
          profile,    \* the role and plan the page knows, or Default
          recon,      \* the filters of the reconciliation table
          billCalls   \* the calls of its buttons under way

billingVars == <<url, sync, stale, past, awaited, profile, recon, billCalls>>

\* What the page takes the session for until its profile is read.
Default == [role |-> "operator", plan |-> "starter"]
\* The capabilities, the subscription and the reconciliation table.
Queries == 3

\* A filter is either not set or set to some value.
ReconFilters == [{"checkoutType", "status", "vaAccountId", "anomalyOnly", "offset"} -> BOOLEAN]
NoFilters == [f \in {"checkoutType", "status", "vaAccountId", "anomalyOnly", "offset"} |-> FALSE]

----------------------------------------------------------------------------
(* The effect *)

\* Every render restarts the run while the address says success.
Render ==
    IF page = "billing" /\ url = "success"
    THEN sync' = "asked" /\ stale' = (stale \/ sync = "asked")
    ELSE UNCHANGED <<sync, stale>>

\* replaceState, and the render it causes.
Clean(others) ==
    /\ url' = "plain"
    /\ sync' = "none"
    /\ stale' = (others \/ sync = "asked")

AnswerSync ==
    /\ sync = "asked"
    /\ sync' = "none"
    /\ past' = past \cup {"refetch"}
    /\ UNCHANGED <<shellVars, url, stale, awaited, profile, recon, billCalls>>

FailSync ==
    /\ sync = "asked"
    /\ url' = "plain" /\ sync' = "none"
    /\ UNCHANGED <<shellVars, stale, past, awaited, profile, recon, billCalls>>

\* A cancelled run ends; others may be left.
EndStale(succeeds, others) ==
    /\ stale
    /\ IF succeeds THEN stale' = others /\ UNCHANGED <<url, sync>> ELSE Clean(others)
    /\ UNCHANGED <<shellVars, past, awaited, profile, recon, billCalls>>

\* The subscription is there; what it changed may be rendered before the run
\* goes on to clean the address.
Mutant_AnswerRefetch(renders) ==
    /\ "refetch" \in past
    /\ past' = past \ {"refetch"}
    /\ IF renders THEN Render /\ UNCHANGED url ELSE Clean(stale)
    /\ UNCHANGED <<shellVars, awaited, profile, recon, billCalls>>
AnswerRefetch(renders) ==
    /\ "refetch" \in past
    /\ IF renders
       THEN past' = (past \ {"refetch"}) \cup {"resumed"} /\ Render /\ UNCHANGED url
       ELSE past' = past \ {"refetch"} /\ Clean(stale)
    /\ UNCHANGED <<shellVars, awaited, profile, recon, billCalls>>

Resume ==
    /\ "resumed" \in past
    /\ past' = past \ {"resumed"}
    /\ Clean(stale)
    /\ UNCHANGED <<shellVars, awaited, profile, recon, billCalls>>

----------------------------------------------------------------------------
(* The rest of the page: renders *)

\* The profile is read when the page opens; if it cannot be, the defaults stay.
LoadProfile ==
    /\ page = "billing" /\ profile # session
    /\ profile' = session
    /\ Render
    /\ UNCHANGED <<shellVars, url, past, awaited, recon, billCalls>>

LoadQuery ==
    /\ page = "billing" /\ awaited > 0
    /\ awaited' = awaited - 1
    /\ Render
    /\ UNCHANGED <<shellVars, url, past, profile, recon, billCalls>>

\* The filters of the table: a value that was not loaded yet is asked for.
\* Choosing a filter goes back to the first page of the table.
SetRecon(field) ==
    /\ Act /\ page = "billing"
    /\ recon' = [recon EXCEPT ![field] = ~@, !["offset"] = IF field = "offset" THEN ~@ ELSE FALSE]
    /\ awaited' = awaited + 1
    /\ Render
    /\ UNCHANGED <<session, page, url, past, profile, billCalls>>

ByAdmin == profile.role = "admin"
Offered(op) ==
    CASE op = "checkout" -> ByAdmin /\ profile.plan # "free"
      [] op \in {"bridgeKYC", "bridgeCreateVA"} -> ByAdmin /\ profile.plan # "free"
      [] op = "export" -> ByAdmin
      [] op = "copyContext" -> TRUE
BillingOperation == {"checkout", "bridgeKYC", "bridgeCreateVA", "export", "copyContext"}

BillingClick(op) ==
    /\ Act /\ page = "billing"
    /\ Offered(op) /\ op \notin billCalls
    /\ billCalls' = billCalls \cup {op}
    /\ Render
    /\ UNCHANGED <<session, page, url, past, awaited, profile, recon>>

\* A field, a selection, or an amount the form refuses.
BillingEdit ==
    /\ Act /\ page = "billing"
    /\ Render
    /\ UNCHANGED <<session, page, url, past, awaited, profile, recon, billCalls>>

BillingAnswer(op) ==
    /\ op \in billCalls
    /\ billCalls' = billCalls \ {op}
    /\ Render
    /\ UNCHANGED <<shellVars, url, past, awaited, profile, recon>>

\* The page is left: the run under way is cancelled, those past their check go
\* on.
BillingOpen(p) ==
    /\ url' = IF p = "billing" THEN "plain" ELSE "other"
    /\ stale' = (stale \/ sync = "asked")
    /\ sync' = "none"
    /\ awaited' = IF p = "billing" THEN Queries ELSE 0
    /\ profile' = Default
    /\ recon' = NoFilters
    /\ billCalls' = {}
    /\ UNCHANGED past

BillingInit ==
    /\ url \in IF page = "billing" THEN {"success", "plain"} ELSE {"other"}
    /\ sync = IF url = "success" THEN "asked" ELSE "none"
    /\ stale = FALSE /\ past = {}
    /\ awaited = IF page = "billing" THEN Queries ELSE 0
    /\ profile = Default
    /\ recon = NoFilters
    /\ billCalls = {}

BillingStep ==
    \/ AnswerSync \/ FailSync \/ Resume
    \/ \E succeeds, others \in BOOLEAN : EndStale(succeeds, others)
    \/ \E renders \in BOOLEAN : AnswerRefetch(renders)
    \/ LoadProfile \/ LoadQuery
    \/ \E field \in DOMAIN recon : SetRecon(field)
    \/ \E op \in BillingOperation : BillingClick(op) \/ BillingAnswer(op)
    \/ BillingEdit

\* A request is answered or fails, and a script that may go on does.
BillingFairness ==
    /\ WF_billingVars(AnswerSync \/ FailSync \/ \E renders \in BOOLEAN : AnswerRefetch(renders))
    /\ WF_billingVars(Resume)

----------------------------------------------------------------------------
(* Properties *)

BillingTypeOK ==
    /\ url \in {"success", "plain", "other"}
    /\ sync \in {"none", "asked"} /\ stale \in BOOLEAN
    /\ past \subseteq {"refetch", "resumed"}
    /\ awaited \in 0..(Queries + MaxActs)
    /\ profile \in [role : Role, plan : PlanCode]
    /\ recon \in ReconFilters
    /\ billCalls \subseteq BillingOperation

\* However often the page is rendered while a run is under way, the address a
\* customer comes back with is cleaned in the end; until then a reload would
\* look the checkout up again.
SuccessUrlIsCleaned == url = "success" ~> url # "success"

=============================================================================
