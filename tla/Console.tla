------------------------------- MODULE Console -------------------------------
(***************************************************************************)
(* One tab of the console: its pages and the moves between them.  Leaving  *)
(* a page drops what the page held and lets its calls go on.  The parts    *)
(* share the session and the page on screen, and no data besides; a        *)
(* behaviour follows the user's work in one of them, and the pages visited *)
(* in between.                                                             *)
(***************************************************************************)
EXTENDS ConsoleQueries, TransactionsPage, AgentsPage, AuthorizePage, BillingPage

VARIABLE part    \* the part whose work a behaviour follows

pageVars == <<queriesVars, txVars, agVars, ruleVars, billingVars>>
vars == <<shellVars, pageVars, part>>

Parts == {"lists", "payments", "agents", "rules", "billing"}

Init ==
    /\ ShellInit /\ QueriesInit /\ TransactionsInit /\ AgentsInit /\ AuthorizeInit
    /\ BillingInit
    /\ part \in Parts
    /\ part = "lists" <=> focus # {}
    /\ url = "success" => part = "billing"

\* Another page opens.
Navigate(p) ==
    /\ p # page
    /\ OpenPage(p) /\ QueriesOpen(p) /\ TransactionsOpen /\ AgentsOpen /\ AuthorizeOpen
    /\ BillingOpen(p)
    /\ UNCHANGED part

Next ==
    \/ \E p \in Page : Navigate(p)
    \/ /\ part = "lists" /\ QueriesStep
       /\ UNCHANGED <<txVars, agVars, ruleVars, billingVars, part>>
    \/ /\ part = "payments" /\ TransactionsStep
       /\ UNCHANGED <<queriesVars, agVars, ruleVars, billingVars, part>>
    \/ /\ part = "agents" /\ AgentsStep
       /\ UNCHANGED <<queriesVars, txVars, ruleVars, billingVars, part>>
    \/ /\ part = "rules" /\ AuthorizeStep
       /\ UNCHANGED <<queriesVars, txVars, agVars, billingVars, part>>
    \/ /\ part = "billing" /\ BillingStep
       /\ UNCHANGED <<queriesVars, txVars, agVars, ruleVars, part>>

Spec == Init /\ [][Next]_vars /\ BillingFairness

TypeOK ==
    /\ session \in Sessions /\ page \in Page /\ acts \in 0..MaxActs /\ part \in Parts
    /\ QueriesTypeOK /\ TransactionsTypeOK /\ AgentsTypeOK /\ AuthorizeTypeOK /\ BillingTypeOK

=============================================================================
