---------------------------- MODULE ConsoleShell ----------------------------
(***************************************************************************)
(* One browser tab of the console: who is signed in, which page is on      *)
(* screen, and which calls of lib/console-api.ts can succeed.  The proxy   *)
(* app/api/backend decides by the session's role and plan; it exports no   *)
(* DELETE, and the backend has no route for the user administration, so    *)
(* those calls always fail.                                                *)
(***************************************************************************)
EXTENDS ConsoleAccess, TLC

CONSTANTS Sessions,   \* the [role, plan] pairs a tab may be signed in with
          MaxActs     \* bound on what the user does

ASSUME ShellAssumption ==
    /\ Sessions \subseteq [role : Role, plan : PlanCode] /\ Sessions # {}
    /\ MaxActs \in Nat

VARIABLES session, page, acts
shellVars == <<session, page, acts>>

(* What a call needs: the class of its path in the proxy. *)
Reading(names) == [n \in names |-> "read"]
Unserved == "none"

AgentCalls ==
    [n \in {"setAuthorizeRule", "updateAuthorizeRule", "freezeAuthorizeRule",
            "activateAuthorizeRule"} |-> "guarded"]
    @@ [registerAgent |-> "register", createAccount |-> "write"]

PaymentCalls == ("pay" :> "guarded")

FundCalls ==
    [recharge |-> "guarded", transferVA |-> "guarded", setVATopupConfig |-> "write"]
    @@ Reading({"queryTransaction", "queryBalance", "queryLedger", "queryInterest",
                "getVATopupConfig"})

DeveloperCalls ==
    [n \in {"createApiKey", "createWebhook", "replayWebhookDelivery", "setRiskConfig",
            "setChannelRoute"} |-> "guarded"]
    @@ [deleteChannelRoute |-> Unserved]

AdminCalls ==
    [n \in {"createAdminUser", "setAdminUserDisabled", "setAdminUserRole",
            "setAdminUserPlan", "resetAdminUserPassword"} |-> Unserved]

BillingCalls ==
    [createSubscription |-> "subscription_checkout",
     createPaymentLink |-> "payment_link_checkout",
     createBridgeKYCLink |-> "bridge", createBridgeVirtualAccount |-> "bridge"]
    @@ Reading({"syncBillingCheckout"})

Calls == AgentCalls @@ PaymentCalls @@ FundCalls @@ DeveloperCalls @@ AdminCalls @@ BillingCalls

\* The call can reach a backend that serves it; registerAgent is also subject
\* to the count of agents, which AgentsPage follows.
Reaches(call) ==
    /\ Calls[call] # Unserved
    /\ Forwards(TRUE, session.role, session.plan, Calls[call], FALSE, 0)

Act == acts < MaxActs /\ acts' = acts + 1

ShellInit ==
    /\ session \in Sessions
    /\ \E target \in Page : page = Landing(TRUE, session.role, target)
    /\ acts = 0

\* A link or a typed address: the guard decides where it leads.
OpenPage(p) ==
    /\ Act
    /\ \E target \in Page : p = Landing(TRUE, session.role, target)
    /\ page' = p
    /\ UNCHANGED session

=============================================================================
