---------------------------- MODULE ConsoleAccess ----------------------------
(***************************************************************************)
(* What a role and a plan allow in the console: lib/rbac.ts,               *)
(* lib/plan-capabilities.ts, the page guard proxy.ts and the checks the    *)
(* backend proxy app/api/backend/[...path]/route.ts makes before it        *)
(* forwards a call.  The module has no state: it is the vocabulary of the  *)
(* modules that do.  A path is abstracted to the class of paths the code   *)
(* tells apart.                                                            *)
(***************************************************************************)
EXTENDS Naturals

Role == {"admin", "operator", "readonly"}
PlanCode == {"free", "starter", "growth", "enterprise"}
Capability == {"subscription_checkout", "payment_link_topup", "bridge_onboarding"}

PlanCapabilities ==
    [p \in PlanCode |->
        IF p = "free" THEN {}
        ELSE IF p = "starter" THEN Capability \ {"payment_link_topup"}
        ELSE Capability]

SignupPlan == "free"
FreeTierMaxAgents == 1

\* An unknown or missing plan counts as starter, an unknown role as operator.
NormalizePlan(p) == IF p \in PlanCode THEN p ELSE "starter"
NormalizeRole(r) == IF r \in {"admin", "readonly"} THEN r ELSE "operator"

Mutant_CanRegisterAnotherAgent(plan, count) ==
    NormalizePlan(plan) = "free" => count <= FreeTierMaxAgents
CanRegisterAnotherAgent(plan, count) ==
    NormalizePlan(plan) = "free" => count < FreeTierMaxAgents

----------------------------------------------------------------------------
(* Pages *)

Page == {"dashboard", "integration", "billing", "agents", "authorize",
         "recharge", "transactions", "developer", "settings"}

CanAccessPath(role, page) ==
    \/ NormalizeRole(role) = "admin"
    \/ /\ NormalizeRole(role) = "operator"
       /\ page # "developer"
    \/ /\ NormalizeRole(role) = "readonly"
       /\ page \notin {"developer", "authorize"}

\* Where a browser that asks for a page ends up; without claims at the login.
Landing(hasClaims, role, page) ==
    IF page = "integration" THEN page
    ELSE IF ~hasClaims THEN "login"
    ELSE IF CanAccessPath(role, page) THEN page
    ELSE "dashboard"

----------------------------------------------------------------------------
(* Calls through the backend proxy *)

\* "guarded" stands for the writes a readonly session is refused, "write" for
\* the writes the proxy lets any session make.
CallClass == {"read", "write", "guarded", "register", "subscription_checkout",
              "payment_link_checkout", "bridge"}

CanUseFeature(role, plan, cap) ==
    /\ NormalizeRole(role) = "admin"
    /\ cap \in PlanCapabilities[NormalizePlan(plan)]

\* The proxy's verdict on a call; count is the number of agents it was told,
\* or Unknown when the count could not be read.
Forwards(hasClaims, role, plan, class, countKnown, count) ==
    /\ class = "register" =>
          (countKnown => CanRegisterAnotherAgent(IF hasClaims THEN plan ELSE "none", count))
    /\ class = "guarded" => ~(hasClaims /\ role = "readonly")
    /\ class = "subscription_checkout" =>
          hasClaims /\ role = "admin" /\ CanUseFeature(role, plan, "subscription_checkout")
    /\ class = "payment_link_checkout" =>
          hasClaims /\ role = "admin" /\ CanUseFeature(role, plan, "payment_link_topup")
    /\ class = "bridge" =>
          hasClaims /\ role = "admin" /\ CanUseFeature(role, plan, "bridge_onboarding")

=============================================================================
