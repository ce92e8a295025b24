---------------------------- MODULE AuthorizePage ----------------------------
(***************************************************************************)
(* The authorize page: a form that sets or updates an agent's rule and two *)
(* buttons that freeze and activate it, each disabled only while its own   *)
(* call is pending, and the line that tells the last answer.  One agent's  *)
(* rule is followed: its limits are the number of the click that sent      *)
(* them.                                                                   *)
(***************************************************************************)
EXTENDS ConsoleShell

VARIABLES rule,       \* the backend's row of pay_authorize_rule, or NoRule
          ruleCalls,  \* the calls under way
          told,       \* what the page last said: an operation done, or Nothing
          ruleCalm    \* no call was ever started while another was under way

ruleVars == <<rule, ruleCalls, told, ruleCalm>>

RuleOperation == {"setAuthorizeRule", "updateAuthorizeRule", "freezeAuthorizeRule",
                  "activateAuthorizeRule"}
NoRule == [limits |-> 0, status |-> "none"]
Nothing == [op |-> "none", n |-> 0]

RuleClick(op) ==
    /\ Act /\ page = "authorize"
    /\ \A c \in ruleCalls : ~(c.op = op /\ c.here)
    /\ ruleCalls' = ruleCalls \cup {[op |-> op, n |-> acts + 1, pc |-> "asked", here |-> TRUE]}
    /\ told' = IF op = "setAuthorizeRule" THEN Nothing ELSE told
    /\ ruleCalm' = (ruleCalm /\ ruleCalls = {})
    /\ UNCHANGED <<session, page, rule>>

\* The form refuses its input and says so.
RuleRefuse ==
    /\ Act /\ page = "authorize"
    /\ told' = Nothing
    /\ UNCHANGED <<session, page, rule, ruleCalls, ruleCalm>>

\* Setting a rule that exists leaves it frozen if it is.
Mutant_RuleAfter(op, n) ==
    IF op \in {"setAuthorizeRule", "updateAuthorizeRule"}
    THEN [limits |-> IF rule.status = "FROZEN" THEN rule.limits ELSE n,
          status |-> IF rule = NoRule THEN "ACTIVE" ELSE rule.status]
    ELSE [rule EXCEPT !.status = IF op = "freezeAuthorizeRule" THEN "FROZEN" ELSE "ACTIVE"]
RuleAfter(op, n) ==
    IF op \in {"setAuthorizeRule", "updateAuthorizeRule"}
    THEN [limits |-> n, status |-> IF rule = NoRule THEN "ACTIVE" ELSE rule.status]
    ELSE [rule EXCEPT !.status = IF op = "freezeAuthorizeRule" THEN "FROZEN" ELSE "ACTIVE"]

RuleServe(c) ==
    /\ c.pc = "asked" /\ Reaches(c.op)
    /\ rule = NoRule => c.op = "setAuthorizeRule"
    /\ rule' = RuleAfter(c.op, c.n)
    /\ ruleCalls' = (ruleCalls \ {c}) \cup {[c EXCEPT !.pc = "done"]}
    /\ UNCHANGED <<shellVars, told, ruleCalm>>

RuleAnswer(c) ==
    /\ c.pc = "done"
    /\ ruleCalls' = ruleCalls \ {c}
    /\ told' = IF c.here THEN [op |-> c.op, n |-> c.n] ELSE told
    /\ UNCHANGED <<shellVars, rule, ruleCalm>>

\* Refused, failed, or its answer lost.
RuleFail(c) ==
    /\ ruleCalls' = ruleCalls \ {c}
    /\ told' = IF c.here THEN Nothing ELSE told
    /\ UNCHANGED <<shellVars, rule, ruleCalm>>

AuthorizeOpen ==
    /\ ruleCalls' = {[c EXCEPT !.here = FALSE] : c \in ruleCalls}
    /\ told' = Nothing
    /\ UNCHANGED <<rule, ruleCalm>>

AuthorizeInit ==
    /\ rule = NoRule /\ ruleCalls = {} /\ told = Nothing /\ ruleCalm = TRUE

AuthorizeStep ==
    \/ \E op \in RuleOperation : RuleClick(op)
    \/ RuleRefuse
    \/ \E c \in ruleCalls : RuleServe(c) \/ RuleAnswer(c) \/ RuleFail(c)

----------------------------------------------------------------------------
(* Properties *)

AuthorizeTypeOK ==
    /\ rule \in [limits : 0..MaxActs, status : {"none", "ACTIVE", "FROZEN"}]
    /\ ruleCalls \subseteq [op : RuleOperation, n : 1..MaxActs, pc : {"asked", "done"},
                            here : BOOLEAN]
    /\ told \in [op : RuleOperation \cup {"none"}, n : 0..MaxActs]
    /\ ruleCalm \in BOOLEAN

\* While nothing is under way, what the page last said is so: a rule it calls
\* frozen is frozen, one it calls active is active, and limits it calls saved
\* are the rule's, as long as calls never overlap.
ToldRuleHolds ==
    ruleCalm /\ ruleCalls = {} =>
        /\ told.op = "freezeAuthorizeRule" => rule.status = "FROZEN"
        /\ told.op = "activateAuthorizeRule" => rule.status = "ACTIVE"
        /\ told.op \in {"setAuthorizeRule", "updateAuthorizeRule"} => rule.limits = told.n

=============================================================================
