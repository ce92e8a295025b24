---------------------------- MODULE Console_proofs ----------------------------
(***************************************************************************)
(* What the pages promise, for every set of sessions, agents, filters and  *)
(* amounts and any number of clicks.  A list at rest shows what its reader *)
(* was told.  As long as the calls of a page do not overlap, the rule is   *)
(* what the page last said of it, a signing key is the one the backend     *)
(* checks against, a free plan keeps its limit, and a payment is on screen *)
(* once; a row is a payment as long as its amount is not edited meanwhile. *)
(***************************************************************************)
EXTENDS Console, FiniteSetTheorems, TLAPS

RuleRec == [limits : 0..MaxActs, status : {"none", "ACTIVE", "FROZEN"}]
RuleCallRec == [op : RuleOperation, n : 1..MaxActs, pc : {"asked", "done"}, here : BOOLEAN]

\* The rule is as an operation that was carried out would have left it.
Shows(op, n) ==
    /\ op = "freezeAuthorizeRule" => rule.status = "FROZEN"
    /\ op = "activateAuthorizeRule" => rule.status = "ACTIVE"
    /\ op \in {"setAuthorizeRule", "updateAuthorizeRule"} => rule.limits = n

\* As long as calls never overlap: what the page said holds until a call is
\* served, what that call will have the page say holds after it, and a page that
\* was left and opened again says nothing while a call of before is under way.
RuleInv ==
    /\ AuthorizeTypeOK
    /\ ruleCalm =>
          /\ \A c, d \in ruleCalls : c = d
          /\ (\A c \in ruleCalls : c.pc = "asked") => Shows(told.op, told.n)
          /\ \A c \in ruleCalls : c.pc = "done" => Shows(c.op, c.n)
          /\ \A c \in ruleCalls : ~ c.here => told = Nothing

ShellOK == acts \in 0..MaxActs /\ session \in Sessions

----------------------------------------------------------------------------
(* The rule *)

\* The numbers of clicks are natural numbers within their bound.
LEMMA ShellFacts ==
    ASSUME ShellOK
    PROVE  acts \in Nat /\ acts >= 0 /\ acts <= MaxActs /\ MaxActs \in Nat
  BY ShellAssumption DEF ShellOK

\* An operation leaves the rule as its message will tell it.
LEMMA RuleAfterShows ==
    ASSUME NEW op \in RuleOperation, NEW n \in 1..MaxActs, rule \in RuleRec,
           rule = NoRule => op = "setAuthorizeRule"
    PROVE  /\ RuleAfter(op, n) \in RuleRec
           /\ op = "freezeAuthorizeRule" => RuleAfter(op, n).status = "FROZEN"
           /\ op = "activateAuthorizeRule" => RuleAfter(op, n).status = "ACTIVE"
           /\ op \in {"setAuthorizeRule", "updateAuthorizeRule"} => RuleAfter(op, n).limits = n
  BY ShellAssumption DEF RuleAfter, RuleRec, RuleOperation, NoRule

\* Each step of the page, and leaving it, keeps the invariant.
LEMMA RuleStepKeeps ==
    ASSUME RuleInv, ShellOK, AuthorizeStep
    PROVE  RuleInv'
<1> USE DEF RuleRec, RuleCallRec
<1>1. /\ rule \in RuleRec /\ ruleCalls \subseteq RuleCallRec /\ ruleCalm \in BOOLEAN
      /\ told \in [op : RuleOperation \cup {"none"}, n : 0..MaxActs]
  BY DEF RuleInv, AuthorizeTypeOK
<1>2. Nothing \in [op : RuleOperation \cup {"none"}, n : 0..MaxActs] /\ Shows(Nothing.op, Nothing.n)
  BY ShellAssumption DEF Nothing, Shows, RuleOperation
<1>3. ASSUME NEW op \in RuleOperation, RuleClick(op)
      PROVE  RuleInv'
  <2> DEFINE call == [op |-> op, n |-> acts + 1, pc |-> "asked", here |-> TRUE]
  <2>1. call \in RuleCallRec
    BY <1>3, ShellFacts DEF RuleClick, Act
  <2>2. /\ ruleCalls' = ruleCalls \cup {call} /\ UNCHANGED rule
        /\ told' \in {told, Nothing} /\ ruleCalm' = (ruleCalm /\ ruleCalls = {})
    BY <1>3 DEF RuleClick
  <2>3. AuthorizeTypeOK'
    BY <1>1, <1>2, <2>1, <2>2 DEF AuthorizeTypeOK
  <2>4. ruleCalm' => ruleCalm /\ ruleCalls' = {call}
    BY <2>2
  <2>5. ruleCalm' => Shows(told.op, told.n)'
    BY <1>2, <2>2 DEF RuleInv, Shows
  <2>6. call.pc = "asked" /\ call.here
    OBVIOUS
  <2> HIDE DEF call
  <2>7. ruleCalm' => /\ \A c, d \in ruleCalls' : c = d
                     /\ \A c \in ruleCalls' : c.pc = "asked" /\ c.here
    BY <2>4, <2>6
  <2> QED
    BY <2>3, <2>5, <2>7 DEF RuleInv
<1>4. CASE RuleRefuse
  BY <1>1, <1>2, <1>4 DEF RuleRefuse, RuleInv, AuthorizeTypeOK, Shows
<1>5. ASSUME NEW c \in ruleCalls, RuleServe(c)
      PROVE  RuleInv'
  <2> DEFINE d == [c EXCEPT !.pc = "done"]
  <2>1. /\ c \in RuleCallRec /\ d \in RuleCallRec /\ d.op = c.op /\ d.n = c.n
        /\ d.here = c.here /\ d.pc = "done" /\ c.op \in RuleOperation /\ c.n \in 1..MaxActs
    BY <1>1
  <2>2. /\ rule' = RuleAfter(c.op, c.n) /\ ruleCalls' = (ruleCalls \ {c}) \cup {d}
        /\ rule = NoRule => c.op = "setAuthorizeRule"
        /\ UNCHANGED <<told, ruleCalm>>
    BY <1>5 DEF RuleServe
  <2>3. rule' \in RuleRec /\ Shows(d.op, d.n)'
    BY <1>1, <2>1, <2>2, RuleAfterShows DEF Shows
  <2>4. AuthorizeTypeOK'
    BY <1>1, <2>1, <2>2, <2>3 DEF AuthorizeTypeOK
  <2>5. ruleCalm' => ruleCalls' = {d}
    BY <2>2 DEF RuleInv
  <2> QED
    BY <2>1, <2>2, <2>3, <2>4, <2>5 DEF RuleInv
<1>6. ASSUME NEW c \in ruleCalls, RuleAnswer(c)
      PROVE  RuleInv'
  <2>1. c \in RuleCallRec /\ c.pc = "done"
    BY <1>1, <1>6 DEF RuleAnswer
  <2>2. /\ ruleCalls' = ruleCalls \ {c} /\ UNCHANGED <<rule, ruleCalm>>
        /\ told' = IF c.here THEN [op |-> c.op, n |-> c.n] ELSE told
    BY <1>6 DEF RuleAnswer
  <2>3. AuthorizeTypeOK'
    BY <1>1, <2>1, <2>2 DEF AuthorizeTypeOK
  <2>4. ruleCalm' => ruleCalls' = {}
    BY <2>2 DEF RuleInv
  <2>5. ruleCalm' => Shows(told.op, told.n)'
    <3>1. CASE c.here
      BY <2>1, <2>2, <3>1 DEF RuleInv, Shows
    <3>2. CASE ~ c.here
      BY <1>2, <2>2, <3>2 DEF RuleInv, Shows
    <3> QED
      BY <3>1, <3>2
  <2> QED
    BY <2>3, <2>4, <2>5 DEF RuleInv
<1>7. ASSUME NEW c \in ruleCalls, RuleFail(c)
      PROVE  RuleInv'
  <2>1. /\ ruleCalls' = ruleCalls \ {c} /\ UNCHANGED <<rule, ruleCalm>>
        /\ told' = IF c.here THEN Nothing ELSE told
    BY <1>7 DEF RuleFail
  <2>2. AuthorizeTypeOK'
    BY <1>1, <1>2, <2>1 DEF AuthorizeTypeOK
  <2>3. ruleCalm' => ruleCalls' = {} /\ told' = Nothing
    BY <2>1 DEF RuleInv
  <2>4. Shows(Nothing.op, Nothing.n)'
    BY <1>2, <2>1 DEF Shows
  <2> QED
    BY <2>2, <2>3, <2>4 DEF RuleInv
<1> QED
  BY <1>3, <1>4, <1>5, <1>6, <1>7 DEF AuthorizeStep

\* A page that is opened again says nothing, whatever calls it left behind.
LEMMA RuleOpenKeeps ==
    ASSUME RuleInv, AuthorizeOpen
    PROVE  RuleInv'
<1>1. /\ rule \in RuleRec /\ ruleCalls \subseteq RuleCallRec /\ ruleCalm \in BOOLEAN
  BY DEF RuleInv, AuthorizeTypeOK, RuleRec, RuleCallRec
<1>2. /\ ruleCalls' = {[c EXCEPT !.here = FALSE] : c \in ruleCalls}
      /\ told' = Nothing /\ UNCHANGED <<rule, ruleCalm>>
  BY DEF AuthorizeOpen
<1>3. \A c \in ruleCalls : LET d == [c EXCEPT !.here = FALSE]
                           IN  d \in RuleCallRec /\ d.pc = c.pc /\ d.op = c.op /\ d.n = c.n
  BY <1>1 DEF RuleCallRec
<1>4. AuthorizeTypeOK'
  BY <1>1, <1>2, <1>3, ShellAssumption DEF AuthorizeTypeOK, RuleRec, RuleCallRec, Nothing
<1>5. Shows(Nothing.op, Nothing.n)'
  BY DEF Shows, Nothing
<1>6. ruleCalm' => \A c, d \in ruleCalls' : c = d
  BY <1>2 DEF RuleInv
<1>7. ASSUME ruleCalm', NEW d \in ruleCalls', d.pc = "done"
      PROVE  Shows(d.op, d.n)'
  <2>1. PICK c \in ruleCalls : d = [c EXCEPT !.here = FALSE]
    BY <1>2, <1>7
  <2>2. c.pc = "done" /\ d.op = c.op /\ d.n = c.n
    BY <1>3, <1>7, <2>1
  <2>3. Shows(c.op, c.n)
    BY <1>2, <1>7, <2>2 DEF RuleInv
  <2> QED
    BY <1>2, <2>2, <2>3 DEF Shows
<1> QED
  BY <1>2, <1>4, <1>5, <1>6, <1>7 DEF RuleInv

----------------------------------------------------------------------------
(* Keys and accounts *)

\* What a creation under way has brought about so far.
Progress(c) ==
    /\ c.pc = "keygen" => keyMap[c.did] = NoKey /\ c.map = keyMap
    /\ c.pc # "keygen" => c.key # NoKey /\ keyMap[c.did] = c.key
    /\ c.pc \in {"account", "created"} => pubKeys[c.did] = c.key
    /\ c.pc \in {"counted", "account"} /\ session.plan = "free" =>
          Cardinality(accounts) < FreeTierMaxAgents

\* As long as creations never overlap and nothing failed unnoticed, whatever the
\* backend knows a key for has that key in the browser, and so has every account.
AgentsInv ==
    /\ AgentsTypeOK /\ IsFiniteSet(accounts)
    /\ agCalm => \A c, d \in creations : c = d
    /\ agCalm /\ smooth =>
          /\ \A d \in Dids : pubKeys[d] # NoKey => pubKeys[d] = keyMap[d]
          /\ \A a \in accounts : pubKeys[a] # NoKey
          /\ \A c \in creations : Progress(c)
          /\ session.plan = "free" => Cardinality(accounts) <= FreeTierMaxAgents

\* A creation that is under way has its type, and in calm times is alone.
LEMMA AgentsFacts ==
    ASSUME AgentsInv, NEW c \in creations
    PROVE  /\ c \in Creation /\ c.did \in Dids /\ c.n \in 1..MaxActs /\ c.key \in 0..MaxActs
           /\ c.map \in [Dids -> 0..MaxActs]
           /\ keyMap \in [Dids -> 0..MaxActs] /\ pubKeys \in [Dids -> 0..MaxActs]
           /\ agCalm => creations = {c}
  BY DEF AgentsInv, AgentsTypeOK, Creation

\* One creation takes another step; with it, what the browser and the backend
\* hold changes as the invariant wants it.
LEMMA CreationBecomes ==
    ASSUME AgentsInv, NEW c \in creations, NEW d \in Creation, Becomes(c, d),
           (agCalm /\ smooth)' => agCalm /\ smooth, agCalm' = agCalm, smooth' \in BOOLEAN,
           keyMap' \in [Dids -> 0..MaxActs], pubKeys' \in [Dids -> 0..MaxActs],
           accounts' \subseteq Dids, IsFiniteSet(accounts'),
           (agCalm /\ smooth)' =>
              /\ \A e \in Dids : pubKeys'[e] # NoKey => pubKeys'[e] = keyMap'[e]
              /\ \A a \in accounts' : pubKeys'[a] # NoKey
              /\ Progress(d)'
              /\ session'.plan = "free" => Cardinality(accounts') <= FreeTierMaxAgents
    PROVE  AgentsInv'
<1>1. creations' = (creations \ {c}) \cup {d} /\ creations' \subseteq Creation
  BY DEF Becomes, AgentsInv, AgentsTypeOK
<1>2. agCalm' => creations' = {d}
  BY <1>1 DEF AgentsInv
<1>3. AgentsTypeOK'
  BY <1>1 DEF AgentsInv, AgentsTypeOK
<1> QED
  BY <1>2, <1>3 DEF AgentsInv

\* A new creation brings the stored key of its DID, or will make one.
LEMMA CreateAgentKeeps ==
    ASSUME AgentsInv, ShellOK, NEW did \in Dids, NEW tab \in {"this", "other"},
           CreateAgent(did, tab)
    PROVE  AgentsInv'
<1>1. PICK c : c = LoadKeyMap(did, tab)
  OBVIOUS
<1>2. /\ keyMap \in [Dids -> 0..MaxActs] /\ creations \subseteq Creation /\ agCalm \in BOOLEAN
  BY DEF AgentsInv, AgentsTypeOK
<1>3. NoKeys \in [Dids -> 0..MaxActs] /\ NoKey \in 0..MaxActs
  BY ShellAssumption DEF NoKeys, NoKey
<1>4. acts + 1 \in 1..MaxActs
  BY ShellFacts DEF CreateAgent, Act
<1>5. c \in Creation
  BY <1>1, <1>2, <1>3, <1>4 DEF LoadKeyMap, Creation
<1>6. /\ creations' = creations \cup {c} /\ agCalm' = (agCalm /\ creations = {})
      /\ UNCHANGED <<session, keyMap, pubKeys, accounts, smooth>>
  BY <1>1 DEF CreateAgent
<1>7. Progress(c)'
  BY <1>1, <1>2, <1>6 DEF LoadKeyMap, Progress
<1>8. agCalm' => agCalm /\ creations' = {c}
  BY <1>6
<1>9. AgentsTypeOK'
  BY <1>2, <1>5, <1>6 DEF AgentsInv, AgentsTypeOK
<1>10. IsFiniteSet(accounts')
  BY <1>6 DEF AgentsInv
<1>11. (agCalm /\ smooth)' =>
          /\ \A d \in Dids : pubKeys'[d] # NoKey => pubKeys'[d] = keyMap'[d]
          /\ \A a \in accounts' : pubKeys'[a] # NoKey
          /\ session'.plan = "free" => Cardinality(accounts') <= FreeTierMaxAgents
  BY <1>6 DEF AgentsInv
<1> QED
  BY <1>7, <1>8, <1>9, <1>10, <1>11 DEF AgentsInv

\* A key is stored before it is registered.
LEMMA SigningKeyKeeps ==
    ASSUME AgentsInv, NEW c \in creations, EnsureSigningKey(c)
    PROVE  AgentsInv'
<1> DEFINE d == [c EXCEPT !.key = c.n, !.pc = "register", !.map = NoKeys]
<1>1. NoKeys \in [Dids -> 0..MaxActs] /\ MaxActs \in Nat
  BY ShellAssumption DEF NoKeys, NoKey
<1>2. d \in Creation /\ d.pc = "register" /\ d.key = c.n /\ d.did = c.did
  <2>1. c \in Creation /\ c.n \in 0..MaxActs
    BY <1>1, AgentsFacts
  <2> QED
    BY <1>1, <2>1 DEF Creation
<1>3. /\ c.pc = "keygen" /\ keyMap' = [c.map EXCEPT ![c.did] = c.n] /\ Becomes(c, d)
      /\ UNCHANGED <<session, pubKeys, accounts, agCalm, smooth>>
  BY DEF EnsureSigningKey, SavedMap, shellVars
<1>4. keyMap' \in [Dids -> 0..MaxActs]
  BY <1>1, <1>3, AgentsFacts
<1>5. ASSUME agCalm, smooth
      PROVE  /\ keyMap[c.did] = NoKey /\ c.map = keyMap
             /\ \A e \in Dids : pubKeys[e] # NoKey => pubKeys[e] = keyMap[e]
             /\ \A a \in accounts : pubKeys[a] # NoKey
             /\ session.plan = "free" => Cardinality(accounts) <= FreeTierMaxAgents
  BY <1>3, <1>5 DEF AgentsInv, Progress
<1>6. ASSUME agCalm, smooth, NEW e \in Dids, pubKeys[e] # NoKey
      PROVE  pubKeys[e] = keyMap'[e]
  <2>1. e # c.did
    BY <1>5, <1>6
  <2> QED
    BY <1>3, <1>5, <1>6, <2>1, AgentsFacts
<1>7. agCalm /\ smooth => Progress(d)'
  BY <1>1, <1>2, <1>3, <1>5, AgentsFacts DEF Progress, NoKey
<1> HIDE DEF d
<1>8. /\ pubKeys' \in [Dids -> 0..MaxActs] /\ IsFiniteSet(accounts') /\ smooth' \in BOOLEAN
      /\ accounts' \subseteq Dids
  BY <1>3 DEF AgentsInv, AgentsTypeOK
<1> QED
  BY <1>2, <1>3, <1>4, <1>5, <1>6, <1>7, <1>8, CreationBecomes

\* The count that lets a free plan register is one of no accounts.
LEMMA AgentCountKeeps ==
    ASSUME AgentsInv, NEW c \in creations, NEW known \in BOOLEAN, FetchAgentCount(c, known)
    PROVE  AgentsInv'
<1> DEFINE d == [c EXCEPT !.pc = "counted"]
<1>1. d \in Creation /\ d.pc = "counted" /\ d.key = c.key /\ d.did = c.did
  BY AgentsFacts DEF Creation
<1>2. /\ c.pc = "register" /\ Becomes(c, d) /\ smooth' = (smooth /\ known)
      /\ UNCHANGED <<session, keyMap, pubKeys, accounts, agCalm>>
      /\ Forwards(TRUE, session.role, session.plan, "register", known, Cardinality(accounts))
  BY DEF FetchAgentCount, shellVars
<1>3. known /\ session.plan = "free" => Cardinality(accounts) < FreeTierMaxAgents
  BY <1>2 DEF Forwards, CanRegisterAnotherAgent, NormalizePlan, PlanCode
<1>4. ASSUME agCalm', smooth'
      PROVE  /\ agCalm /\ smooth /\ Progress(c)
             /\ \A e \in Dids : pubKeys[e] # NoKey => pubKeys[e] = keyMap[e]
             /\ \A a \in accounts : pubKeys[a] # NoKey
             /\ session.plan = "free" => Cardinality(accounts) <= FreeTierMaxAgents
  BY <1>2, <1>4 DEF AgentsInv
<1>5. (agCalm /\ smooth)' => Progress(d)'
  BY <1>1, <1>2, <1>3, <1>4 DEF Progress
<1> HIDE DEF d
<1>6. /\ keyMap' \in [Dids -> 0..MaxActs] /\ pubKeys' \in [Dids -> 0..MaxActs]
      /\ IsFiniteSet(accounts') /\ accounts' \subseteq Dids
      /\ smooth' \in BOOLEAN
  BY <1>2 DEF AgentsInv, AgentsTypeOK
<1> QED
  BY <1>1, <1>2, <1>4, <1>5, <1>6, CreationBecomes

\* The key that is registered is the one that is stored.
LEMMA RegisterKeeps ==
    ASSUME AgentsInv, NEW c \in creations, NEW inserts \in BOOLEAN, RegisterAgent(c, inserts)
    PROVE  AgentsInv'
<1> DEFINE d == [c EXCEPT !.pc = "account"]
           stored == inserts \/ pubKeys[c.did] # NoKey
<1>1. d \in Creation /\ d.pc = "account" /\ d.key = c.key /\ d.did = c.did
  BY AgentsFacts DEF Creation
<1>2. /\ c.pc = "counted" /\ Becomes(c, d) /\ smooth' = (smooth /\ stored)
      /\ pubKeys' = IF stored THEN [pubKeys EXCEPT ![c.did] = c.key] ELSE pubKeys
      /\ UNCHANGED <<session, keyMap, accounts, agCalm>>
  BY DEF RegisterAgent, shellVars
<1>3. ASSUME agCalm', smooth'
      PROVE  /\ agCalm /\ smooth /\ Progress(c)
             /\ pubKeys' = [pubKeys EXCEPT ![c.did] = c.key]
             /\ \A e \in Dids : pubKeys[e] # NoKey => pubKeys[e] = keyMap[e]
             /\ \A a \in accounts : a \in Dids /\ pubKeys[a] # NoKey
             /\ session.plan = "free" => Cardinality(accounts) <= FreeTierMaxAgents
  BY <1>2, <1>3 DEF AgentsInv, AgentsTypeOK
<1>4. pubKeys' \in [Dids -> 0..MaxActs]
  BY <1>2, AgentsFacts
<1>5. (agCalm /\ smooth)' =>
         /\ \A e \in Dids : pubKeys'[e] # NoKey => pubKeys'[e] = keyMap'[e]
         /\ \A a \in accounts' : pubKeys'[a] # NoKey
         /\ Progress(d)'
  BY <1>1, <1>2, <1>3, AgentsFacts DEF Progress
<1> HIDE DEF d, stored
<1>6. /\ keyMap' \in [Dids -> 0..MaxActs] /\ smooth' \in BOOLEAN
      /\ IsFiniteSet(accounts') /\ accounts' \subseteq Dids
  BY <1>2 DEF AgentsInv, AgentsTypeOK
<1> QED
  BY <1>1, <1>2, <1>3, <1>4, <1>5, <1>6, CreationBecomes

\* The account that is opened is the one the count left room for.
LEMMA AccountKeeps ==
    ASSUME AgentsInv, NEW c \in creations, NEW inserts \in BOOLEAN, CreateAccount(c, inserts)
    PROVE  AgentsInv'
<1> DEFINE d == [c EXCEPT !.pc = "created"]
           account == c.did
<1>1. d \in Creation /\ d.pc = "created" /\ d.key = c.key /\ d.did = c.did
  BY AgentsFacts DEF Creation
<1>2. /\ c.pc = "account" /\ Becomes(c, d)
      /\ accounts' \in {accounts, accounts \cup {account}}
      /\ UNCHANGED <<session, keyMap, pubKeys, agCalm, smooth>>
  BY DEF CreateAccount, shellVars
<1>3. /\ IsFiniteSet(accounts) /\ accounts \subseteq Dids
      /\ smooth \in BOOLEAN
  BY DEF AgentsInv, AgentsTypeOK
<1>4. account \in Dids /\ account = c.did
  BY AgentsFacts
<1>5. /\ IsFiniteSet(accounts') /\ accounts' \subseteq Dids
      /\ Cardinality(accounts) \in Nat
      /\ Cardinality(accounts') <= Cardinality(accounts) + 1
  <2>1. /\ IsFiniteSet(accounts \cup {account}) /\ Cardinality(accounts) \in Nat
        /\ Cardinality(accounts \cup {account}) =
              IF account \in accounts THEN Cardinality(accounts) ELSE Cardinality(accounts) + 1
    BY <1>3, FS_AddElement, FS_CardinalityType
  <2>2. accounts \cup {account} \subseteq Dids
    BY <1>3, <1>4
  <2> HIDE DEF account
  <2>3. CASE accounts' = accounts
    BY <1>3, <2>1, <2>3
  <2>4. CASE accounts' = accounts \cup {account}
    BY <2>1, <2>2, <2>4
  <2> QED
    BY <1>2, <2>3, <2>4
<1>6. ASSUME agCalm, smooth
      PROVE  /\ Progress(c)
             /\ \A e \in Dids : pubKeys[e] # NoKey => pubKeys[e] = keyMap[e]
             /\ \A a \in accounts : pubKeys[a] # NoKey
  BY <1>6 DEF AgentsInv
<1>7. agCalm /\ smooth => pubKeys[c.did] # NoKey /\ Progress(d)'
  BY <1>1, <1>2, <1>6 DEF Progress
<1>8. agCalm /\ smooth => \A a \in accounts' : pubKeys'[a] # NoKey
  BY <1>2, <1>4, <1>6, <1>7
<1>9. agCalm /\ smooth /\ session.plan = "free" => Cardinality(accounts') <= FreeTierMaxAgents
  BY <1>2, <1>5, <1>6 DEF Progress, FreeTierMaxAgents
<1>10. keyMap' \in [Dids -> 0..MaxActs] /\ pubKeys' \in [Dids -> 0..MaxActs]
  BY <1>2, AgentsFacts
<1> HIDE DEF d, account
<1> QED
  BY <1>1, <1>2, <1>3, <1>5, <1>6, <1>7, <1>8, <1>9, <1>10, CreationBecomes

\* No step of a creation breaks what the agents page relies on.
LEMMA AgentsStepKeeps ==
    ASSUME AgentsInv, ShellOK, AgentsStep
    PROVE  AgentsInv'
<1>1. ASSUME NEW c \in creations, EndCreation(c)
      PROVE  AgentsInv'
  BY <1>1 DEF EndCreation, shellVars, AgentsInv, AgentsTypeOK, Progress
<1> QED
  BY <1>1, CreateAgentKeeps, SigningKeyKeeps, AgentCountKeeps, RegisterKeeps, AccountKeeps
     DEF AgentsStep

\* A creation goes on as it was when its page is left.
LEMMA AgentsOpenKeeps ==
    ASSUME AgentsInv, AgentsOpen, UNCHANGED session
    PROVE  AgentsInv'
<1> DEFINE Left(c) == IF c.tab = "this" THEN [c EXCEPT !.here = FALSE] ELSE c
<1>1. /\ creations' = {Left(c) : c \in creations}
      /\ UNCHANGED <<keyMap, pubKeys, accounts, agCalm, smooth>>
  BY DEF AgentsOpen
<1>2. \A c \in creations : /\ Left(c) \in Creation /\ Left(c).pc = c.pc /\ Left(c).did = c.did
                           /\ Left(c).key = c.key /\ Left(c).map = c.map
  BY DEF AgentsInv, AgentsTypeOK, Creation
<1> HIDE DEF Left
<1>3. AgentsTypeOK'
  BY <1>1, <1>2 DEF AgentsInv, AgentsTypeOK
<1>4. IsFiniteSet(accounts') /\ (agCalm' => \A c, d \in creations' : c = d)
  BY <1>1 DEF AgentsInv
<1>5. ASSUME agCalm', smooth', NEW d \in creations'
      PROVE  Progress(d)'
  <2>1. PICK c \in creations : d = Left(c)
    BY <1>1
  <2>2. Progress(c)
    BY <1>1, <1>5 DEF AgentsInv
  <2> QED
    BY <1>1, <1>2, <2>1, <2>2 DEF Progress
<1> QED
  BY <1>1, <1>3, <1>4, <1>5 DEF AgentsInv

----------------------------------------------------------------------------
(* Rows and payments *)

TxCallRec == [op : Operation, n : 1..MaxActs, sent : Amounts, shows : Amounts \cup {Live},
              pc : {"asked", "done"}, got : SUBSET Order, here : BOOLEAN]

OrderOf(c) == [id |-> c.n, amount |-> c.sent]
Shown(c) == IF c.shows = Live THEN amount ELSE c.shows

\* A call has a number of its own; what it has brought is in the backend, and
\* the row it will add has the amount it sent and is not on screen yet.
CallFits(c) ==
    /\ c.n <= acts /\ c.got \subseteq orders
    /\ c.pc = "asked" => \A o \in orders : o.id # c.n
    /\ c.pc = "done" /\ c.op = "pay" => OrderOf(c) \in orders
    /\ kept /\ c.op = "pay" /\ c.here => Shown(c) = c.sent
    /\ txCalm /\ c.op = "pay" => \A i \in DOMAIN rows : rows[i].id # c.n

Distinct(s) == \A i, j \in DOMAIN s : s[i].id = s[j].id => i = j

TxInv ==
    /\ amount \in Amounts /\ recover \in Operation \cup {"none"}
    /\ txCalls \subseteq TxCallRec
    /\ rows \in Seq(Order) /\ \A i \in DOMAIN rows : rows[i].id <= acts
    /\ orders \subseteq Order /\ IsFiniteSet(orders)
    /\ \A o \in orders : o.id <= acts
    /\ \A o, p \in orders : o.id = p.id => o = p
    /\ \A c, d \in txCalls : c.n = d.n => c = d
    /\ \A c \in txCalls : CallFits(c)
    /\ txCalm \in BOOLEAN /\ kept \in BOOLEAN
    /\ txCalm => (\A c, d \in txCalls : c = d) /\ Distinct(rows)
    /\ kept => \A i \in DOMAIN rows : rows[i] \in orders

\* A row that is added is the first, and the others follow it.
LEMMA RowAdded ==
    ASSUME NEW S, NEW s \in Seq(S), NEW r \in S
    PROVE  /\ <<r>> \o s \in Seq(S)
           /\ \A i \in DOMAIN (<<r>> \o s) :
                 \/ i = 1 /\ (<<r>> \o s)[i] = r
                 \/ i - 1 \in DOMAIN s /\ (<<r>> \o s)[i] = s[i - 1]
  OBVIOUS

\* The rows of a ledger are its orders, each once.
LEMMA LedgerRows ==
    ASSUME NEW S, IsFiniteSet(S)
    PROVE  /\ SetToSeq(S) \in Seq(S)
           /\ \A i \in DOMAIN SetToSeq(S) : SetToSeq(S)[i] \in S
           /\ \A i, j \in DOMAIN SetToSeq(S) : SetToSeq(S)[i] = SetToSeq(S)[j] => i = j
<1> DEFINE n == Cardinality(S)
<1>1. n \in Nat /\ ExistsBijection(1..n, S)
  BY FS_CardinalityType
<1>2. \E f \in [1..n -> S] : IsInjective(f)
  BY <1>1 DEF ExistsBijection, Bijection, Injection
<1>3. SetToSeq(S) \in [1..n -> S] /\ IsInjective(SetToSeq(S))
  BY <1>2 DEF SetToSeq
<1> HIDE DEF n
<1>4. SetToSeq(S) \in Seq(S)
  BY <1>1, <1>3
<1> QED
  BY <1>3, <1>4 DEF IsInjective

\* Calls, orders and rows have numbers, and numbers of clicks that were made.
LEMMA TxFacts ==
    ASSUME TxInv
    PROVE  /\ \A c \in txCalls : c \in TxCallRec /\ c.n \in Nat /\ c.n <= acts /\ CallFits(c)
           /\ \A o \in orders : o \in Order /\ o.id \in Nat /\ o.id <= acts
           /\ \A i \in DOMAIN rows : rows[i] \in Order /\ rows[i].id \in Nat /\ rows[i].id <= acts
<1>1. \A o \in Order : o.id \in Nat
  BY ShellAssumption DEF Order
<1>2. \A c \in TxCallRec : c.n \in Nat
  BY ShellAssumption DEF TxCallRec
<1>3. \A i \in DOMAIN rows : rows[i] \in Order
  BY DEF TxInv
<1> QED
  BY <1>1, <1>2, <1>3 DEF TxInv, CallFits

\* With a later click, what was numbered before still is.
LEMMA LaterClick ==
    ASSUME TxInv, ShellOK, Act
    PROVE  /\ acts \in Nat /\ acts' = acts + 1 /\ acts' \in 1..MaxActs
           /\ \A o \in orders : o.id <= acts' /\ o.id # acts'
           /\ \A i \in DOMAIN rows : rows[i].id <= acts' /\ rows[i].id # acts'
           /\ \A c \in txCalls : c.n <= acts' /\ c.n # acts'
<1>1. acts \in Nat /\ acts' = acts + 1 /\ acts' \in 1..MaxActs
  BY ShellFacts DEF Act
<1> QED
  BY <1>1, TxFacts

\* A new call: the payments under way keep the amount they would show now.
LEMMA LaunchKeeps ==
    ASSUME TxInv, ShellOK, Act, NEW op \in Operation, Launch(op),
           recover' \in Operation \cup {"none"}, UNCHANGED <<amount, rows, orders, kept>>
    PROVE  TxInv'
<1> DEFINE Keeps(c) == IF c.op = op /\ c.shows = Live THEN [c EXCEPT !.shows = amount] ELSE c
<1>1. PICK call : call = [op |-> op, n |-> acts + 1, sent |-> amount, shows |-> Live, pc |-> "asked",
                          got |-> {}, here |-> TRUE]
  OBVIOUS
<1>2. /\ txCalls' = {Keeps(c) : c \in txCalls} \cup {call}
      /\ txCalm' = (txCalm /\ txCalls = {})
  BY <1>1 DEF Launch
<1>3. acts \in Nat /\ acts' \in 1..MaxActs /\ acts' = acts + 1 /\ amount \in Amounts /\ Live \notin Amounts
  BY LaterClick, AmountsAssumption DEF TxInv
<1>4. /\ call \in TxCallRec /\ call.n = acts' /\ call.op = op /\ call.pc = "asked" /\ call.got = {}
      /\ call.sent = amount /\ call.shows = Live
  BY <1>1, <1>3 DEF TxCallRec
<1>5. ASSUME NEW c \in txCalls, NEW d, d = Keeps(c)
      PROVE  /\ d \in TxCallRec /\ d.n = c.n /\ d.op = c.op /\ d.pc = c.pc /\ d.got = c.got
             /\ d.sent = c.sent /\ d.here = c.here
             /\ d.shows = IF c.op = op /\ c.shows = Live THEN amount ELSE c.shows
  <2>1. c \in TxCallRec
    BY TxFacts
  <2>2. CASE c.op = op /\ c.shows = Live
    BY <1>3, <1>5, <2>1, <2>2 DEF TxCallRec
  <2>3. CASE ~ (c.op = op /\ c.shows = Live)
    BY <1>5, <2>1, <2>3
  <2> QED
    BY <2>2, <2>3
<1> HIDE DEF Keeps
<1>6. ASSUME NEW d \in txCalls', d # call
      PROVE  \E c \in txCalls : d = Keeps(c)
  BY <1>2, <1>6
<1>7. ASSUME NEW d \in txCalls', d # call
      PROVE  d \in TxCallRec /\ CallFits(d)' /\ d.n # call.n
  <2>1. PICK c \in txCalls : d = Keeps(c)
    BY <1>6, <1>7
  <2>2. /\ d \in TxCallRec /\ d.n = c.n /\ d.op = c.op /\ d.pc = c.pc /\ d.got = c.got
        /\ d.sent = c.sent /\ d.here = c.here
        /\ d.shows = IF c.op = op /\ c.shows = Live THEN amount ELSE c.shows
    BY <1>5, <2>1
  <2>3. CallFits(c) /\ c.n <= acts' /\ c.n # acts'
    BY TxFacts, LaterClick
  <2>4. ~ txCalm'
    BY <1>2
  <2>5. Shown(d)' = Shown(c)
    BY <1>3, <2>2 DEF Shown
  <2> QED
    BY <1>3, <1>4, <2>2, <2>3, <2>4, <2>5 DEF CallFits, OrderOf
<1>8. CallFits(call)'
  <2>1. (\A o \in orders : o.id # acts') /\ (\A i \in DOMAIN rows : rows[i].id # acts')
    BY LaterClick
  <2>2. Shown(call)' = amount
    BY <1>4 DEF Shown
  <2> QED
    BY <1>3, <1>4, <2>1, <2>2 DEF CallFits
<1>9. \A c, d \in txCalls' : c.n = d.n => c = d
  <2>1. ASSUME NEW d \in txCalls', NEW e \in txCalls', d # call, e # call, d.n = e.n
        PROVE  d = e
    <3>1. PICK c \in txCalls : d = Keeps(c)
      BY <1>6, <2>1
    <3>2. PICK b \in txCalls : e = Keeps(b)
      BY <1>6, <2>1
    <3>3. c.n = b.n
      BY <1>5, <2>1, <3>1, <3>2
    <3> QED
      BY <3>1, <3>2, <3>3 DEF TxInv
  <2> QED
    BY <1>7, <2>1
<1>10. txCalls' \subseteq TxCallRec /\ \A c \in txCalls' : CallFits(c)'
  BY <1>4, <1>7, <1>8
<1>11. txCalm' => txCalm /\ txCalls' = {call}
  BY <1>2
<1>12. (\A o \in orders : o.id <= acts') /\ (\A i \in DOMAIN rows : rows[i].id <= acts')
  BY LaterClick
<1>13. txCalm' \in BOOLEAN
  BY <1>2 DEF TxInv
<1> QED
  BY <1>9, <1>10, <1>11, <1>12, <1>13 DEF TxInv, Distinct

\* The amount is edited: payments under way may show another one.
LEMMA EditKeeps ==
    ASSUME TxInv, ShellOK, NEW a \in Amounts, EditAmount(a)
    PROVE  TxInv'
<1>1. /\ Act /\ amount' = a /\ kept' = (kept /\ \A c \in txCalls : c.op # "pay")
      /\ UNCHANGED <<rows, recover, txCalls, orders, txCalm>>
  BY DEF EditAmount
<1>2. /\ \A o \in orders : o.id <= acts'
      /\ \A i \in DOMAIN rows : rows[i].id <= acts'
      /\ \A c \in txCalls : c.n <= acts' /\ CallFits(c)
  BY <1>1, LaterClick, TxFacts
<1>3. \A c \in txCalls : CallFits(c)'
  BY <1>1, <1>2 DEF CallFits, OrderOf
<1> QED
  BY <1>1, <1>2, <1>3 DEF TxInv, Distinct

\* A payment is an order under its call's number; a ledger tells the orders.
LEMMA TxServeKeeps ==
    ASSUME TxInv, ShellOK, NEW c \in txCalls, TxServe(c)
    PROVE  TxInv'
<1>1. PICK d : d = [c EXCEPT !.pc = "done", !.got = IF c.op = "ledger" THEN orders ELSE {}]
  OBVIOUS
<1>2. /\ c.pc = "asked" /\ txCalls' = (txCalls \ {c}) \cup {d}
      /\ orders' = IF c.op = "pay" THEN orders \cup {OrderOf(c)} ELSE orders
      /\ UNCHANGED <<acts, amount, rows, recover, txCalm, kept>>
  BY <1>1 DEF TxServe, OrderOf, shellVars
<1>3. /\ c \in TxCallRec /\ CallFits(c) /\ orders \subseteq Order /\ IsFiniteSet(orders)
      /\ \A o \in orders : o.id # c.n
  BY <1>2 DEF TxInv, CallFits
<1>4. /\ d \in TxCallRec /\ d.n = c.n /\ d.op = c.op /\ d.pc = "done" /\ d.sent = c.sent
      /\ d.shows = c.shows /\ d.here = c.here /\ d.got \subseteq orders
  BY <1>1, <1>3 DEF TxCallRec
<1>5. OrderOf(c) \in Order /\ OrderOf(c).id = c.n /\ OrderOf(d) = OrderOf(c)
  BY <1>3, <1>4 DEF TxCallRec, Order, OrderOf
<1>6. /\ orders \subseteq orders' /\ orders' \subseteq orders \cup {OrderOf(c)}
      /\ c.op = "pay" => OrderOf(c) \in orders'
  BY <1>2
<1>7. /\ orders' \subseteq Order /\ IsFiniteSet(orders') /\ \A o \in orders' : o.id <= acts'
  <2>1. IsFiniteSet(orders \cup {OrderOf(c)})
    BY <1>3, FS_AddElement
  <2>2. c.n <= acts
    BY <1>3 DEF CallFits
  <2> QED
    BY <1>2, <1>3, <1>5, <1>6, <2>1, <2>2, FS_Subset DEF TxInv
<1>8. \A o, p \in orders' : o.id = p.id => o = p
  BY <1>3, <1>5, <1>6 DEF TxInv
<1>9. CallFits(d)'
  <2>1. Shown(d)' = Shown(c) /\ OrderOf(d)' = OrderOf(c)
    BY <1>2, <1>4, <1>5 DEF Shown, OrderOf
  <2> QED
    BY <1>2, <1>3, <1>4, <1>6, <2>1 DEF CallFits
<1>10. ASSUME NEW e \in txCalls, e # c
      PROVE  CallFits(e)'
  <2>1. CallFits(e) /\ e.n # c.n
    BY <1>10 DEF TxInv
  <2>2. Shown(e)' = Shown(e) /\ OrderOf(e)' = OrderOf(e)
    BY <1>2 DEF Shown, OrderOf
  <2> QED
    BY <1>2, <1>5, <1>6, <2>1, <2>2 DEF CallFits
<1>11. /\ txCalls' \subseteq TxCallRec
       /\ \A e, f \in txCalls' : e.n = f.n => e = f
       /\ \A e \in txCalls' : CallFits(e)'
  <2>1. \A e, f \in txCalls : e.n = f.n => e = f
    BY DEF TxInv
  <2>2. \A e, f \in txCalls' : e.n = f.n => e = f
    BY <1>2, <1>4, <2>1
  <2>3. txCalls' \subseteq TxCallRec
    BY <1>2, <1>4 DEF TxInv
  <2> QED
    BY <1>2, <1>9, <1>10, <2>2, <2>3
<1>12. txCalm' => \A e, f \in txCalls' : e = f
  BY <1>2 DEF TxInv
<1> QED
  BY <1>2, <1>6, <1>7, <1>8, <1>11, <1>12 DEF TxInv, Distinct

\* An answer puts on screen what the backend has.
LEMMA TxAnswerKeeps ==
    ASSUME TxInv, ShellOK, NEW c \in txCalls, TxAnswer(c)
    PROVE  TxInv'
<1>1. /\ c.pc = "done" /\ txCalls' = txCalls \ {c}
      /\ UNCHANGED <<acts, amount, orders, txCalm, kept>>
      /\ recover' \in {recover, "none"} /\ rows' \in {rows, RowsAfter(c)}
      /\ ~ c.here => rows' = rows
  BY DEF TxAnswer, shellVars
<1>2. /\ c \in TxCallRec /\ CallFits(c) /\ c.got \subseteq orders /\ c.n <= acts
      /\ orders \subseteq Order /\ rows \in Seq(Order) /\ amount \in Amounts
  BY DEF TxInv, CallFits
<1>3. txCalm => txCalls' = {}
  BY <1>1 DEF TxInv
<1>4. ASSUME /\ rows' \in Seq(Order) /\ \A i \in DOMAIN rows' : rows'[i].id <= acts
             /\ txCalm => Distinct(rows')
             /\ kept => \A i \in DOMAIN rows' : rows'[i] \in orders
      PROVE  TxInv'
  <2>1. \A e \in txCalls' : CallFits(e)'
    BY <1>1, <1>3 DEF TxInv, CallFits, Shown, OrderOf
  <2> QED
    BY <1>1, <1>4, <2>1 DEF TxInv, Distinct
<1>5. CASE rows' = rows
  BY <1>4, <1>5 DEF TxInv
<1>6. CASE c.here /\ c.op = "pay" /\ rows' = RowsAfter(c)
  <2>1. rows' = <<PayRow(c)>> \o rows /\ PayRow(c) = [id |-> c.n, amount |-> Shown(c)]
    BY <1>6 DEF RowsAfter, PayRow, Shown
  <2>2. PayRow(c) \in Order /\ PayRow(c).id = c.n
    BY <1>2, <2>1 DEF Shown, TxCallRec, Order
  <2>3. /\ rows' \in Seq(Order)
        /\ \A i \in DOMAIN rows' : \/ i = 1 /\ rows'[i] = PayRow(c)
                                   \/ i - 1 \in DOMAIN rows /\ rows'[i] = rows[i - 1]
    BY <1>2, <2>1, <2>2, RowAdded
  <2>4. kept => PayRow(c) \in orders
    BY <1>1, <1>2, <1>6, <2>1 DEF CallFits, OrderOf
  <2>5. \A i \in DOMAIN rows' : rows'[i].id <= acts
    BY <1>2, <2>2, <2>3 DEF TxInv
  <2>6. kept => \A i \in DOMAIN rows' : rows'[i] \in orders
    BY <2>3, <2>4 DEF TxInv
  <2>7. ASSUME txCalm
        PROVE  Distinct(rows')
    <3>1. /\ \A i \in DOMAIN rows : rows[i].id # c.n
          /\ \A i, j \in DOMAIN rows : rows[i].id = rows[j].id => i = j
      BY <1>2, <1>6, <2>7 DEF CallFits, TxInv, Distinct
    <3>2. ASSUME NEW i \in DOMAIN rows', NEW j \in DOMAIN rows', rows'[i].id = rows'[j].id
          PROVE  i = j
      <4>1. i \in Int /\ j \in Int
        BY <2>3
      <4> QED
        BY <2>2, <2>3, <3>1, <3>2, <4>1
    <3> QED
      BY <3>2 DEF Distinct
  <2> QED
    BY <1>4, <2>3, <2>5, <2>6, <2>7
<1>7. CASE c.op = "ledger" /\ rows' = RowsAfter(c)
  <2>1. rows' = SetToSeq(c.got)
    BY <1>7 DEF RowsAfter
  <2>2. IsFiniteSet(c.got)
    BY <1>2, FS_Subset DEF TxInv
  <2>3. /\ rows' \in Seq(c.got) /\ \A i \in DOMAIN rows' : rows'[i] \in c.got
        /\ \A i, j \in DOMAIN rows' : rows'[i] = rows'[j] => i = j
    BY <2>1, <2>2, LedgerRows
  <2>4. \A i \in DOMAIN rows' : rows'[i] \in orders /\ rows'[i].id <= acts
    BY <1>2, <2>3 DEF TxInv
  <2>5. rows' \in Seq(Order)
    BY <1>2, <2>3
  <2>6. Distinct(rows')
    BY <2>3, <2>4 DEF TxInv, Distinct
  <2> QED
    BY <1>4, <2>4, <2>5, <2>6
<1>8. CASE c.op \notin {"pay", "ledger"} /\ rows' = RowsAfter(c)
  BY <1>5, <1>8 DEF RowsAfter
<1> QED
  BY <1>1, <1>5, <1>6, <1>7, <1>8

\* No step of the transactions page breaks what its rows rely on.
LEMMA TransactionsStepKeeps ==
    ASSUME TxInv, ShellOK, TransactionsStep
    PROVE  TxInv'
<1>1. ASSUME NEW c \in txCalls, TxFail(c)
      PROVE  TxInv'
  <2>1. /\ txCalls' = txCalls \ {c} /\ recover' \in {recover, c.op}
        /\ UNCHANGED <<acts, amount, rows, orders, txCalm, kept>>
    BY <1>1 DEF TxFail, shellVars
  <2>2. recover' \in Operation \cup {"none"}
    BY <2>1 DEF TxInv, TxCallRec
  <2>3. \A e \in txCalls' : CallFits(e)'
    BY <2>1 DEF TxInv, CallFits, Shown, OrderOf
  <2> QED
    BY <2>1, <2>2, <2>3 DEF TxInv, Distinct
<1>2. ASSUME NEW valid \in BOOLEAN, SubmitPay(valid)
      PROVE  TxInv'
  <2>1. /\ Act /\ recover' = "none" /\ UNCHANGED <<amount, rows, orders, kept>>
        /\ Launch("pay") \/ UNCHANGED <<txCalls, txCalm>>
    BY <1>2 DEF SubmitPay
  <2>2. CASE Launch("pay")
    BY <2>1, <2>2, LaunchKeeps DEF Operation
  <2>3. CASE UNCHANGED <<txCalls, txCalm>>
    <3>1. /\ \A o \in orders : o.id <= acts'
          /\ \A i \in DOMAIN rows : rows[i].id <= acts'
          /\ \A c \in txCalls : c.n <= acts' /\ CallFits(c)
      BY <2>1, LaterClick, TxFacts
    <3>2. \A c \in txCalls : CallFits(c)'
      BY <2>1, <2>3, <3>1 DEF CallFits, Shown, OrderOf
    <3> QED
      BY <2>1, <2>3, <3>1, <3>2 DEF TxInv, Distinct
  <2> QED
    BY <2>1, <2>2, <2>3
<1>3. ASSUME NEW op \in Operation, AskTool(op)
      PROVE  TxInv'
  BY <1>3, LaunchKeeps DEF AskTool, TxInv
<1>4. CASE RetryLastError
  <2>1. recover \in Operation
    BY <1>4 DEF RetryLastError, TxInv
  <2> QED
    BY <1>4, <2>1, LaunchKeeps DEF RetryLastError, TxInv
<1> QED
  BY <1>1, <1>2, <1>3, <1>4, EditKeeps, TxServeKeeps, TxAnswerKeeps DEF TransactionsStep

\* The page is left: no row is on screen, and no call under way will add one.
LEMMA TransactionsOpenKeeps ==
    ASSUME TxInv, ShellOK, Act, TransactionsOpen
    PROVE  TxInv'
<1> DEFINE Left(c) == [c EXCEPT !.here = FALSE]
<1>1. /\ amount' = (CHOOSE a \in Amounts : TRUE) /\ rows' = <<>> /\ recover' = "none"
      /\ txCalls' = {Left(c) : c \in txCalls}
      /\ UNCHANGED <<orders, txCalm, kept>>
  BY DEF TransactionsOpen
<1>2. amount' \in Amounts
  BY <1>1, AmountsAssumption
<1>3. \A c \in txCalls : /\ Left(c) \in TxCallRec /\ Left(c).n = c.n /\ Left(c).op = c.op
                         /\ Left(c).pc = c.pc /\ Left(c).got = c.got /\ Left(c).sent = c.sent
                         /\ Left(c).here = FALSE
  BY DEF TxInv, TxCallRec
<1> HIDE DEF Left
<1>4. ASSUME NEW c \in txCalls, NEW d, d = Left(c)
      PROVE  CallFits(d)'
  <2>1. CallFits(c) /\ c.n <= acts'
    BY TxFacts, LaterClick
  <2>2. d.n = c.n /\ d.op = c.op /\ d.pc = c.pc /\ d.got = c.got /\ d.sent = c.sent /\ ~ d.here
    BY <1>3, <1>4
  <2>3. DOMAIN rows' = {}
    BY <1>1
  <2> QED
    BY <1>1, <2>1, <2>2, <2>3 DEF CallFits, OrderOf
<1>5. /\ txCalls' \subseteq TxCallRec
      /\ \A c, d \in txCalls' : c.n = d.n => c = d
      /\ \A c \in txCalls' : CallFits(c)'
      /\ txCalm' => \A c, d \in txCalls' : c = d
  BY <1>1, <1>3, <1>4 DEF TxInv
<1>6. rows' \in Seq(Order) /\ DOMAIN rows' = {}
  BY <1>1
<1>7. \A o \in orders' : o.id <= acts'
  BY <1>1, LaterClick
<1> QED
  BY <1>1, <1>2, <1>5, <1>6, <1>7 DEF TxInv, Distinct

----------------------------------------------------------------------------
(* Lists and changes *)

ChangeRec == [does : DOMAIN Mutations, n : 1..MaxActs, about : Filters]
ChangeOf(c) == [does |-> c.does, n |-> c.n, about |-> c.about]

\* What a list's reader was told is what the backend would answer; an answer on
\* its way has it, and so has a list at rest that could be read, but for what
\* the first answer was made too early to show.
EntryFits(e, answer) ==
    /\ e \in EntryRec
    /\ e.told \subseteq answer
    /\ e.fetch = "served" => e.told \ e.missed \subseteq e.got
    /\ e.fetch = "idle" /\ ~ e.failed => e.told \ e.missed \subseteq e.data

\* Besides, a call that was carried out has made its change.
QueriesInv ==
    /\ focus \in Foci
    /\ filter \in [Lists -> AllFilters] /\ panel \in BOOLEAN
    /\ calls \subseteq CallRec /\ changes \subseteq ChangeRec
    /\ entry \in [focus -> [AllFilters -> EntryRec]]
    /\ \A l \in focus, f \in AllFilters : EntryFits(entry[l][f], Answer(l, f))
    /\ \A c \in calls : c.pc = "done" => ChangeOf(c) \in changes

\* Whatever a message is about, its mutation has read again.
LEMMA ToldIsRead ==
    ASSUME NEW d \in DOMAIN Mutations
    PROVE  Mutations[d].about \subseteq Mutations[d].refreshes
<1> DEFINE Read(m) == m.about \subseteq m.refreshes
<1>1. \A x \in DOMAIN PageMutations : Read(PageMutations[x])
  <2>1. /\ Read(CreateApiKey) /\ Read(CreateWebhook) /\ Read(ReplayDelivery) /\ Read(SetRisk)
        /\ Read(SetChannelRoute) /\ Read(DeleteChannelRoute)
    BY DEF CreateApiKey, CreateWebhook, ReplayDelivery, SetRisk, SetChannelRoute,
           DeleteChannelRoute, Mutation, Seeding, Besides
  <2>2. Read(Recharge) /\ Read(Transfer) /\ Read(AccountTool)
    BY DEF Recharge, Transfer, AccountTool, Mutation, Besides
  <2> HIDE DEF Read
  <2> QED
    BY <2>1, <2>2 DEF PageMutations
<1>2. \A x \in DOMAIN AdminUserMutations : Read(AdminUserMutations[x])
  BY DEF AdminUserMutations, Mutation
<1> HIDE DEF Read
<1>3. Read(Mutations[d])
  BY <1>1, <1>2 DEF Mutations
<1> QED
  BY <1>3 DEF Read

\* Every button makes a mutation of the table.
LEMMA ButtonsMutate ==
    /\ \A p : \A b \in ButtonsOf(p) : b.does \in DOMAIN Mutations
    /\ "recharge" \in DOMAIN Mutations
<1>1. DOMAIN Mutations = DOMAIN PageMutations \cup DOMAIN AdminUserMutations
  BY DEF Mutations
<1>2. DOMAIN PageMutations =
         {"createApiKey", "createWebhook", "replay", "setRisk", "setChannelRoute",
          "deleteChannelRoute", "recharge", "transfer", "accountTool"}
  BY DEF PageMutations
<1>3. DOMAIN AdminUserMutations =
         {"createAdminUser", "setAdminUserDisabled", "setAdminUserRole", "setAdminUserPlan",
          "resetAdminUserPassword"}
  BY DEF AdminUserMutations
<1>4. \A b \in UserButtons : b.does \in DOMAIN Mutations
  BY <1>1, <1>3 DEF UserButtons, Form, OnRow, Button
<1>5. \A b \in KeyButtons \cup WebhookButtons \cup DeliveryButtons \cup RiskButtons \cup RouteButtons :
         b.does \in DOMAIN Mutations
  BY <1>1, <1>2
     DEF KeyButtons, WebhookButtons, DeliveryButtons, RiskButtons, RouteButtons, Form, OnRow, Button
<1>6. \A b \in RechargeForm \cup AccountButtons \cup TransferForm : b.does \in DOMAIN Mutations
  BY <1>1, <1>2 DEF RechargeForm, AccountButtons, TransferForm, Form, Button
<1> QED
  BY <1>1, <1>2, <1>4, <1>5, <1>6 DEF ButtonsOf

\* An entry that is asked for again is an entry without an answer.
LEMMA AskedAgain ==
    ASSUME NEW e \in EntryRec
    PROVE  /\ Asked(e) \in EntryRec /\ Asked(e).fetch = "asked" /\ Asked(e).told = e.told
           /\ [Asked(e) EXCEPT !.tries = 1] \in EntryRec
           /\ [Asked(e) EXCEPT !.tries = 1].fetch = "asked"
           /\ [Asked(e) EXCEPT !.tries = 1].told = e.told
<1>1. PICK a : a = [[e EXCEPT !.fetch = "asked"] EXCEPT !.got = {}]
  OBVIOUS
<1>2. PICK b : b = [a EXCEPT !.tries = 0]
  OBVIOUS
<1>3. Asked(e) = [b EXCEPT !.missed = {}] /\ b \in EntryRec
      /\ b.fetch = "asked" /\ b.told = e.told
  <2>1. Asked(e) = [b EXCEPT !.missed = {}]
    BY <1>1, <1>2 DEF Asked
  <2>2. a \in EntryRec /\ a.fetch = "asked" /\ a.told = e.told
    BY <1>1 DEF EntryRec
  <2> QED
    BY <1>2, <2>1, <2>2 DEF EntryRec
<1>4. /\ Asked(e) \in EntryRec /\ Asked(e).fetch = "asked" /\ Asked(e).told = e.told
  BY <1>3 DEF EntryRec
<1> QED
  BY <1>4 DEF EntryRec

\* Whatever the cache does with an entry, it fits what the backend would answer:
\* an entry that is asked for again owes nothing, one that was served has all.
LEMMA EntryMoves ==
    ASSUME NEW answer \in SUBSET (1..MaxActs), NEW e, EntryFits(e, answer)
    PROVE  /\ EntryFits(Asked(e), answer) /\ Asked(e).told = e.told
           /\ EntryFits(Appear(e), answer)
           /\ EntryFits(Refetch(e), answer) /\ Refetch(e).told = e.told
           /\ e.fetch = "asked" => EntryFits(Served(e, answer), answer)
           /\ e.fetch = "served" => EntryFits(Answered(e), answer)
           /\ EntryFits(Failed(e), answer)
           /\ \A n \in 1..MaxActs : EntryFits(Seed(e, n), answer)
<1>1. EntryFits(Asked(e), answer) /\ Asked(e).told = e.told
  BY AskedAgain DEF EntryFits
<1>2. EntryFits(Appear(e), answer)
  BY <1>1 DEF Appear
<1>3. EntryFits(Refetch(e), answer) /\ Refetch(e).told = e.told
  BY <1>1 DEF Refetch
<1>4. e.fetch = "asked" => EntryFits(Served(e, answer), answer)
  BY DEF EntryFits, EntryRec, Served
<1>5. e.fetch = "served" => EntryFits(Answered(e), answer)
  BY DEF EntryFits, EntryRec, Answered
<1>6. EntryFits(Failed(e), answer)
  <2>1. CASE e.tries = 0
    BY <2>1, AskedAgain DEF EntryFits, Failed
  <2>2. CASE e.tries # 0
    <3>1. e = [loaded |-> e.loaded, data |-> e.data, fetch |-> e.fetch, got |-> e.got,
               tries |-> e.tries, failed |-> e.failed, told |-> e.told, missed |-> e.missed]
      BY DEF EntryFits, EntryRec
    <3>2. Failed(e) = [loaded |-> e.loaded, data |-> e.data, fetch |-> "idle", got |-> {},
                       tries |-> 0, failed |-> TRUE, told |-> e.told, missed |-> e.missed]
      BY <2>2, <3>1 DEF Failed
    <3> QED
      BY <3>2 DEF EntryFits, EntryRec
  <2> QED
    BY <2>1, <2>2
<1>7. \A n \in 1..MaxActs : EntryFits(Seed(e, n), answer)
  BY DEF EntryFits, EntryRec, Seed
<1> QED
  BY <1>1, <1>2, <1>3, <1>4, <1>5, <1>6, <1>7

\* The answers are numbers of clicks, and later answers have what earlier had.
LEMMA AnswersGrow ==
    ASSUME QueriesInv, NEW l, NEW f
    PROVE  /\ Answer(l, f) \in SUBSET (1..MaxActs)
           /\ changes \subseteq changes' => Answer(l, f) \subseteq Answer(l, f)'
<1>1. \A x \in ChangeRec : x.n \in 1..MaxActs
  BY DEF ChangeRec
<1> QED
  BY <1>1 DEF QueriesInv, Answer

\* Telling of a change the backend has made fits an entry that is read again: a
\* read that has not been answered will see it, an answer that lacks it missed it.
LEMMA TellingFits ==
    ASSUME NEW answer \in SUBSET (1..MaxActs), NEW n \in answer,
           NEW e, EntryFits(e, answer), e.fetch = "asked" \/ Joins(e)
    PROVE  EntryFits(Told(e, n), answer)
<1> DEFINE lacks == IF Joins(e) /\ e.fetch = "served" /\ n \notin e.got THEN {n} ELSE {}
<1>1. PICK x : x = [e EXCEPT !.told = e.told \cup {n}]
  OBVIOUS
<1>2. x \in EntryRec /\ x.told = e.told \cup {n} /\ x.missed = e.missed
      /\ x.fetch = e.fetch /\ x.got = e.got /\ e.fetch # "idle"
  BY <1>1 DEF EntryFits, EntryRec, Joins
<1>3. PICK y : y = [x EXCEPT !.missed = x.missed \cup lacks]
  OBVIOUS
<1>4. Told(e, n) = y
  BY <1>1, <1>2, <1>3 DEF Told
<1>5. /\ y \in EntryRec /\ y.told = e.told \cup {n} /\ y.missed = e.missed \cup lacks
      /\ y.fetch = e.fetch /\ y.got = e.got
  BY <1>2, <1>3 DEF EntryRec
<1>6. e.fetch = "served" => {n} \ lacks \subseteq e.got
  <2>1. e.fetch = "served" => Joins(e)
    OBVIOUS
  <2> QED
    BY <2>1
<1> HIDE DEF lacks
<1> QED
  BY <1>2, <1>4, <1>5, <1>6 DEF EntryFits

\* A read is asked for, or joined, whenever the reader is told.
LEMMA ToldAndRead ==
    ASSUME QueriesInv, NEW c \in calls, c.pc = "done",
           NEW l \in focus, NEW f \in AllFilters
    PROVE  EntryFits(AfterSuccess(entry[l][f], l, f, c), Answer(l, f))
<1> DEFINE e == entry[l][f]
           m == Mutations[c.does]
           seeded == IF m.seeds /\ l \in m.about THEN Seed(e, c.n) ELSE e
           reaches == OnScreen(l, f) /\ (c.does \in PageBound => c.here)
           tells == l \in m.about /\ reaches /\ Matches(f, c.about)
           fetched == IF l \in m.refreshes /\ reaches THEN Refetch(seeded) ELSE seeded
<1>1. c.does \in DOMAIN Mutations /\ c.n \in 1..MaxActs /\ ChangeOf(c) \in changes
  BY DEF QueriesInv, CallRec
<1>2. Answer(l, f) \in SUBSET (1..MaxActs)
  BY AnswersGrow
<1>3. EntryFits(e, Answer(l, f))
  BY DEF QueriesInv
<1>4. EntryFits(seeded, Answer(l, f))
  BY <1>1, <1>2, <1>3, EntryMoves
<1> HIDE DEF seeded
<1>5. EntryFits(fetched, Answer(l, f))
  BY <1>2, <1>4, EntryMoves
<1>6. ASSUME tells
      PROVE  EntryFits(Told(fetched, c.n), Answer(l, f))
  <2>1. m.about \subseteq m.refreshes
    BY <1>1, ToldIsRead
  <2>2. fetched = Refetch(seeded)
    BY <1>6, <2>1
  <2>3. fetched.fetch = "asked" \/ Joins(fetched)
    BY <1>4, <2>2, AskedAgain DEF Refetch, EntryFits
  <2>4. c.n \in Answer(l, f)
    BY <1>1, <1>6 DEF Answer, ChangeOf
  <2> QED
    BY <1>2, <1>5, <2>3, <2>4, TellingFits
<1>7. AfterSuccess(e, l, f, c) = IF tells THEN Told(fetched, c.n) ELSE fetched
  BY DEF AfterSuccess, seeded
<1> HIDE DEF fetched, tells
<1> QED
  BY <1>5, <1>6, <1>7

\* As long as the entries fit and nothing that was done is taken back, so does
\* the rest.
LEMMA EntriesKept ==
    ASSUME QueriesInv, UNCHANGED <<focus, entry>>, changes \subseteq changes',
           filter' \in [Lists -> AllFilters], panel' \in BOOLEAN,
           calls' \subseteq CallRec, changes' \subseteq ChangeRec,
           \A c \in calls' : c.pc = "done" => ChangeOf(c) \in changes'
    PROVE  QueriesInv'
<1>1. \A l \in focus, f \in AllFilters : EntryFits(entry[l][f], Answer(l, f)')
  BY AnswersGrow DEF QueriesInv, EntryFits
<1> QED
  BY <1>1 DEF QueriesInv

\* As long as every entry of the lists still fits, so does the rest.
LEMMA EntriesChange ==
    ASSUME QueriesInv, UNCHANGED <<focus, changes>>,
           filter' \in [Lists -> AllFilters], panel' \in BOOLEAN,
           calls' \subseteq CallRec,
           \A c \in calls' : c.pc = "done" => ChangeOf(c) \in changes,
           entry' \in [focus -> [AllFilters -> EntryRec]],
           \A l \in focus, f \in AllFilters : EntryFits(entry'[l][f], Answer(l, f))
    PROVE  QueriesInv'
<1>1. \A l, f : Answer(l, f)' = Answer(l, f)
  BY DEF Answer
<1> QED
  BY <1>1 DEF QueriesInv

\* A mutation is started: the answer it waits for has not come.
LEMMA StartKeeps ==
    ASSUME QueriesInv, ShellOK, Act, NEW d \in DOMAIN Mutations, NEW about \in Filters,
           Start(d, about)
    PROVE  /\ calls' \subseteq CallRec
           /\ \A c \in calls' : c.pc = "done" => ChangeOf(c) \in changes
<1>1. acts + 1 \in 1..MaxActs
  BY ShellFacts DEF Act
<1>2. ASSUME NEW c \in calls
      PROVE  /\ [c EXCEPT !.current = FALSE] \in CallRec
             /\ ChangeOf([c EXCEPT !.current = FALSE]) = ChangeOf(c)
             /\ [c EXCEPT !.current = FALSE].pc = c.pc
             /\ c.pc = "done" => ChangeOf(c) \in changes
  BY DEF QueriesInv, CallRec, ChangeOf
<1>3. PICK s : s = [does |-> d, n |-> acts + 1, about |-> about, pc |-> "asked", current |-> TRUE,
                    here |-> TRUE]
  OBVIOUS
<1>4. s \in CallRec /\ s.pc = "asked"
  BY <1>1, <1>3 DEF CallRec
<1>5. calls \subseteq CallRec
  BY DEF QueriesInv
<1>6. \A x \in calls' : \/ x \in calls \/ x = s
                        \/ \E c \in calls : x = [c EXCEPT !.current = FALSE]
  BY <1>3 DEF Start
<1> QED
  BY <1>2, <1>4, <1>5, <1>6

\* One entry changes and still fits: so does the rest.
LEMMA OneEntry ==
    ASSUME QueriesInv, UNCHANGED <<focus, changes, calls, panel>>,
           filter' \in [Lists -> AllFilters],
           NEW l \in focus, NEW f \in AllFilters, NEW e, EntryFits(e, Answer(l, f)),
           entry' = [entry EXCEPT ![l][f] = e]
    PROVE  QueriesInv'
<1>1. e \in EntryRec
  BY DEF EntryFits
<1>2. entry' \in [focus -> [AllFilters -> EntryRec]]
  BY <1>1 DEF QueriesInv
<1>3. \A k \in focus, g \in AllFilters : EntryFits(entry'[k][g], Answer(k, g))
  BY DEF QueriesInv
<1> QED
  BY <1>2, <1>3, EntriesChange DEF QueriesInv

\* Several entries change, and every one still fits.
LEMMA AllEntries ==
    ASSUME QueriesInv, UNCHANGED <<focus, changes>>,
           filter' \in [Lists -> AllFilters], panel' \in BOOLEAN,
           calls' \subseteq CallRec,
           \A c \in calls' : c.pc = "done" => ChangeOf(c) \in changes,
           NEW t, entry' = [l \in focus |-> [f \in AllFilters |-> t[l][f]]],
           \A l \in focus, f \in AllFilters : EntryFits(t[l][f], Answer(l, f))
    PROVE  QueriesInv'
<1>1. \A l \in focus, f \in AllFilters : t[l][f] \in EntryRec
  BY DEF EntryFits
<1>2. entry' \in [focus -> [AllFilters -> EntryRec]]
  BY <1>1
<1> QED
  BY <1>2, EntriesChange

\* What every entry is, and what a click, a fetch or a page may make of it.
LEMMA EntryFacts ==
    ASSUME QueriesInv, NEW l \in focus, NEW f \in AllFilters
    PROVE  /\ EntryFits(entry[l][f], Answer(l, f))
           /\ EntryFits(Appear(entry[l][f]), Answer(l, f))
           /\ EntryFits(Refetch(entry[l][f]), Answer(l, f))
           /\ EntryFits(Appear(Refetch(entry[l][f])), Answer(l, f))
           /\ entry[l][f].fetch = "asked" =>
                 EntryFits(Served(entry[l][f], Answer(l, f)), Answer(l, f))
           /\ entry[l][f].fetch = "served" => EntryFits(Answered(entry[l][f]), Answer(l, f))
           /\ EntryFits(Failed(entry[l][f]), Answer(l, f))
<1>1. Answer(l, f) \in SUBSET (1..MaxActs)
  BY AnswersGrow
<1>2. EntryFits(entry[l][f], Answer(l, f))
  BY DEF QueriesInv
<1>3. EntryFits(Refetch(entry[l][f]), Answer(l, f))
  BY <1>1, <1>2, EntryMoves
<1> QED
  BY <1>1, <1>2, <1>3, EntryMoves

\* A click keeps what the lists rely on: it starts a call, or asks for a read.
LEMMA ClicksKeep ==
    ASSUME QueriesInv, ShellOK
    PROVE  /\ \A b \in ButtonsOf(page), about \in Filters : Click(b, about) => QueriesInv'
           /\ \A about \in Filters : Retry(about) => QueriesInv'
           /\ RefuseRecharge => QueriesInv'
<1>1. ASSUME NEW b \in ButtonsOf(page), NEW about \in Filters, Click(b, about)
      PROVE  QueriesInv'
  <2>1. b.does \in DOMAIN Mutations
    BY ButtonsMutate
  <2>2. Act /\ Start(b.does, about) /\ UNCHANGED <<focus, entry, filter, changes>>
        /\ panel' = (panel /\ b.does # "recharge")
    BY <1>1 DEF Click
  <2>3. calls' \subseteq CallRec /\ \A c \in calls' : c.pc = "done" => ChangeOf(c) \in changes
    BY <2>1, <2>2, StartKeeps
  <2> QED
    BY <2>2, <2>3, EntriesKept DEF QueriesInv
<1>2. ASSUME NEW about \in Filters, Retry(about)
      PROVE  QueriesInv'
  <2>1. Act /\ Start("recharge", about) /\ UNCHANGED <<focus, entry, filter, changes, panel>>
    BY <1>2 DEF Retry
  <2>2. calls' \subseteq CallRec /\ \A c \in calls' : c.pc = "done" => ChangeOf(c) \in changes
    BY <2>1, ButtonsMutate, StartKeeps
  <2> QED
    BY <2>1, <2>2, EntriesKept DEF QueriesInv
<1>3. ASSUME RefuseRecharge
      PROVE  QueriesInv'
  BY <1>3, EntriesKept DEF RefuseRecharge, QueriesInv
<1> QED
  BY <1>1, <1>2, <1>3

\* Asking for lists again, under whichever filter, keeps what they rely on.
LEMMA ReadsKeep ==
    ASSUME QueriesInv
    PROVE  /\ \A lists : Refresh(lists) => QueriesInv'
           /\ \A l \in Filtered, f \in AllFilters : SetFilter(l, f) => QueriesInv'
           /\ ClearFilters => QueriesInv'
<1>1. ASSUME NEW lists, Refresh(lists)
      PROVE  QueriesInv'
  <2>1. PICK t : t = [l \in focus |-> [f \in AllFilters |->
             IF l \in lists /\ filter[l] = f THEN Refetch(entry[l][f]) ELSE entry[l][f]]]
    OBVIOUS
  <2>2. /\ entry' = [l \in focus |-> [f \in AllFilters |-> t[l][f]]]
        /\ UNCHANGED <<focus, filter, changes, calls, panel>>
    BY <1>1, <2>1 DEF Refresh, Onto
  <2>3. \A l \in focus, f \in AllFilters : EntryFits(t[l][f], Answer(l, f))
    BY <2>1, EntryFacts
  <2> QED
    BY <2>2, <2>3, AllEntries DEF QueriesInv
<1>2. ASSUME NEW l \in Filtered, NEW f \in AllFilters, SetFilter(l, f)
      PROVE  QueriesInv'
  <2>1. /\ l \in focus /\ filter' = [filter EXCEPT ![l] = f]
        /\ entry' = [entry EXCEPT ![l][f] = Appear(entry[l][f])]
        /\ UNCHANGED <<focus, changes, calls, panel>>
    BY <1>2 DEF SetFilter
  <2>2. filter' \in [Lists -> AllFilters]
    BY <2>1 DEF QueriesInv
  <2> QED
    BY <2>1, <2>2, EntryFacts, OneEntry
<1>3. ASSUME ClearFilters
      PROVE  QueriesInv'
  <2> DEFINE lists == {"timelineRecharges", "vaTransfers"} \cap focus
             cleared == [l \in Lists |-> IF l = "vaTransfers" THEN "all" ELSE filter[l]]
  <2>1. PICK g : g = cleared
    OBVIOUS
  <2>2. PICK r : r = [l \in focus |-> [f \in AllFilters |->
             IF l \in lists /\ filter[l] = f THEN Refetch(entry[l][f]) ELSE entry[l][f]]]
    OBVIOUS
  <2>3. PICK t : t = [l \in focus |-> [f \in AllFilters |->
             IF l \in lists /\ g[l] = f THEN Appear(r[l][f]) ELSE r[l][f]]]
    OBVIOUS
  <2>4. /\ filter' = g
        /\ entry' = [l \in focus |-> [f \in AllFilters |-> t[l][f]]]
        /\ UNCHANGED <<focus, changes, calls, panel>>
    BY <1>3, <2>1, <2>2, <2>3 DEF ClearFilters
  <2>5. filter' \in [Lists -> AllFilters]
    BY <2>1, <2>4 DEF QueriesInv, AllFilters
  <2>6. \A l \in focus, f \in AllFilters : EntryFits(t[l][f], Answer(l, f))
    BY <2>2, <2>3, EntryFacts
  <2> QED
    BY <2>4, <2>5, <2>6, AllEntries DEF QueriesInv
<1> QED
  BY <1>1, <1>2, <1>3

\* So do the steps of the calls: one that is carried out makes its change before
\* it can be answered, and its answer asks for the reads that will see it.
LEMMA CallsKeep ==
    ASSUME QueriesInv, NEW c \in calls
    PROVE  /\ ServeCall(c) => QueriesInv'
           /\ AnswerCall(c) => QueriesInv'
           /\ FailCall(c) => QueriesInv'
<1>1. ASSUME ServeCall(c)
      PROVE  QueriesInv'
  <2>1. PICK d : d = [c EXCEPT !.pc = "done"]
    OBVIOUS
  <2>2. /\ calls' = (calls \ {c}) \cup {d} /\ changes' = changes \cup {ChangeOf(c)}
        /\ UNCHANGED <<focus, entry, filter, panel>>
    BY <1>1, <2>1 DEF ServeCall, ChangeOf
  <2>3. d \in CallRec /\ ChangeOf(d) = ChangeOf(c) /\ ChangeOf(c) \in ChangeRec
    BY <2>1 DEF QueriesInv, CallRec, ChangeRec, ChangeOf
  <2> QED
    BY <2>2, <2>3, EntriesKept DEF QueriesInv
<1>2. ASSUME AnswerCall(c)
      PROVE  QueriesInv'
  <2>1. PICK t : t = [l \in focus |-> [f \in AllFilters |-> AfterSuccess(entry[l][f], l, f, c)]]
    OBVIOUS
  <2>2. /\ c.pc = "done" /\ calls' = calls \ {c} /\ panel' = (panel /\ ~ c.here)
        /\ entry' = [l \in focus |-> [f \in AllFilters |-> t[l][f]]]
        /\ UNCHANGED <<focus, filter, changes>>
    BY <1>2, <2>1 DEF AnswerCall
  <2>3. \A l \in focus, f \in AllFilters : EntryFits(t[l][f], Answer(l, f))
    BY <2>1, <2>2, ToldAndRead
  <2>4. panel' \in BOOLEAN
    BY <2>2
  <2>5. filter' \in [Lists -> AllFilters] /\ calls' \subseteq CallRec
        /\ \A x \in calls' : x.pc = "done" => ChangeOf(x) \in changes
    BY <2>2 DEF QueriesInv
  <2> QED
    BY <2>2, <2>3, <2>4, <2>5, AllEntries
<1>3. ASSUME FailCall(c)
      PROVE  QueriesInv'
  <2>1. panel' \in BOOLEAN
    BY <1>3 DEF FailCall
  <2> QED
    BY <1>3, <2>1, EntriesKept DEF FailCall, QueriesInv
<1> QED
  BY <1>1, <1>2, <1>3

\* So do the fetches.
LEMMA FetchesKeep ==
    ASSUME QueriesInv, NEW l \in focus, NEW f \in AllFilters
    PROVE  /\ ServeFetch(l, f) => QueriesInv'
           /\ AnswerFetch(l, f) => QueriesInv'
           /\ FailFetch(l, f) => QueriesInv'
<1>1. ASSUME NEW e, EntryFits(e, Answer(l, f)), entry' = [entry EXCEPT ![l][f] = e],
             UNCHANGED <<focus, filter, changes, calls, panel>>
      PROVE  QueriesInv'
  <2>1. filter' \in [Lists -> AllFilters]
    BY <1>1 DEF QueriesInv
  <2> QED
    BY <1>1, <2>1, OneEntry
<1>2. ASSUME ServeFetch(l, f)
      PROVE  QueriesInv'
  BY <1>1, <1>2, EntryFacts DEF ServeFetch
<1>3. ASSUME AnswerFetch(l, f)
      PROVE  QueriesInv'
  BY <1>1, <1>3, EntryFacts DEF AnswerFetch
<1>4. ASSUME FailFetch(l, f)
      PROVE  QueriesInv'
  BY <1>1, <1>4, EntryFacts DEF FailFetch
<1> QED
  BY <1>2, <1>3, <1>4

\* No step of a page breaks what its lists rely on.
LEMMA QueriesStepKeeps ==
    ASSUME QueriesInv, ShellOK, QueriesStep
    PROVE  QueriesInv'
  BY ClicksKeep, ReadsKeep, CallsKeep, FetchesKeep DEF QueriesStep

\* A page opens with filters.
LEMMA DraftsAreFilters == \A p : Drafts(p) \subseteq [Lists -> AllFilters]
  BY DEF Drafts, AllFilters

\* Another page opens: the calls go on, the new page's lists appear.
LEMMA QueriesOpenKeeps ==
    ASSUME QueriesInv, NEW p, QueriesOpen(p)
    PROVE  QueriesInv'
<1>0. PICK g \in Drafts(p) : filter' = g
  BY DEF QueriesOpen
<1>1. PICK t : t = [l \in focus |-> [f \in AllFilters |->
           IF l \in ListsOf(p) /\ g[l] = f THEN Appear(entry[l][f]) ELSE entry[l][f]]]
  OBVIOUS
<1>2. /\ entry' = [l \in focus |-> [f \in AllFilters |-> t[l][f]]]
      /\ filter' = g /\ panel' = FALSE
      /\ calls' = {[c EXCEPT !.current = FALSE, !.here = FALSE] : c \in calls}
      /\ UNCHANGED <<focus, changes>>
  BY <1>0, <1>1 DEF QueriesOpen
<1>3. \A l \in focus, f \in AllFilters : EntryFits(t[l][f], Answer(l, f))
  BY <1>1, EntryFacts
<1>4. \A c \in calls : /\ [c EXCEPT !.current = FALSE, !.here = FALSE] \in CallRec
                       /\ [c EXCEPT !.current = FALSE, !.here = FALSE].pc = c.pc
                       /\ ChangeOf([c EXCEPT !.current = FALSE, !.here = FALSE]) = ChangeOf(c)
  BY DEF QueriesInv, CallRec, ChangeOf
<1>5. calls' \subseteq CallRec /\ \A c \in calls' : c.pc = "done" => ChangeOf(c) \in changes
  BY <1>2, <1>4 DEF QueriesInv
<1>6. filter' \in [Lists -> AllFilters] /\ panel' \in BOOLEAN
  BY <1>0, <1>2, DraftsAreFilters
<1> QED
  BY <1>2, <1>3, <1>5, <1>6, AllEntries

\* At first nobody was told anything.
LEMMA QueriesInitial ==
    ASSUME QueriesInit
    PROVE  QueriesInv
<1>1. NoEntry \in EntryRec /\ \A a \in SUBSET (1..MaxActs) : EntryFits(NoEntry, a)
  BY DEF NoEntry, EntryRec, EntryFits
<1>2. \A a \in SUBSET (1..MaxActs) : EntryFits(Appear(NoEntry), a)
  BY <1>1, EntryMoves
<1>3. \A l, f : Answer(l, f) = {}
  BY DEF QueriesInit, Answer
<1>4. /\ focus \in Foci /\ filter \in Drafts(page)
      /\ changes = {} /\ calls = {} /\ panel = FALSE
      /\ entry = [l \in focus |-> [f \in AllFilters |->
             IF l \in ListsOf(page) /\ filter[l] = f THEN Appear(NoEntry) ELSE NoEntry]]
  BY DEF QueriesInit
<1>5. \A l \in focus, f \in AllFilters : EntryFits(entry[l][f], Answer(l, f))
  BY <1>1, <1>2, <1>3, <1>4
<1>6. Appear(NoEntry) \in EntryRec
  BY <1>2 DEF EntryFits
<1>7. entry \in [focus -> [AllFilters -> EntryRec]]
  BY <1>1, <1>4, <1>6
<1>8. filter \in [Lists -> AllFilters]
  BY <1>4, DraftsAreFilters
<1> QED
  BY <1>4, <1>5, <1>7, <1>8 DEF QueriesInv

----------------------------------------------------------------------------
(* The billing page *)

\* The page waits for what it asked for when it opened, and for at most one
\* more answer per click.
BillingPageInv == BillingTypeOK /\ awaited <= Queries + acts

\* A render leaves the run at the address's check what it may be.
LEMMA RenderTypes ==
    ASSUME BillingTypeOK
    PROVE  /\ Render => sync' \in {"none", "asked"} /\ stale' \in BOOLEAN
           /\ \A others \in BOOLEAN :
                 Clean(others) => /\ url' = "plain" /\ sync' = "none" /\ stale' \in BOOLEAN
  BY DEF BillingTypeOK, Render, Clean

\* No step of the billing page leaves its variables' types.
LEMMA BillingStepKeeps ==
    ASSUME BillingPageInv, ShellOK, BillingStep
    PROVE  BillingPageInv'
<1> USE DEF BillingPageInv
<1>1. acts \in Nat /\ MaxActs \in Nat /\ acts <= MaxActs /\ awaited \in Nat
  BY ShellFacts DEF BillingTypeOK, Queries
<1>2. ASSUME UNCHANGED acts, awaited' \in {awaited, awaited - 1}, awaited' >= 0,
             url' \in {"success", "plain", "other"},
             sync' \in {"none", "asked"} /\ stale' \in BOOLEAN, past' \subseteq {"refetch", "resumed"},
             profile' \in [role : Role, plan : PlanCode], recon' \in ReconFilters,
             billCalls' \subseteq BillingOperation
      PROVE  BillingPageInv'
  BY <1>1, <1>2 DEF BillingTypeOK, Queries
<1>3. CASE AnswerSync \/ FailSync \/ Resume
  BY <1>1, <1>2, <1>3, RenderTypes
     DEF AnswerSync, FailSync, Resume, shellVars, BillingTypeOK, Clean
<1>4. ASSUME NEW succeeds \in BOOLEAN, NEW others \in BOOLEAN, EndStale(succeeds, others)
      PROVE  BillingPageInv'
  BY <1>1, <1>2, <1>4, RenderTypes DEF EndStale, shellVars, BillingTypeOK
<1>5. ASSUME NEW renders \in BOOLEAN, AnswerRefetch(renders)
      PROVE  BillingPageInv'
  BY <1>1, <1>2, <1>5, RenderTypes DEF AnswerRefetch, shellVars, BillingTypeOK
<1>6. CASE LoadProfile
  <2>1. session \in [role : Role, plan : PlanCode]
    BY ShellAssumption DEF ShellOK
  <2> QED
    BY <1>1, <1>2, <1>6, <2>1, RenderTypes DEF LoadProfile, shellVars, BillingTypeOK
<1>7. CASE LoadQuery
  BY <1>1, <1>2, <1>7, RenderTypes DEF LoadQuery, shellVars, BillingTypeOK
<1>8. ASSUME NEW field \in DOMAIN recon, SetRecon(field)
      PROVE  BillingPageInv'
  <2>1. recon' \in ReconFilters
    BY <1>8 DEF SetRecon, BillingTypeOK, ReconFilters
  <2>2. acts' = acts + 1 /\ acts' <= MaxActs /\ awaited' = awaited + 1
    BY <1>1, <1>8 DEF SetRecon, Act
  <2>3. awaited' \in 0..(Queries + MaxActs) /\ awaited' <= Queries + acts'
    BY <1>1, <2>2 DEF Queries
  <2>4. /\ sync' \in {"none", "asked"} /\ stale' \in BOOLEAN
        /\ UNCHANGED <<url, past, profile, billCalls>>
    BY <1>8, RenderTypes DEF SetRecon
  <2> QED
    BY <2>1, <2>3, <2>4 DEF BillingTypeOK
<1>9. ASSUME Act, Render, UNCHANGED <<url, past, awaited, profile, recon>>,
             billCalls' \subseteq BillingOperation
      PROVE  BillingPageInv'
  <2>1. awaited' <= Queries + acts'
    BY <1>1, <1>9 DEF Act, Queries
  <2> QED
    BY <1>9, <2>1, RenderTypes DEF BillingTypeOK
<1>10. ASSUME NEW op \in BillingOperation, BillingClick(op)
       PROVE  BillingPageInv'
  BY <1>9, <1>10 DEF BillingClick, BillingTypeOK
<1>11. CASE BillingEdit
  BY <1>9, <1>11 DEF BillingEdit, BillingTypeOK
<1>12. ASSUME NEW op \in BillingOperation, BillingAnswer(op)
       PROVE  BillingPageInv'
  BY <1>1, <1>2, <1>12, RenderTypes DEF BillingAnswer, shellVars, BillingTypeOK
<1> QED
  BY <1>3, <1>4, <1>5, <1>6, <1>7, <1>8, <1>10, <1>11, <1>12 DEF BillingStep

\* Neither does opening the page, nor leaving it.
LEMMA BillingOpenKeeps ==
    ASSUME BillingPageInv, ShellOK, Act, NEW p, BillingOpen(p)
    PROVE  BillingPageInv'
<1>1. acts' \in Nat /\ MaxActs \in Nat /\ awaited' \in {Queries, 0}
  BY ShellFacts DEF Act, BillingOpen
<1>2. \A w, a, m : w \in {3, 0} /\ a \in Nat /\ m \in Nat => w \in 0..(3 + m) /\ w <= 3 + a
  OBVIOUS
<1>3. awaited' \in 0..(Queries + MaxActs) /\ awaited' <= Queries + acts'
  BY <1>1, <1>2 DEF Queries
<1>4. profile' \in [role : Role, plan : PlanCode] /\ recon' \in ReconFilters
  BY DEF BillingOpen, Default, Role, PlanCode, NoFilters, ReconFilters
<1> QED
  BY <1>3, <1>4 DEF BillingOpen, BillingPageInv, BillingTypeOK

----------------------------------------------------------------------------
(* The console *)

PagesInv ==
    /\ ShellOK /\ page \in Page /\ part \in Parts
    /\ QueriesInv /\ TxInv /\ AgentsInv /\ RuleInv /\ BillingPageInv

\* At first nothing was clicked, and no call is under way.
LEMMA PagesInitial ==
    ASSUME Init
    PROVE  PagesInv
<1> USE ShellAssumption
<1>1. ShellOK /\ page \in Page /\ part \in Parts
  BY DEF Init, ShellInit, ShellOK, Landing, Page
<1>2. RuleInv
  BY DEF Init, AuthorizeInit, RuleInv, AuthorizeTypeOK, NoRule, Nothing, Shows, RuleOperation
<1>3. AgentsInv
  BY FS_EmptySet
     DEF Init, AgentsInit, AgentsInv, AgentsTypeOK, NoKeys, NoKey, FreeTierMaxAgents
<1>4. TxInv
  <2>1. /\ amount = (CHOOSE a \in Amounts : TRUE) /\ rows = <<>> /\ recover = "none"
        /\ txCalls = {} /\ orders = {} /\ txCalm = TRUE /\ kept = TRUE
    BY DEF Init, TransactionsInit
  <2>2. amount \in Amounts
    BY <2>1, AmountsAssumption
  <2>3. rows \in Seq(Order) /\ DOMAIN rows = {} /\ IsFiniteSet(orders)
    BY <2>1, FS_EmptySet
  <2> QED
    BY <2>1, <2>2, <2>3 DEF TxInv, Distinct
<1>5. BillingPageInv
  <2>1. /\ url \in {"success", "plain", "other"} /\ sync \in {"none", "asked"}
        /\ stale = FALSE /\ past = {} /\ awaited \in {0, Queries}
        /\ profile = Default /\ recon = NoFilters /\ billCalls = {}
    BY DEF Init, BillingInit
  <2>2. awaited \in 0..(Queries + MaxActs) /\ awaited <= Queries + acts
    BY <1>1, <2>1, ShellFacts DEF Queries
  <2>3. profile \in [role : Role, plan : PlanCode] /\ recon \in ReconFilters
    BY <2>1 DEF Default, Role, PlanCode, NoFilters, ReconFilters
  <2> QED
    BY <2>1, <2>2, <2>3 DEF BillingPageInv, BillingTypeOK
<1> QED
  BY <1>1, <1>2, <1>3, <1>4, <1>5, QueriesInitial DEF Init, PagesInv

\* What the parts do to the session: the clicks of the user are counted.
LEMMA ShellKept ==
    ASSUME ShellOK, [Next]_vars
    PROVE  ShellOK' /\ UNCHANGED session
<1>1. ASSUME Act
      PROVE  acts' \in 0..MaxActs
  BY <1>1, ShellAssumption DEF Act, ShellOK
<1>2. ASSUME acts' \in 0..MaxActs, UNCHANGED session
      PROVE  ShellOK' /\ UNCHANGED session
  BY <1>2 DEF ShellOK
<1>3. CASE \E p \in Page : Navigate(p)
  BY <1>1, <1>2, <1>3 DEF Navigate, OpenPage
<1>4. CASE QueriesStep
  BY <1>1, <1>2, <1>4, ShellFacts
     DEF QueriesStep, ShellOK, shellVars, Click, Retry, RefuseRecharge, Refresh, SetFilter,
         ClearFilters, ServeCall, AnswerCall, FailCall, ServeFetch, AnswerFetch, FailFetch
<1>5. CASE TransactionsStep
  BY <1>1, <1>2, <1>5
     DEF TransactionsStep, ShellOK, shellVars, SubmitPay, AskTool, RetryLastError, EditAmount,
         TxServe, TxAnswer, TxFail
<1>6. CASE AgentsStep
  BY <1>1, <1>2, <1>6
     DEF AgentsStep, ShellOK, shellVars, CreateAgent, EnsureSigningKey, FetchAgentCount,
         RegisterAgent, CreateAccount, EndCreation
<1>7. CASE AuthorizeStep
  BY <1>1, <1>2, <1>7
     DEF AuthorizeStep, ShellOK, shellVars, RuleClick, RuleRefuse, RuleServe, RuleAnswer, RuleFail
<1>8. CASE BillingStep
  BY <1>1, <1>2, <1>8
     DEF BillingStep, ShellOK, shellVars, AnswerSync, FailSync, EndStale, AnswerRefetch, Resume,
         LoadProfile, LoadQuery, SetRecon, BillingClick, BillingEdit, BillingAnswer
<1>9. CASE UNCHANGED vars
  BY <1>2, <1>9 DEF vars, shellVars, ShellOK
<1> QED
  BY <1>3, <1>4, <1>5, <1>6, <1>7, <1>8, <1>9 DEF Next

\* The number of clicks never goes down, and only links change the page.
LEMMA ClicksCount ==
    ASSUME ShellOK, Next
    PROVE  /\ acts' \in Nat /\ acts \in Nat /\ acts <= acts'
           /\ page \in Page => page' \in Page
<1>1. ASSUME NEW p \in Page, Navigate(p)
      PROVE  Act /\ page' = p
  BY <1>1 DEF Navigate, OpenPage
<1>2. ASSUME QueriesStep
      PROVE  (Act \/ UNCHANGED acts) /\ UNCHANGED page
  BY <1>2
     DEF QueriesStep, shellVars, Click, Retry, RefuseRecharge, Refresh, SetFilter,
         ClearFilters, ServeCall, AnswerCall, FailCall, ServeFetch, AnswerFetch, FailFetch
<1>3. ASSUME TransactionsStep
      PROVE  (Act \/ UNCHANGED acts) /\ UNCHANGED page
  BY <1>3
     DEF TransactionsStep, shellVars, SubmitPay, AskTool, RetryLastError, EditAmount,
         TxServe, TxAnswer, TxFail
<1>4. ASSUME AgentsStep
      PROVE  (Act \/ UNCHANGED acts) /\ UNCHANGED page
  BY <1>4
     DEF AgentsStep, shellVars, CreateAgent, EnsureSigningKey, FetchAgentCount,
         RegisterAgent, CreateAccount, EndCreation
<1>5. ASSUME AuthorizeStep
      PROVE  (Act \/ UNCHANGED acts) /\ UNCHANGED page
  BY <1>5
     DEF AuthorizeStep, shellVars, RuleClick, RuleRefuse, RuleServe, RuleAnswer, RuleFail
<1>6. ASSUME BillingStep
      PROVE  (Act \/ UNCHANGED acts) /\ UNCHANGED page
  BY <1>6
     DEF BillingStep, shellVars, AnswerSync, FailSync, EndStale, AnswerRefetch, Resume,
         LoadProfile, LoadQuery, SetRecon, BillingClick, BillingEdit, BillingAnswer
<1>7. acts \in Nat /\ ((Act \/ UNCHANGED acts) => acts' \in Nat /\ acts <= acts')
  BY ShellFacts DEF Act
<1> QED
  BY <1>1, <1>2, <1>3, <1>4, <1>5, <1>6, <1>7 DEF Next, Navigate, OpenPage

\* A step works in one page only: what the others rely on is as it was.
LEMMA OthersKept ==
    ASSUME PagesInv, UNCHANGED session, acts' \in Nat, acts <= acts'
    PROVE  /\ UNCHANGED queriesVars => QueriesInv'
           /\ UNCHANGED txVars => TxInv'
           /\ UNCHANGED agVars => AgentsInv'
           /\ UNCHANGED ruleVars => RuleInv'
           /\ UNCHANGED billingVars => BillingPageInv'
<1>1. acts \in Nat
  BY ShellFacts DEF PagesInv
<1>2. ASSUME UNCHANGED queriesVars
      PROVE  QueriesInv'
  BY <1>2, EntriesKept DEF PagesInv, QueriesInv, queriesVars
<1>3. ASSUME UNCHANGED txVars
      PROVE  TxInv'
  <2>1. /\ TxInv
        /\ UNCHANGED <<amount, rows, recover, txCalls, orders, txCalm, kept>>
    BY <1>3 DEF PagesInv, txVars
  <2>2. /\ \A o \in orders : o.id <= acts'
        /\ \A i \in DOMAIN rows : rows[i].id <= acts'
        /\ \A c \in txCalls : c.n <= acts' /\ CallFits(c)
    BY <1>1, <2>1, TxFacts
  <2>3. \A c \in txCalls : CallFits(c)'
    BY <2>1, <2>2 DEF CallFits, Shown, OrderOf
  <2> QED
    BY <2>1, <2>2, <2>3 DEF TxInv, Distinct
<1>4. ASSUME UNCHANGED agVars
      PROVE  AgentsInv'
  BY <1>4 DEF PagesInv, agVars, AgentsInv, AgentsTypeOK, Progress
<1>5. ASSUME UNCHANGED ruleVars
      PROVE  RuleInv'
  BY <1>5 DEF PagesInv, ruleVars, RuleInv, AuthorizeTypeOK, Shows
<1>6. ASSUME UNCHANGED billingVars
      PROVE  BillingPageInv'
  <2>1. awaited \in Nat /\ awaited <= Queries + acts'
    <3>1. awaited \in 0..(Queries + MaxActs) /\ awaited <= Queries + acts
      BY DEF PagesInv, BillingPageInv, BillingTypeOK
    <3>2. \A w, a, b, m : /\ a \in Nat /\ b \in Nat /\ m \in Nat /\ a <= b
                          /\ w \in 0..(3 + m) /\ w <= 3 + a
                          => w \in Nat /\ w <= 3 + b
      OBVIOUS
    <3>3. MaxActs \in Nat
      BY ShellAssumption
    <3> QED
      BY <1>1, <3>1, <3>2, <3>3 DEF Queries
  <2> QED
    BY <1>6, <2>1 DEF PagesInv, BillingPageInv, BillingTypeOK, billingVars
<1> QED
  BY <1>2, <1>3, <1>4, <1>5, <1>6

\* A link leaves the page and keeps what every part relies on; any other step
\* works in one part and leaves the others alone.
LEMMA PagesInductive ==
    ASSUME PagesInv, [Next]_vars
    PROVE  PagesInv'
<1>1. ShellOK' /\ UNCHANGED session
  BY ShellKept DEF PagesInv
<1>2. CASE UNCHANGED vars
  <2>1. acts' \in Nat /\ acts <= acts'
    BY <1>2, ShellFacts DEF vars, shellVars, PagesInv
  <2> QED
    BY <1>1, <1>2, <2>1, OthersKept DEF vars, pageVars, shellVars, PagesInv
<1>3. CASE Next
  <2>1. acts' \in Nat /\ acts <= acts' /\ page' \in Page /\ part' \in Parts
    BY <1>3, ClicksCount DEF PagesInv, Next, Navigate
  <2>2. /\ UNCHANGED queriesVars => QueriesInv'
        /\ UNCHANGED txVars => TxInv'
        /\ UNCHANGED agVars => AgentsInv'
        /\ UNCHANGED ruleVars => RuleInv'
        /\ UNCHANGED billingVars => BillingPageInv'
    BY <1>1, <2>1, OthersKept
  <2>3. ASSUME NEW p \in Page, Navigate(p)
        PROVE  PagesInv'
    <3>1. /\ Act /\ QueriesOpen(p) /\ TransactionsOpen /\ AgentsOpen /\ AuthorizeOpen
          /\ BillingOpen(p)
      BY <2>3 DEF Navigate, OpenPage
    <3>2. QueriesInv' /\ TxInv' /\ BillingPageInv'
      BY <3>1, QueriesOpenKeeps, TransactionsOpenKeeps, BillingOpenKeeps DEF PagesInv
    <3>3. AgentsInv' /\ RuleInv'
      BY <1>1, <3>1, AgentsOpenKeeps, RuleOpenKeeps DEF PagesInv
    <3> QED
      BY <1>1, <2>1, <3>2, <3>3 DEF PagesInv
  <2>4. CASE QueriesStep /\ UNCHANGED <<txVars, agVars, ruleVars, billingVars>>
    <3>1. QueriesInv'
      BY <2>4, QueriesStepKeeps DEF PagesInv
    <3> QED
      BY <1>1, <2>1, <2>2, <2>4, <3>1 DEF PagesInv
  <2>5. CASE TransactionsStep /\ UNCHANGED <<queriesVars, agVars, ruleVars, billingVars>>
    <3>1. TxInv'
      BY <2>5, TransactionsStepKeeps DEF PagesInv
    <3> QED
      BY <1>1, <2>1, <2>2, <2>5, <3>1 DEF PagesInv
  <2>6. CASE AgentsStep /\ UNCHANGED <<queriesVars, txVars, ruleVars, billingVars>>
    <3>1. AgentsInv'
      BY <2>6, AgentsStepKeeps DEF PagesInv
    <3> QED
      BY <1>1, <2>1, <2>2, <2>6, <3>1 DEF PagesInv
  <2>7. CASE AuthorizeStep /\ UNCHANGED <<queriesVars, txVars, agVars, billingVars>>
    <3>1. RuleInv'
      BY <2>7, RuleStepKeeps DEF PagesInv
    <3> QED
      BY <1>1, <2>1, <2>2, <2>7, <3>1 DEF PagesInv
  <2>8. CASE BillingStep /\ UNCHANGED <<queriesVars, txVars, agVars, ruleVars>>
    <3>1. BillingPageInv'
      BY <2>8, BillingStepKeeps DEF PagesInv
    <3> QED
      BY <1>1, <2>1, <2>2, <2>8, <3>1 DEF PagesInv
  <2> QED
    BY <1>3, <2>3, <2>4, <2>5, <2>6, <2>7, <2>8 DEF Next
<1> QED
  BY <1>2, <1>3

\* What the pages rely on always holds.
LEMMA PagesInvariant == Spec => []PagesInv
<1>1. Init => PagesInv
  BY PagesInitial
<1>2. PagesInv /\ [Next]_vars => PagesInv'
  BY PagesInductive
<1> QED
  BY <1>1, <1>2, PTL DEF Spec

\* What the authorize page last said of the rule is so when nothing is under
\* way, as long as its calls never overlapped.
THEOREM ConsoleTellsTheRule == Spec => []ToldRuleHolds
<1>1. PagesInv => ToldRuleHolds
  BY DEF PagesInv, RuleInv, Shows, ToldRuleHolds
<1> QED
  BY <1>1, PagesInvariant, PTL

\* The key the browser signs with is the one the backend checks against, for
\* every agent that has an account, as long as creations never overlapped and no
\* insert failed unnoticed.
THEOREM ConsoleKeysMatch == Spec => []CalmKeysMatch
<1>1. PagesInv => CalmKeysMatch
  BY DEF PagesInv, AgentsInv, AgentsTypeOK, CalmKeysMatch
<1> QED
  BY <1>1, PagesInvariant, PTL

\* A free plan keeps to its number of agents, as long as creations never
\* overlapped and every count could be read.
THEOREM ConsoleKeepsFreeTier == Spec => []CalmFreeTierHolds
<1>1. PagesInv => CalmFreeTierHolds
  BY DEF PagesInv, AgentsInv, CalmFreeTierHolds
<1> QED
  BY <1>1, PagesInvariant, PTL

\* The variables of the console's pages keep their types.
THEOREM ConsoleTyping == Spec => []TypeOK
<1>1. ASSUME PagesInv
      PROVE  TypeOK
  <2>1. QueriesTypeOK
    BY <1>1 DEF PagesInv, QueriesInv, ChangeRec, QueriesTypeOK
  <2>2. TransactionsTypeOK
    <3>1. \A i \in DOMAIN rows : rows[i] \in Order
      BY <1>1, TxFacts DEF PagesInv
    <3> QED
      BY <1>1, <3>1 DEF PagesInv, TxInv, TxCallRec, TransactionsTypeOK
  <2>3. AgentsTypeOK /\ AuthorizeTypeOK /\ BillingTypeOK
    BY <1>1 DEF PagesInv, AgentsInv, RuleInv, BillingPageInv
  <2> QED
    BY <1>1, <2>1, <2>2, <2>3 DEF PagesInv, ShellOK, TypeOK
<1> QED
  BY <1>1, PagesInvariant, PTL

\* Once a page has said that a change was made, a list it shows that is at rest
\* and could be read shows the change, unless the message came while the list
\* was read for the first time and the answer on its way had been made before
\* the change: that answer stays until the list is read again.
THEOREM ConsoleShowsWhatItTold == Spec => []ShowsWhatItTold
<1>1. PagesInv => ShowsWhatItTold
  BY DEF PagesInv, QueriesInv, EntryFits, ShowsWhatItTold
<1> QED
  BY <1>1, PagesInvariant, PTL

\* What the transactions page calls a payment is one the backend made, with its
\* amount, as long as nobody edits the amount while a payment is under way; and
\* it is on screen once, as long as calls never overlap.
THEOREM ConsoleRowsArePayments == Spec => []RowsArePayments
<1>1. PagesInv => RowsArePayments
  BY DEF PagesInv, TxInv, Distinct, RowsArePayments
<1> QED
  BY <1>1, PagesInvariant, PTL

=============================================================================
