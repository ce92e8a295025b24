------------------------------ MODULE AgentsPage ------------------------------
(***************************************************************************)
(* Creating an agent: the browser makes the agent's signing key and keeps  *)
(* it in local storage, registers the public key for the DID, and then     *)
(* opens an account for it.  The proxy lets a free plan register only      *)
(* while it counts no agent yet.  The storage is shared by the tabs of the *)
(* browser and by a page that was left and opened again, so creations may  *)
(* overlap.  A key is the number of the creation that made it.             *)
(* Left out: the list of agents, whose length may disable the button (what *)
(* is loaded may be behind, and the proxy has the last word), and the      *)
(* foreign key that refuses an account when the insert of its DID failed.  *)
(***************************************************************************)
EXTENDS ConsoleShell, FiniteSets

CONSTANTS Dids    \* agents that may be created

VARIABLES keyMap,      \* local storage: the signing key of a DID, or NoKey
          creations,   \* the creations under way
          pubKeys,     \* the backend's public key of a DID, or NoKey
          accounts,    \* the DIDs that have an account
          agCalm,      \* no creation was started while another was under way
          smooth       \* every count of the agents was read, and no insert of a DID failed

agVars == <<keyMap, creations, pubKeys, accounts, agCalm, smooth>>

NoKey == 0
NoKeys == [d \in Dids |-> NoKey]
Creation == [did : Dids, n : 1..MaxActs, tab : {"this", "other"}, here : BOOLEAN,
             pc : {"keygen", "register", "counted", "account", "created"},
             map : [Dids -> 0..MaxActs], key : 0..MaxActs]

Becomes(c, d) == creations' = (creations \ {c}) \cup {d}

----------------------------------------------------------------------------
(* The browser *)

\* loadKeyMap: what is stored now is what a new key will be added to.  Once the
\* key is there, map plays no part any more.
LoadKeyMap(did, tab) ==
    [did |-> did, n |-> acts + 1, tab |-> tab, here |-> TRUE,
     map |-> IF keyMap[did] = NoKey THEN keyMap ELSE NoKeys,
     key |-> keyMap[did], pc |-> IF keyMap[did] = NoKey THEN "keygen" ELSE "register"]

\* The button is disabled while the creation its page started is pending.
CreateAgent(did, tab) ==
    /\ Act
    /\ tab = "this" => page = "agents"
    /\ \A c \in creations : ~(c.tab = tab /\ c.here)
    /\ creations' = creations \cup {LoadKeyMap(did, tab)}
    /\ agCalm' = (agCalm /\ creations = {})
    /\ UNCHANGED <<session, page, keyMap, pubKeys, accounts, smooth>>

\* saveKeyMap writes the whole map that was read before the key was made.
Mutant_SavedMap(c) == [d \in Dids |-> IF d = c.did THEN c.n ELSE NoKey]
SavedMap(c) == [c.map EXCEPT ![c.did] = c.n]

EnsureSigningKey(c) ==
    /\ c.pc = "keygen"
    /\ keyMap' = SavedMap(c)
    /\ Becomes(c, [c EXCEPT !.key = c.n, !.pc = "register", !.map = NoKeys])
    /\ UNCHANGED <<shellVars, pubKeys, accounts, agCalm, smooth>>

----------------------------------------------------------------------------
(* The proxy and the backend *)

\* fetchAgentCount, then the plan's limit; a count that cannot be read stops
\* nobody.
FetchAgentCount(c, known) ==
    /\ c.pc = "register"
    /\ Forwards(TRUE, session.role, session.plan, "register", known, Cardinality(accounts))
    /\ smooth' = (smooth /\ known)
    /\ Becomes(c, [c EXCEPT !.pc = "counted"])
    /\ UNCHANGED <<shellVars, keyMap, pubKeys, accounts, agCalm>>

\* Registering a DID again replaces its public key.  The result of inserting a
\* new DID is ignored: when it failed, there is no row to store the key in, and
\* the answer is success all the same.
RegisterAgent(c, inserts) ==
    /\ c.pc = "counted"
    /\ LET kept == inserts \/ pubKeys[c.did] # NoKey
       IN  /\ pubKeys' = IF kept THEN [pubKeys EXCEPT ![c.did] = c.key] ELSE pubKeys
           /\ smooth' = (smooth /\ kept)
    /\ Becomes(c, [c EXCEPT !.pc = "account"])
    /\ UNCHANGED <<shellVars, keyMap, accounts, agCalm>>

\* A DID has one account: inserting another fails, and that insert's result is
\* ignored as well, so the answer then shows an account that does not exist.
CreateAccount(c, inserts) ==
    /\ c.pc = "account" /\ Reaches("createAccount")
    /\ accounts' = IF inserts THEN accounts \cup {c.did} ELSE accounts
    /\ Becomes(c, [c EXCEPT !.pc = "created"])
    /\ UNCHANGED <<shellVars, keyMap, pubKeys, agCalm, smooth>>

\* The creation is answered; or it is refused, fails, or loses its answer, at
\* whatever point it is.
EndCreation(c) ==
    /\ creations' = creations \ {c}
    /\ UNCHANGED <<shellVars, keyMap, pubKeys, accounts, agCalm, smooth>>

AgentsOpen ==
    /\ creations' = {IF c.tab = "this" THEN [c EXCEPT !.here = FALSE] ELSE c : c \in creations}
    /\ UNCHANGED <<keyMap, pubKeys, accounts, agCalm, smooth>>

AgentsInit ==
    /\ keyMap = NoKeys
    /\ creations = {}
    /\ pubKeys = NoKeys
    /\ accounts = {}
    /\ agCalm = TRUE /\ smooth = TRUE

AgentsStep ==
    \/ \E did \in Dids, tab \in {"this", "other"} : CreateAgent(did, tab)
    \/ \E c \in creations :
          \/ EnsureSigningKey(c)
          \/ \E known \in BOOLEAN : FetchAgentCount(c, known)
          \/ \E inserts \in BOOLEAN : RegisterAgent(c, inserts) \/ CreateAccount(c, inserts)
          \/ EndCreation(c)

----------------------------------------------------------------------------
(* Properties *)

AgentsTypeOK ==
    /\ keyMap \in [Dids -> 0..MaxActs]
    /\ creations \subseteq Creation
    /\ pubKeys \in [Dids -> 0..MaxActs]
    /\ accounts \subseteq Dids
    /\ agCalm \in BOOLEAN /\ smooth \in BOOLEAN

\* The key the browser signs payments of an agent with is the one the backend
\* checks them against, whatever step a creation failed or was repeated at, as
\* long as creations never overlap and no insert of a DID fails unnoticed.  When
\* they overlap, the map saved last drops the other's key, and the payments of
\* that agent go out without a signature.
CalmKeysMatch ==
    agCalm /\ smooth =>
        \A did \in accounts : keyMap[did] # NoKey /\ pubKeys[did] = keyMap[did]

\* A free plan never has more agents than its limit, though the count is
\* taken before the registration and the account is opened after it, as long as
\* creations never overlap and every count could be read.
CalmFreeTierHolds ==
    agCalm /\ smooth /\ session.plan = "free" => Cardinality(accounts) <= FreeTierMaxAgents

=============================================================================
