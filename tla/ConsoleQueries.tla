--------------------------- MODULE ConsoleQueries ---------------------------
(***************************************************************************)
(* The lists the pages show and the changes their buttons make.            *)
(*                                                                         *)
(* A page reads each list through the query cache of                       *)
(* components/query-provider.tsx (one retry, no refetch on focus) and      *)
(* changes the backend through mutations; when one is answered, the page   *)
(* says so and must see to it that its lists are read again.  The tables   *)
(* below are the mutations, buttons and refreshes of the developer,        *)
(* recharge, agents and authorize pages; the actions say what the cache    *)
(* and the network make of them.  A list's contents are the changes it     *)
(* shows, a change the number of the click that made it; the fields a list *)
(* is filtered by are one value, "all" or one of Filters.                  *)
(***************************************************************************)
EXTENDS ConsoleShell, FiniteSets

CONSTANTS Filters,   \* filter values other than "all"
          Foci       \* sets of lists, one of which a behaviour looks at

VARIABLES focus,     \* the lists looked at
          entry,     \* entry[l][f]: the cache entry of list l under filter f
          filter,    \* filter[l]: the filter the page shows list l under
          changes,   \* the changes the backend has made
          calls,     \* the mutations under way
          panel      \* the recharge page shows an error with a retry button

queriesVars == <<focus, entry, filter, changes, calls, panel>>

----------------------------------------------------------------------------
(* Lists *)

DeveloperLists == {"apiKeys", "webhooks", "stats", "deliveries", "riskConfig",
                   "channelRoutes", "auditLogs", "adminUsers", "adminUserAuditLogs"}
RechargeLists == {"recharges", "timelineRecharges", "vaTransfers"}
Lists == DeveloperLists \cup RechargeLists

ListsOf(p) ==
    IF p = "developer" THEN DeveloperLists
    ELSE IF p = "recharge" THEN RechargeLists
    ELSE {}

\* The lists with a field, a select or a page number in their key.
Filtered == {"deliveries", "auditLogs", "recharges", "timelineRecharges", "vaTransfers"}
\* The user list is asked of a route that does not exist.
Unreadable == {"adminUsers", "adminUserAuditLogs"}

AllFilters == Filters \cup {"all"}
Matches(f, about) == f = "all" \/ f = about

----------------------------------------------------------------------------
(* Mutations: the call, the lists its message is about, the lists it has   *)
(* read again, and whether it puts its answer into the cache itself.  Some *)
(* change a list the page then neither mentions nor reads again.           *)

Mutation(call, about, refreshes) ==
    [call |-> call, about |-> about, refreshes |-> refreshes, seeds |-> FALSE, besides |-> {}]
Seeding(m) == [m EXCEPT !.seeds = TRUE]
Besides(m, lists) == [m EXCEPT !.besides = lists]

CreateApiKey == Seeding(Mutation("createApiKey", {"apiKeys"}, {"apiKeys"}))
CreateWebhook == Seeding(Mutation("createWebhook", {"webhooks"}, {"webhooks"}))
\* Invalidating ["developer", "deliveries"] takes the statistics along.
ReplayDelivery ==
    LET lists == {"deliveries", "stats"}
    IN  Besides(Mutation("replayWebhookDelivery", lists, lists), {"auditLogs"})
Mutant_SetRisk == Mutation("setRiskConfig", {"riskConfig", "auditLogs"}, {"riskConfig"})
SetRisk ==
    LET lists == {"riskConfig", "auditLogs"} IN Mutation("setRiskConfig", lists, lists)
SetChannelRoute ==
    LET lists == {"channelRoutes", "auditLogs"} IN Mutation("setChannelRoute", lists, lists)
DeleteChannelRoute ==
    LET lists == {"channelRoutes", "auditLogs"} IN Mutation("deleteChannelRoute", lists, lists)
AdminUserMutations ==
    [n \in {"createAdminUser", "setAdminUserDisabled", "setAdminUserRole", "setAdminUserPlan",
            "resetAdminUserPassword"} |->
        LET lists == IF n = "resetAdminUserPassword" THEN {"adminUserAuditLogs"}
                     ELSE {"adminUsers", "adminUserAuditLogs"}
        IN  Mutation(n, lists, lists)]
Recharge ==
    Besides(Mutation("recharge", {"recharges"}, {"recharges"}), {"timelineRecharges"})
Transfer ==
    Besides(Mutation("transferVA", {"vaTransfers"}, {"recharges", "vaTransfers"}), {"auditLogs"})
\* The interest query, the top-up configuration read and saved: on the page all
\* three only show their answer, so one stands for them; saving is audited.
AccountTool == Besides(Mutation("setVATopupConfig", {}, {}), {"auditLogs"})

PageMutations ==
    [createApiKey |-> CreateApiKey, createWebhook |-> CreateWebhook, replay |-> ReplayDelivery,
     setRisk |-> SetRisk, setChannelRoute |-> SetChannelRoute,
     deleteChannelRoute |-> DeleteChannelRoute, recharge |-> Recharge, transfer |-> Transfer,
     accountTool |-> AccountTool]

Mutations ==
    [n \in DOMAIN PageMutations \cup DOMAIN AdminUserMutations |->
        IF n \in DOMAIN PageMutations THEN PageMutations[n] ELSE AdminUserMutations[n]]

\* recharge and transfer have their own page's lists read again; the others
\* every list on screen.
PageBound == {"recharge", "transfer"}

----------------------------------------------------------------------------
(* Buttons: the mutation, whether it is disabled while that mutation is     *)
(* pending, and the list whose rows carry it, if one does.                  *)

Button(does, blocks, rowOf) == [does |-> does, blocks |-> blocks, rowOf |-> rowOf]
Form(does) == Button(does, TRUE, "none")
OnRow(does, l) == Button(does, FALSE, l)

UserButtons ==
    {Form("createAdminUser")}
    \cup {OnRow(n, "adminUsers") :
             n \in {"setAdminUserPlan", "setAdminUserRole", "setAdminUserDisabled",
                    "resetAdminUserPassword"}}
KeyButtons == {Form("createApiKey")}
WebhookButtons == {Form("createWebhook")}
DeliveryButtons == {Button("replay", TRUE, "deliveries")}
RiskButtons == {Form("setRisk")}
RouteButtons == {Form("setChannelRoute"), OnRow("deleteChannelRoute", "channelRoutes")}
RechargeForm == {Form("recharge")}
AccountButtons == {Button("accountTool", FALSE, "none")}
TransferForm == {Button("transfer", FALSE, "none")}

ButtonsOf(p) ==
    IF p = "developer" THEN UserButtons \cup KeyButtons \cup WebhookButtons \cup DeliveryButtons
                            \cup RiskButtons \cup RouteButtons
    ELSE IF p = "recharge" THEN RechargeForm \cup AccountButtons \cup TransferForm
    ELSE {}

\* The refresh buttons, each with the lists it asks for again.
DeliveryRefresh == {{"deliveries", "stats"}}
DeliveryReload == {{"deliveries"}}
AuditRefresh == {{"auditLogs"}}
ApplyFilters == {{"timelineRecharges", "vaTransfers"}}
TimelineRefresh == {{"timelineRecharges", "recharges", "vaTransfers"}}

RefreshesOf(p) ==
    IF p = "developer" THEN DeliveryRefresh \cup DeliveryReload \cup AuditRefresh
    ELSE IF p = "recharge" THEN ApplyFilters \cup TimelineRefresh
    ELSE {}

----------------------------------------------------------------------------
(* The cache: what the library does with one entry.                        *)

NoEntry == [loaded |-> FALSE, data |-> {}, fetch |-> "idle", got |-> {}, tries |-> 0,
            failed |-> FALSE, told |-> {}, missed |-> {}]
Asked(e) == [e EXCEPT !.fetch = "asked", !.got = {}, !.tries = 0, !.missed = {}]

\* A list that appears is fetched, unless a fetch is under way already.
Appear(e) == IF e.fetch = "idle" THEN Asked(e) ELSE e

\* Asking again cancels the fetch under way, but joins it if it is the first.
Joins(e) == e.fetch # "idle" /\ ~e.loaded
Refetch(e) == IF Joins(e) THEN e ELSE Asked(e)

Served(e, answer) == [e EXCEPT !.fetch = "served", !.got = answer]
Answered(e) == [e EXCEPT !.loaded = TRUE, !.data = e.got, !.fetch = "idle", !.failed = FALSE]
\* retry: 1.
Mutant_Failed(e) == [Asked(e) EXCEPT !.tries = e.tries + 1]
Failed(e) ==
    IF e.tries = 0 THEN [Asked(e) EXCEPT !.tries = 1]
    ELSE [e EXCEPT !.fetch = "idle", !.got = {}, !.tries = 0, !.failed = TRUE]

\* setQueryData: the answer is put in front of what the list shows.
Seed(e, n) == [e EXCEPT !.loaded = TRUE, !.data = @ \cup {n}]

\* The user is told of change n: an answer already on its way may lack it.
Told(e, n) ==
    LET missed == IF Joins(e) /\ e.fetch = "served" /\ n \notin e.got THEN {n} ELSE {}
    IN  [e EXCEPT !.told = @ \cup {n}, !.missed = @ \cup missed]

OnScreen(l, f) == l \in ListsOf(page) /\ filter[l] = f
HasRows(l) == l \in focus => entry[l][filter[l]].loaded

\* What a successful mutation does to the entry it is about or refreshes.  The
\* entry remembers the change when the user is told of it with the list on
\* screen, and that it was missed when the read meant to show it joined the
\* list's first one, which the backend had already answered without it.
AfterSuccess(e, l, f, c) ==
    LET m == Mutations[c.does]
        seeded == IF m.seeds /\ l \in m.about THEN Seed(e, c.n) ELSE e
        reaches == OnScreen(l, f) /\ (c.does \in PageBound => c.here)
        tells == l \in m.about /\ reaches /\ Matches(f, c.about)
        fetched == IF l \in m.refreshes /\ reaches THEN Refetch(seeded) ELSE seeded
    IN  IF tells THEN Told(fetched, c.n) ELSE fetched

\* What the backend would answer to a read of list l under filter f.
Answer(l, f) ==
    {c.n : c \in {x \in changes : /\ l \in Mutations[x.does].about \cup Mutations[x.does].besides
                                  /\ Matches(f, x.about)}}

----------------------------------------------------------------------------
(* The user *)

Pending(does) == \E c \in calls : c.does = does /\ c.current

\* Only what touches the lists looked at is followed.
Watched(does) ==
    LET m == Mutations[does]
    IN  \/ (m.about \cup m.refreshes \cup m.besides) \cap focus # {}
        \/ m.about = {} /\ "recharges" \in focus

\* mutate(): the call leaves with what the form holds at this moment.
Start(does, about) ==
    calls' = {IF c.does = does THEN [c EXCEPT !.current = FALSE] ELSE c : c \in calls}
             \cup {[does |-> does, n |-> acts + 1, about |-> about, pc |-> "asked",
                current |-> TRUE, here |-> TRUE]}

\* The account of a recharge is the one its list is filtered by, or else the
\* owner of the card number.
About(does, about) ==
    does = "recharge" /\ filter["recharges"] # "all" => about = filter["recharges"]

Click(b, about) ==
    /\ Act
    /\ b \in ButtonsOf(page) /\ Watched(b.does)
    /\ b.blocks => ~Pending(b.does)
    /\ HasRows(b.rowOf)
    /\ About(b.does, about)
    /\ Start(b.does, about)
    /\ panel' = (panel /\ b.does # "recharge")
    /\ UNCHANGED <<session, page, focus, entry, filter, changes>>

\* The recharge form refuses its input: the error panel goes away as well.
RefuseRecharge ==
    /\ Act /\ page = "recharge" /\ panel /\ ~Pending("recharge")
    /\ panel' = FALSE
    /\ UNCHANGED <<session, page, focus, entry, filter, changes, calls>>

\* The panel's retry button recharges again: no check, never disabled.
Retry(about) ==
    /\ Act /\ page = "recharge" /\ panel
    /\ About("recharge", about)
    /\ Start("recharge", about)
    /\ UNCHANGED <<session, page, focus, entry, filter, changes, panel>>

Onto(lists, Step(_)) ==
    entry' = [l \in focus |-> [f \in AllFilters |->
        IF l \in lists /\ filter[l] = f THEN Step(entry[l][f]) ELSE entry[l][f]]]

Refresh(lists) ==
    /\ Act
    /\ lists \in RefreshesOf(page) /\ lists \cap focus # {}
    /\ Onto(lists, Refetch)
    /\ UNCHANGED <<session, page, focus, filter, changes, calls, panel>>

\* A filter is changed: the list under the new key appears.
SetFilter(l, f) ==
    /\ Act
    /\ l \in Filtered \cap ListsOf(page) \cap focus /\ filter[l] # f
    /\ filter' = [filter EXCEPT ![l] = f]
    /\ entry' = [entry EXCEPT ![l][f] = Appear(@)]
    /\ UNCHANGED <<session, page, focus, changes, calls, panel>>

\* clearTransferFilters asks for the lists under the old key; the new one
\* appears with the next render.  Applying the filters on a later page of the
\* transfers goes back to the first in the same way.
ClearFilters ==
    LET lists == {"timelineRecharges", "vaTransfers"} \cap focus
    IN  /\ Act /\ page = "recharge" /\ lists # {}
        /\ filter' = [l \in Lists |-> IF l = "vaTransfers" THEN "all" ELSE filter[l]]
        /\ entry' = [l \in focus |-> [f \in AllFilters |->
               LET e == IF l \in lists /\ filter[l] = f THEN Refetch(entry[l][f]) ELSE entry[l][f]
               IN  IF l \in lists /\ filter'[l] = f THEN Appear(e) ELSE e]]
        /\ UNCHANGED <<session, page, focus, changes, calls, panel>>

\* The filters a page opens with.
Drafts(p) ==
    {[l \in Lists |-> IF l = "recharges" /\ p = "recharge" THEN f ELSE "all"] : f \in AllFilters}

\* Leaving a page drops its forms and its pending buttons; the calls go on, and
\* so do the fetches.  The lists of the page that opens appear; the recharge
\* form, and with it its list's filter, comes back as this browser last left it.
QueriesOpen(p) ==
    /\ filter' \in Drafts(p)
    /\ calls' = {[c EXCEPT !.current = FALSE, !.here = FALSE] : c \in calls}
    /\ panel' = FALSE
    /\ entry' = [l \in focus |-> [f \in AllFilters |->
           IF l \in ListsOf(p) /\ filter'[l] = f THEN Appear(entry[l][f]) ELSE entry[l][f]]]
    /\ UNCHANGED <<focus, changes>>

----------------------------------------------------------------------------
(* The network and the backend *)

ServeCall(c) ==
    /\ c.pc = "asked" /\ Reaches(Mutations[c.does].call)
    /\ calls' = (calls \ {c}) \cup {[c EXCEPT !.pc = "done"]}
    /\ changes' = changes \cup {[does |-> c.does, n |-> c.n, about |-> c.about]}
    /\ UNCHANGED <<shellVars, focus, entry, filter, panel>>

AnswerCall(c) ==
    /\ c.pc = "done"
    /\ calls' = calls \ {c}
    /\ entry' = [l \in focus |-> [f \in AllFilters |-> AfterSuccess(entry[l][f], l, f, c)]]
    /\ panel' = (panel /\ ~c.here)
    /\ UNCHANGED <<shellVars, focus, filter, changes>>

\* The call is refused or fails, or its answer is lost: an error either way.
FailCall(c) ==
    /\ calls' = calls \ {c}
    /\ panel' = (panel \/ (c.here /\ page = "recharge"))
    /\ UNCHANGED <<shellVars, focus, entry, filter, changes>>

ServeFetch(l, f) ==
    /\ entry[l][f].fetch = "asked" /\ l \notin Unreadable
    /\ entry' = [entry EXCEPT ![l][f] = Served(@, Answer(l, f))]
    /\ UNCHANGED <<shellVars, focus, filter, changes, calls, panel>>

AnswerFetch(l, f) ==
    /\ entry[l][f].fetch = "served"
    /\ entry' = [entry EXCEPT ![l][f] = Answered(@)]
    /\ UNCHANGED <<shellVars, focus, filter, changes, calls, panel>>

FailFetch(l, f) ==
    /\ entry[l][f].fetch # "idle"
    /\ entry' = [entry EXCEPT ![l][f] = Failed(@)]
    /\ UNCHANGED <<shellVars, focus, filter, changes, calls, panel>>

QueriesInit ==
    /\ focus \in Foci /\ filter \in Drafts(page)
    /\ entry = [l \in focus |-> [f \in AllFilters |->
           IF l \in ListsOf(page) /\ filter[l] = f THEN Appear(NoEntry) ELSE NoEntry]]
    /\ changes = {} /\ calls = {} /\ panel = FALSE

QueriesStep ==
    \/ \E b \in ButtonsOf(page), about \in Filters : Click(b, about)
    \/ \E about \in Filters : Retry(about)
    \/ RefuseRecharge
    \/ \E lists \in RefreshesOf(page) : Refresh(lists)
    \/ \E l \in Filtered, f \in AllFilters : SetFilter(l, f)
    \/ ClearFilters
    \/ \E c \in calls : ServeCall(c) \/ AnswerCall(c) \/ FailCall(c)
    \/ \E l \in focus, f \in AllFilters :
          ServeFetch(l, f) \/ AnswerFetch(l, f) \/ FailFetch(l, f)

----------------------------------------------------------------------------
(* Properties *)

CallRec == [does : DOMAIN Mutations, n : 1..MaxActs, about : Filters,
            pc : {"asked", "done"}, current : BOOLEAN, here : BOOLEAN]
EntryRec == [loaded : BOOLEAN, data : SUBSET (1..MaxActs), fetch : {"idle", "asked", "served"},
             got : SUBSET (1..MaxActs), tries : 0..1, failed : BOOLEAN, told : SUBSET (1..MaxActs),
             missed : SUBSET (1..MaxActs)]
QueriesTypeOK ==
    /\ focus \in Foci
    /\ entry \in [focus -> [AllFilters -> EntryRec]]
    /\ filter \in [Lists -> AllFilters]
    /\ calls \subseteq CallRec
    /\ changes \subseteq [does : DOMAIN Mutations, n : 1..MaxActs, about : Filters]
    /\ panel \in BOOLEAN

\* Once the page has said that a change was made, a list it shows that is at
\* rest and could be read shows the change, whatever reads, retries, other
\* changes and answers of mutations came in between.  The code leaves one way
\* out, and the property names it: the read asked for after the message joins
\* the list's first one when that is still under way, and if its answer was
\* made before the change it stays on screen until the list is read again
\* (invalidateQueries of the developer page, refetch of the recharge page).
ShowsWhatItTold ==
    \A l \in focus, f \in AllFilters :
        LET e == entry[l][f]
        IN  e.fetch = "idle" /\ ~e.failed => e.told \ e.missed \subseteq e.data

=============================================================================
