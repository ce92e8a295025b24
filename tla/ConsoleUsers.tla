---------------------------- MODULE ConsoleUsers ----------------------------
(***************************************************************************)
(* The users of the console and their sessions.                            *)
(*                                                                         *)
(* lib/auth-users.ts keeps every user in one file, users.json, and         *)
(* lib/admin-audit-log.ts every administrator's change in another.  Each   *)
(* change reads the whole file, changes the copy and writes it back, with  *)
(* awaits in between; writeFile truncates before it writes, and a reader   *)
(* that meets the truncated file takes it for an empty store.  The route   *)
(* handlers login, register, profile and admin/users are these steps,      *)
(* interleaved.  lib/session.ts puts the role and the plan of the moment   *)
(* into a signed cookie that is believed, unread, until it expires.        *)
(*                                                                         *)
(* file and audit are what a reader would parse.  Passwords are left out:   *)
(* whether one is right is a choice of the environment.  The variables     *)
(* ideal, idealAudit, calm and shownAt only observe.                       *)
(***************************************************************************)
EXTENDS ConsoleAccess, Sequences

CONSTANTS Accounts,      \* user names other than the administrator's
          Admin,         \* AI_PAY_ADMIN_USERNAME
          Plans,         \* the plans the instance tells apart
          Requests,      \* slots for handlers under way
          Browsers,
          SessionTTL,    \* SESSION_TTL_SECONDS, in clock ticks
          AuditCap,      \* the 500 entries the audit file keeps
          MaxTime,       \* bound on the clock
          MaxRequests    \* bound on the requests made

ASSUME UsersAssumption ==
    /\ Admin \notin Accounts
    /\ {SignupPlan, "enterprise"} \subseteq Plans /\ Plans \subseteq PlanCode
    /\ Browsers # {}
    /\ SessionTTL \in Nat \ {0} /\ AuditCap \in Nat \ {0}
    /\ MaxTime \in Nat /\ MaxRequests \in Nat

VARIABLES file, audit,     \* what a reader of the two files would parse
          cookie,          \* cookie[b]: the claims a browser holds
          req,             \* req[r]: the handler under way in a slot
          now, made,
          ideal, idealAudit, calm, shownAt

vars == <<file, audit, cookie, req, now, made, ideal, idealAudit, calm, shownAt>>

Names == Accounts \cup {Admin}

NoUser == [role |-> "none", plan |-> "free", disabled |-> FALSE]
User == [role : Role, plan : Plans, disabled : BOOLEAN]
Store == [Names -> User \cup {NoUser}]
NewUser(role) == [role |-> role, plan |-> SignupPlan, disabled |-> FALSE]
EmptyStore == [n \in Names |-> NoUser]

\* The changes the admin/users route makes and records in the audit file.
AdminOps == {"create", "set_disabled", "reset_password", "set_role", "set_plan"}
Ops == AdminOps \cup {"login", "register", "profile"}
Entry == [op : AdminOps, target : Names]

NoClaims == [sub |-> Admin, role |-> "none", plan |-> "free", exp |-> 0]
Claims == [sub : Names, role : Role, plan : Plans, exp : Nat]

AnyBrowser == CHOOSE b \in Browsers : TRUE
Idle == [pc |-> "idle", op |-> "login", who |-> Admin, arg |-> NewUser("operator"),
         browser |-> AnyBrowser, snap |-> EmptyStore, log |-> <<>>, mixed |-> FALSE]
RequestRec ==
    [pc : {"idle", "read", "begin", "write", "find", "compare",
           "audit", "auditBegin", "auditWrite"},
     op : Ops, who : Names, arg : User, browser : Browsers,
     snap : Store, log : Seq(Entry), mixed : BOOLEAN]

Pending(r) == req[r].pc # "idle"

----------------------------------------------------------------------------
(* What each operation makes of the store: the functions of auth-users.ts.  *)

Exists(store, n) == store[n].role # "none"

\* ensureAdminUser, at every login: the administrator is there, an admin and
\* enabled; an existing record keeps its plan.
EnsureAdminUser(store) ==
    [store EXCEPT ![Admin] =
        [role |-> "admin", disabled |-> FALSE,
         plan |-> IF Exists(store, Admin) THEN store[Admin].plan ELSE "enterprise"]]

\* Whether the operation finds what it needs and writes the file.
Writes(op, n, store) ==
    \/ op = "login"
    \/ op \in {"register", "create"} /\ ~Exists(store, n)
    \/ op \in {"reset_password", "set_role", "set_plan", "profile"} /\ Exists(store, n)
    \/ op = "set_disabled" /\ Exists(store, n) /\ n # Admin

\* The record a writing operation leaves for the user it is about: arg holds
\* the fields the request carries.  A new password enables the user as well.
Changed(op, arg, user) ==
    IF op \in {"register", "create"} THEN arg
    ELSE IF op = "set_disabled" THEN [user EXCEPT !.disabled = arg.disabled]
    ELSE IF op = "reset_password" THEN [user EXCEPT !.disabled = FALSE]
    ELSE IF op = "set_role" THEN [user EXCEPT !.role = arg.role]
    ELSE [user EXCEPT !.plan = arg.plan]

Apply(op, n, arg, store) ==
    IF ~Writes(op, n, store) THEN store
    ELSE IF op = "login" THEN EnsureAdminUser(store)
    ELSE [store EXCEPT ![n] = Changed(op, arg, store[n])]

\* readUsersStore and the change: the store a handler goes on to write back.
Mutant_ChangedCopy(op, n, arg, store) ==
    IF op = "login" THEN EnsureAdminUser(EmptyStore) ELSE Apply(op, n, arg, store)

ChangedCopy(op, n, arg, store) == Apply(op, n, arg, store)

\* create and set_plan answer an error when the store refuses them; the other
\* changes are recorded and answered "ok" whatever the store said.
Mutant_Audited(op, n, store) == op \in AdminOps \cup {"login"}

Audited(op, n, store) ==
    /\ op \in AdminOps
    /\ op \in {"create", "set_plan"} => Writes(op, n, store)

\* appendAdminAuditLog: newest first, the oldest beyond the cap dropped.
Logged(op, n, log) ==
    LET longer == <<[op |-> op, target |-> n]>> \o log
    IN  SubSeq(longer, 1, IF Len(longer) <= AuditCap THEN Len(longer) ELSE AuditCap)

ArgsOf(op) ==
    {x \in User :
        /\ op # "set_disabled" => ~x.disabled
        /\ op \notin {"create", "set_role"} => x.role = "operator"
        /\ op = "create" => x.role # "admin"
        /\ op \notin {"create", "set_plan"} => x.plan = SignupPlan}

----------------------------------------------------------------------------
(* Sessions *)

\* parseSessionToken: the claims of the browser's cookie, while they hold.
Mutant_SignedIn(b) == cookie[b].role # "none"

SignedIn(b) == cookie[b].role # "none" /\ cookie[b].exp > now

\* requireAdmin of the admin/users route.
MayManage(b) == SignedIn(b) /\ cookie[b].role = "admin"

Rights == Role \X Plans
Never == 0

\* Remembers when the file last showed a name enabled with a role and a plan.
Showing(n, x) == file[n] = [role |-> x[1], plan |-> x[2], disabled |-> FALSE]
Observe ==
    shownAt' = [n \in Names |-> [x \in Rights |->
        IF Showing(n, x) THEN now ELSE shownAt[n][x]]]

Init ==
    /\ file = EmptyStore /\ audit = <<>>
    /\ cookie = [b \in Browsers |-> NoClaims]
    /\ req = [r \in Requests |-> Idle]
    /\ now = 1 /\ made = 0
    /\ ideal = EmptyStore /\ idealAudit = <<>> /\ calm = TRUE
    /\ shownAt = [n \in Names |-> [x \in Rights |-> Never]]

----------------------------------------------------------------------------
(* The route handlers, one step per await that touches a file.              *)

Goto(r, pc) == req' = [req EXCEPT ![r].pc = pc]

\* The handler answers: what it acknowledged is applied to the ideal store.
Finish(r) ==
    LET q == req[r]
    IN  /\ req' = [req EXCEPT ![r] = Idle]
        /\ ideal' = Apply(q.op, q.who, q.arg, ideal)
        /\ idealAudit' = IF Audited(q.op, q.who, ideal)
                         THEN Logged(q.op, q.who, idealAudit) ELSE idealAudit

GhostsSame == UNCHANGED <<ideal, idealAudit>>

\* A request arrives.  The admin/users route asks for an admin's cookie, the
\* profile route for any, and the profile is the cookie's own user's.
Arrive(r, op, n, arg, b) ==
    /\ ~Pending(r) /\ made < MaxRequests
    /\ op \in AdminOps => MayManage(b)
    /\ op = "profile" => SignedIn(b) /\ n = cookie[b].sub
    /\ req' = [req EXCEPT ![r] = [Idle EXCEPT
                  !.pc = IF op = "profile" THEN "find" ELSE "read",
                  !.op = op, !.who = n, !.arg = arg, !.browser = b]]
    /\ made' = made + 1
    /\ calm' = (calm /\ \A q \in Requests : ~Pending(q))
    /\ Observe /\ GhostsSame
    /\ UNCHANGED <<file, audit, cookie, now>>

\* The store is read and the copy changed; an operation the store refuses ends
\* here, or goes on to be recorded as if it had been done.
ReadUsers(r) ==
    LET q == req[r]
    IN  /\ q.pc = "read"
        /\ \/ /\ Writes(q.op, q.who, file)
              /\ req' = [req EXCEPT ![r].pc = "begin",
                                    ![r].snap = ChangedCopy(q.op, q.who, q.arg, file)]
              /\ GhostsSame
           \/ /\ ~Writes(q.op, q.who, file) /\ Audited(q.op, q.who, file)
              /\ Goto(r, "audit") /\ GhostsSame
           \/ /\ ~Writes(q.op, q.who, file) /\ ~Audited(q.op, q.who, file)
              /\ Finish(r)
        /\ Observe
        /\ UNCHANGED <<file, audit, cookie, now, made, calm>>

\* writeFile opens the file, which empties it ...
TruncateUsers(r) ==
    /\ req[r].pc = "begin"
    /\ req' = [req EXCEPT ![r].pc = "write", ![r].mixed = FALSE]
    /\ file' = EmptyStore
    /\ Observe /\ GhostsSame
    /\ UNCHANGED <<audit, cookie, now, made, calm>>

\* ... and then fills it.  Written over another writer's longer text the
\* result is no JSON.
Leaves(r, whole, broken) == IF req[r].mixed THEN {whole, broken} ELSE {whole}
Overwritten(r, pc, q) == q # r /\ req[q].pc = pc

FillUsers(r) ==
    LET q == req[r]
        next == IF q.op = "login" THEN "find"
                ELSE IF q.op \in AdminOps THEN "audit" ELSE "idle"
        others == [p \in Requests |-> IF Overwritten(r, "write", p)
                                      THEN [req[p] EXCEPT !.mixed = TRUE] ELSE req[p]]
    IN  /\ q.pc = "write"
        /\ file' \in Leaves(r, q.snap, EmptyStore)
        /\ IF next = "idle"
           THEN /\ req' = [others EXCEPT ![r] = Idle]
                /\ ideal' = Apply(q.op, q.who, q.arg, ideal)
                /\ UNCHANGED idealAudit
           ELSE req' = [others EXCEPT ![r].pc = next] /\ GhostsSame
        /\ Observe
        /\ UNCHANGED <<audit, cookie, now, made, calm>>

\* Login goes on: the user is read again and, if the password is right and the
\* user enabled, the cookie takes the role and the plan of this moment.
LoginAnswer(r, right) ==
    LET q == req[r]
        user == file[q.who]
        granted == Exists(file, q.who) /\ right /\ ~user.disabled
    IN  /\ q.pc = "find" /\ q.op = "login"
        /\ cookie' = IF ~granted THEN cookie
                     ELSE [cookie EXCEPT ![q.browser] =
                              [sub |-> q.who, role |-> user.role, plan |-> user.plan,
                               exp |-> now + SessionTTL]]
        /\ Finish(r) /\ Observe
        /\ UNCHANGED <<file, audit, now, made, calm>>

\* The profile handler reads the user's plan, the cookie's if there is no user.
ProfileFind(r) ==
    LET q == req[r]
        plan == IF Exists(file, q.who) THEN file[q.who].plan ELSE cookie[q.browser].plan
    IN  /\ q.pc = "find" /\ q.op = "profile"
        /\ req' = [req EXCEPT ![r].pc = "compare", ![r].arg.plan = plan]
        /\ Observe /\ GhostsSame
        /\ UNCHANGED <<file, audit, cookie, now, made, calm>>

\* It asks the backend for the subscription; an active one with another plan
\* is written to the user's record.
ProfileCompare(r, subscribed) ==
    LET q == req[r]
    IN  /\ q.pc = "compare"
        /\ req' = IF subscribed \in Plans \ {q.arg.plan}
                  THEN [req EXCEPT ![r].pc = "read", ![r].arg.plan = subscribed]
                  ELSE [req EXCEPT ![r] = Idle]
        /\ Observe /\ GhostsSame
        /\ UNCHANGED <<file, audit, cookie, now, made, calm>>

\* The audit file is read, extended, truncated and filled in the same way.
ReadAudit(r) ==
    /\ req[r].pc = "audit"
    /\ req' = [req EXCEPT ![r].pc = "auditBegin",
                          ![r].log = Logged(req[r].op, req[r].who, audit)]
    /\ Observe /\ GhostsSame
    /\ UNCHANGED <<file, audit, cookie, now, made, calm>>

TruncateAudit(r) ==
    /\ req[r].pc = "auditBegin"
    /\ req' = [req EXCEPT ![r].pc = "auditWrite", ![r].mixed = FALSE]
    /\ audit' = <<>>
    /\ Observe /\ GhostsSame
    /\ UNCHANGED <<file, cookie, now, made, calm>>

FillAudit(r) ==
    LET q == req[r]
    IN  /\ q.pc = "auditWrite"
        /\ audit' \in Leaves(r, q.log, <<>>)
        /\ req' = [p \in Requests |->
                      IF p = r THEN Idle
                      ELSE IF Overwritten(r, "auditWrite", p)
                      THEN [req[p] EXCEPT !.mixed = TRUE] ELSE req[p]]
        /\ ideal' = Apply(q.op, q.who, q.arg, ideal)
        /\ idealAudit' = Logged(q.op, q.who, idealAudit)
        /\ Observe
        /\ UNCHANGED <<file, cookie, now, made, calm>>

----------------------------------------------------------------------------
(* The environment *)

Logout(b) ==
    /\ cookie[b] # NoClaims
    /\ cookie' = [cookie EXCEPT ![b] = NoClaims]
    /\ Observe /\ GhostsSame
    /\ UNCHANGED <<file, audit, req, now, made, calm>>

Tick ==
    /\ now < MaxTime
    /\ now' = now + 1
    /\ Observe /\ GhostsSame
    /\ UNCHANGED <<file, audit, cookie, req, made, calm>>

\* The server restarts: every handler under way is gone, the files stay as
\* they are.
Restart ==
    /\ \E r \in Requests : Pending(r)
    /\ req' = [r \in Requests |-> Idle]
    /\ calm' = FALSE
    /\ Observe /\ GhostsSame
    /\ UNCHANGED <<file, audit, cookie, now, made>>

Handler(r) ==
    \/ ReadUsers(r) \/ TruncateUsers(r) \/ FillUsers(r)
    \/ \E right \in BOOLEAN : LoginAnswer(r, right)
    \/ ProfileFind(r)
    \/ \E p \in Plans \cup {"none"} : ProfileCompare(r, p)
    \/ ReadAudit(r) \/ TruncateAudit(r) \/ FillAudit(r)

Next ==
    \/ \E r \in Requests, op \in Ops, n \in Names, b \in Browsers :
          \E arg \in ArgsOf(op) : Arrive(r, op, n, arg, b)
    \/ \E r \in Requests : Handler(r)
    \/ \E b \in Browsers : Logout(b)
    \/ Tick
    \/ Restart

Spec == Init /\ [][Next]_vars

----------------------------------------------------------------------------
(* Properties *)

TypeOK ==
    /\ file \in Store /\ ideal \in Store
    /\ audit \in Seq(Entry) /\ idealAudit \in Seq(Entry)
    /\ cookie \in [Browsers -> Claims \cup {NoClaims}]
    /\ req \in [Requests -> RequestRec]
    /\ now \in Nat /\ made \in Nat /\ calm \in BOOLEAN
    /\ shownAt \in [Names -> [Rights -> Nat]]

\* As long as requests came one at a time and none was cut off by a restart,
\* the two files are, whenever no handler is under way, exactly what the
\* acknowledged operations make of them in the order they were acknowledged:
\* no step of auth-users.ts or admin-audit-log.ts drops a user, a change or a
\* record by itself, the rewrite of the whole file at every login included.
CalmStoreIsSerial ==
    calm /\ (\A r \in Requests : ~Pending(r)) =>
        file = ideal /\ audit = idealAudit

\* The name was enabled, with one of these rights, less than a session ago.
HeldWithin(n, rights) ==
    \E x \in rights : shownAt[n][x] # Never /\ shownAt[n][x] + SessionTTL > now

\* Whatever the cookie still opens at this moment (the developer page and the
\* user administration; the authorize page and guarded writes; checkouts and
\* Bridge calls), the file itself granted it less than one session lifetime
\* ago: a user who was disabled, demoted or downgraded keeps the old rights for
\* that long at most, whatever the handlers did to the file meanwhile.
PermissionsAreRecent ==
    \A b \in Browsers : SignedIn(b) =>
        LET c == cookie[b]
            passes(class) == Forwards(TRUE, c.role, c.plan, class, FALSE, 0)
            opens(page) == Landing(TRUE, c.role, page) = page
        IN  /\ MayManage(b) \/ opens("developer")
                  => HeldWithin(c.sub, {x \in Rights : x[1] = "admin"})
            /\ passes("guarded") \/ opens("authorize")
                  => HeldWithin(c.sub, {x \in Rights : x[1] # "readonly"})
            /\ passes("subscription_checkout") \/ passes("bridge")
                  => HeldWithin(c.sub, {x \in Rights : x[1] = "admin" /\ x[2] # "free"})
            /\ passes("payment_link_checkout")
                  => HeldWithin(c.sub, {x \in Rights : x[1] = "admin"
                                            /\ x[2] \in {"growth", "enterprise"}})

=============================================================================
