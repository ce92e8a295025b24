------------------------- MODULE ConsoleUsers_proofs -------------------------
(***************************************************************************)
(* The console's users, for every set of accounts, requests and browsers   *)
(* and every session lifetime: the types, the age of the rights a cookie   *)
(* carries, and the files of a server whose requests did not overlap.      *)
(***************************************************************************)
EXTENDS ConsoleUsers, SequenceTheorems, TLAPS

\* Only an administrator's change reaches the audit file.
OnlyAdminsAudited ==
    \A r \in Requests : req[r].pc \in {"audit", "auditBegin", "auditWrite"} =>
        req[r].op \in AdminOps

TypeInv == TypeOK /\ OnlyAdminsAudited

\* A cookie holds rights the file has shown, not longer than a session before
\* it expires; and nothing was shown later than now.
RightsInv ==
    /\ now >= 1
    /\ \A n \in Names, x \in Rights : shownAt[n][x] <= now
    /\ \A b \in Browsers : cookie[b].role # "none" =>
          LET x == <<cookie[b].role, cookie[b].plan>>
          IN  /\ shownAt[cookie[b].sub][x] # Never
              /\ cookie[b].exp <= shownAt[cookie[b].sub][x] + SessionTTL

----------------------------------------------------------------------------
\* What the assumption says of the constants, in the provers' words.
LEMMA ConstantFacts ==
    /\ Admin \in Names /\ "free" \in Plans /\ "enterprise" \in Plans /\ Plans \subseteq PlanCode
    /\ SessionTTL \in Nat /\ SessionTTL # 0 /\ AuditCap \in Nat /\ AuditCap # 0
    /\ MaxTime \in Nat /\ MaxRequests \in Nat /\ AnyBrowser \in Browsers
  BY UsersAssumption, SMT DEF Names, SignupPlan, AnyBrowser

\* The initial request record and the empty store have their types.
LEMMA EmptyTypes ==
    /\ NoUser.plan \in Plans /\ EmptyStore \in Store
    /\ \A role \in Role : NewUser(role) \in User
    /\ Idle \in RequestRec
<1>1. NoUser.plan \in Plans /\ EmptyStore \in Store
  BY ConstantFacts DEF NoUser, EmptyStore, Store
<1>2. ASSUME NEW role \in Role PROVE NewUser(role) \in User
  BY ConstantFacts DEF NewUser, User, SignupPlan
<1>3. NewUser("operator") \in User
  BY <1>2 DEF Role
<1>4. <<>> \in Seq(Entry)
  BY SMT
<1>5. Idle \in RequestRec
  BY <1>1, <1>3, <1>4, ConstantFacts DEF Idle, RequestRec, Ops, AdminOps
<1> QED
  BY <1>1, <1>2, <1>5

\* Every operation leaves a store.
LEMMA ApplyType ==
  ASSUME NEW op \in Ops, NEW n \in Names, NEW arg \in User, NEW store \in Store
  PROVE  Apply(op, n, arg, store) \in Store
<1>1. EnsureAdminUser(store) \in Store
  <2>1. store[Admin].plan \in Plans
    BY ConstantFacts, EmptyTypes DEF Store, User
  <2>2. [role |-> "admin", disabled |-> FALSE,
         plan |-> IF Exists(store, Admin) THEN store[Admin].plan ELSE "enterprise"] \in User
    BY <2>1, ConstantFacts DEF User, Role
  <2> QED
    BY <2>2 DEF EnsureAdminUser, Store
<1>2. ASSUME Writes(op, n, store), op # "login"
      PROVE  [store EXCEPT ![n] = Changed(op, arg, store[n])] \in Store
  <2>1. op \in {"register", "create"} \/ store[n] \in User
    BY <1>2 DEF Writes, Exists, Store, NoUser, Ops, AdminOps
  <2>2. Changed(op, arg, store[n]) \in User
    BY <2>1 DEF Changed, User
  <2> QED
    BY <2>2 DEF Store
<1> QED
  BY <1>1, <1>2 DEF Apply

\* The copy a handler changes and the ideal store are changed alike.
LEMMA ChangedCopyIsApply ==
  ASSUME NEW op, NEW n, NEW arg, NEW store
  PROVE  ChangedCopy(op, n, arg, store) = Apply(op, n, arg, store)
  BY DEF ChangedCopy

\* The log stays a log.
LEMMA LoggedType ==
  ASSUME NEW op \in AdminOps, NEW n \in Names, NEW log \in Seq(Entry)
  PROVE  Logged(op, n, log) \in Seq(Entry)
<1> DEFINE longer == <<[op |-> op, target |-> n]>> \o log
<1> DEFINE k == IF Len(longer) <= AuditCap THEN Len(longer) ELSE AuditCap
<1>1. <<[op |-> op, target |-> n]>> \in Seq(Entry)
  BY SMT DEF Entry
<1>2. longer \in Seq(Entry)
  BY <1>1, SMT
<1>3. k \in Nat /\ k <= Len(longer)
  BY <1>2, ConstantFacts, SMT
<1>4. \A i \in 1 .. k : longer[i] \in Entry
  BY <1>2, <1>3, SMT
<1>5. SubSeq(longer, 1, k) \in Seq(Entry)
  <2> HIDE DEF longer, k
  <2> QED
    BY <1>3, <1>4, SubSeqProperties, SMT
<1> QED
  BY <1>5 DEF Logged

\* Observing keeps the type, and only ever moves a sighting to now.
LEMMA ObserveFacts ==
  ASSUME TypeOK, Observe
  PROVE  /\ shownAt' \in [Names -> [Rights -> Nat]]
         /\ \A n \in Names, x \in Rights :
               shownAt'[n][x] = IF Showing(n, x) THEN now ELSE shownAt[n][x]
  BY DEF TypeOK, Observe

----------------------------------------------------------------------------
\* The files are empty and no handler is under way at first.
LEMMA TypeInit == Init => TypeInv
<1> SUFFICES ASSUME Init PROVE TypeInv
  OBVIOUS
<1>1. <<>> \in Seq(Entry)
  BY SMT
<1>2. req \in [Requests -> RequestRec]
  BY EmptyTypes DEF Init
<1>3. file \in Store /\ ideal \in Store /\ audit \in Seq(Entry) /\ idealAudit \in Seq(Entry)
  BY <1>1, EmptyTypes DEF Init
<1>4. cookie \in [Browsers -> Claims \cup {NoClaims}]
  BY DEF Init
<1>5. now \in Nat /\ made \in Nat /\ calm \in BOOLEAN
  BY SMT DEF Init
<1>6. shownAt \in [Names -> [Rights -> Nat]]
  BY SMT DEF Init, Never
<1>7. OnlyAdminsAudited
  BY DEF Init, OnlyAdminsAudited, Idle
<1> QED
  BY <1>2, <1>3, <1>4, <1>5, <1>6, <1>7 DEF TypeInv, TypeOK

\* A handler's answer keeps the types of what it touches.
LEMMA FinishType ==
  ASSUME TypeInv, NEW r \in Requests, Finish(r)
  PROVE  /\ req' \in [Requests -> RequestRec] /\ OnlyAdminsAudited'
         /\ ideal' \in Store /\ idealAudit' \in Seq(Entry)
<1>1. req[r] \in RequestRec /\ req[r].op \in Ops /\ req[r].who \in Names /\ req[r].arg \in User
  BY DEF TypeInv, TypeOK, RequestRec
<1>2. req' \in [Requests -> RequestRec] /\ OnlyAdminsAudited'
  BY EmptyTypes DEF TypeInv, TypeOK, OnlyAdminsAudited, Finish, Idle
<1>3. ideal' \in Store
  BY <1>1, ApplyType DEF TypeInv, TypeOK, Finish
<1>4. idealAudit' \in Seq(Entry)
  BY <1>1, LoggedType DEF TypeInv, TypeOK, Finish, Audited
<1> QED
  BY <1>2, <1>3, <1>4

\* No handler writes a file, a cookie or a record of another type.
LEMMA TypeStep == TypeInv /\ [Next]_vars => TypeInv'
<1> SUFFICES ASSUME TypeInv, [Next]_vars PROVE TypeInv'
  OBVIOUS
<1>1. CASE UNCHANGED vars
  BY <1>1 DEF TypeInv, TypeOK, OnlyAdminsAudited, vars
<1>2. ASSUME NEW r \in Requests, NEW op \in Ops, NEW n \in Names, NEW b \in Browsers,
             NEW arg \in ArgsOf(op), Arrive(r, op, n, arg, b)
      PROVE  TypeInv'
  <2> DEFINE q == [Idle EXCEPT !.pc = IF op = "profile" THEN "find" ELSE "read",
                               !.op = op, !.who = n, !.arg = arg, !.browser = b]
  <2>1. q \in RequestRec /\ q.pc \in {"find", "read"}
    BY EmptyTypes DEF RequestRec, ArgsOf
  <2>2. req' = [req EXCEPT ![r] = q]
    BY <1>2 DEF Arrive
  <2>3. req' \in [Requests -> RequestRec] /\ OnlyAdminsAudited'
    <3> HIDE DEF q
    <3> QED
      BY <2>1, <2>2 DEF TypeInv, TypeOK, OnlyAdminsAudited
  <2>4. made' \in Nat /\ calm' \in BOOLEAN
    <3>1. made' \in Nat
      BY <1>2, SMT DEF Arrive, TypeInv, TypeOK
    <3>2. calm' \in BOOLEAN
      BY <1>2 DEF Arrive, TypeInv, TypeOK
    <3> QED BY <3>1, <3>2
  <2>5. shownAt' \in [Names -> [Rights -> Nat]]
    BY <1>2, ObserveFacts DEF Arrive, TypeInv
  <2> QED
    BY <1>2, <2>3, <2>4, <2>5 DEF Arrive, GhostsSame, TypeInv, TypeOK
<1>3. ASSUME NEW r \in Requests, Handler(r) PROVE TypeInv'
  <2>0. req[r] \in RequestRec /\ req[r].op \in Ops /\ req[r].who \in Names /\ req[r].arg \in User
        /\ req[r].snap \in Store /\ req[r].log \in Seq(Entry) /\ req[r].browser \in Browsers
    BY DEF TypeInv, TypeOK, RequestRec
  <2>1. CASE ReadUsers(r)
    <3>1. req' \in [Requests -> RequestRec] /\ OnlyAdminsAudited' /\ ideal' \in Store /\ idealAudit' \in Seq(Entry)
      <4>1. CASE /\ req' = [req EXCEPT ![r].pc = "begin",
                                       ![r].snap = ChangedCopy(req[r].op, req[r].who, req[r].arg, file)]
                 /\ GhostsSame
        <5>1. ChangedCopy(req[r].op, req[r].who, req[r].arg, file) \in Store
          BY <2>0, ApplyType, ChangedCopyIsApply DEF TypeInv, TypeOK
        <5> QED
          BY <4>1, <5>1, <2>0 DEF GhostsSame, TypeInv, TypeOK, OnlyAdminsAudited, RequestRec
      <4>2. CASE Audited(req[r].op, req[r].who, file) /\ Goto(r, "audit") /\ GhostsSame
        BY <4>2, <2>0 DEF Goto, Audited, GhostsSame, TypeInv, TypeOK, OnlyAdminsAudited, RequestRec
      <4>3. CASE Finish(r)
        BY <4>3, FinishType
      <4> QED
        BY <2>1, <4>1, <4>2, <4>3 DEF ReadUsers
    <3>2. shownAt' \in [Names -> [Rights -> Nat]]
      BY <2>1, ObserveFacts DEF ReadUsers, TypeInv
    <3> QED
      BY <2>1, <3>1, <3>2 DEF ReadUsers, TypeInv, TypeOK
  <2>2. CASE TruncateUsers(r)
    <3>1. req' \in [Requests -> RequestRec] /\ OnlyAdminsAudited'
      BY <2>2, <2>0 DEF TruncateUsers, TypeInv, TypeOK, OnlyAdminsAudited, RequestRec
    <3>2. shownAt' \in [Names -> [Rights -> Nat]]
      BY <2>2, ObserveFacts DEF TruncateUsers, TypeInv
    <3> QED
      BY <2>2, <3>1, <3>2, EmptyTypes DEF TruncateUsers, GhostsSame, TypeInv, TypeOK
  <2>3. CASE FillUsers(r)
    <3> DEFINE next == IF req[r].op = "login" THEN "find"
                       ELSE IF req[r].op \in AdminOps THEN "audit" ELSE "idle"
    <3> DEFINE others == [p \in Requests |-> IF Overwritten(r, "write", p)
                                             THEN [req[p] EXCEPT !.mixed = TRUE] ELSE req[p]]
    <3>1. others \in [Requests -> RequestRec] /\ others[r] = req[r]
          /\ \A p \in Requests : others[p].pc = req[p].pc /\ others[p].op = req[p].op
      BY DEF Overwritten, TypeInv, TypeOK, RequestRec
    <3>2. next \in {"find", "audit", "idle"} /\ (next = "audit" => req[r].op \in AdminOps)
      OBVIOUS
    <3>3. file' \in Store
      BY <2>3, <2>0, EmptyTypes DEF FillUsers, Leaves
    <3>4. /\ \/ req' = [others EXCEPT ![r] = Idle]
             \/ req' = [others EXCEPT ![r].pc = next]
          /\ \/ ideal' = Apply(req[r].op, req[r].who, req[r].arg, ideal)
             \/ ideal' = ideal
          /\ idealAudit' = idealAudit
      BY <2>3 DEF FillUsers, GhostsSame
    <3>5. req' \in [Requests -> RequestRec] /\ OnlyAdminsAudited'
      <4> HIDE DEF next, others
      <4>1. ASSUME req' = [others EXCEPT ![r] = Idle]
            PROVE  req' \in [Requests -> RequestRec] /\ OnlyAdminsAudited'
        BY <3>1, <4>1, EmptyTypes DEF TypeInv, OnlyAdminsAudited, Idle
      <4>2. ASSUME req' = [others EXCEPT ![r].pc = next]
            PROVE  req' \in [Requests -> RequestRec] /\ OnlyAdminsAudited'
        <5>1. [others[r] EXCEPT !.pc = next] \in RequestRec
          BY <3>1, <3>2, <2>0 DEF RequestRec
        <5> QED
          BY <3>1, <3>2, <4>2, <5>1 DEF TypeInv, OnlyAdminsAudited, RequestRec
      <4> QED
        BY <3>4, <4>1, <4>2
    <3>6. ideal' \in Store
      BY <3>4, <2>0, ApplyType DEF TypeInv, TypeOK
    <3>7. shownAt' \in [Names -> [Rights -> Nat]]
      BY <2>3, ObserveFacts DEF FillUsers, TypeInv
    <3> HIDE DEF next, others
    <3> QED
      BY <2>3, <3>3, <3>4, <3>5, <3>6, <3>7 DEF FillUsers, TypeInv, TypeOK
  <2>4. ASSUME NEW right \in BOOLEAN, LoginAnswer(r, right) PROVE TypeInv'
    <3>1. req' \in [Requests -> RequestRec] /\ OnlyAdminsAudited' /\ ideal' \in Store /\ idealAudit' \in Seq(Entry)
      BY <2>4, FinishType DEF LoginAnswer
    <3>2. cookie' \in [Browsers -> Claims \cup {NoClaims}]
      <4> DEFINE user == file[req[r].who]
      <4> DEFINE c == [sub |-> req[r].who, role |-> user.role, plan |-> user.plan,
                       exp |-> now + SessionTTL]
      <4>1. CASE Exists(file, req[r].who)
        <5>1. user \in User
          BY <4>1, <2>0 DEF TypeInv, TypeOK, Store, Exists, NoUser
        <5>2. c \in Claims
          BY <5>1, <2>0, ConstantFacts, SMT DEF Claims, User, TypeInv, TypeOK
        <5>3. cookie' = cookie \/ cookie' = [cookie EXCEPT ![req[r].browser] = c]
          BY <2>4 DEF LoginAnswer
        <5> HIDE DEF c
        <5> QED
          BY <5>2, <5>3 DEF TypeInv, TypeOK
      <4>2. CASE ~Exists(file, req[r].who)
        BY <4>2, <2>4 DEF LoginAnswer, TypeInv, TypeOK
      <4> QED
        BY <4>1, <4>2
    <3>3. shownAt' \in [Names -> [Rights -> Nat]]
      BY <2>4, ObserveFacts DEF LoginAnswer, TypeInv
    <3> QED
      BY <2>4, <3>1, <3>2, <3>3 DEF LoginAnswer, TypeInv, TypeOK
  <2>5. CASE ProfileFind(r)
    <3> DEFINE plan == IF Exists(file, req[r].who) THEN file[req[r].who].plan
                       ELSE cookie[req[r].browser].plan
    <3>1. plan \in Plans
      BY <2>0, ConstantFacts DEF TypeInv, TypeOK, Store, Exists, NoUser, User, Claims, NoClaims
    <3>2. req' = [req EXCEPT ![r].pc = "compare", ![r].arg.plan = plan]
      BY <2>5 DEF ProfileFind
    <3>3. req' \in [Requests -> RequestRec] /\ OnlyAdminsAudited'
      <4> HIDE DEF plan
      <4> QED
        BY <3>1, <3>2, <2>0 DEF TypeInv, TypeOK, OnlyAdminsAudited, RequestRec, User
    <3>4. shownAt' \in [Names -> [Rights -> Nat]]
      BY <2>5, ObserveFacts DEF ProfileFind, TypeInv
    <3> QED
      BY <2>5, <3>3, <3>4 DEF ProfileFind, GhostsSame, TypeInv, TypeOK
  <2>6. ASSUME NEW p \in Plans \cup {"none"}, ProfileCompare(r, p) PROVE TypeInv'
    <3>1. \/ p \in Plans /\ req' = [req EXCEPT ![r].pc = "read", ![r].arg.plan = p]
          \/ req' = [req EXCEPT ![r] = Idle]
      BY <2>6 DEF ProfileCompare
    <3>2. req' \in [Requests -> RequestRec] /\ OnlyAdminsAudited'
      <4>1. ASSUME p \in Plans, req' = [req EXCEPT ![r].pc = "read", ![r].arg.plan = p]
            PROVE  req' \in [Requests -> RequestRec] /\ OnlyAdminsAudited'
        BY <4>1, <2>0 DEF TypeInv, TypeOK, OnlyAdminsAudited, RequestRec, User
      <4>2. ASSUME req' = [req EXCEPT ![r] = Idle]
            PROVE  req' \in [Requests -> RequestRec] /\ OnlyAdminsAudited'
        BY <4>2, EmptyTypes DEF TypeInv, TypeOK, OnlyAdminsAudited, Idle
      <4> QED
        BY <3>1, <4>1, <4>2
    <3>3. shownAt' \in [Names -> [Rights -> Nat]]
      BY <2>6, ObserveFacts DEF ProfileCompare, TypeInv
    <3> QED
      BY <2>6, <3>2, <3>3 DEF ProfileCompare, GhostsSame, TypeInv, TypeOK
  <2>7. CASE ReadAudit(r)
    <3>1. Logged(req[r].op, req[r].who, audit) \in Seq(Entry)
      BY <2>7, <2>0, LoggedType DEF ReadAudit, TypeInv, TypeOK, OnlyAdminsAudited
    <3>2. req' \in [Requests -> RequestRec] /\ OnlyAdminsAudited'
      BY <2>7, <3>1, <2>0 DEF ReadAudit, TypeInv, TypeOK, OnlyAdminsAudited, RequestRec
    <3>3. shownAt' \in [Names -> [Rights -> Nat]]
      BY <2>7, ObserveFacts DEF ReadAudit, TypeInv
    <3> QED
      BY <2>7, <3>2, <3>3 DEF ReadAudit, GhostsSame, TypeInv, TypeOK
  <2>8. CASE TruncateAudit(r)
    <3>1. req' \in [Requests -> RequestRec] /\ OnlyAdminsAudited'
      BY <2>8, <2>0 DEF TruncateAudit, TypeInv, TypeOK, OnlyAdminsAudited, RequestRec
    <3>2. shownAt' \in [Names -> [Rights -> Nat]]
      BY <2>8, ObserveFacts DEF TruncateAudit, TypeInv
    <3>3. audit' \in Seq(Entry)
      BY <2>8, SMT DEF TruncateAudit
    <3> QED
      BY <2>8, <3>1, <3>2, <3>3 DEF TruncateAudit, GhostsSame, TypeInv, TypeOK
  <2>9. CASE FillAudit(r)
    <3>1. <<>> \in Seq(Entry)
      BY SMT
    <3>2. audit' \in Seq(Entry)
      BY <2>9, <3>1, <2>0 DEF FillAudit, Leaves
    <3>3. req' \in [Requests -> RequestRec] /\ OnlyAdminsAudited'
      BY <2>9, EmptyTypes DEF FillAudit, Overwritten, TypeInv, TypeOK, OnlyAdminsAudited, RequestRec, Idle
    <3>4. ideal' \in Store
      BY <2>9, <2>0, ApplyType DEF FillAudit, TypeInv, TypeOK
    <3>5. idealAudit' \in Seq(Entry)
      BY <2>9, <2>0, LoggedType DEF FillAudit, TypeInv, TypeOK, OnlyAdminsAudited
    <3>6. shownAt' \in [Names -> [Rights -> Nat]]
      BY <2>9, ObserveFacts DEF FillAudit, TypeInv
    <3> QED
      BY <2>9, <3>2, <3>3, <3>4, <3>5, <3>6 DEF FillAudit, TypeInv, TypeOK
  <2> QED
    BY <1>3, <2>1, <2>2, <2>3, <2>4, <2>5, <2>6, <2>7, <2>8, <2>9 DEF Handler
<1>4. ASSUME NEW b \in Browsers, Logout(b) PROVE TypeInv'
  <2>1. shownAt' \in [Names -> [Rights -> Nat]]
    BY <1>4, ObserveFacts DEF Logout, TypeInv
  <2> QED
    BY <1>4, <2>1 DEF Logout, GhostsSame, TypeInv, TypeOK, OnlyAdminsAudited
<1>5. CASE Tick
  <2>1. shownAt' \in [Names -> [Rights -> Nat]]
    BY <1>5, ObserveFacts DEF Tick, TypeInv
  <2>2. now' \in Nat
    BY <1>5, SMT DEF Tick, TypeInv, TypeOK
  <2> QED
    BY <1>5, <2>1, <2>2 DEF Tick, GhostsSame, TypeInv, TypeOK, OnlyAdminsAudited
<1>6. CASE Restart
  <2>1. shownAt' \in [Names -> [Rights -> Nat]]
    BY <1>6, ObserveFacts DEF Restart, TypeInv
  <2>2. req' \in [Requests -> RequestRec] /\ OnlyAdminsAudited'
    BY <1>6, EmptyTypes DEF Restart, OnlyAdminsAudited, Idle
  <2> QED
    BY <1>6, <2>1, <2>2 DEF Restart, GhostsSame, TypeInv, TypeOK
<1> QED
  BY <1>1, <1>2, <1>3, <1>4, <1>5, <1>6 DEF Next

\* The users' variables keep their types.
THEOREM UsersTypeOK == Spec => []TypeOK
<1>1. Spec => []TypeInv
  BY TypeInit, TypeStep, PTL DEF Spec
<1>2. TypeInv => TypeOK
  BY DEF TypeInv
<1> QED
  BY <1>1, <1>2, PTL

----------------------------------------------------------------------------
(* Rights *)

\* A sighting is kept or moved to now, so the rights a cookie holds stay as
\* recent as they were.
LEMMA RightsKept ==
  ASSUME TypeInv, RightsInv, Observe, now' \in {now, now + 1},
         NEW b \in Browsers, cookie'[b] = cookie[b], cookie[b].role # "none"
  PROVE  LET x == <<cookie'[b].role, cookie'[b].plan>>
         IN  /\ shownAt'[cookie'[b].sub][x] # Never
             /\ cookie'[b].exp <= shownAt'[cookie'[b].sub][x] + SessionTTL
<1> DEFINE n == cookie[b].sub
<1> DEFINE x == <<cookie[b].role, cookie[b].plan>>
<1>1. n \in Names /\ x \in Rights /\ cookie[b].exp \in Nat
  BY DEF TypeInv, TypeOK, Claims, NoClaims, Rights
<1>2. shownAt'[n][x] = now \/ shownAt'[n][x] = shownAt[n][x]
  BY <1>1, ObserveFacts DEF TypeInv
<1>3. shownAt[n][x] # Never /\ cookie[b].exp <= shownAt[n][x] + SessionTTL /\ shownAt[n][x] <= now
      /\ now >= 1
  BY <1>1 DEF RightsInv
<1>4. shownAt[n][x] \in Nat /\ now \in Nat
  BY <1>1 DEF TypeInv, TypeOK
<1>5. shownAt'[n][x] # Never /\ cookie[b].exp <= shownAt'[n][x] + SessionTTL
  <2> HIDE DEF n, x
  <2> QED
    BY <1>1, <1>2, <1>3, <1>4, ConstantFacts, SMT DEF Never
<1> QED
  BY <1>5

\* Rights are noted at the time they are seen, never later.
LEMMA SightingsPast ==
  ASSUME TypeInv, RightsInv, Observe, now' \in {now, now + 1}
  PROVE  now' >= 1 /\ \A n \in Names, x \in Rights : shownAt'[n][x] <= now'
<1>1. now \in Nat /\ now >= 1
  BY DEF TypeInv, TypeOK, RightsInv
<1>2. ASSUME NEW n \in Names, NEW x \in Rights PROVE shownAt'[n][x] <= now'
  <2>1. shownAt'[n][x] \in {now, shownAt[n][x]}
    BY ObserveFacts DEF TypeInv
  <2>2. shownAt[n][x] \in Nat /\ shownAt[n][x] <= now
    BY DEF TypeInv, TypeOK, RightsInv
  <2> QED
    BY <1>1, <2>1, <2>2, SMT
<1> QED
  BY <1>1, <1>2, SMT

\* Only a login signs a cookie, with rights the file shows at that moment.
LEMMA RightsStep == TypeInv /\ RightsInv /\ [Next]_vars => RightsInv'
<1> SUFFICES ASSUME TypeInv, RightsInv, [Next]_vars PROVE RightsInv'
  OBVIOUS
<1>1. CASE UNCHANGED vars
  BY <1>1 DEF RightsInv, vars
<1>2. ASSUME Observe, cookie' = cookie, now' \in {now, now + 1} PROVE RightsInv'
  BY <1>2, RightsKept, SightingsPast DEF RightsInv
<1>3. ASSUME NEW r \in Requests, NEW right \in BOOLEAN, LoginAnswer(r, right) PROVE RightsInv'
  <2> DEFINE n == req[r].who
  <2> DEFINE user == file[n]
  <2> DEFINE c == [sub |-> n, role |-> user.role, plan |-> user.plan, exp |-> now + SessionTTL]
  <2>1. Observe /\ now' = now
    BY <1>3 DEF LoginAnswer
  <2>2. n \in Names /\ req[r].browser \in Browsers
    BY DEF TypeInv, TypeOK, RequestRec
  <2>3. ASSUME NEW b \in Browsers, cookie'[b].role # "none", cookie'[b] # cookie[b]
        PROVE  LET x == <<cookie'[b].role, cookie'[b].plan>>
               IN  /\ shownAt'[cookie'[b].sub][x] # Never
                   /\ cookie'[b].exp <= shownAt'[cookie'[b].sub][x] + SessionTTL
    <3> DEFINE x == <<user.role, user.plan>>
    <3>1. Exists(file, n) /\ ~user.disabled /\ cookie'[b] = c
      BY <1>3, <2>3, <2>2 DEF LoginAnswer, TypeInv, TypeOK
    <3>2. user \in User
      BY <3>1, <2>2 DEF TypeInv, TypeOK, Store, Exists, NoUser
    <3>3. x \in Rights /\ Showing(n, x)
      BY <3>1, <3>2 DEF Rights, User, Showing
    <3>4. shownAt'[n][x] = now
      BY <2>1, <2>2, <3>3, ObserveFacts DEF TypeInv
    <3>5. now # Never /\ now + SessionTTL <= now + SessionTTL
      BY ConstantFacts, SMT DEF RightsInv, TypeInv, TypeOK, Never
    <3> QED
      BY <3>1, <3>4, <3>5
  <2>4. ASSUME NEW b \in Browsers, cookie'[b].role # "none"
        PROVE  LET x == <<cookie'[b].role, cookie'[b].plan>>
               IN  /\ shownAt'[cookie'[b].sub][x] # Never
                   /\ cookie'[b].exp <= shownAt'[cookie'[b].sub][x] + SessionTTL
    BY <2>1, <2>3, <2>4, RightsKept
  <2> QED
    BY <2>1, <2>4, SightingsPast DEF RightsInv
<1>4. ASSUME NEW b \in Browsers, Logout(b) PROVE RightsInv'
  <2>1. Observe /\ now' = now /\ cookie' = [cookie EXCEPT ![b] = NoClaims]
    BY <1>4 DEF Logout
  <2>2. ASSUME NEW d \in Browsers, cookie'[d].role # "none"
        PROVE  cookie'[d] = cookie[d]
    BY <2>1, <2>2 DEF TypeInv, TypeOK, NoClaims
  <2> QED
    BY <2>1, <2>2, RightsKept, SightingsPast DEF RightsInv
<1>5. ASSUME NEW r \in Requests, Handler(r) PROVE RightsInv'
  <2>1. CASE \E right \in BOOLEAN : LoginAnswer(r, right)
    BY <1>3, <2>1
  <2>2. CASE ~\E right \in BOOLEAN : LoginAnswer(r, right)
    <3>1. Observe /\ cookie' = cookie /\ now' = now
      BY <1>5, <2>2 DEF Handler, ReadUsers, TruncateUsers, FillUsers, ProfileFind, ProfileCompare,
                        ReadAudit, TruncateAudit, FillAudit
    <3> QED
      BY <3>1, <1>2
  <2> QED
    BY <2>1, <2>2
<1>6. CASE Tick \/ Restart
  BY <1>2, <1>6 DEF Tick, Restart
<1>7. ASSUME NEW r \in Requests, NEW op \in Ops, NEW n \in Names, NEW b \in Browsers,
             NEW arg \in ArgsOf(op), Arrive(r, op, n, arg, b)
      PROVE  RightsInv'
  BY <1>2, <1>7 DEF Arrive
<1> QED
  BY <1>1, <1>4, <1>5, <1>6, <1>7 DEF Next

\* A live cookie's rights were shown less than a session ago.
LEMMA RecentRights ==
  ASSUME TypeInv, RightsInv, NEW b \in Browsers, SignedIn(b),
         NEW S \in SUBSET Rights, <<cookie[b].role, cookie[b].plan>> \in S
  PROVE  HeldWithin(cookie[b].sub, S)
<1> DEFINE n == cookie[b].sub
<1> DEFINE x == <<cookie[b].role, cookie[b].plan>>
<1>1. n \in Names /\ x \in Rights
  BY DEF TypeInv, TypeOK, Claims, NoClaims, SignedIn, Rights
<1>2. shownAt[n][x] # Never /\ cookie[b].exp <= shownAt[n][x] + SessionTTL /\ cookie[b].exp > now
  BY DEF RightsInv, SignedIn
<1>3. shownAt[n][x] \in Nat /\ now \in Nat /\ cookie[b].exp \in Nat
  BY <1>1 DEF TypeInv, TypeOK, Claims, NoClaims
<1>4. shownAt[n][x] + SessionTTL > now
  <2> HIDE DEF n, x
  <2> QED
    BY <1>2, <1>3, ConstantFacts, SMT
<1> QED
  BY <1>2, <1>4 DEF HeldWithin

\* What the guards let through, put as conditions on the role and the plan.
LEMMA GuardFacts ==
  ASSUME NEW role \in Role, NEW plan \in PlanCode
  PROVE  /\ Landing(TRUE, role, "developer") = "developer" => role = "admin"
         /\ Landing(TRUE, role, "authorize") = "authorize" => role # "readonly"
         /\ Forwards(TRUE, role, plan, "guarded", FALSE, 0) => role # "readonly"
         /\ Forwards(TRUE, role, plan, "subscription_checkout", FALSE, 0) => role = "admin" /\ plan # "free"
         /\ Forwards(TRUE, role, plan, "bridge", FALSE, 0) => role = "admin" /\ plan # "free"
         /\ Forwards(TRUE, role, plan, "payment_link_checkout", FALSE, 0)
               => role = "admin" /\ plan \in {"growth", "enterprise"}
<1>1. /\ Landing(TRUE, role, "developer") = "developer" => role = "admin"
      /\ Landing(TRUE, role, "authorize") = "authorize" => role # "readonly"
  BY DEF Landing, CanAccessPath, NormalizeRole, Role
<1>2. Forwards(TRUE, role, plan, "guarded", FALSE, 0) => role # "readonly"
  BY DEF Forwards
<1>3. NormalizePlan(plan) = plan /\ NormalizeRole(role) = role
  BY DEF NormalizePlan, NormalizeRole, Role
<1>4. \A cap : cap \in PlanCapabilities[plan] => plan # "free"
  BY DEF PlanCapabilities
<1>5. "payment_link_topup" \in PlanCapabilities[plan] => plan \in {"growth", "enterprise"}
  BY DEF PlanCapabilities, PlanCode
<1>6. /\ Forwards(TRUE, role, plan, "subscription_checkout", FALSE, 0) => role = "admin" /\ plan # "free"
      /\ Forwards(TRUE, role, plan, "bridge", FALSE, 0) => role = "admin" /\ plan # "free"
      /\ Forwards(TRUE, role, plan, "payment_link_checkout", FALSE, 0)
            => role = "admin" /\ plan \in {"growth", "enterprise"}
  BY <1>3, <1>4, <1>5 DEF Forwards, CanUseFeature
<1> QED
  BY <1>1, <1>2, <1>6

\* What a cookie opens, its rights were shown for less than a session ago.
LEMMA RightsImply == TypeInv /\ RightsInv => PermissionsAreRecent
<1> SUFFICES ASSUME TypeInv, RightsInv, NEW b \in Browsers, SignedIn(b)
             PROVE  LET c == cookie[b]
                        passes(class) == Forwards(TRUE, c.role, c.plan, class, FALSE, 0)
                        opens(page) == Landing(TRUE, c.role, page) = page
                    IN  /\ MayManage(b) \/ opens("developer")
                              => HeldWithin(c.sub, {x \in Rights : x[1] = "admin"})
                        /\ passes("guarded") \/ opens("authorize")
                              => HeldWithin(c.sub, {x \in Rights : x[1] # "readonly"})
                        /\ passes("subscription_checkout") \/ passes("bridge")
                              => HeldWithin(c.sub, {x \in Rights : x[1] = "admin" /\ x[2] # "free"})
                        /\ passes("payment_link_checkout")
                              => HeldWithin(c.sub, {x \in Rights : x[1] = "admin"
                                                        /\ x[2] \in {"growth", "enterprise"}})
  BY DEF PermissionsAreRecent
<1> DEFINE role == cookie[b].role
<1> DEFINE plan == cookie[b].plan
<1>1. role \in Role /\ plan \in Plans /\ plan \in PlanCode /\ <<role, plan>> \in Rights
  BY ConstantFacts DEF TypeInv, TypeOK, Claims, NoClaims, SignedIn, Rights
<1>2. role = "admin" => HeldWithin(cookie[b].sub, {x \in Rights : x[1] = "admin"})
  BY <1>1, RecentRights
<1>3. role # "readonly" => HeldWithin(cookie[b].sub, {x \in Rights : x[1] # "readonly"})
  BY <1>1, RecentRights
<1>4. role = "admin" /\ plan # "free"
        => HeldWithin(cookie[b].sub, {x \in Rights : x[1] = "admin" /\ x[2] # "free"})
  BY <1>1, RecentRights
<1>5. role = "admin" /\ plan \in {"growth", "enterprise"}
        => HeldWithin(cookie[b].sub, {x \in Rights : x[1] = "admin" /\ x[2] \in {"growth", "enterprise"}})
  BY <1>1, RecentRights
<1>6. MayManage(b) => role = "admin"
  BY DEF MayManage
<1> QED
  BY <1>1, <1>2, <1>3, <1>4, <1>5, <1>6, GuardFacts

\* Whatever the handlers of any number of requests do to the file, a cookie
\* opens nothing that its user was not granted within the last session.
THEOREM UsersPermissionsAreRecent == Spec => []PermissionsAreRecent
<1>1. Init => RightsInv
  BY SMT DEF Init, RightsInv, Never, NoClaims
<1>2. Spec => [](TypeInv /\ RightsInv)
  BY <1>1, TypeInit, TypeStep, RightsStep, PTL DEF Spec
<1> QED
  BY <1>2, RightsImply, PTL

----------------------------------------------------------------------------
(* One request at a time *)

\* How far the only handler under way has come, against what will be
\* acknowledged when it answers.
Stage(q) ==
    LET after == Apply(q.op, q.who, q.arg, ideal)
        log == Logged(q.op, q.who, idealAudit)
    IN  /\ q.pc \notin {"write", "auditWrite"} => file \in {ideal, after}
        /\ q.pc \in {"read", "begin", "compare"} \/ (q.pc = "find" /\ q.op # "login") => file = ideal
        /\ q.pc \in {"begin", "write"} => q.snap = after
        /\ q.pc = "write" => ~q.mixed
        /\ q.pc \in {"audit", "auditBegin", "auditWrite"} \/ (q.pc = "find" /\ q.op = "login") => file = after
        /\ q.pc # "auditWrite" => audit = idealAudit
        /\ q.pc \in {"auditBegin", "auditWrite"} => q.log = log
        /\ q.pc = "auditWrite" => ~q.mixed
        /\ q.pc \in {"find", "compare"} => q.op \in {"login", "profile"}

CalmInv == calm =>
    /\ \A r, s \in Requests : Pending(r) /\ Pending(s) => r = s
    /\ \A r \in Requests : Pending(r) => Stage(req[r])
    /\ (\A r \in Requests : ~Pending(r)) => file = ideal /\ audit = idealAudit

\* When the only handler answers, its stage has become the acknowledged state.
LEMMA CalmAnswer ==
  ASSUME TypeInv, CalmInv, NEW r \in Requests, Pending(r), calm' = calm,
         \A s \in Requests : ~Pending(s) => req'[s] = req[s],
         req'[r] = Idle,
         calm => file' = ideal' /\ audit' = idealAudit'
  PROVE  CalmInv'
<1> SUFFICES ASSUME calm PROVE CalmInv'
  BY DEF CalmInv
<1>1. \A s \in Requests : ~Pending(s)'
  BY DEF CalmInv, Pending, Idle
<1> QED
  BY <1>1 DEF CalmInv

\* When it goes on, only its own stage has to be looked at.
LEMMA CalmOn ==
  ASSUME TypeInv, CalmInv, NEW r \in Requests, Pending(r), calm' = calm,
         \A s \in Requests : ~Pending(s) => req'[s] = req[s],
         req'[r].pc # "idle",
         calm => Stage(req[r])'
  PROVE  CalmInv'
<1> SUFFICES ASSUME calm PROVE CalmInv'
  BY DEF CalmInv
<1>1. \A s \in Requests : Pending(s)' => s = r
  BY DEF CalmInv, Pending
<1>2. Pending(r)'
  BY DEF Pending
<1> QED
  BY <1>1, <1>2 DEF CalmInv

\* A handler alone takes its file through the stages of its operation.
LEMMA CalmStep == TypeInv /\ CalmInv /\ [Next]_vars => CalmInv'
<1> SUFFICES ASSUME TypeInv, CalmInv, [Next]_vars PROVE CalmInv'
  OBVIOUS
<1>1. CASE UNCHANGED vars
  BY <1>1 DEF CalmInv, Stage, Pending, vars
<1>2. ASSUME UNCHANGED <<file, audit, req, ideal, idealAudit, calm>> PROVE CalmInv'
  BY <1>2 DEF CalmInv, Stage, Pending
<1>3. ASSUME NEW r \in Requests, NEW op \in Ops, NEW n \in Names, NEW b \in Browsers,
             NEW arg \in ArgsOf(op), Arrive(r, op, n, arg, b)
      PROVE  CalmInv'
  <2> SUFFICES ASSUME calm' PROVE CalmInv'
    BY DEF CalmInv
  <2> DEFINE q == [Idle EXCEPT !.pc = IF op = "profile" THEN "find" ELSE "read",
                               !.op = op, !.who = n, !.arg = arg, !.browser = b]
  <2>1. calm /\ \A s \in Requests : ~Pending(s)
    BY <1>3 DEF Arrive
  <2>2. file = ideal /\ audit = idealAudit
    BY <2>1 DEF CalmInv
  <2>3. req' = [req EXCEPT ![r] = q] /\ UNCHANGED <<file, audit, ideal, idealAudit>>
    BY <1>3 DEF Arrive, GhostsSame
  <2>4. \A s \in Requests : s # r => ~Pending(s)'
    BY <2>1, <2>3 DEF Pending, TypeInv, TypeOK
  <2>5. req'[r] = q
    BY <2>3 DEF TypeInv, TypeOK
  <2>6. q.op = op /\ q.pc = IF op = "profile" THEN "find" ELSE "read"
    BY DEF Idle
  <2>7. Pending(r)' /\ Stage(req[r])'
    <3> HIDE DEF q
    <3> QED
      BY <2>2, <2>3, <2>5, <2>6 DEF Pending, Stage
  <2> QED
    BY <2>4, <2>7 DEF CalmInv
<1>4. ASSUME NEW r \in Requests, Handler(r) PROVE CalmInv'
  <2>0. req[r] \in RequestRec /\ req[r].op \in Ops
    BY DEF TypeInv, TypeOK, RequestRec
  <2> DEFINE after == Apply(req[r].op, req[r].who, req[r].arg, ideal)
  <2>1. CASE ReadUsers(r)
    <3>1. Pending(r) /\ req[r].pc = "read" /\ UNCHANGED <<file, audit, calm>>
      BY <2>1 DEF ReadUsers, Pending
    <3>2. calm => file = ideal /\ audit = idealAudit
      BY <3>1 DEF CalmInv, Stage
    <3>3. CASE /\ req' = [req EXCEPT ![r].pc = "begin",
                                     ![r].snap = ChangedCopy(req[r].op, req[r].who, req[r].arg, file)]
               /\ GhostsSame
      <4>1. calm => Stage(req[r])'
        BY <3>1, <3>2, <3>3, <2>0, ChangedCopyIsApply DEF Stage, GhostsSame, TypeInv, TypeOK, RequestRec
      <4>2. req'[r].pc # "idle" /\ \A s \in Requests : ~Pending(s) => req'[s] = req[s]
        BY <3>1, <3>3, <2>0 DEF TypeInv, TypeOK, RequestRec
      <4> QED
        BY <3>1, <4>1, <4>2, CalmOn
    <3>4. CASE ~Writes(req[r].op, req[r].who, file) /\ Goto(r, "audit") /\ GhostsSame
      <4>1. calm => file = after
        BY <3>2, <3>4 DEF Apply
      <4>2. calm => Stage(req[r])'
        BY <3>1, <3>2, <3>4, <4>1, <2>0 DEF Goto, Stage, GhostsSame, TypeInv, TypeOK, RequestRec
      <4>3. req'[r].pc # "idle" /\ \A s \in Requests : ~Pending(s) => req'[s] = req[s]
        BY <3>1, <3>4, <2>0 DEF Goto, TypeInv, TypeOK, RequestRec
      <4> QED
        BY <3>1, <4>2, <4>3, CalmOn
    <3>5. CASE /\ ~Writes(req[r].op, req[r].who, file)
               /\ ~Audited(req[r].op, req[r].who, file) /\ Finish(r)
      <4>1. calm => ideal' = file /\ idealAudit' = audit
        BY <3>2, <3>5 DEF Finish, Apply
      <4>2. req'[r] = Idle /\ \A s \in Requests : ~Pending(s) => req'[s] = req[s]
        BY <3>1, <3>5 DEF Finish, TypeInv, TypeOK
      <4> QED
        BY <3>1, <4>1, <4>2, CalmAnswer
    <3> QED
      BY <2>1, <3>3, <3>4, <3>5 DEF ReadUsers
  <2>2. CASE TruncateUsers(r)
    <3>1. Pending(r) /\ req[r].pc = "begin" /\ UNCHANGED <<audit, calm, ideal, idealAudit>>
          /\ req' = [req EXCEPT ![r].pc = "write", ![r].mixed = FALSE]
      BY <2>2 DEF TruncateUsers, Pending, GhostsSame
    <3>2. calm => req[r].snap = after /\ audit = idealAudit
      BY <3>1 DEF CalmInv, Stage
    <3>3. calm => Stage(req[r])'
      BY <3>1, <3>2, <2>0 DEF Stage, TypeInv, TypeOK, RequestRec
    <3>4. req'[r].pc # "idle" /\ \A s \in Requests : ~Pending(s) => req'[s] = req[s]
      BY <3>1, <2>0 DEF TypeInv, TypeOK, RequestRec
    <3> QED
      BY <3>1, <3>3, <3>4, CalmOn
  <2>3. CASE FillUsers(r)
    <3> DEFINE next == IF req[r].op = "login" THEN "find"
                       ELSE IF req[r].op \in AdminOps THEN "audit" ELSE "idle"
    <3> DEFINE others == [p \in Requests |-> IF Overwritten(r, "write", p)
                                             THEN [req[p] EXCEPT !.mixed = TRUE] ELSE req[p]]
    <3>1. Pending(r) /\ req[r].pc = "write" /\ UNCHANGED <<audit, calm, idealAudit>>
      BY <2>3 DEF FillUsers, Pending, GhostsSame
    <3>2. calm => /\ req[r].snap = after /\ ~req[r].mixed /\ audit = idealAudit
      BY <3>1 DEF CalmInv, Stage
    <3>3. calm => file' = after
      BY <2>3, <3>2 DEF FillUsers, Leaves
    <3>4. others[r] = req[r] /\ \A s \in Requests : ~Pending(s) => others[s] = req[s]
      BY DEF Overwritten, Pending
    <3>5. CASE next = "idle"
      <4>1. req' = [others EXCEPT ![r] = Idle] /\ ideal' = after
        BY <2>3, <3>5 DEF FillUsers
      <4>2. req'[r] = Idle /\ \A s \in Requests : ~Pending(s) => req'[s] = req[s]
        BY <3>1, <3>4, <4>1
      <4>3. calm => file' = ideal' /\ audit' = idealAudit'
        BY <3>1, <3>2, <3>3, <4>1
      <4> QED
        BY <3>1, <4>2, <4>3, CalmAnswer
    <3>6. CASE next # "idle"
      <4>1. req' = [others EXCEPT ![r].pc = next] /\ ideal' = ideal
        BY <2>3, <3>6 DEF FillUsers, GhostsSame
      <4>2. req'[r] = [req[r] EXCEPT !.pc = next] /\ \A s \in Requests : ~Pending(s) => req'[s] = req[s]
        BY <3>1, <3>4, <4>1
      <4>3. next \in {"find", "audit"} /\ (next = "find" <=> req[r].op = "login")
        BY <3>6 DEF AdminOps
      <4>4. req'[r].pc = next /\ req'[r].op = req[r].op /\ req'[r].who = req[r].who
            /\ req'[r].arg = req[r].arg
        BY <2>0, <4>2 DEF RequestRec
      <4>5. calm => Stage(req[r])'
        <5> HIDE DEF next, others
        <5> QED
          BY <3>1, <3>2, <3>3, <4>1, <4>3, <4>4 DEF Stage
      <4>6. req'[r].pc # "idle"
        BY <4>3, <4>4
      <4> QED
        BY <3>1, <4>2, <4>5, <4>6, CalmOn
    <3> QED
      BY <3>5, <3>6
  <2>4. ASSUME NEW right \in BOOLEAN, LoginAnswer(r, right) PROVE CalmInv'
    <3>1. Pending(r) /\ req[r].pc = "find" /\ req[r].op = "login"
          /\ UNCHANGED <<file, audit, calm>> /\ Finish(r)
      BY <2>4 DEF LoginAnswer, Pending
    <3>2. calm => file = after /\ audit = idealAudit
      BY <3>1 DEF CalmInv, Stage
    <3>3. ideal' = after /\ idealAudit' = idealAudit
      BY <3>1 DEF Finish, Audited, AdminOps
    <3>4. req'[r] = Idle /\ \A s \in Requests : ~Pending(s) => req'[s] = req[s]
      BY <3>1 DEF Finish, TypeInv, TypeOK
    <3> QED
      BY <3>1, <3>2, <3>3, <3>4, CalmAnswer
  <2>5. CASE ProfileFind(r)
    <3>1. Pending(r) /\ req[r].pc = "find" /\ req[r].op = "profile"
          /\ UNCHANGED <<file, audit, calm, ideal, idealAudit>>
      BY <2>5 DEF ProfileFind, Pending, GhostsSame
    <3>2. calm => file = ideal /\ audit = idealAudit
      BY <3>1 DEF CalmInv, Stage
    <3>3. req'[r].pc = "compare" /\ req'[r].op = "profile"
          /\ \A s \in Requests : ~Pending(s) => req'[s] = req[s]
      BY <2>5, <3>1, <2>0 DEF ProfileFind, TypeInv, TypeOK, RequestRec
    <3>4. calm => Stage(req[r])'
      BY <3>1, <3>2, <3>3 DEF Stage
    <3> QED
      BY <3>1, <3>3, <3>4, CalmOn
  <2>6. ASSUME NEW p \in Plans \cup {"none"}, ProfileCompare(r, p) PROVE CalmInv'
    <3>1. Pending(r) /\ req[r].pc = "compare" /\ UNCHANGED <<file, audit, calm, ideal, idealAudit>>
      BY <2>6 DEF ProfileCompare, Pending, GhostsSame
    <3>2. calm => file = ideal /\ audit = idealAudit
      BY <3>1 DEF CalmInv, Stage
    <3>3. ASSUME req' = [req EXCEPT ![r].pc = "read", ![r].arg.plan = p] PROVE CalmInv'
      <4>1. req'[r].pc = "read" /\ \A s \in Requests : ~Pending(s) => req'[s] = req[s]
        BY <3>1, <3>3, <2>0 DEF TypeInv, TypeOK, RequestRec
      <4>2. calm => Stage(req[r])'
        BY <3>1, <3>2, <4>1 DEF Stage
      <4> QED
        BY <3>1, <4>1, <4>2, CalmOn
    <3>4. ASSUME req' = [req EXCEPT ![r] = Idle] PROVE CalmInv'
      <4>1. req'[r] = Idle /\ \A s \in Requests : ~Pending(s) => req'[s] = req[s]
        BY <3>1, <3>4 DEF TypeInv, TypeOK
      <4> QED
        BY <3>1, <3>2, <4>1, CalmAnswer
    <3> QED
      BY <2>6, <3>3, <3>4 DEF ProfileCompare
  <2>7. CASE ReadAudit(r)
    <3>1. Pending(r) /\ req[r].pc = "audit" /\ UNCHANGED <<file, audit, calm, ideal, idealAudit>>
          /\ req' = [req EXCEPT ![r].pc = "auditBegin", ![r].log = Logged(req[r].op, req[r].who, audit)]
      BY <2>7 DEF ReadAudit, Pending, GhostsSame
    <3>2. calm => file = after /\ audit = idealAudit
      BY <3>1 DEF CalmInv, Stage
    <3>3. calm => Stage(req[r])'
      BY <3>1, <3>2, <2>0 DEF Stage, TypeInv, TypeOK, RequestRec
    <3>4. req'[r].pc # "idle" /\ \A s \in Requests : ~Pending(s) => req'[s] = req[s]
      BY <3>1, <2>0 DEF TypeInv, TypeOK, RequestRec
    <3> QED
      BY <3>1, <3>3, <3>4, CalmOn
  <2>8. CASE TruncateAudit(r)
    <3>1. Pending(r) /\ req[r].pc = "auditBegin" /\ UNCHANGED <<file, calm, ideal, idealAudit>>
          /\ req' = [req EXCEPT ![r].pc = "auditWrite", ![r].mixed = FALSE]
      BY <2>8 DEF TruncateAudit, Pending, GhostsSame
    <3>2. calm => file = after /\ req[r].log = Logged(req[r].op, req[r].who, idealAudit)
      BY <3>1 DEF CalmInv, Stage
    <3>3. calm => Stage(req[r])'
      BY <3>1, <3>2, <2>0 DEF Stage, TypeInv, TypeOK, RequestRec
    <3>4. req'[r].pc # "idle" /\ \A s \in Requests : ~Pending(s) => req'[s] = req[s]
      BY <3>1, <2>0 DEF TypeInv, TypeOK, RequestRec
    <3> QED
      BY <3>1, <3>3, <3>4, CalmOn
  <2>9. CASE FillAudit(r)
    <3>1. Pending(r) /\ req[r].pc = "auditWrite" /\ UNCHANGED <<file, calm>> /\ ideal' = after
          /\ idealAudit' = Logged(req[r].op, req[r].who, idealAudit)
      BY <2>9 DEF FillAudit, Pending
    <3>2. calm => /\ file = after /\ ~req[r].mixed
                  /\ req[r].log = Logged(req[r].op, req[r].who, idealAudit)
      BY <3>1 DEF CalmInv, Stage
    <3>3. calm => audit' = idealAudit'
      BY <2>9, <3>1, <3>2 DEF FillAudit, Leaves
    <3>4. req'[r] = Idle /\ \A s \in Requests : ~Pending(s) => req'[s] = req[s]
      BY <2>9 DEF FillAudit, Overwritten, Pending
    <3> QED
      BY <3>1, <3>2, <3>3, <3>4, CalmAnswer
  <2> QED
    BY <1>4, <2>1, <2>2, <2>3, <2>4, <2>5, <2>6, <2>7, <2>8, <2>9 DEF Handler
<1>5. ASSUME NEW b \in Browsers, Logout(b) PROVE CalmInv'
  BY <1>2, <1>5 DEF Logout, GhostsSame
<1>6. CASE Tick
  BY <1>2, <1>6 DEF Tick, GhostsSame
<1>7. CASE Restart
  BY <1>7 DEF Restart, CalmInv
<1> QED
  BY <1>1, <1>3, <1>4, <1>5, <1>6, <1>7 DEF Next

\* A server whose requests come one at a time and are not cut off by a restart
\* keeps both files as the acknowledged operations make them, whatever those
\* operations are and however many.
THEOREM UsersCalmStoreIsSerial == Spec => []CalmStoreIsSerial
<1>1. Init => CalmInv
  BY DEF Init, CalmInv, Pending, Idle
<1>2. CalmInv => CalmStoreIsSerial
  BY DEF CalmInv, CalmStoreIsSerial
<1>3. Spec => [](TypeInv /\ CalmInv)
  BY <1>1, TypeInit, TypeStep, CalmStep, PTL DEF Spec
<1> QED
  BY <1>2, <1>3, PTL
=============================================================================
