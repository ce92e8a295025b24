--------------------------- MODULE Billing_proofs ---------------------------
(***************************************************************************)
(* Theorems about checkout sessions and the subscription, for any number   *)
(* of requests, links, versions and mishaps: what is moved for a link is   *)
(* moved once per cause, an answered payment has been credited, and the    *)
(* tables catch up with Stripe.                                            *)
(***************************************************************************)
EXTENDS Billing, FiniteSetTheorems, TLAPS

Phases == {"idle", "record", "session", "retrieve", "default", "upsert",
           "check", "commit", "mark", "answer"}

Ends == {"completed", "expired"}

\* What the handlers begin by themselves, without an event of Stripe.
OwnWork == {Event("create", s, 0) : s \in Sessions} \union {Event("sync", s, 0) : s \in Sessions}

\* What an event is about and what the phase of its handler says of it.
PhaseFits(phase, e) ==
  /\ phase = "record" => e.type = "create"
  /\ phase = "session" => e.type \in Ends
  /\ phase \in {"check", "commit", "mark"} => MoveOf(e) \in Moves /\ e.session \in va
  /\ phase \in {"retrieve", "default", "upsert"} => WritesSubscription(e)

\* A busy handler works on something that was sent or that it began itself.
JobFits(h) ==
  /\ job[h].event \in sent \union OwnWork
  /\ job[h] = [event |-> job[h].event, read |-> job[h].read]
  /\ job[h].read \in 0 .. MaxVersion
  /\ PhaseFits(pc[h], job[h].event)

\* Stripe sends one end of a session, what follows only after a completed one,
\* and one event for each later version of the subscription.
StripeInv ==
  /\ stripe \in [Sessions -> {"none", "open"} \union Ends]
  /\ version \in 0 .. MaxVersion
  /\ events \subseteq sent /\ sent \subseteq Events
  /\ complete \subseteq va /\ va \subseteq Links
  /\ \A e \in sent : e.type \in Ends => stripe[e.session] = e.type
  /\ \A e \in sent : e.type \notin Ends => stripe[e.session] = "completed"
  /\ version > 0 <=> stripe[Sub] = "completed"
  /\ \A e \in sent : e.type = "updated" => e.version <= version
  /\ \A v \in 2 .. version : Event("updated", Sub, v) \in sent

HandlersInv ==
  /\ pc \in [Handlers -> Phases]
  /\ job = [h \in Handlers |-> job[h]]
  /\ \A h \in Handlers : pc[h] = "idle" <=> job[h] = NoJob
  /\ \A h \in Handlers : pc[h] # "idle" => JobFits(h)

TablesInv ==
  /\ row \in [Sessions -> {"none", "open"} \union Ends]
  /\ current \in 0 .. MaxVersion
  /\ marker \subseteq Moves
  /\ moved \in [Moves -> Nat]
  /\ excused \subseteq ({"row", "subscription"} \X Sessions) \union Moves
  /\ causes \in [Moves -> Nat]
  /\ mishaps \in 0 .. MaxMishaps

BillingInv == StripeInv /\ HandlersInv /\ TablesInv

-----------------------------------------------------------------------------
(* Moves *)

\* The handlers that work on move m and have not made it yet, and among them
\* those that have looked at the marker.
Open(m) == {h \in Handlers : pc[h] \in {"session", "check", "commit"} /\ MoveOf(job[h].event) = m}
Decided(m) == {h \in Handlers : pc[h] = "commit" /\ MoveOf(job[h].event) = m}

\* A handler is about to write the marker of m.
Marking(m) == \E h \in Handlers : pc[h] = "mark" /\ MoveOf(job[h].event) = m

EventOf(m) == Event(m[1], m[2], 0)

\* Whoever may still move has a cause of its own, but for the first; and one
\* cause is left for an event that may be delivered to an idle handler.
MoveInv(m) ==
  /\ IsFiniteSet(Open(m))
  /\ Cardinality(Decided(m)) + moved[m] <= 1 + causes[m]
  /\ Cardinality(Open(m)) + moved[m] <= 2 + causes[m]
  /\ m \notin marker =>
       /\ Cardinality(Open(m)) + moved[m] <= 1 + causes[m]
       /\ ~ Handled(EventOf(m)) /\ ~ Marking(m) => moved[m] <= causes[m]

MovesInv == \A m \in Moves : MoveInv(m)

\* The metadata of the link say enough to make move m.
Due(m) == m[2] \in IF m[1] = "completed" THEN complete ELSE va

\* Who has got past its commit has moved, or has an excuse.
Settled(m) == moved[m] > 0 \/ m \in excused

CreditOf(m) ==
  /\ m \in marker \/ Marking(m) => moved[m] > 0
  /\ Due(m) =>
       /\ Handled(EventOf(m)) => Settled(m)
       /\ \A h \in Handlers : pc[h] = "answer" /\ job[h].event = EventOf(m) => Settled(m)

CreditInv == \A m \in Moves : CreditOf(m)

-----------------------------------------------------------------------------
(* Rows of sessions *)

\* A row says at most what Stripe has; the handler that still has to write the
\* first row of a session is the only one.
RowFits ==
  /\ \A s \in Sessions : row[s] \in {"none", "open", stripe[s]}
  /\ \A s \in Sessions : stripe[s] = "none" => row[s] = "none"
  /\ \A h \in Handlers :
       pc[h] = "record" => /\ stripe[job[h].event.session] # "none"
                           /\ row[job[h].event.session] = "none"
  /\ \A g, h \in Handlers :
       pc[g] = "record" /\ pc[h] = "record" /\ job[g].event = job[h].event => g = h

\* The end of session s has been answered, or its handler is past the row.
Past(s, end) ==
  \/ Handled(Event(end, s, 0))
  \/ \E h \in Handlers : pc[h] \notin {"idle", "session"} /\ job[h].event = Event(end, s, 0)

Shows(s, end) == row[s] = end \/ <<"row", s>> \in excused

RowInv == RowFits /\ \A s \in Sessions, end \in Ends : Past(s, end) => Shows(s, end)

-----------------------------------------------------------------------------
(* The subscription *)

Writes(h) == pc[h] # "idle" /\ WritesSubscription(job[h].event)

Newest == Event("updated", Sub, version)
Begun == Event("completed", Sub, 0)

\* The row is up to date, or an event is pending that brings it there.
UpToDate == current = version \/ Newest \in events \/ Begun \in events

\* What a writer carries is the newest version, or a newer one is on its way.
CarriesNewest(h) ==
  /\ pc[h] # "default"
  /\ Writes(h) => version > 0
  /\ pc[h] = "upsert" =>
       job[h].read = version \/ (Newest \in events /\ job[h].event # Newest)
  /\ Writes(h) /\ pc[h] = "answer" =>
       current = version \/ (Newest \in events /\ job[h].event # Newest)

\* Without an excuse there is one writer at a time.
Kept ==
  /\ \A g, h \in Handlers : Writes(g) /\ Writes(h) => g = h
  /\ UpToDate
  /\ \A h \in Handlers : CarriesNewest(h)

SubscriptionInv == SubscriptionRow \in excused \/ Kept

-----------------------------------------------------------------------------
(* Events, jobs and types *)

\* The kinds of events are told apart by their types.
LEMMA EventTypes ==
  /\ \A e \in Events :
       /\ e.type \in {"completed", "expired", "updated"} \union Reversals
       /\ e.session \in Sessions /\ e.version \in Nat /\ e.version <= MaxVersion
       /\ e = Event(e.type, e.session, e.version)
       /\ e.type # "updated" => e.version = 0
       /\ e.type = "updated" => e.session = Sub
       /\ e.type \in Reversals => e.session \in Links
  /\ \A e \in OwnWork :
       /\ e.type \in {"create", "sync"} /\ e.session \in Sessions /\ e.version = 0
       /\ e = Event(e.type, e.session, 0)
  /\ {"create", "sync", "expired", "updated", "completed"} \intersect Reversals = {}
  /\ Sub \in Sessions /\ Links \subseteq Sessions /\ Sub \notin Links
<1>1. /\ {"create", "sync", "expired", "updated", "completed"} \intersect Reversals = {}
      /\ Sub \in Sessions /\ Links \subseteq Sessions /\ Sub \notin Links
      /\ MaxVersion \in Nat /\ MaxVersion >= 1
  BY BillingAssumption DEF Sessions
<1>2. ASSUME NEW e \in Events
      PROVE  /\ e.type \in {"completed", "expired", "updated"} \union Reversals
             /\ e.session \in Sessions /\ e.version \in Nat /\ e.version <= MaxVersion
             /\ e = Event(e.type, e.session, e.version)
             /\ e.type # "updated" => e.version = 0
             /\ e.type = "updated" => e.session = Sub
             /\ e.type \in Reversals => e.session \in Links
  <2>1. CASE e \in {Event(t, s, 0) : t \in {"completed", "expired"}, s \in Sessions}
    BY <1>1, <2>1 DEF Event
  <2>2. CASE e \in {Event("updated", Sub, v) : v \in Versions \ {1}}
    BY <1>1, <2>2 DEF Event, Versions
  <2>3. CASE e \in {Event(t, s, 0) : t \in Reversals, s \in Links}
    BY <1>1, <2>3 DEF Event
  <2>4. QED
    BY <2>1, <2>2, <2>3 DEF Events
<1>3. ASSUME NEW e \in OwnWork
      PROVE  /\ e.type \in {"create", "sync"} /\ e.session \in Sessions /\ e.version = 0
             /\ e = Event(e.type, e.session, 0)
  BY <1>1, <1>3 DEF OwnWork, Event
<1>4. QED
  BY <1>1, <1>2, <1>3

\* What a handler may work on is a job, and being idle is none.
LEMMA JobsAreWork ==
  ASSUME NEW e \in Events \union OwnWork, NEW r \in Nat
  PROVE  [event |-> e, read |-> r] # NoJob
<1> DEFINE types == {"completed", "expired", "updated", "create", "sync"} \union Reversals
<1>1. e \in [type : types, session : Sessions, version : Nat]
  <2>1. /\ e = [type |-> e.type, session |-> e.session, version |-> e.version]
        /\ e.session \in Sessions /\ e.version \in Nat /\ e.type \in types
    BY EventTypes DEF Event
  <2> HIDE DEF types
  <2>2. QED
    BY <2>1
<1>2. QED
  BY <1>1, BillingAssumption

\* A move is the business of one event.
LEMMA MovesAndEvents ==
  ASSUME NEW e \in Events \union OwnWork, MoveOf(e) \in Moves
  PROVE  e = EventOf(MoveOf(e)) /\ e.session \in Links /\ e.type \in {"completed", "charge.refunded"}
<1>1. e.type \in {"completed", "charge.refunded"} /\ e.session \in Links
  BY DEF Moves, MoveOf
<1>2. e.type \notin {"create", "sync", "updated"}
  BY <1>1, EventTypes
<1>3. QED
  BY <1>1, <1>2, EventTypes DEF EventOf, MoveOf

\* A busy handler's job, in the terms the proofs below need.
LEMMA BusyFacts ==
  ASSUME BillingInv, NEW h \in Handlers, pc[h] # "idle"
  PROVE  /\ JobFits(h) /\ job[h] # NoJob
         /\ job[h].event \in Events \union OwnWork
         /\ job[h].event.session \in Sessions
BY EventTypes DEF BillingInv, HandlersInv, StripeInv, JobFits

\* A handler that begins or goes on has the phase and the job it is given, and
\* no other notices.
LEMMA HandlerStepKeeps ==
  ASSUME BillingInv, NEW h \in Handlers, NEW p \in Phases \ {"idle"}, NEW e \in sent \union OwnWork,
         NEW r \in 0 .. MaxVersion,
         Go(h, p), job' = [job EXCEPT ![h] = [event |-> e, read |-> r]],
         sent \subseteq sent', va \subseteq va', PhaseFits(p, e)
  PROVE  HandlersInv'
<1>1. [event |-> e, read |-> r] # NoJob
  <2>1. e \in Events \union OwnWork /\ r \in Nat
    BY BillingAssumption DEF BillingInv, StripeInv
  <2>2. QED
    BY <2>1, JobsAreWork
<1>2. pc' \in [Handlers -> Phases] /\ job' = [g \in Handlers |-> job'[g]]
  BY DEF BillingInv, HandlersInv, Go
<1>3. /\ pc'[h] = p /\ job'[h] = [event |-> e, read |-> r]
      /\ \A g \in Handlers : g # h => pc'[g] = pc[g] /\ job'[g] = job[g]
  BY DEF BillingInv, HandlersInv, Go
<1>4. \A g \in Handlers : pc'[g] = "idle" <=> job'[g] = NoJob
  BY <1>1, <1>3 DEF BillingInv, HandlersInv
<1>5. ASSUME NEW g \in Handlers, pc'[g] # "idle"
      PROVE  JobFits(g)'
  <2>1. CASE g = h
    BY <1>3, <2>1 DEF JobFits, PhaseFits
  <2>2. CASE g # h
    <3>1. JobFits(g)
      BY <1>3, <1>5, <2>2 DEF BillingInv, HandlersInv
    <3>2. QED
      BY <1>3, <2>2, <3>1 DEF JobFits, PhaseFits
  <2>3. QED
    BY <2>1, <2>2
<1>6. QED
  BY <1>2, <1>4, <1>5 DEF HandlersInv

\* A handler that goes on with its job.
LEMMA HandlerGoesOn ==
  ASSUME BillingInv, NEW h \in Handlers, pc[h] # "idle", NEW p \in Phases \ {"idle"},
         Go(h, p), job' = job, sent \subseteq sent', va \subseteq va',
         PhaseFits(p, job[h].event)
  PROVE  HandlersInv'
<1>1. JobFits(h)
  BY DEF BillingInv, HandlersInv
<1>2. job' = [job EXCEPT ![h] = [event |-> job[h].event, read |-> job[h].read]]
  BY <1>1 DEF BillingInv, HandlersInv, JobFits
<1>3. QED
  BY <1>1, <1>2, HandlerStepKeeps DEF JobFits

\* A handler that answers or is cut off is idle.
LEMMA HandlerFinishes ==
  ASSUME BillingInv, NEW h \in Handlers, Finish(h), sent \subseteq sent', va \subseteq va'
  PROVE  HandlersInv'
<1>1. pc' \in [Handlers -> Phases] /\ job' = [g \in Handlers |-> job'[g]]
  BY DEF BillingInv, HandlersInv, Finish, Go, Phases
<1>2. /\ pc'[h] = "idle" /\ job'[h] = NoJob
      /\ \A g \in Handlers : g # h => pc'[g] = pc[g] /\ job'[g] = job[g]
  BY DEF BillingInv, HandlersInv, Finish, Go
<1>3. ASSUME NEW g \in Handlers, pc'[g] # "idle"
      PROVE  JobFits(g)'
  <2>1. g # h /\ JobFits(g)
    BY <1>2, <1>3 DEF BillingInv, HandlersInv
  <2>2. QED
    BY <1>2, <2>1 DEF JobFits, PhaseFits
<1>4. QED
  BY <1>1, <1>2, <1>3 DEF BillingInv, HandlersInv

\* Handlers that are left alone fit what else may change.
LEMMA HandlersStay ==
  ASSUME HandlersInv, UNCHANGED <<pc, job>>, sent \subseteq sent', va \subseteq va'
  PROVE  HandlersInv'
BY DEF HandlersInv, JobFits, PhaseFits

\* What Stripe has sent stays consistent: only its own steps, and answers that
\* take an event off the list, touch it.
LEMMA StripeStep ==
  ASSUME BillingInv, [Next]_vars
  PROVE  StripeInv' /\ sent \subseteq sent' /\ va \subseteq va'
<1> USE DEF StripeInv, Ends
<1>0. StripeInv /\ MaxVersion \in Nat /\ MaxVersion >= 1
  BY BillingAssumption DEF BillingInv
<1>1. ASSUME NEW s \in Sessions, SessionEnds(s)
      PROVE  StripeInv' /\ sent \subseteq sent' /\ va \subseteq va'
  <2>1. PICK end \in {"completed", "expired"} :
          /\ stripe' = [stripe EXCEPT ![s] = end]
          /\ sent' = sent \union {Event(end, s, 0)}
          /\ events' = events \union {Event(end, s, 0)}
          /\ version' = IF s = Sub /\ end = "completed" THEN 1 ELSE version
    BY <1>1 DEF SessionEnds, Emit
  <2>2. stripe[s] = "open" /\ UNCHANGED <<va, complete>>
    BY <1>1 DEF SessionEnds
  <2>3. Event(end, s, 0) \in Events
    BY DEF Events
  <2>4. s = Sub => version = 0
    BY <1>0, <2>2
  <2>5. \A e \in sent' : e.type \in Ends => stripe'[e.session] = e.type
    <3>1. ASSUME NEW e \in sent, e.type \in Ends
          PROVE  stripe'[e.session] = e.type
      <4>1. stripe[e.session] = e.type /\ e.session \in Sessions
        BY <1>0, <3>1, EventTypes
      <4>2. QED
        BY <1>0, <2>1, <2>2, <3>1, <4>1
    <3>2. stripe'[s] = end
      BY <1>0, <2>1
    <3>3. QED
      BY <2>1, <3>1, <3>2 DEF Event
  <2>6. version' \in 0 .. MaxVersion /\ (version' > 0 <=> stripe'[Sub] = "completed")
    BY <1>0, <2>1, <2>2, <2>4, EventTypes
  <2>7. \A e \in sent' : e.type = "updated" => e.version <= version'
    <3>1. ASSUME NEW e \in sent, e.type = "updated"
          PROVE  e.version <= version'
      BY <1>0, <2>1, <2>4, <3>1, EventTypes
    <3>2. QED
      BY <2>1, <3>1 DEF Event
  <2>8. \A v \in 2 .. version' : Event("updated", Sub, v) \in sent'
    BY <1>0, <2>1
  <2>9. \A e \in sent' : e.type \notin Ends => stripe'[e.session] = "completed"
    <3>1. ASSUME NEW e \in sent, e.type \notin Ends
          PROVE  stripe'[e.session] = "completed"
      <4>1. stripe[e.session] = "completed" /\ e.session \in Sessions
        BY <1>0, <3>1, EventTypes
      <4>2. QED
        BY <1>0, <2>1, <2>2, <4>1
    <3>2. QED
      BY <2>1, <3>1 DEF Event
  <2>10. QED
    BY <1>0, <2>1, <2>2, <2>3, <2>5, <2>6, <2>7, <2>8, <2>9
<1>2. ASSUME SubscriptionChanges
      PROVE  StripeInv' /\ sent \subseteq sent' /\ va \subseteq va'
  <2> DEFINE f == Event("updated", Sub, version + 1)
  <2>1. /\ version \in 1 .. MaxVersion - 1 /\ version' = version + 1
        /\ sent' = sent \union {f} /\ events' = events \union {f}
        /\ UNCHANGED <<stripe, va, complete>>
    BY <1>2 DEF SubscriptionChanges, Emit
  <2>2. f \in Events
    BY <1>0, <2>1 DEF Events, Versions
  <2>3. f.type = "updated" /\ f.version = version'
    BY <2>1 DEF Event
  <2>4. \A e \in sent' : e.type = "updated" => e.version <= version'
    <3>1. ASSUME NEW e \in sent, e.type = "updated"
          PROVE  e.version <= version'
      BY <1>0, <2>1, <3>1, EventTypes
    <3> HIDE DEF f
    <3>2. QED
      BY <1>0, <2>1, <2>3, <3>1
  <2>5. \A v \in 2 .. version' : Event("updated", Sub, v) \in sent'
    BY <1>0, <2>1
  <2>6. stripe[f.session] = "completed"
    BY <1>0, <2>1 DEF Event
  <2> HIDE DEF f
  <2>7. QED
    BY <1>0, <2>1, <2>2, <2>3, <2>4, <2>5, <2>6
<1>3. ASSUME NEW s \in Links, NEW t \in Reversals, ChargeReversed(s, t)
      PROVE  StripeInv' /\ sent \subseteq sent' /\ va \subseteq va'
  <2> DEFINE f == Event(t, s, 0)
  <2>1. /\ sent' = sent \union {f} /\ events' = events \union {f}
        /\ UNCHANGED <<stripe, va, complete, version>>
    BY <1>3 DEF ChargeReversed, Emit
  <2>2. f \in Events /\ f.type \notin Ends /\ f.type # "updated"
    BY EventTypes DEF Events, Event
  <2>3. stripe[f.session] = "completed"
    BY <1>3 DEF ChargeReversed, Event
  <2> HIDE DEF f
  <2>4. QED
    BY <1>0, <2>1, <2>2, <2>3
<1>4. ASSUME NEW s \in Sessions, stripe[s] = "none", stripe' = [stripe EXCEPT ![s] = "open"],
             UNCHANGED <<version, sent, events>>, va \subseteq va', va' \subseteq Links,
             complete' \subseteq va'
      PROVE  StripeInv' /\ sent \subseteq sent' /\ va \subseteq va'
  <2>1. ASSUME NEW e \in sent, e.type \in Ends
        PROVE  stripe'[e.session] = e.type
    BY <1>0, <1>4, <2>1, EventTypes
  <2>2. stripe'[Sub] = "completed" <=> stripe[Sub] = "completed"
    BY <1>0, <1>4, EventTypes
  <2>3. ASSUME NEW e \in sent, e.type \notin Ends
        PROVE  stripe'[e.session] = "completed"
    BY <1>0, <1>4, <2>3, EventTypes
  <2>4. QED
    BY <1>0, <1>4, <2>1, <2>2, <2>3
<1>5. ASSUME events' \subseteq events, UNCHANGED <<stripe, version, sent, va, complete>>
      PROVE  StripeInv' /\ sent \subseteq sent' /\ va \subseteq va'
  BY <1>0, <1>5
<1>6. ASSUME NEW s \in Links, LinkMadeElsewhere(s)
      PROVE  StripeInv' /\ sent \subseteq sent' /\ va \subseteq va'
  <2>1. va \subseteq va' /\ va' \subseteq Links /\ complete' \subseteq va'
    BY <1>0, <1>6 DEF LinkMadeElsewhere
  <2>2. QED
    BY <1>4, <1>6, <2>1, EventTypes DEF LinkMadeElsewhere
<1>7. ASSUME NEW h \in Handlers, HandlerStep(h)
      PROVE  StripeInv' /\ sent \subseteq sent' /\ va \subseteq va'
  <2>1. CASE \E s \in Sessions : CreateSession(h, s)
    <3>1. PICK s \in Sessions : CreateSession(h, s)
      BY <2>1
    <3>2. UNCHANGED <<va, complete>>
      BY <3>1 DEF CreateSession
    <3>3. QED
      BY <1>0, <1>4, <3>1, <3>2 DEF CreateSession
  <2>2. CASE Answer(h)
    BY <1>5, <2>2 DEF Answer
  <2>3. CASE \/ Record(h) \/ (\E s \in Sessions : Sync(h, s)) \/ UpdateSession(h) \/ Retrieve(h) \/ Upsert(h)
             \/ Check(h) \/ Commit(h) \/ SetMarker(h) \/ \E e \in events : Deliver(h, e)
    <3>1. UNCHANGED stripeVars
      BY <2>3 DEF Record, Sync, UpdateSession, Retrieve, Upsert, Check, Commit, SetMarker, Deliver
    <3>2. QED
      BY <1>5, <3>1 DEF stripeVars
  <2>4. QED
    BY <1>7, <2>1, <2>2, <2>3 DEF HandlerStep
<1>8. CASE Mishap \/ UNCHANGED vars
  <2>1. UNCHANGED stripeVars
    BY <1>8 DEF Mishap, CallFails, Interrupted, Expire, vars
  <2>2. QED
    BY <1>5, <2>1 DEF stripeVars
<1>9. QED
  BY <1>1, <1>2, <1>3, <1>6, <1>7, <1>8 DEF Next

\* The phases an event is sent through fit it.
LEMMA PhasesFit ==
  ASSUME BillingInv, NEW e \in Events \union OwnWork
  PROVE  /\ FirstPhase(e) \in {"session", "upsert", "check", "answer"}
         /\ PhaseFits(FirstPhase(e), e)
         /\ e.type \in Ends => /\ AfterSession(e) \in {"retrieve", "check", "answer"}
                               /\ PhaseFits(AfterSession(e), e)
<1>1. complete \subseteq va /\ va \subseteq Links
  BY DEF BillingInv, StripeInv
<1>2. FirstPhase(e) \in {"session", "upsert", "check", "answer"} /\ PhaseFits(FirstPhase(e), e)
  <2>1. CASE e.type \in Ends
    <3>1. FirstPhase(e) = "session"
      BY <2>1, EventTypes DEF FirstPhase, Ends
    <3>2. QED
      BY <2>1, <3>1 DEF PhaseFits
  <2>2. CASE e.type = "updated"
    BY <2>2, EventTypes DEF FirstPhase, PhaseFits, WritesSubscription
  <2>3. CASE e.type = "charge.refunded" /\ e.session \in va
    <3>1. e.type \notin {"completed", "expired", "updated"}
      BY <2>3, EventTypes
    <3>2. FirstPhase(e) = "check"
      BY <2>3, <3>1 DEF FirstPhase
    <3>3. MoveOf(e) \in Moves
      BY <1>1, <2>3 DEF MoveOf, Moves
    <3>4. QED
      BY <2>3, <3>2, <3>3 DEF PhaseFits
  <2>4. CASE e.type \notin Ends \union {"updated"} /\ ~ (e.type = "charge.refunded" /\ e.session \in va)
    BY <2>4 DEF FirstPhase, PhaseFits, Ends
  <2>5. QED
    BY <2>1, <2>2, <2>3, <2>4
<1>3. ASSUME e.type \in Ends
      PROVE  /\ AfterSession(e) \in {"retrieve", "check", "answer"}
             /\ PhaseFits(AfterSession(e), e)
  <2>1. CASE e.type = "completed" /\ e.session = Sub
    <3>1. e = Event("completed", Sub, 0)
      BY <2>1, EventTypes
    <3>2. e.session \notin complete
      BY <1>1, <2>1, EventTypes
    <3>3. AfterSession(e) = "retrieve" /\ WritesSubscription(e)
      BY <2>1, <3>1, <3>2 DEF AfterSession, WritesSubscription
    <3>4. QED
      BY <3>3 DEF PhaseFits
  <2>2. CASE e.type = "completed" /\ e.session \in complete
    BY <1>1, <2>2, EventTypes DEF AfterSession, PhaseFits, MoveOf, Moves
  <2>3. CASE ~ (e.type = "completed" /\ (e.session = Sub \/ e.session \in complete))
    BY <2>3 DEF AfterSession, PhaseFits
  <2>4. QED
    BY <2>1, <2>2, <2>3
<1>4. QED
  BY <1>2, <1>3

\* No step leaves a handler with a phase its job does not fit.
LEMMA HandlersStep ==
  ASSUME BillingInv, [Next]_vars
  PROVE  HandlersInv'
<1>0. sent \subseteq sent' /\ va \subseteq va' /\ HandlersInv /\ events \subseteq sent
      /\ sent \subseteq Events /\ MaxVersion \in Nat /\ MaxVersion >= 1 /\ version \in 0 .. MaxVersion
  BY StripeStep, BillingAssumption DEF BillingInv, StripeInv
<1>1. CASE UNCHANGED <<pc, job>>
  BY <1>0, <1>1, HandlersStay
<1>2. ASSUME NEW h \in Handlers, NEW s \in Sessions, CreateSession(h, s)
      PROVE  HandlersInv'
  <2> DEFINE e == Event("create", s, 0)
  <2>1. e \in OwnWork /\ PhaseFits("record", e) /\ e.version = 0
    BY DEF OwnWork, PhaseFits, Event
  <2>2. Go(h, "record") /\ job' = [job EXCEPT ![h] = [event |-> e, read |-> 0]]
    BY <1>2, <2>1 DEF CreateSession, Job
  <2>3. 0 \in 0 .. MaxVersion /\ "record" \in Phases \ {"idle"}
    BY <1>0 DEF Phases
  <2> HIDE DEF e
  <2>4. QED
    BY <1>0, <2>1, <2>2, <2>3, HandlerStepKeeps
<1>3. ASSUME NEW h \in Handlers, NEW e \in events, Deliver(h, e)
      PROVE  HandlersInv'
  <2>1. e \in Events /\ e.version \in 0 .. MaxVersion
    BY <1>0, EventTypes
  <2>2. FirstPhase(e) \in Phases \ {"idle"} /\ PhaseFits(FirstPhase(e), e)
    BY <2>1, PhasesFit DEF Phases
  <2>3. Go(h, FirstPhase(e)) /\ job' = [job EXCEPT ![h] = [event |-> e, read |-> e.version]]
    BY <1>3 DEF Deliver, Job
  <2>4. QED
    BY <1>0, <2>1, <2>2, <2>3, HandlerStepKeeps
<1>4. ASSUME NEW h \in Handlers, NEW s \in Sessions, Sync(h, s)
      PROVE  HandlersInv'
  <2> DEFINE e == Event("sync", s, 0)
             p == IF s = Sub /\ stripe[s] = "completed" THEN "retrieve" ELSE "default"
  <2>1. e \in OwnWork /\ PhaseFits(p, e) /\ e.version = 0 /\ p \in Phases \ {"idle"}
    BY DEF OwnWork, PhaseFits, Event, WritesSubscription, Phases
  <2>2. Go(h, p) /\ job' = [job EXCEPT ![h] = [event |-> e, read |-> 0]]
    BY <1>4, <2>1 DEF Sync, Job
  <2>3. 0 \in 0 .. MaxVersion
    BY <1>0
  <2> HIDE DEF e, p
  <2>4. QED
    BY <1>0, <2>1, <2>2, <2>3, HandlerStepKeeps
<1>5. ASSUME NEW h \in Handlers, UpdateSession(h)
      PROVE  HandlersInv'
  <2>1. pc[h] = "session" /\ Go(h, AfterSession(job[h].event)) /\ job' = job
    BY <1>5 DEF UpdateSession
  <2>2. job[h].event \in Events \union OwnWork /\ job[h].event.type \in Ends
    BY <2>1, BusyFacts DEF JobFits, PhaseFits
  <2>3. AfterSession(job[h].event) \in Phases \ {"idle"}
        /\ PhaseFits(AfterSession(job[h].event), job[h].event)
    BY <2>2, PhasesFit DEF Phases
  <2>4. QED
    BY <1>0, <2>1, <2>3, HandlerGoesOn
<1>6. ASSUME NEW h \in Handlers, NEW r \in 0 .. MaxVersion, pc[h] \in {"retrieve", "default"},
             Go(h, "upsert"), job' = [job EXCEPT ![h].read = r]
      PROVE  HandlersInv'
  <2>1. JobFits(h)
    BY <1>6, BusyFacts
  <2>2. job' = [job EXCEPT ![h] = [event |-> job[h].event, read |-> r]]
    <3>1. [job[h] EXCEPT !.read = r] = [event |-> job[h].event, read |-> r]
      BY <2>1 DEF JobFits
    <3>2. QED
      BY <1>6, <3>1
  <2>3. PhaseFits("upsert", job[h].event)
    BY <1>6, <2>1 DEF JobFits, PhaseFits
  <2>4. QED
    BY <1>0, <1>6, <2>1, <2>2, <2>3, HandlerStepKeeps DEF JobFits, Phases
<1>7. ASSUME NEW h \in Handlers, Retrieve(h)
      PROVE  HandlersInv'
  BY <1>0, <1>6, <1>7 DEF Retrieve
<1>8. ASSUME NEW h \in Handlers, pc[h] # "idle", Go(h, "answer"), job' = job
      PROVE  HandlersInv'
  <2>1. PhaseFits("answer", job[h].event)
    BY DEF PhaseFits
  <2>2. QED
    BY <1>0, <1>8, <2>1, HandlerGoesOn DEF Phases
<1>9. ASSUME NEW h \in Handlers, NEW p \in {"commit", "mark"}, pc[h] \in {"check", "commit"},
             Go(h, p), job' = job
      PROVE  HandlersInv'
  <2>1. PhaseFits(p, job[h].event)
    BY <1>9, BusyFacts DEF JobFits, PhaseFits
  <2>2. QED
    BY <1>0, <1>9, <2>1, HandlerGoesOn DEF Phases
<1>10. ASSUME NEW h \in Handlers, Upsert(h) \/ SetMarker(h) \/ Check(h) \/ Commit(h)
       PROVE  HandlersInv'
  BY <1>8, <1>9, <1>10 DEF Upsert, SetMarker, Check, Commit
<1>11. ASSUME NEW h \in Handlers, Record(h) \/ Answer(h) \/ Interrupted(h)
       PROVE  HandlersInv'
  BY <1>0, <1>11, HandlerFinishes DEF Record, Answer, Interrupted
<1>12. ASSUME NEW h \in Handlers, CallFails(h)
       PROVE  HandlersInv'
  <2>1. CASE pc[h] = "session" /\ Go(h, AfterSession(job[h].event)) /\ job' = job
    <3>1. job[h].event \in Events \union OwnWork /\ job[h].event.type \in Ends
      BY <2>1, BusyFacts DEF JobFits, PhaseFits
    <3>2. AfterSession(job[h].event) \in Phases \ {"idle"}
          /\ PhaseFits(AfterSession(job[h].event), job[h].event)
      BY <3>1, PhasesFit DEF Phases
    <3>3. QED
      BY <1>0, <2>1, <3>2, HandlerGoesOn
  <2>2. CASE pc[h] # "idle" /\ Go(h, "answer") /\ job' = job
    BY <1>8, <2>2
  <2>3. CASE pc[h] = "retrieve" /\ Go(h, "upsert") /\ job' = [job EXCEPT ![h].read = 1]
    <3>1. 1 \in 0 .. MaxVersion
      BY <1>0
    <3>2. QED
      BY <1>6, <2>3, <3>1
  <2>4. QED
    BY <1>12, <2>1, <2>2, <2>3 DEF CallFails
<1>13. CASE \/ \E s \in Sessions : SessionEnds(s)
            \/ SubscriptionChanges
            \/ \E s \in Links : LinkMadeElsewhere(s) \/ \E t \in Reversals : ChargeReversed(s, t)
            \/ Mishap /\ \E m \in marker : Expire(m)
            \/ UNCHANGED vars
  BY <1>1, <1>13 DEF SessionEnds, SubscriptionChanges, LinkMadeElsewhere, ChargeReversed, Expire, vars
<1>14. QED
  BY <1>2, <1>3, <1>4, <1>5, <1>7, <1>10, <1>11, <1>12, <1>13 DEF Next, HandlerStep, Mishap

Excuses == ({"row", "subscription"} \X Sessions) \union Moves

\* Every excuse names a row or a move.
LEMMA ExcusesNamed ==
  /\ \A s \in Sessions : <<"row", s>> \in Excuses
  /\ SubscriptionRow \in Excuses
  /\ \A h, e : BeginExcuses(h, e) \subseteq Excuses
  /\ Moves \subseteq Excuses
<1>1. Sub \in Sessions /\ Links \subseteq Sessions
  BY EventTypes
<1>2. SubscriptionRow \in Excuses
  BY <1>1 DEF Excuses, SubscriptionRow
<1>3. \A h, e : BeginExcuses(h, e) \subseteq Excuses
  BY <1>2 DEF BeginExcuses
<1>4. Moves \subseteq Excuses
  BY <1>1 DEF Excuses, Moves
<1>5. QED
  BY <1>2, <1>3, <1>4 DEF Excuses

\* The tables and the history of excuses and causes are typed.
LEMMA TablesStep ==
  ASSUME BillingInv, [Next]_vars
  PROVE  TablesInv'
<1> USE DEF TablesInv
<1>0. TablesInv /\ MaxVersion \in Nat /\ MaxVersion >= 1 /\ MaxMishaps \in Nat
      /\ excused \subseteq Excuses /\ version \in 0 .. MaxVersion
  BY BillingAssumption DEF BillingInv, StripeInv, Excuses
<1>1. CASE UNCHANGED <<tables, history>>
  BY <1>0, <1>1 DEF tables, history
<1>2. ASSUME NEW h \in Handlers, Record(h)
      PROVE  TablesInv'
  BY <1>0, <1>2 DEF Record, history
<1>3. ASSUME NEW h \in Handlers, NEW e \in events, Deliver(h, e)
      PROVE  TablesInv'
  <2>1. excused' \subseteq Excuses
    BY <1>0, <1>3, ExcusesNamed DEF Deliver
  <2>2. mishaps' \in 0 .. MaxMishaps /\ UNCHANGED tables
    BY <1>0, <1>3 DEF Deliver
  <2>3. causes' \in [Moves -> Nat]
    BY <1>0, <1>3 DEF Deliver
  <2>4. QED
    BY <1>0, <2>1, <2>2, <2>3 DEF Excuses, tables
<1>4. ASSUME NEW h \in Handlers, NEW s \in Sessions, Sync(h, s)
      PROVE  TablesInv'
  <2>1. excused' \subseteq Excuses
    BY <1>0, <1>4, ExcusesNamed DEF Sync
  <2>2. QED
    BY <1>0, <1>4, <2>1 DEF Sync, Excuses, tables
<1>5. ASSUME NEW h \in Handlers, UpdateSession(h)
      PROVE  TablesInv'
  <2>1. pc[h] = "session" /\ job[h].event.session \in Sessions /\ job[h].event.type \in Ends
    BY <1>5, BusyFacts DEF UpdateSession, JobFits, PhaseFits
  <2>2. excused' \subseteq Excuses
    BY <1>0, <1>5, <2>1, ExcusesNamed DEF UpdateSession
  <2>3. QED
    BY <1>0, <1>5, <2>1, <2>2 DEF UpdateSession, Excuses
<1>6. ASSUME NEW h \in Handlers, Upsert(h)
      PROVE  TablesInv'
  <2>1. job[h].read \in 0 .. MaxVersion
    BY <1>6, BusyFacts DEF Upsert, JobFits
  <2>2. QED
    BY <1>0, <1>6, <2>1 DEF Upsert, history
<1>7. ASSUME NEW h \in Handlers, Commit(h) \/ SetMarker(h)
      PROVE  TablesInv'
  <2>1. MoveOf(job[h].event) \in Moves
    BY <1>7, BusyFacts DEF Commit, SetMarker, JobFits, PhaseFits
  <2>2. QED
    BY <1>0, <1>7, <2>1 DEF Commit, SetMarker, history
<1>8. ASSUME NEW h \in Handlers, CallFails(h), mishaps' = mishaps + 1, mishaps < MaxMishaps
      PROVE  TablesInv'
  <2>1. pc[h] # "idle" /\ job[h].event.session \in Sessions
    BY <1>8, BusyFacts DEF CallFails
  <2>2. pc[h] \in {"check", "commit", "mark"} => MoveOf(job[h].event) \in Moves
    BY <2>1, BusyFacts DEF JobFits, PhaseFits
  <2>3. excused' \subseteq Excuses
    BY <1>0, <1>8, <2>1, <2>2, ExcusesNamed DEF CallFails
  <2>4. causes' \in [Moves -> Nat]
    BY <1>0, <1>8, <2>2 DEF CallFails
  <2>5. QED
    BY <1>0, <1>8, <2>3, <2>4 DEF CallFails, tables, Excuses
<1>9. ASSUME NEW h \in Handlers, Interrupted(h), mishaps' = mishaps + 1, mishaps < MaxMishaps
      PROVE  TablesInv'
  BY <1>0, <1>9 DEF Interrupted, tables
<1>10. ASSUME NEW m \in marker, Expire(m), mishaps' = mishaps + 1, mishaps < MaxMishaps
       PROVE  TablesInv'
  BY <1>0, <1>10 DEF Expire
<1>11. ASSUME NEW h \in Handlers,
              \/ \E s \in Sessions : CreateSession(h, s)
              \/ Retrieve(h) \/ Check(h) \/ Answer(h)
       PROVE  TablesInv'
  BY <1>1, <1>11 DEF CreateSession, Retrieve, Check, Answer
<1>12. CASE \/ \E s \in Sessions : SessionEnds(s)
            \/ SubscriptionChanges
            \/ \E s \in Links : LinkMadeElsewhere(s) \/ \E t \in Reversals : ChargeReversed(s, t)
            \/ UNCHANGED vars
  BY <1>1, <1>12 DEF SessionEnds, SubscriptionChanges, LinkMadeElsewhere, ChargeReversed, vars
<1>13. QED
  BY <1>2, <1>3, <1>4, <1>5, <1>6, <1>7, <1>8, <1>9, <1>10, <1>11, <1>12
     DEF Next, HandlerStep, Mishap

\* At first Stripe has sent nothing and nobody is busy.
LEMMA BillingInitial ==
  ASSUME Init
  PROVE  BillingInv
<1>1. MaxVersion \in Nat /\ MaxVersion >= 1 /\ MaxMishaps \in Nat /\ Sub \in Sessions
  BY BillingAssumption, EventTypes
<1>2. QED
  BY <1>1 DEF Init, BillingInv, StripeInv, HandlersInv, TablesInv, Phases, Ends

\* What Stripe sent, the handlers' jobs and the tables always fit together.
LEMMA BillingFits == Spec => []BillingInv
<1>1. BillingInv /\ [Next]_vars => BillingInv'
  BY StripeStep, HandlersStep, TablesStep DEF BillingInv
<1>2. QED
  BY <1>1, BillingInitial, PTL DEF Spec

\* Every variable of the billing tables and of the handlers is typed.
THEOREM BillingTyping == Spec => []TypeOK
<1>1. BillingInv => TypeOK
  BY DEF BillingInv, StripeInv, HandlersInv, TablesInv, TypeOK, Ends
<1>2. QED
  BY <1>1, BillingFits, PTL

-----------------------------------------------------------------------------
(* Moves *)

\* What has been sent and answered is never sent again.
LEMMA HandledStays ==
  ASSUME BillingInv, [Next]_vars, NEW f, Handled(f)
  PROVE  Handled(f)'
<1> USE DEF Handled
<1>0. StripeInv
  BY DEF BillingInv
<1>1. ASSUME NEW s \in Sessions, SessionEnds(s)
      PROVE  Handled(f)'
  <2>1. PICK end \in Ends : sent' = sent \union {Event(end, s, 0)}
                            /\ events' = events \union {Event(end, s, 0)}
    BY <1>1 DEF SessionEnds, Emit, Ends
  <2>2. Event(end, s, 0) \notin sent
    BY <1>0, <1>1 DEF SessionEnds, StripeInv, Event, Ends
  <2>3. QED
    BY <2>1, <2>2
<1>2. ASSUME SubscriptionChanges
      PROVE  Handled(f)'
  <2> DEFINE e == Event("updated", Sub, version + 1)
  <2>1. version \in Nat /\ e.type = "updated" /\ e.version = version + 1
    BY <1>0 DEF StripeInv, Event
  <2>2. e \notin sent
    BY <1>0, <2>1 DEF StripeInv
  <2>3. sent' = sent \union {e} /\ events' = events \union {e}
    BY <1>2 DEF SubscriptionChanges, Emit
  <2>4. QED
    BY <2>2, <2>3
<1>3. ASSUME NEW s \in Links, NEW t \in Reversals, ChargeReversed(s, t)
      PROVE  Handled(f)'
  BY <1>3 DEF ChargeReversed, Emit
<1>4. ASSUME sent' = sent, events' \subseteq events
      PROVE  Handled(f)'
  BY <1>4
<1>5. ASSUME NEW h \in Handlers, HandlerStep(h)
      PROVE  Handled(f)'
  <2>1. sent' = sent /\ events' \subseteq events
    BY <1>5 DEF HandlerStep, CreateSession, Record, Deliver, Sync, UpdateSession, Retrieve, Upsert,
                Check, Commit, SetMarker, Answer, stripeVars
  <2>2. QED
    BY <1>4, <2>1
<1>6. CASE (\E s \in Links : LinkMadeElsewhere(s)) \/ Mishap \/ UNCHANGED vars
  BY <1>4, <1>6 DEF LinkMadeElsewhere, Mishap, CallFails, Interrupted, Expire, vars, stripeVars
<1>7. QED
  BY <1>1, <1>2, <1>3, <1>5, <1>6 DEF Next

\* Two sets that differ in one element differ in size by at most one.
LEMMA OneElementChanges ==
  ASSUME NEW S, NEW T, NEW x, IsFiniteSet(S), S \ {x} = T \ {x}
  PROVE  /\ IsFiniteSet(T) /\ Cardinality(S) \in Nat /\ Cardinality(T) \in Nat
         /\ x \in T /\ x \notin S => Cardinality(T) = Cardinality(S) + 1
         /\ x \notin T /\ x \in S => Cardinality(T) = Cardinality(S) - 1
         /\ (x \in T <=> x \in S) => Cardinality(T) = Cardinality(S)
<1>1. CASE x \in T /\ x \notin S
  <2>1. T = S \union {x}
    BY <1>1
  <2>2. QED
    BY <1>1, <2>1, FS_AddElement, FS_CardinalityType
<1>2. CASE x \notin T /\ x \in S
  <2>1. T = S \ {x}
    BY <1>2
  <2>2. QED
    BY <1>2, <2>1, FS_RemoveElement, FS_CardinalityType
<1>3. CASE x \in T <=> x \in S
  <2>1. T = S
    BY <1>3
  <2>2. QED
    BY <1>3, <2>1, FS_CardinalityType
<1>4. QED
  BY <1>1, <1>2, <1>3

\* The numbers in MoveInv are numbers.
LEMMA MoveNumbers ==
  ASSUME BillingInv, NEW m \in Moves, MoveInv(m)
  PROVE  /\ moved[m] \in Nat /\ causes[m] \in Nat
         /\ IsFiniteSet(Open(m)) /\ IsFiniteSet(Decided(m))
         /\ Cardinality(Open(m)) \in Nat /\ Cardinality(Decided(m)) \in Nat
         /\ Cardinality(Decided(m)) <= Cardinality(Open(m))
<1>1. Decided(m) \subseteq Open(m) /\ IsFiniteSet(Open(m))
  BY DEF Decided, Open, MoveInv
<1>2. /\ IsFiniteSet(Decided(m)) /\ Cardinality(Decided(m)) <= Cardinality(Open(m))
      /\ Cardinality(Open(m)) \in Nat /\ Cardinality(Decided(m)) \in Nat
  BY <1>1, FS_Subset, FS_CardinalityType
<1>3. QED
  BY <1>1, <1>2 DEF BillingInv, TablesInv

\* A step that lets nobody else near the move keeps its count.
LEMMA NobodyNew ==
  ASSUME BillingInv, BillingInv', [Next]_vars, NEW m \in Moves, MoveInv(m),
         Open(m)' \subseteq Open(m), Decided(m)' \subseteq Decided(m),
         Marking(m) => Marking(m)', m \in marker => m \in marker',
         moved'[m] = moved[m], causes'[m] >= causes[m]
  PROVE  MoveInv(m)'
<1>1. /\ moved[m] \in Nat /\ causes[m] \in Nat /\ causes'[m] \in Nat
      /\ IsFiniteSet(Open(m)) /\ IsFiniteSet(Decided(m))
      /\ Cardinality(Open(m)) \in Nat /\ Cardinality(Decided(m)) \in Nat
  BY MoveNumbers DEF BillingInv, TablesInv
<1>2. /\ IsFiniteSet(Open(m)') /\ Cardinality(Open(m)') <= Cardinality(Open(m))
      /\ Cardinality(Decided(m)') <= Cardinality(Decided(m))
      /\ Cardinality(Open(m)') \in Nat /\ Cardinality(Decided(m)') \in Nat
  BY <1>1, FS_Subset, FS_CardinalityType
<1>3. Handled(EventOf(m)) => Handled(EventOf(m))'
  BY HandledStays DEF EventOf
<1>4. QED
  BY <1>1, <1>2, <1>3 DEF MoveInv

\* A handler's step leaves the places of the others alone.
LEMMA OtherHandlers ==
  ASSUME BillingInv, NEW h \in Handlers, NEW p, Go(h, p),
         \A g \in Handlers : g # h => job'[g] = job[g], NEW m
  PROVE  /\ Open(m)' \ {h} = Open(m) \ {h} /\ Decided(m)' \ {h} = Decided(m) \ {h}
         /\ (pc[h] # "mark" \/ MoveOf(job[h].event) # m) /\ Marking(m) => Marking(m)'
         /\ h \in Open(m)' <=> p \in {"session", "check", "commit"} /\ MoveOf(job'[h].event) = m
         /\ h \in Decided(m)' <=> p = "commit" /\ MoveOf(job'[h].event) = m
<1>1. pc'[h] = p /\ \A g \in Handlers : g # h => pc'[g] = pc[g]
  BY DEF BillingInv, HandlersInv, Go
<1>2. QED
  BY <1>1 DEF Open, Decided, Marking, MoveOf

\* A handler that neither comes near the move nor forgets to mark it.
LEMMA QuietStep ==
  ASSUME BillingInv, BillingInv', [Next]_vars, NEW m \in Moves, MoveInv(m),
         NEW h \in Handlers, NEW p, Go(h, p), \A g \in Handlers : g # h => job'[g] = job[g],
         pc[h] # "mark" \/ MoveOf(job[h].event) # m,
         p \in {"session", "check", "commit"} /\ MoveOf(job'[h].event) = m => h \in Open(m),
         p = "commit" /\ MoveOf(job'[h].event) = m => h \in Decided(m),
         m \in marker => m \in marker', moved'[m] = moved[m], causes'[m] >= causes[m]
  PROVE  MoveInv(m)'
<1>1. /\ Open(m)' \ {h} = Open(m) \ {h} /\ Decided(m)' \ {h} = Decided(m) \ {h}
      /\ Marking(m) => Marking(m)'
      /\ h \in Open(m)' <=> p \in {"session", "check", "commit"} /\ MoveOf(job'[h].event) = m
      /\ h \in Decided(m)' <=> p = "commit" /\ MoveOf(job'[h].event) = m
  BY OtherHandlers
<1>2. Open(m)' \subseteq Open(m) /\ Decided(m)' \subseteq Decided(m)
  BY <1>1
<1>3. QED
  BY <1>1, <1>2, NobodyNew

\* A handler that Stripe's event reaches.  An event that is being handled is
\* a cause of its own; otherwise nobody else works on the move.
LEMMA DeliverKeepsMoves ==
  ASSUME BillingInv, BillingInv', [Next]_vars, NEW m \in Moves, MoveInv(m),
         NEW h \in Handlers, NEW e \in events, Deliver(h, e)
  PROVE  MoveInv(m)'
<1> DEFINE again == \E g \in Handlers : Busy(g) /\ job[g].event = e
<1>1. /\ pc[h] = "idle" /\ Go(h, FirstPhase(e)) /\ job' = [job EXCEPT ![h] = Job(e)]
      /\ causes' = [n \in Moves |-> IF again /\ n = MoveOf(e) THEN causes[n] + 1 ELSE causes[n]]
      /\ moved' = moved /\ marker' = marker /\ sent' = sent /\ events' = events
  BY DEF Deliver, stripeVars, tables
<1>2. e \in Events /\ FirstPhase(e) \notin {"commit", "mark"}
  BY DEF BillingInv, StripeInv, FirstPhase
<1>3. job'[h].event = e /\ \A g \in Handlers : g # h => job'[g] = job[g]
  BY <1>1 DEF BillingInv, HandlersInv, Job
<1>4. /\ moved[m] \in Nat /\ causes[m] \in Nat
      /\ IsFiniteSet(Open(m)) /\ Cardinality(Open(m)) \in Nat
  BY MoveNumbers
<1> HIDE DEF again
<1>5. CASE MoveOf(e) # m
  BY <1>1, <1>2, <1>3, <1>4, <1>5, QuietStep
<1>6. CASE MoveOf(e) = m
  <2>1. e = EventOf(m)
    BY <1>2, <1>6, MovesAndEvents
  <2>2. ~ Handled(EventOf(m)) /\ ~ Handled(EventOf(m))'
    BY <1>1, <2>1 DEF Handled, EventOf
  <2>3. /\ Open(m)' \ {h} = Open(m) \ {h} /\ Decided(m)' = Decided(m)
        /\ Marking(m) => Marking(m)'
    <3>1. h \notin Decided(m) /\ h \notin Decided(m)'
      BY <1>1, <1>2, <1>3, OtherHandlers DEF Decided
    <3>2. QED
      BY <1>1, <1>2, <1>3, <3>1, OtherHandlers
  <2>4. /\ IsFiniteSet(Open(m)') /\ Cardinality(Open(m)') \in Nat
        /\ Cardinality(Open(m)') <= Cardinality(Open(m)) + 1
    <3>1. Open(m) \ {h} = Open(m)' \ {h}
      BY <2>3
    <3>2. h \notin Open(m)
      BY <1>1 DEF Open
    <3>3. /\ IsFiniteSet(Open(m)') /\ Cardinality(Open(m)') \in Nat
          /\ h \in Open(m)' => Cardinality(Open(m)') = Cardinality(Open(m)) + 1
          /\ h \notin Open(m)' => Cardinality(Open(m)') = Cardinality(Open(m))
      BY <1>4, <3>1, <3>2, OneElementChanges
    <3>4. QED
      BY <1>4, <3>3
  <2>5. CASE again
    <3>1. causes'[m] = causes[m] + 1
      BY <1>1, <1>6, <2>5
    <3>2. QED
      BY <1>1, <1>4, <2>2, <2>3, <2>4, <3>1, MoveNumbers DEF MoveInv
  <2>6. CASE ~ again
    <3>1. ASSUME NEW g \in Handlers, pc[g] \in {"session", "check", "commit", "mark"},
                 MoveOf(job[g].event) = m
          PROVE  FALSE
      <4>1. job[g].event \in Events \union OwnWork
        BY <3>1, BusyFacts
      <4>2. job[g].event = EventOf(m)
        BY <3>1, <4>1, MovesAndEvents
      <4>3. QED
        BY <2>1, <2>6, <3>1, <4>2 DEF again, Busy
    <3>2. Open(m) = {} /\ Decided(m) = {} /\ ~ Marking(m)
      BY <3>1 DEF Open, Decided, Marking
    <3>3. Cardinality(Open(m)) = 0 /\ Cardinality(Decided(m)) = 0
      BY <3>2, FS_EmptySet
    <3>4. causes'[m] = causes[m]
      BY <1>1, <2>6
    <3>5. QED
      BY <1>1, <1>4, <2>2, <2>3, <2>4, <3>2, <3>3, <3>4 DEF MoveInv
  <2>7. QED
    BY <2>5, <2>6
<1>7. QED
  BY <1>5, <1>6

\* Recharge: the marker is looked at, the move is made, the marker is written.
LEMMA RechargeKeepsMoves ==
  ASSUME BillingInv, BillingInv', [Next]_vars, NEW m \in Moves, MoveInv(m),
         NEW h \in Handlers, Check(h) \/ Commit(h) \/ SetMarker(h)
  PROVE  MoveInv(m)'
<1>1. /\ job' = job /\ causes' = causes /\ sent' = sent /\ events' = events
      /\ marker \subseteq marker' /\ \E p : Go(h, p)
  BY DEF Check, Commit, SetMarker, stripeVars, tables, history
<1>2. /\ moved[m] \in Nat /\ causes[m] \in Nat
      /\ IsFiniteSet(Open(m)) /\ IsFiniteSet(Decided(m))
      /\ Cardinality(Open(m)) \in Nat /\ Cardinality(Decided(m)) \in Nat
  BY MoveNumbers
<1>3. CASE MoveOf(job[h].event) # m
  <2>1. moved'[m] = moved[m]
    BY <1>3 DEF Check, Commit, SetMarker, tables, BillingInv, TablesInv
  <2>2. QED
    BY <1>1, <1>2, <1>3, <2>1, QuietStep
<1>4. CASE MoveOf(job[h].event) = m /\ Check(h) /\ m \in marker
  <2>1. pc[h] = "check" /\ Go(h, "answer") /\ moved' = moved
    BY <1>4 DEF Check, Marked, tables
  <2>2. QED
    BY <1>1, <1>2, <2>1, QuietStep
<1>5. CASE MoveOf(job[h].event) = m /\ Check(h) /\ m \notin marker
  <2>1. pc[h] = "check" /\ Go(h, "commit") /\ moved' = moved /\ marker' = marker
    BY <1>5 DEF Check, Marked, tables
  <2>2. /\ Open(m)' = Open(m) /\ Decided(m)' \subseteq Open(m)'
        /\ Marking(m) => Marking(m)'
    <3>1. h \in Open(m) /\ h \in Open(m)'
      BY <1>1, <1>5, <2>1, OtherHandlers DEF Open
    <3>2. Open(m)' \ {h} = Open(m) \ {h} /\ (Marking(m) => Marking(m)')
      BY <1>1, <2>1, OtherHandlers
    <3>3. QED
      BY <3>1, <3>2 DEF Open, Decided
  <2>3. /\ IsFiniteSet(Decided(m)') /\ Cardinality(Decided(m)') \in Nat
        /\ Cardinality(Decided(m)') <= Cardinality(Open(m))
    BY <1>2, <2>2, FS_Subset, FS_CardinalityType
  <2>4. Handled(EventOf(m))' = Handled(EventOf(m))
    BY <1>1 DEF Handled, EventOf
  <2>5. QED
    BY <1>1, <1>2, <1>5, <2>1, <2>2, <2>3, <2>4 DEF MoveInv
<1>6. CASE MoveOf(job[h].event) = m /\ Commit(h)
  <2>1. /\ pc[h] = "commit" /\ Go(h, "mark") /\ marker' = marker
        /\ moved' = [moved EXCEPT ![m] = @ + 1]
    BY <1>6 DEF Commit
  <2>2. h \in Open(m) /\ h \in Decided(m) /\ h \notin Open(m)' /\ h \notin Decided(m)'
    BY <1>1, <1>6, <2>1, OtherHandlers DEF Open, Decided
  <2>3. Open(m) \ {h} = Open(m)' \ {h} /\ Decided(m) \ {h} = Decided(m)' \ {h}
    BY <1>1, <2>1, OtherHandlers
  <2>4. /\ IsFiniteSet(Open(m)')
        /\ Cardinality(Open(m)') = Cardinality(Open(m)) - 1
        /\ Cardinality(Decided(m)') = Cardinality(Decided(m)) - 1
    BY <1>2, <2>2, <2>3, OneElementChanges
  <2>5. Marking(m)'
    <3>1. pc'[h] = "mark" /\ MoveOf(job'[h].event) = m
      BY <1>1, <1>6, <2>1 DEF BillingInv, HandlersInv, Go
    <3>2. QED
      BY <3>1 DEF Marking, MoveOf
  <2>6. moved'[m] = moved[m] + 1
    BY <2>1 DEF BillingInv, TablesInv
  <2>7. QED
    BY <1>1, <1>2, <2>1, <2>4, <2>5, <2>6 DEF MoveInv
<1>7. CASE MoveOf(job[h].event) = m /\ SetMarker(h)
  <2>1. pc[h] = "mark" /\ Go(h, "answer") /\ moved' = moved /\ m \in marker'
    BY <1>7 DEF SetMarker
  <2>2. h \notin Open(m) /\ h \notin Decided(m) /\ h \notin Open(m)' /\ h \notin Decided(m)'
    BY <1>1, <2>1, OtherHandlers DEF Open, Decided
  <2>3. Open(m)' = Open(m) /\ Decided(m)' = Decided(m)
    BY <1>1, <2>1, <2>2, OtherHandlers
  <2>4. QED
    BY <1>1, <1>2, <2>1, <2>3 DEF MoveInv
<1>8. QED
  BY <1>3, <1>4, <1>5, <1>6, <1>7

\* A handler that is cut off or whose call fails has not made the move; where
\* it had, and the marker is lost, that is a cause to make it once more.
LEMMA MishapKeepsMoves ==
  ASSUME BillingInv, BillingInv', [Next]_vars, NEW m \in Moves, MoveInv(m),
         \/ \E h \in Handlers : CallFails(h) \/ Interrupted(h)
         \/ \E n \in marker : Expire(n)
  PROVE  MoveInv(m)'
<1>1. /\ moved[m] \in Nat /\ causes[m] \in Nat
      /\ IsFiniteSet(Open(m)) /\ IsFiniteSet(Decided(m))
      /\ Cardinality(Open(m)) \in Nat /\ Cardinality(Decided(m)) \in Nat
  BY MoveNumbers
<1>2. ASSUME NEW h \in Handlers, CallFails(h) \/ Interrupted(h),
             pc[h] # "mark" \/ MoveOf(job[h].event) # m
      PROVE  MoveInv(m)'
  <2>1. marker' = marker /\ moved' = moved /\ pc[h] # "idle"
    BY <1>2 DEF CallFails, Interrupted, tables
  <2>2. causes'[m] = causes[m]
    BY <1>2 DEF CallFails, Interrupted, BillingInv, TablesInv
  <2>3. \A g \in Handlers : g # h => job'[g] = job[g]
    BY <1>2 DEF CallFails, Interrupted, Finish, BillingInv, HandlersInv
  <2>4. \/ Go(h, "idle") \/ Go(h, "answer") \/ Go(h, "upsert")
        \/ pc[h] = "session" /\ Go(h, AfterSession(job[h].event)) /\ job' = job
    BY <1>2 DEF CallFails, Interrupted, Finish
  <2>5. CASE pc[h] = "session" /\ Go(h, AfterSession(job[h].event)) /\ job' = job
    <3>1. AfterSession(job[h].event) # "commit"
      BY DEF AfterSession
    <3>2. MoveOf(job'[h].event) = m => h \in Open(m)
      BY <2>5 DEF Open
    <3>3. QED
      BY <1>1, <1>2, <2>1, <2>2, <2>3, <2>5, <3>1, <3>2, QuietStep
  <2>6. ASSUME NEW p \in {"idle", "answer", "upsert"}, Go(h, p)
        PROVE  MoveInv(m)'
    BY <1>1, <1>2, <2>1, <2>2, <2>3, <2>6, QuietStep
  <2>7. QED
    BY <2>4, <2>5, <2>6
<1>3. ASSUME NEW h \in Handlers, CallFails(h) \/ Interrupted(h),
             pc[h] = "mark", MoveOf(job[h].event) = m
      PROVE  MoveInv(m)'
  <2>1. marker' = marker /\ moved' = moved /\ causes'[m] = causes[m] + 1
    BY <1>3 DEF CallFails, Interrupted, tables, BillingInv, TablesInv
  <2>2. \A g \in Handlers : g # h => job'[g] = job[g]
    BY <1>3 DEF CallFails, Interrupted, Finish, BillingInv, HandlersInv
  <2>3. PICK p \in {"idle", "answer"} : Go(h, p)
    BY <1>3 DEF CallFails, Interrupted, Finish
  <2>4. h \notin Open(m) /\ h \notin Decided(m) /\ h \notin Open(m)' /\ h \notin Decided(m)'
    BY <1>3, <2>2, <2>3, OtherHandlers DEF Open, Decided
  <2>5. Open(m)' = Open(m) /\ Decided(m)' = Decided(m)
    BY <2>2, <2>3, <2>4, OtherHandlers
  <2>6. QED
    BY <1>1, <2>1, <2>5 DEF MoveInv
<1>4. ASSUME NEW n \in marker, Expire(n)
      PROVE  MoveInv(m)'
  <2>1. /\ marker' = marker \ {n} /\ moved' = moved /\ pc' = pc /\ job' = job
        /\ causes' = [causes EXCEPT ![n] = @ + 1]
    BY <1>4 DEF Expire
  <2>2. Open(m)' = Open(m) /\ Decided(m)' = Decided(m) /\ (Marking(m) => Marking(m)')
    BY <2>1 DEF Open, Decided, Marking
  <2>3. CASE n # m
    <3>1. causes'[m] = causes[m] /\ (m \in marker => m \in marker')
      BY <2>1, <2>3 DEF BillingInv, TablesInv
    <3>2. QED
      BY <1>1, <2>1, <2>2, <3>1, NobodyNew
  <2>4. CASE n = m
    <3>1. causes'[m] = causes[m] + 1
      BY <2>1, <2>4 DEF BillingInv, TablesInv
    <3>2. QED
      BY <1>1, <2>1, <2>2, <3>1 DEF MoveInv
  <2>5. QED
    BY <2>3, <2>4
<1>5. QED
  BY <1>2, <1>3, <1>4

\* No step makes a move more often than its causes allow.
LEMMA MoveStep ==
  ASSUME BillingInv, BillingInv', [Next]_vars, NEW m \in Moves, MoveInv(m)
  PROVE  MoveInv(m)'
<1>1. moved[m] \in Nat /\ causes[m] \in Nat
  BY MoveNumbers
<1>2. CASE UNCHANGED <<pc, job, marker, moved, causes>>
  <2>1. Open(m)' = Open(m) /\ Decided(m)' = Decided(m) /\ (Marking(m) => Marking(m)')
    BY <1>2 DEF Open, Decided, Marking
  <2>2. QED
    BY <1>1, <1>2, <2>1, NobodyNew
<1>3. ASSUME NEW h \in Handlers,
             \/ \E s \in Sessions : CreateSession(h, s)
             \/ Record(h) \/ (\E s \in Sessions : Sync(h, s)) \/ Retrieve(h) \/ Upsert(h) \/ Answer(h)
      PROVE  MoveInv(m)'
  <2>1. marker' = marker /\ moved' = moved /\ causes' = causes /\ pc[h] # "mark"
    BY <1>3 DEF CreateSession, Record, Sync, Retrieve, Upsert, Answer, tables, history
  <2>2. \A g \in Handlers : g # h => job'[g] = job[g]
    BY <1>3 DEF CreateSession, Record, Sync, Retrieve, Upsert, Answer, Finish, BillingInv, HandlersInv
  <2>3. PICK p \in {"record", "idle", "retrieve", "default", "upsert", "answer"} : Go(h, p)
    BY <1>3 DEF CreateSession, Record, Sync, Retrieve, Upsert, Answer, Finish
  <2>4. QED
    BY <1>1, <2>1, <2>2, <2>3, QuietStep
<1>4. ASSUME NEW h \in Handlers, UpdateSession(h)
      PROVE  MoveInv(m)'
  <2>1. /\ pc[h] = "session" /\ Go(h, AfterSession(job[h].event))
        /\ job' = job /\ marker' = marker /\ moved' = moved /\ causes' = causes
    BY <1>4 DEF UpdateSession
  <2>2. AfterSession(job[h].event) # "commit"
    BY DEF AfterSession
  <2>3. MoveOf(job'[h].event) = m => h \in Open(m)
    BY <2>1 DEF Open
  <2>4. QED
    BY <1>1, <2>1, <2>2, <2>3, QuietStep
<1>5. CASE \E s \in Sessions : SessionEnds(s)
  BY <1>2, <1>5 DEF SessionEnds, tables, history
<1>6. CASE SubscriptionChanges \/ UNCHANGED vars
  BY <1>2, <1>6 DEF SubscriptionChanges, vars, tables, history
<1>7. CASE \E s \in Links : LinkMadeElsewhere(s) \/ \E t \in Reversals : ChargeReversed(s, t)
  BY <1>2, <1>7 DEF LinkMadeElsewhere, ChargeReversed, tables, history
<1>8. CASE \E h \in Handlers : HandlerStep(h)
  BY <1>3, <1>4, <1>8, DeliverKeepsMoves, RechargeKeepsMoves DEF HandlerStep
<1>9. CASE Mishap
  BY <1>9, MishapKeepsMoves DEF Mishap
<1>10. QED
  BY <1>5, <1>6, <1>7, <1>8, <1>9 DEF Next

\* Moves are counted right at first: nobody has made one.
LEMMA MovesInitial ==
  ASSUME Init
  PROVE  MovesInv
<1>1. ASSUME NEW m \in Moves
      PROVE  MoveInv(m)
  <2>1. Open(m) = {} /\ Decided(m) = {} /\ moved[m] = 0 /\ causes[m] = 0
    BY DEF Init, Open, Decided
  <2>2. IsFiniteSet({}) /\ Cardinality({}) = 0
    BY FS_EmptySet
  <2>3. QED
    BY <2>1, <2>2 DEF MoveInv
<1>2. QED
  BY <1>1 DEF MovesInv

\* Recharge credits a link's payment, and reverses its charge, once for each
\* event, and once more only for an event handled twice at a time or whose
\* marker was not written or had expired.
THEOREM MovesHaveCauses == Spec => []MovedPerCause
<1>1. BillingInv /\ BillingInv' /\ [Next]_vars /\ MovesInv => MovesInv'
  <2>1. SUFFICES ASSUME BillingInv, BillingInv', [Next]_vars, MovesInv, NEW m \in Moves
                 PROVE  MoveInv(m)'
    BY DEF MovesInv
  <2>2. MoveInv(m)
    BY <2>1 DEF MovesInv
  <2>3. QED
    BY <2>1, <2>2, MoveStep
<1>2. BillingInv /\ MovesInv => MovedPerCause
  <2>1. ASSUME BillingInv, NEW m \in Moves, MoveInv(m)
        PROVE  moved[m] <= 1 + causes[m]
    BY <2>1, MoveNumbers DEF MoveInv
  <2>2. QED
    BY <2>1 DEF MovesInv, MovedPerCause
<1>3. QED
  BY <1>1, <1>2, MovesInitial, BillingFits, PTL DEF Spec

-----------------------------------------------------------------------------
(* Credit *)

\* What is excused stays excused.
LEMMA ExcusesStay ==
  ASSUME [Next]_vars
  PROVE  excused \subseteq excused'
<1>1. ASSUME NEW h \in Handlers,
             \/ \E e \in events : Deliver(h, e)
             \/ (\E s \in Sessions : Sync(h, s)) \/ UpdateSession(h) \/ CallFails(h)
      PROVE  excused \subseteq excused'
  BY <1>1 DEF Deliver, Sync, UpdateSession, CallFails
<1>2. ASSUME NEW h \in Handlers,
             \/ \E s \in Sessions : CreateSession(h, s)
             \/ Record(h) \/ Retrieve(h) \/ Upsert(h) \/ Check(h) \/ Commit(h) \/ SetMarker(h)
             \/ Answer(h) \/ Interrupted(h)
      PROVE  excused \subseteq excused'
  BY <1>2 DEF CreateSession, Record, Retrieve, Upsert, Check, Commit, SetMarker, Answer, Interrupted,
              history
<1>3. CASE \/ \E s \in Sessions : SessionEnds(s)
           \/ SubscriptionChanges
           \/ \E s \in Links : LinkMadeElsewhere(s) \/ \E t \in Reversals : ChargeReversed(s, t)
           \/ \E n \in marker : Expire(n)
           \/ UNCHANGED vars
  BY <1>3 DEF SessionEnds, SubscriptionChanges, LinkMadeElsewhere, ChargeReversed, Expire,
              vars, history
<1>4. QED
  BY <1>1, <1>2, <1>3 DEF Next, HandlerStep, Mishap

\* What is made stays made.
LEMMA MovesStay ==
  ASSUME BillingInv, [Next]_vars, NEW m \in Moves
  PROVE  (moved[m] > 0 => moved'[m] > 0) /\ moved[m] \in Nat
<1>1. moved[m] \in Nat
  BY DEF BillingInv, TablesInv
<1>2. ASSUME NEW h \in Handlers, Commit(h)
      PROVE  moved[m] > 0 => moved'[m] > 0
  BY <1>1, <1>2 DEF Commit, BillingInv, TablesInv
<1>3. ASSUME NEW h \in Handlers,
             \/ \E s \in Sessions : CreateSession(h, s)
             \/ \E e \in events : Deliver(h, e)
             \/ Record(h) \/ (\E s \in Sessions : Sync(h, s)) \/ UpdateSession(h) \/ Retrieve(h) \/ Upsert(h) \/ Check(h)
             \/ SetMarker(h) \/ Answer(h) \/ CallFails(h) \/ Interrupted(h)
      PROVE  moved' = moved
  BY <1>3 DEF CreateSession, Deliver, Record, Sync, UpdateSession, Retrieve, Upsert, Check, SetMarker,
              Answer, CallFails, Interrupted, tables
<1>4. CASE \/ \E s \in Sessions : SessionEnds(s)
           \/ SubscriptionChanges
           \/ \E s \in Links : LinkMadeElsewhere(s) \/ \E t \in Reversals : ChargeReversed(s, t)
           \/ \E n \in marker : Expire(n)
           \/ UNCHANGED vars
  BY <1>1, <1>4 DEF SessionEnds, SubscriptionChanges, LinkMadeElsewhere, ChargeReversed, Expire, vars,
                    tables
<1>5. QED
  BY <1>1, <1>2, <1>3, <1>4 DEF Next, HandlerStep, Mishap

\* A handler's step, as far as credits are concerned.
LEMMA HandlerKeepsCredit ==
  ASSUME BillingInv, [Next]_vars, NEW m \in Moves, CreditOf(m),
         NEW h \in Handlers, NEW p, Go(h, p), \A g \in Handlers : g # h => job'[g] = job[g],
         UNCHANGED <<va, complete>>, sent' = sent,
         events' = events \/ (pc[h] = "answer" /\ events' = events \ {job[h].event}),
         m \in marker' => m \in marker \/ Marking(m),
         p = "mark" /\ MoveOf(job'[h].event) = m => moved'[m] > 0,
         Due(m) /\ p = "answer" /\ job'[h].event = EventOf(m) => Settled(m)'
  PROVE  CreditOf(m)'
<1>1. pc'[h] = p /\ \A g \in Handlers : g # h => pc'[g] = pc[g]
  BY DEF BillingInv, HandlersInv, Go
<1>2. (moved[m] > 0 => moved'[m] > 0) /\ (Settled(m) => Settled(m)')
  <2>1. (moved[m] > 0 => moved'[m] > 0) /\ excused \subseteq excused'
    BY MovesStay, ExcusesStay
  <2>2. QED
    BY <2>1 DEF Settled
<1>3. ASSUME m \in marker' \/ Marking(m)'
      PROVE  moved'[m] > 0
  <2>1. CASE m \in marker \/ Marking(m)
    <3>1. moved[m] > 0
      BY <2>1 DEF CreditOf
    <3>2. QED
      BY <1>2, <3>1
  <2>2. CASE m \notin marker /\ ~ Marking(m)
    <3>1. PICK g \in Handlers : pc'[g] = "mark" /\ MoveOf(job'[g].event) = m
      BY <1>3, <2>2 DEF Marking, MoveOf
    <3>2. g = h
      BY <1>1, <2>2, <3>1 DEF Marking
    <3>3. QED
      BY <1>1, <3>1, <3>2
  <2>3. QED
    BY <2>1, <2>2
<1>4. ASSUME Due(m)', Handled(EventOf(m))'
      PROVE  Settled(m)'
  <2>1. CASE Handled(EventOf(m))
    BY <1>2, <1>4, <2>1 DEF CreditOf, Due
  <2>2. CASE ~ Handled(EventOf(m))
    <3>1. pc[h] = "answer" /\ job[h].event = EventOf(m)
      BY <1>4, <2>2 DEF Handled, EventOf
    <3>2. QED
      BY <1>2, <1>4, <3>1 DEF CreditOf, Due
  <2>3. QED
    BY <2>1, <2>2
<1>5. ASSUME Due(m)', NEW g \in Handlers, pc'[g] = "answer", job'[g].event = EventOf(m)
      PROVE  Settled(m)'
  BY <1>1, <1>2, <1>5 DEF CreditOf, Due
<1>6. EventOf(m)' = EventOf(m)
  BY DEF EventOf
<1>7. QED
  BY <1>3, <1>4, <1>5, <1>6 DEF CreditOf

\* The events of moves lead through Recharge.
LEMMA MovesAreChecked ==
  ASSUME BillingInv, NEW m \in Moves
  PROVE  /\ MoveOf(EventOf(m)) = m /\ EventOf(m).type = m[1] /\ EventOf(m).session = m[2]
         /\ ~ WritesSubscription(EventOf(m)) /\ m[2] \in Links
         /\ EventOf(m).type \in {"completed", "charge.refunded"}
         /\ Due(m) => /\ FirstPhase(EventOf(m)) # "answer"
                      /\ EventOf(m).type \in Ends => AfterSession(EventOf(m)) = "check"
<1>1. m = <<m[1], m[2]>> /\ m[1] \in {"completed", "charge.refunded"} /\ m[2] \in Links
  BY DEF Moves
<1>2. EventOf(m).type = m[1] /\ EventOf(m).session = m[2]
  BY DEF EventOf, Event
<1>3. m[1] \notin {"create", "sync", "expired", "updated"} /\ m[2] # Sub
  BY <1>1, EventTypes
<1>4. ~ WritesSubscription(EventOf(m))
  BY <1>2, <1>3 DEF WritesSubscription, Event
<1>5. ASSUME Due(m)
      PROVE  /\ FirstPhase(EventOf(m)) # "answer"
             /\ EventOf(m).type \in Ends => AfterSession(EventOf(m)) = "check"
  <2>1. CASE m[1] = "completed"
    BY <1>2, <1>3, <1>5, <2>1 DEF FirstPhase, AfterSession, Due
  <2>2. CASE m[1] = "charge.refunded"
    BY <1>2, <1>5, <2>2 DEF FirstPhase, Ends, Due
  <2>3. QED
    BY <1>1, <2>1, <2>2
<1>6. QED
  BY <1>1, <1>2, <1>4, <1>5 DEF MoveOf

\* No step answers a link's event without its move, unless a call failed.
LEMMA CreditStep ==
  ASSUME BillingInv, [Next]_vars, NEW m \in Moves, CreditOf(m)
  PROVE  CreditOf(m)'
<1> DEFINE e0 == EventOf(m)
<1>0. /\ MoveOf(e0) = m /\ ~ WritesSubscription(e0)
      /\ Due(m) => FirstPhase(e0) # "answer"
      /\ Due(m) /\ e0.type \in Ends => AfterSession(e0) = "check"
      /\ e0.type \in {"completed", "charge.refunded"} /\ e0.session = m[2] /\ m[2] \in Links
  BY MovesAreChecked
<1>1. /\ moved[m] \in Nat /\ (moved[m] > 0 => moved'[m] > 0) /\ excused \subseteq excused'
  BY MovesStay, ExcusesStay
<1>2. Settled(m) => Settled(m)'
  BY <1>1 DEF Settled
<1> HIDE DEF e0
<1>3. ASSUME UNCHANGED <<pc, job>>, marker' \subseteq marker, sent \subseteq sent',
             \A f \in sent' : f \notin events' => f \in sent /\ f \notin events,
             Due(m)' => Due(m) \/ e0 \notin sent'
      PROVE  CreditOf(m)'
  <2>1. Marking(m)' = Marking(m) /\ EventOf(m)' = EventOf(m)
    BY <1>3 DEF Marking, EventOf, MoveOf
  <2>2. m \in marker' \/ Marking(m)' => moved'[m] > 0
    BY <1>1, <1>3, <2>1 DEF CreditOf
  <2>3. ASSUME Due(m)', Handled(e0)'
        PROVE  Settled(m)'
    BY <1>2, <1>3, <2>3 DEF CreditOf, Handled, e0, EventOf
  <2>4. ASSUME Due(m)', NEW h \in Handlers, pc'[h] = "answer", job'[h].event = e0
        PROVE  Settled(m)'
    <3>1. e0 \in sent
      <4>1. job[h].event \in sent \union OwnWork
        BY <1>3, <2>4, BusyFacts DEF JobFits
      <4>2. e0.type \notin {"create", "sync"}
        BY <1>0, EventTypes
      <4>3. QED
        BY <1>3, <2>4, <4>1, <4>2, EventTypes
    <3>2. QED
      BY <1>2, <1>3, <2>4, <3>1 DEF CreditOf, e0
  <2>5. QED
    BY <2>1, <2>2, <2>3, <2>4 DEF CreditOf, e0
<1>4. ASSUME NEW s \in Sessions, SessionEnds(s)
      PROVE  CreditOf(m)'
  BY <1>3, <1>4 DEF SessionEnds, Emit, tables, Due
<1>5. CASE SubscriptionChanges \/ \E s \in Links, t \in Reversals : ChargeReversed(s, t)
  BY <1>3, <1>5 DEF SubscriptionChanges, ChargeReversed, Emit, tables, Due
<1>6. ASSUME NEW s \in Links, LinkMadeElsewhere(s)
      PROVE  CreditOf(m)'
  <2>1. e0 \in sent => e0.session # s
    <3>1. e0 \in sent => stripe[e0.session] # "none"
      BY DEF BillingInv, StripeInv, Ends
    <3>2. QED
      BY <1>6, <3>1 DEF LinkMadeElsewhere
  <2>2. QED
    BY <1>0, <1>3, <1>6, <2>1 DEF LinkMadeElsewhere, tables, Due
<1>7. CASE UNCHANGED vars \/ \E n \in marker : Expire(n)
  BY <1>3, <1>7 DEF Expire, vars, stripeVars, tables, Due
<1>8. ASSUME NEW h \in Handlers,
             \/ \E s \in Sessions : CreateSession(h, s)
             \/ Record(h) \/ (\E s \in Sessions : Sync(h, s)) \/ Retrieve(h) \/ Answer(h) \/ Interrupted(h)
      PROVE  CreditOf(m)'
  <2>1. /\ UNCHANGED <<va, complete>> /\ sent' = sent /\ marker' = marker
        /\ events' = events \/ (pc[h] = "answer" /\ events' = events \ {job[h].event})
    BY <1>8 DEF CreateSession, Record, Sync, Retrieve, Answer, Interrupted, stripeVars, tables
  <2>2. \A g \in Handlers : g # h => job'[g] = job[g]
    BY <1>8 DEF CreateSession, Record, Sync, Retrieve, Answer, Interrupted, Finish, BillingInv, HandlersInv
  <2>3. PICK p \in {"record", "idle", "retrieve", "default", "upsert"} : Go(h, p)
    BY <1>8 DEF CreateSession, Record, Sync, Retrieve, Answer, Interrupted, Finish
  <2>4. QED
    BY <2>1, <2>2, <2>3, HandlerKeepsCredit
<1>9. ASSUME NEW h \in Handlers, NEW e \in events, Deliver(h, e)
      PROVE  CreditOf(m)'
  <2>1. /\ Go(h, FirstPhase(e)) /\ job' = [job EXCEPT ![h] = Job(e)]
        /\ UNCHANGED <<va, complete>> /\ sent' = sent /\ marker' = marker /\ events' = events
    BY <1>9 DEF Deliver, stripeVars, tables
  <2>2. job'[h].event = e /\ \A g \in Handlers : g # h => job'[g] = job[g]
    BY <2>1 DEF BillingInv, HandlersInv, Job
  <2>3. FirstPhase(e) # "mark"
    BY DEF FirstPhase
  <2>4. QED
    BY <1>0, <2>1, <2>2, <2>3, HandlerKeepsCredit DEF e0
<1>10. ASSUME NEW h \in Handlers, job' = job, UNCHANGED stripeVars, marker' = marker,
              pc[h] = "session", Go(h, AfterSession(job[h].event))
       PROVE  CreditOf(m)'
  <2>1. AfterSession(job[h].event) # "mark" /\ job[h].event.type \in Ends
    BY <1>10, BusyFacts DEF AfterSession, JobFits, PhaseFits
  <2>2. QED
    BY <1>0, <1>10, <2>1, HandlerKeepsCredit DEF e0, stripeVars
<1>11. ASSUME NEW h \in Handlers, job' = job, UNCHANGED stripeVars, marker' = marker,
              pc[h] = "upsert", Go(h, "answer")
       PROVE  CreditOf(m)'
  <2>1. WritesSubscription(job[h].event)
    BY <1>11, BusyFacts DEF JobFits, PhaseFits
  <2>2. QED
    BY <1>0, <1>11, <2>1, HandlerKeepsCredit DEF e0, stripeVars
<1>12. ASSUME NEW h \in Handlers, Check(h)
       PROVE  CreditOf(m)'
  <2>1. /\ pc[h] = "check" /\ job' = job /\ UNCHANGED stripeVars /\ marker' = marker
        /\ moved' = moved
        /\ Go(h, IF Marked(MoveOf(job[h].event)) THEN "answer" ELSE "commit")
    BY <1>12 DEF Check, tables
  <2>2. job[h].event = e0 /\ Marked(MoveOf(job[h].event)) => Settled(m)'
    BY <1>0, <2>1 DEF CreditOf, Marked, Settled
  <2>3. QED
    BY <2>1, <2>2, HandlerKeepsCredit DEF e0, stripeVars
<1>13. ASSUME NEW h \in Handlers, Commit(h)
       PROVE  CreditOf(m)'
  <2>1. /\ pc[h] = "commit" /\ job' = job /\ UNCHANGED stripeVars /\ marker' = marker
        /\ Go(h, "mark")
        /\ moved' = [moved EXCEPT ![MoveOf(job[h].event)] = @ + 1]
    BY <1>13 DEF Commit
  <2>2. MoveOf(job[h].event) = m => moved'[m] > 0
    BY <1>1, <2>1 DEF BillingInv, TablesInv
  <2>3. QED
    BY <2>1, <2>2, HandlerKeepsCredit DEF stripeVars
<1>14. ASSUME NEW h \in Handlers, job' = job, UNCHANGED stripeVars, pc[h] = "mark", Go(h, "answer"),
              marker' \subseteq marker \union {MoveOf(job[h].event)}
       PROVE  CreditOf(m)'
  <2>1. job[h].event = e0 \/ MoveOf(job[h].event) = m => Marking(m) /\ Settled(m)
    BY <1>0, <1>14 DEF CreditOf, Marking, Settled
  <2>2. QED
    BY <1>2, <1>14, <2>1, HandlerKeepsCredit DEF e0, stripeVars
<1>15. ASSUME NEW h \in Handlers, CallFails(h)
       PROVE  CreditOf(m)'
  <2>1. UNCHANGED stripeVars /\ marker' = marker
    BY <1>15 DEF CallFails, tables
  <2>2. CASE pc[h] = "session" /\ Go(h, AfterSession(job[h].event)) /\ job' = job
    BY <1>10, <2>1, <2>2
  <2>3. CASE pc[h] = "upsert" /\ Go(h, "answer") /\ job' = job
    BY <1>11, <2>1, <2>3
  <2>4. CASE pc[h] \in {"check", "commit"} /\ Go(h, "answer") /\ job' = job
             /\ excused' = excused \union {MoveOf(job[h].event)}
    <3>1. job[h].event = e0 => Settled(m)'
      BY <1>0, <2>4 DEF Settled
    <3>2. QED
      BY <2>1, <2>4, <3>1, HandlerKeepsCredit DEF e0, stripeVars
  <2>5. CASE pc[h] = "mark" /\ Go(h, "answer") /\ job' = job
    BY <1>14, <2>1, <2>5
  <2>6. CASE pc[h] = "retrieve" /\ Go(h, "upsert") /\ job' = [job EXCEPT ![h].read = 1]
    <3>1. \A g \in Handlers : g # h => job'[g] = job[g]
      BY <2>6 DEF BillingInv, HandlersInv
    <3>2. QED
      BY <2>1, <2>6, <3>1, HandlerKeepsCredit DEF stripeVars
  <2>7. QED
    BY <1>15, <2>2, <2>3, <2>4, <2>5, <2>6 DEF CallFails
<1>16. ASSUME NEW h \in Handlers, UpdateSession(h) \/ Upsert(h) \/ SetMarker(h)
       PROVE  CreditOf(m)'
  BY <1>10, <1>11, <1>14, <1>16 DEF UpdateSession, Upsert, SetMarker
<1>17. QED
  BY <1>4, <1>5, <1>6, <1>7, <1>8, <1>9, <1>12, <1>13, <1>15, <1>16 DEF Next, HandlerStep, Mishap

\* When Stripe is told that the event of a link which names its VA account is
\* dealt with, Recharge has credited it, unless a call failed.
THEOREM AnswersAreCredited == Spec => []AnsweredMeansCredited
<1>1. Init => CreditInv
  BY DEF Init, CreditInv, CreditOf, Marking, Handled, Moves
<1>2. BillingInv /\ [Next]_vars /\ CreditInv => CreditInv'
  <2>1. SUFFICES ASSUME BillingInv, [Next]_vars, CreditInv, NEW m \in Moves
                 PROVE  CreditOf(m)'
    BY DEF CreditInv
  <2>2. CreditOf(m)
    BY <2>1 DEF CreditInv
  <2>3. QED
    BY <2>1, <2>2, CreditStep
<1>3. BillingInv /\ CreditInv => AnsweredMeansCredited
  <2>1. ASSUME BillingInv, CreditInv, NEW s \in complete, Handled(Event("completed", s, 0))
        PROVE  moved[<<"completed", s>>] > 0 \/ <<"completed", s>> \in excused
    <3> DEFINE m == <<"completed", s>>
    <3>1. m \in Moves /\ Due(m) /\ EventOf(m) = Event("completed", s, 0)
      BY <2>1 DEF Moves, EventOf, BillingInv, StripeInv, Due
    <3>2. QED
      BY <2>1, <3>1 DEF CreditInv, CreditOf, Settled
  <2>2. QED
    BY <2>1 DEF AnsweredMeansCredited
<1>4. QED
  BY <1>1, <1>2, <1>3, BillingFits, PTL DEF Spec

-----------------------------------------------------------------------------
(* Rows of sessions *)

\* The rows, and who still has to write one, fit Stripe after every step.
LEMMA RowFitsStep ==
  ASSUME BillingInv, [Next]_vars, RowFits
  PROVE  RowFits'
<1> USE DEF RowFits
<1>0. /\ stripe \in [Sessions -> {"none", "open"} \union Ends]
      /\ row \in [Sessions -> {"none", "open"} \union Ends]
      /\ \A h \in Handlers : pc[h] # "idle" => job[h].event.session \in Sessions
      /\ pc \in [Handlers -> Phases] /\ job = [h \in Handlers |-> job[h]]
  BY BusyFacts DEF BillingInv, StripeInv, HandlersInv, TablesInv
<1>1. ASSUME UNCHANGED <<row, stripe>>,
             \A h \in Handlers : pc'[h] = "record" => pc[h] = "record" /\ job'[h] = job[h]
      PROVE  RowFits'
  BY <1>0, <1>1
<1>2. ASSUME NEW s \in Sessions, SessionEnds(s)
      PROVE  RowFits'
  <2>1. PICK end \in Ends : stripe' = [stripe EXCEPT ![s] = end]
    BY <1>2 DEF SessionEnds, Ends
  <2>2. stripe[s] = "open" /\ row' = row /\ pc' = pc /\ job' = job
    BY <1>2 DEF SessionEnds, tables
  <2>3. row[s] \in {"none", "open"}
    BY <1>0, <2>2
  <2>4. QED
    BY <1>0, <2>1, <2>2, <2>3 DEF Ends
<1>3. ASSUME NEW s \in Links, LinkMadeElsewhere(s)
      PROVE  RowFits'
  BY <1>0, <1>3, EventTypes DEF LinkMadeElsewhere, tables
<1>4. ASSUME NEW h \in Handlers, NEW s \in Sessions, CreateSession(h, s)
      PROVE  RowFits'
  <2>1. /\ stripe[s] = "none" /\ stripe' = [stripe EXCEPT ![s] = "open"] /\ row' = row
        /\ pc' = [pc EXCEPT ![h] = "record"] /\ row[s] = "none"
        /\ job'[h].event.session = s /\ \A g \in Handlers : g # h => job'[g] = job[g]
    BY <1>0, <1>4 DEF CreateSession, Go, tables, Job, Event
  <2>2. \A g \in Handlers : pc[g] = "record" => job[g].event.session # s
    BY <2>1
  <2>3. \A f, g \in Handlers :
          pc'[f] = "record" /\ pc'[g] = "record" /\ job'[f].event = job'[g].event => f = g
    BY <1>0, <2>1, <2>2
  <2>4. \A t \in Sessions : /\ row'[t] \in {"none", "open", stripe'[t]}
                            /\ stripe'[t] = "none" => row'[t] = "none"
    BY <1>0, <2>1
  <2>5. \A g \in Handlers :
          pc'[g] = "record" => /\ stripe'[job'[g].event.session] # "none"
                               /\ row'[job'[g].event.session] = "none"
    BY <1>0, <2>1, <2>2
  <2>6. QED
    BY <2>3, <2>4, <2>5
<1>5. ASSUME NEW h \in Handlers, Record(h)
      PROVE  RowFits'
  <2> DEFINE s == job[h].event.session
  <2>1. /\ pc[h] = "record" /\ row' = [row EXCEPT ![s] = "open"] /\ stripe' = stripe
        /\ pc' = [pc EXCEPT ![h] = "idle"] /\ job' = [job EXCEPT ![h] = NoJob]
    BY <1>5 DEF Record, Finish, Go, stripeVars
  <2>2. s \in Sessions /\ stripe[s] # "none" /\ job[h].event = Event("create", s, 0)
    <3>1. job[h].event \in sent \union OwnWork /\ job[h].event.type = "create"
      BY <2>1, BusyFacts DEF JobFits, PhaseFits
    <3>2. job[h].event \in OwnWork
      BY <3>1, EventTypes DEF BillingInv, StripeInv
    <3>3. QED
      BY <2>1, <3>1, <3>2, EventTypes
  <2>3. ASSUME NEW g \in Handlers, g # h, pc[g] = "record"
        PROVE  job[g].event.session # s
    <3>1. job[g].event \in sent \union OwnWork /\ job[g].event.type = "create"
      BY <2>3, BusyFacts DEF JobFits, PhaseFits
    <3>2. job[g].event = Event("create", job[g].event.session, 0)
      BY <3>1, EventTypes DEF BillingInv, StripeInv
    <3>3. QED
      BY <2>1, <2>2, <2>3, <3>2
  <2> HIDE DEF s
  <2>4. QED
    BY <1>0, <2>1, <2>2, <2>3
<1>6. ASSUME NEW h \in Handlers, UpdateSession(h)
      PROVE  RowFits'
  <2> DEFINE e == job[h].event
  <2>1. /\ pc[h] = "session" /\ stripe' = stripe /\ job' = job
        /\ pc' = [pc EXCEPT ![h] = AfterSession(e)] /\ AfterSession(e) # "record"
        /\ row' = row \/ (row[e.session] # "none" /\ row' = [row EXCEPT ![e.session] = e.type])
    BY <1>6 DEF UpdateSession, Go, AfterSession, stripeVars
  <2>2. e \in sent \union OwnWork /\ e.type \in Ends /\ e.session \in Sessions
    BY <2>1, BusyFacts DEF JobFits, PhaseFits
  <2>3. stripe[e.session] = e.type
    BY <2>2, EventTypes DEF BillingInv, StripeInv, Ends
  <2> HIDE DEF e
  <2>4. QED
    BY <1>0, <2>1, <2>2, <2>3 DEF Ends
<1>7. ASSUME NEW h \in Handlers,
             \/ \E e \in events : Deliver(h, e)
             \/ (\E s \in Sessions : Sync(h, s)) \/ Retrieve(h) \/ Upsert(h) \/ Check(h) \/ Commit(h) \/ SetMarker(h)
             \/ Answer(h) \/ CallFails(h) \/ Interrupted(h)
      PROVE  RowFits'
  <2>1. row' = row /\ stripe' = stripe
    BY <1>7 DEF Deliver, Sync, Retrieve, Upsert, Check, Commit, SetMarker, Answer, CallFails,
                Interrupted, tables, stripeVars
  <2>2. PICK p : Go(h, p) /\ p # "record"
    BY <1>7 DEF Deliver, Sync, Retrieve, Upsert, Check, Commit, SetMarker, Answer, CallFails,
                Interrupted, Finish, FirstPhase, AfterSession
  <2>3. \A g \in Handlers : g # h => job'[g] = job[g]
    BY <1>0, <1>7 DEF Deliver, Sync, Retrieve, Upsert, Check, Commit, SetMarker, Answer, CallFails,
                Interrupted, Finish
  <2>4. QED
    BY <1>0, <1>1, <2>1, <2>2, <2>3 DEF Go
<1>8. CASE \/ SubscriptionChanges
           \/ \E s \in Links, t \in Reversals : ChargeReversed(s, t)
           \/ \E m \in marker : Expire(m)
           \/ UNCHANGED vars
  BY <1>1, <1>8 DEF SubscriptionChanges, ChargeReversed, Expire, vars, tables, stripeVars
<1>9. QED
  BY <1>2, <1>3, <1>4, <1>5, <1>6, <1>7, <1>8 DEF Next, HandlerStep, Mishap

\* A step after which nobody is past the row who was not before.
LEMMA PastStays ==
  ASSUME BillingInv, NEW s \in Sessions, NEW end \in Ends,
         NEW h \in Handlers, NEW p, Go(h, p), \A g \in Handlers : g # h => job'[g] = job[g],
         sent' = sent,
         events' = events \/ (pc[h] = "answer" /\ events' = events \ {job[h].event}),
         p \notin {"idle", "session"} /\ job'[h].event = Event(end, s, 0) => Past(s, end),
         Past(s, end)'
  PROVE  Past(s, end)
<1>1. pc'[h] = p /\ \A g \in Handlers : g # h => pc'[g] = pc[g]
  BY DEF BillingInv, HandlersInv, Go
<1>2. Event(end, s, 0)' = Event(end, s, 0)
  BY DEF Event
<1>3. CASE Handled(Event(end, s, 0))'
  <2>1. \/ Handled(Event(end, s, 0))
        \/ pc[h] = "answer" /\ job[h].event = Event(end, s, 0)
    BY <1>2, <1>3 DEF Handled
  <2>2. QED
    BY <2>1 DEF Past
<1>4. ASSUME NEW g \in Handlers, pc'[g] \notin {"idle", "session"}, job'[g].event = Event(end, s, 0)
      PROVE  Past(s, end)
  BY <1>1, <1>4 DEF Past
<1>5. QED
  BY <1>2, <1>3, <1>4 DEF Past

\* Where the row is not touched, it still shows what is past.
LEMMA ShownStays ==
  ASSUME [Next]_vars, RowInv, NEW s \in Sessions, NEW end \in Ends,
         row'[s] = row[s], Past(s, end)' => Past(s, end)
  PROVE  Past(s, end)' => Shows(s, end)'
BY ExcusesStay DEF RowInv, Shows

\* The handler of a session's end writes its row, or has an excuse.
LEMMA ShowsStep ==
  ASSUME BillingInv, BillingInv', [Next]_vars, RowInv, NEW s \in Sessions, NEW end \in Ends
  PROVE  Past(s, end)' => Shows(s, end)'
<1> DEFINE e0 == Event(end, s, 0)
<1>0. /\ e0.type = end /\ e0.session = s /\ row \in [Sessions -> {"none", "open"} \union Ends]
      /\ e0.type \in Ends
  BY DEF Event, BillingInv, TablesInv
<1> HIDE DEF e0
<1>1. ASSUME row' = row, UNCHANGED <<pc, job>>,
             \A f \in sent' : f \notin events' => f \in sent /\ f \notin events
      PROVE  Past(s, end)' => Shows(s, end)'
  <2>1. Past(s, end)' => Past(s, end)
    BY <1>1 DEF Past, Handled, Event
  <2>2. QED
    BY <1>1, <2>1, ShownStays
<1>2. ASSUME NEW t \in Sessions, SessionEnds(t)
      PROVE  Past(s, end)' => Shows(s, end)'
  BY <1>1, <1>2 DEF SessionEnds, Emit, tables
<1>3. CASE \/ SubscriptionChanges
           \/ \E t \in Links : LinkMadeElsewhere(t) \/ \E r \in Reversals : ChargeReversed(t, r)
  BY <1>1, <1>3 DEF SubscriptionChanges, LinkMadeElsewhere, ChargeReversed, Emit, tables
<1>4. CASE UNCHANGED vars \/ \E m \in marker : Expire(m)
  BY <1>1, <1>4 DEF Expire, vars, stripeVars, tables
<1>5. ASSUME NEW h \in Handlers, Record(h)
      PROVE  Past(s, end)' => Shows(s, end)'
  <2>1. /\ pc[h] = "record" /\ Go(h, "idle") /\ row' = [row EXCEPT ![job[h].event.session] = "open"]
        /\ job' = [job EXCEPT ![h] = NoJob] /\ sent' = sent /\ events' = events
    BY <1>5 DEF Record, Finish, stripeVars
  <2>2. Past(s, end)' => Past(s, end)
    <3>1. \A g \in Handlers : g # h => job'[g] = job[g]
      BY <2>1 DEF BillingInv, HandlersInv
    <3>2. QED
      BY <2>1, <3>1, PastStays
  <2>3. CASE job[h].event.session # s
    <3>1. row'[s] = row[s]
      BY <1>0, <2>1, <2>3
    <3>2. QED
      BY <2>2, <3>1, ShownStays
  <2>4. CASE job[h].event.session = s
    <3>1. row[s] = "none"
      BY <2>1, <2>4 DEF RowInv, RowFits
    <3>2. Past(s, end) => <<"row", s>> \in excused
      BY <3>1 DEF RowInv, Shows, Ends
    <3>3. QED
      BY <2>2, <3>2, ExcusesStay DEF Shows
  <2>5. QED
    BY <2>3, <2>4
<1>6. ASSUME NEW h \in Handlers, UpdateSession(h)
      PROVE  Past(s, end)' => Shows(s, end)'
  <2> DEFINE e == job[h].event
  <2>1. /\ pc[h] = "session" /\ Go(h, AfterSession(e)) /\ job' = job
        /\ sent' = sent /\ events' = events
        /\ \/ row' = row /\ excused' = excused \union {<<"row", e.session>>}
           \/ row' = [row EXCEPT ![e.session] = e.type]
    BY <1>6 DEF UpdateSession, stripeVars
  <2>2. e \in sent \union OwnWork /\ e.type \in Ends /\ e.session \in Sessions
    BY <2>1, BusyFacts DEF JobFits, PhaseFits
  <2>3. stripe'[e.session] = e.type
    <3>1. stripe[e.session] = e.type
      BY <2>2, EventTypes DEF BillingInv, StripeInv, Ends
    <3>2. QED
      BY <1>6, <3>1 DEF UpdateSession, stripeVars
  <2>4. CASE e.session # s
    <3>1. e # e0
      BY <1>0, <2>4
    <3>2. Past(s, end)' => Past(s, end)
      BY <2>1, <3>1, PastStays DEF e0
    <3>3. row'[s] = row[s]
      BY <1>0, <2>1, <2>4
    <3>4. QED
      BY <3>2, <3>3, ShownStays
  <2>5. CASE e.session = s
    <3>1. Past(s, end)' => stripe'[s] = end
      <4>1. Past(s, end)' => e0 \in sent' \union OwnWork
        BY DEF Past, Handled, e0, BillingInv, HandlersInv, JobFits, Event
      <4>2. e0 \notin OwnWork
        BY <1>0, EventTypes DEF Ends
      <4>3. QED
        BY <1>0, <4>1, <4>2 DEF BillingInv, StripeInv
    <3>2. row'[s] = e.type \/ <<"row", s>> \in excused'
      BY <1>0, <2>1, <2>2, <2>5
    <3>3. QED
      BY <2>3, <2>5, <3>1, <3>2 DEF Shows
  <2>6. QED
    BY <2>4, <2>5
<1>7. ASSUME NEW h \in Handlers, NEW e \in events, Deliver(h, e)
      PROVE  Past(s, end)' => Shows(s, end)'
  <2>1. /\ row' = row /\ sent' = sent /\ events' = events
        /\ Go(h, FirstPhase(e)) /\ job' = [job EXCEPT ![h] = Job(e)]
    BY <1>7 DEF Deliver, stripeVars, tables
  <2>2. job'[h].event = e /\ \A g \in Handlers : g # h => job'[g] = job[g]
    BY <2>1 DEF BillingInv, HandlersInv, Job
  <2>3. e = e0 => FirstPhase(e) = "session"
    BY <1>0, EventTypes DEF FirstPhase, Ends
  <2>4. Past(s, end)' => Past(s, end)
    BY <2>1, <2>2, <2>3, PastStays DEF e0
  <2>5. QED
    BY <2>1, <2>4, ShownStays
<1>8. ASSUME NEW h \in Handlers,
             \/ \E t \in Sessions : CreateSession(h, t) \/ Sync(h, t)
      PROVE  Past(s, end)' => Shows(s, end)'
  <2>1. row' = row /\ sent' = sent /\ events' = events
    BY <1>8 DEF CreateSession, Sync, stripeVars, tables
  <2>2. /\ \A g \in Handlers : g # h => job'[g] = job[g]
        /\ job'[h].event.type \in {"create", "sync"}
    <3>1. PICK t \in Sessions : CreateSession(h, t) \/ Sync(h, t)
      BY <1>8
    <3>2. PICK type \in {"create", "sync"} : job' = [job EXCEPT ![h] = Job(Event(type, t, 0))]
      BY <3>1 DEF CreateSession, Sync
    <3>3. job'[h] = Job(Event(type, t, 0)) /\ \A g \in Handlers : g # h => job'[g] = job[g]
      BY <3>2 DEF BillingInv, HandlersInv
    <3>4. QED
      BY <3>3 DEF Job, Event
  <2>3. PICK p : Go(h, p)
    BY <1>8 DEF CreateSession, Sync
  <2>4. Past(s, end)' => Past(s, end)
    <3>1. job'[h].event # e0
      BY <1>0, <2>2 DEF Ends
    <3>2. QED
      BY <2>1, <2>2, <2>3, <3>1, PastStays DEF e0
  <2>5. QED
    BY <2>1, <2>4, ShownStays
<1>9. ASSUME NEW h \in Handlers,
             \/ Retrieve(h) \/ Upsert(h) \/ Check(h) \/ Commit(h) \/ SetMarker(h)
             \/ Answer(h) \/ Interrupted(h)
             \/ CallFails(h) /\ pc[h] # "session"
      PROVE  Past(s, end)' => Shows(s, end)'
  <2>1. /\ row' = row /\ sent' = sent
        /\ events' = events \/ (pc[h] = "answer" /\ events' = events \ {job[h].event})
    BY <1>9 DEF Retrieve, Upsert, Check, Commit, SetMarker, Answer, CallFails, Interrupted,
                stripeVars, tables
  <2>2. \A g \in Handlers : g # h => job'[g] = job[g]
    BY <1>9 DEF Retrieve, Upsert, Check, Commit, SetMarker, Answer, CallFails, Interrupted, Finish,
                BillingInv, HandlersInv
  <2>3. pc[h] \notin {"idle", "session"} \/ Finish(h)
    BY <1>9 DEF Retrieve, Upsert, Check, Commit, SetMarker, Answer, CallFails, Interrupted
  <2>4. PICK p : Go(h, p) /\ (Finish(h) => p = "idle")
    <3>1. CASE Finish(h)
      BY <3>1 DEF Finish
    <3>2. CASE ~ Finish(h)
      BY <1>9, <3>2 DEF Retrieve, Upsert, Check, Commit, SetMarker, Answer, CallFails, Interrupted
    <3>3. QED
      BY <3>1, <3>2
  <2>5. job'[h].event = job[h].event \/ Finish(h)
    <3>1. CASE job' = job \/ Finish(h)
      BY <3>1
    <3>2. ASSUME NEW r, pc[h] # "idle", job' = [job EXCEPT ![h].read = r]
          PROVE  job'[h].event = job[h].event
      BY <3>2, BusyFacts DEF BillingInv, HandlersInv, JobFits
    <3>3. QED
      BY <1>9, <3>1, <3>2
         DEF Retrieve, Upsert, Check, Commit, SetMarker, Answer, CallFails, Interrupted
  <2>6. p \notin {"idle", "session"} /\ job'[h].event = Event(end, s, 0) => Past(s, end)
    BY <2>3, <2>4, <2>5 DEF Past
  <2>7. Past(s, end)' => Past(s, end)
    BY <2>1, <2>2, <2>4, <2>6, PastStays
  <2>8. QED
    BY <2>1, <2>7, ShownStays
<1>10. ASSUME NEW h \in Handlers, CallFails(h), pc[h] = "session"
       PROVE  Past(s, end)' => Shows(s, end)'
  <2>1. /\ Go(h, AfterSession(job[h].event)) /\ job' = job /\ row' = row
        /\ excused' = excused \union {<<"row", job[h].event.session>>}
        /\ sent' = sent /\ events' = events
    BY <1>10 DEF CallFails, stripeVars, tables
  <2>2. CASE job[h].event = e0
    BY <1>0, <2>1, <2>2 DEF Shows
  <2>3. CASE job[h].event # e0
    <3>1. Past(s, end)' => Past(s, end)
      BY <2>1, <2>3, PastStays DEF e0
    <3>2. QED
      BY <2>1, <3>1, ShownStays
  <2>4. QED
    BY <2>2, <2>3
<1>11. QED
  BY <1>2, <1>3, <1>4, <1>5, <1>6, <1>7, <1>8, <1>9, <1>10 DEF Next, HandlerStep, Mishap

\* A session's row shows how the session ended once that is handled, unless the
\* webhook came before the row or its update failed.
THEOREM SessionsCatchUp == Spec => []SessionCatchesUp
<1>1. Init => RowInv
  BY EventTypes DEF Init, RowInv, RowFits, Past, Handled
<1>2. BillingInv /\ BillingInv' /\ [Next]_vars /\ RowInv => RowInv'
  <2>1. SUFFICES ASSUME BillingInv, BillingInv', [Next]_vars, RowInv
                 PROVE  RowInv'
    OBVIOUS
  <2>2. RowFits'
    BY <2>1, RowFitsStep DEF RowInv
  <2>3. ASSUME NEW s \in Sessions, NEW end \in Ends
        PROVE  Past(s, end)' => Shows(s, end)'
    BY <2>1, ShowsStep
  <2>4. QED
    BY <2>2, <2>3 DEF RowInv
<1>3. RowInv => SessionCatchesUp
  BY DEF RowInv, Past, Shows, SessionCatchesUp, Ends
<1>4. QED
  BY <1>1, <1>2, <1>3, BillingFits, PTL DEF Spec

-----------------------------------------------------------------------------
(* The subscription *)

\* Which phases a writer can be in.
LEMMA WritersPhases ==
  ASSUME BillingInv, NEW h \in Handlers
  PROVE  /\ pc[h] \in {"retrieve", "default", "upsert"} => Writes(h)
         /\ pc[h] \in {"record", "check", "commit", "mark"} => ~ Writes(h)
         /\ pc[h] = "session" /\ Writes(h) => AfterSession(job[h].event) = "retrieve"
<1>1. pc[h] # "idle" => job[h].event \in Events \union OwnWork /\ PhaseFits(pc[h], job[h].event)
  BY BusyFacts DEF JobFits
<1>2. pc[h] \in {"retrieve", "default", "upsert"} => Writes(h)
  BY <1>1 DEF PhaseFits, Writes
<1>3. ASSUME pc[h] = "record"
      PROVE  ~ Writes(h)
  BY <1>1, <1>3 DEF PhaseFits, Writes, WritesSubscription, Event
<1>4. ASSUME pc[h] \in {"check", "commit", "mark"}
      PROVE  ~ Writes(h)
  <2>1. MoveOf(job[h].event) \in Moves /\ job[h].event \in Events \union OwnWork
    BY <1>1, <1>4 DEF PhaseFits
  <2>2. job[h].event = EventOf(MoveOf(job[h].event))
    BY <2>1, MovesAndEvents
  <2>3. QED
    BY <2>1, <2>2, MovesAreChecked DEF Writes
<1>5. ASSUME pc[h] = "session", Writes(h)
      PROVE  AfterSession(job[h].event) = "retrieve"
  <2>1. job[h].event = Event("completed", Sub, 0)
    BY <1>1, <1>5 DEF PhaseFits, Writes, WritesSubscription, Ends
  <2>2. job[h].event.type = "completed" /\ job[h].event.session = Sub /\ Sub \notin complete
    BY <2>1, EventTypes DEF Event, BillingInv, StripeInv
  <2>3. QED
    BY <2>2 DEF AfterSession
<1>6. QED
  BY <1>2, <1>3, <1>4, <1>5

\* A handler's step, as far as the subscription is concerned.
LEMMA HandlerKeepsSubscription ==
  ASSUME BillingInv, Kept, NEW h \in Handlers, NEW p, Go(h, p),
         \A g \in Handlers : g # h => job'[g] = job[g],
         version' = version, UpToDate', CarriesNewest(h)',
         \/ Writes(h)
         \/ current' = current /\ (Newest \in events => Newest \in events'),
         \/ ~ Writes(h)' \/ Writes(h)
         \/ \A g \in Handlers : g # h => ~ Writes(g)
  PROVE  Kept'
<1>1. pc'[h] = p /\ \A g \in Handlers : g # h => pc'[g] = pc[g]
  BY DEF BillingInv, HandlersInv, Go
<1>2. \A g \in Handlers : g # h => (Writes(g)' <=> Writes(g))
  BY <1>1 DEF Writes, WritesSubscription, Event
<1>3. Newest' = Newest
  BY DEF Newest, Event
<1>4. ASSUME NEW g \in Handlers, g # h
      PROVE  CarriesNewest(g)'
  <2>1. CarriesNewest(g) /\ (pc[g] = "upsert" => Writes(g))
    BY WritersPhases DEF Kept
  <2>2. CASE Writes(h)
    <3>1. ~ Writes(g) /\ pc[g] # "upsert"
      BY <1>4, <2>1, <2>2 DEF Kept
    <3>2. QED
      BY <1>1, <1>2, <1>4, <2>1, <3>1 DEF CarriesNewest
  <2>3. CASE current' = current /\ (Newest \in events => Newest \in events')
    BY <1>1, <1>2, <1>3, <1>4, <2>1, <2>3 DEF CarriesNewest
  <2>4. QED
    BY <2>2, <2>3
<1>5. ASSUME NEW f \in Handlers, NEW g \in Handlers, Writes(f)', Writes(g)'
      PROVE  f = g
  BY <1>2, <1>5 DEF Kept
<1>6. QED
  BY <1>4, <1>5 DEF Kept

\* A step that leaves the handlers and the row alone, and in which the events
\* only become more.
LEMMA StripeKeepsSubscription ==
  ASSUME BillingInv, Kept, UNCHANGED <<pc, job, current>>, events \subseteq events',
         \/ version' = version
         \/ version' > 0 /\ Newest' \in events' /\ \A h \in Handlers : pc[h] # "idle" => job[h].event # Newest'
         \/ version' > 0 /\ Begun \in events' /\ \A h \in Handlers : ~ Writes(h)
  PROVE  Kept'
<1>1. \A h \in Handlers : Writes(h)' <=> Writes(h)
  BY DEF Writes, WritesSubscription, Event
<1>2. Begun' = Begun /\ (version' = version => Newest' = Newest)
  BY DEF Begun, Newest, Event
<1>3. UpToDate'
  BY <1>2 DEF Kept, UpToDate
<1>4. ASSUME NEW h \in Handlers
      PROVE  CarriesNewest(h)'
  <2>1. CarriesNewest(h) /\ (pc[h] = "upsert" => Writes(h))
    BY WritersPhases DEF Kept
  <2>2. QED
    BY <1>1, <1>2, <2>1 DEF CarriesNewest, Writes
<1>5. QED
  BY <1>1, <1>3, <1>4 DEF Kept

\* An event that is delivered while nothing excuses the row is the newest of
\* its kind, or the newest is still pending.
LEMMA DeliverKeepsSubscription ==
  ASSUME BillingInv, Kept, NEW h \in Handlers, NEW e \in events, Deliver(h, e),
         SubscriptionRow \notin excused'
  PROVE  Kept'
<1>1. /\ pc[h] = "idle" /\ Go(h, FirstPhase(e)) /\ job' = [job EXCEPT ![h] = Job(e)]
      /\ version' = version /\ events' = events /\ current' = current
      /\ SubscriptionRow \notin BeginExcuses(h, e)
  BY DEF Deliver, stripeVars, tables
<1>2. /\ job'[h].event = e /\ job'[h].read = e.version /\ pc'[h] = FirstPhase(e)
      /\ \A g \in Handlers : g # h => job'[g] = job[g]
  BY <1>1 DEF BillingInv, HandlersInv, Job, Go
<1>3. /\ e \in sent /\ e \in Events /\ version \in Nat
      /\ e.type \in {"completed", "expired", "updated"} \union Reversals
      /\ e.version \in Nat /\ e = Event(e.type, e.session, e.version)
  BY EventTypes DEF BillingInv, StripeInv
<1>4. FirstPhase(e) # "default" /\ (FirstPhase(e) = "upsert" => e.type = "updated")
  BY DEF FirstPhase
<1>5. WritesSubscription(e) => /\ ~ Overtaken(e)
                               /\ \A g \in Handlers : g # h => ~ Writes(g)
  BY <1>1 DEF BeginExcuses, Busy, Writes
<1>6. WritesSubscription(e) => e.type = "updated" \/ e = Begun
  <2>1. e.type # "sync"
    BY <1>3, EventTypes
  <2>2. QED
    BY <2>1 DEF WritesSubscription, Begun
<1>7. ASSUME e.type = "updated"
      PROVE  /\ version > 0
             /\ e.version = version \/ (Newest \in events /\ e # Newest)
  <2>1. e.version <= version /\ e.version \in 2 .. MaxVersion
    <3>1. e \in {Event("updated", Sub, v) : v \in Versions \ {1}}
      BY <1>3, <1>7, EventTypes DEF Events, Event
    <3>2. QED
      BY <1>7, <3>1, <1>3, BillingAssumption DEF Event, Versions, BillingInv, StripeInv
  <2>2. CASE e.version < version
    <3>1. Newest \in sent /\ Newest.type = "updated" /\ Newest.version = version
      BY <1>3, <2>1, <2>2 DEF Newest, Event, BillingInv, StripeInv
    <3>2. ~ Overtaken(e)
      BY <1>5, <1>7 DEF WritesSubscription
    <3>3. Newest \in events
      BY <1>7, <2>2, <3>1, <3>2 DEF Overtaken
    <3>4. QED
      BY <1>3, <2>1, <2>2, <3>1, <3>3
  <2>3. QED
    BY <1>3, <2>1, <2>2
<1>8. Writes(h)' <=> WritesSubscription(e)
  <2>1. FirstPhase(e) # "idle"
    BY DEF FirstPhase
  <2>2. QED
    BY <1>2, <2>1 DEF Writes, WritesSubscription, Event
<1>9. e = Begun => version > 0 /\ FirstPhase(e) = "session"
  BY <1>3, EventTypes DEF Begun, FirstPhase, Event, BillingInv, StripeInv, Ends
<1>10. e.type = "updated" => FirstPhase(e) = "upsert"
  BY EventTypes DEF FirstPhase
<1>11. CarriesNewest(h)'
  BY <1>1, <1>2, <1>4, <1>6, <1>7, <1>8, <1>9, <1>10 DEF CarriesNewest, Newest, Event
<1>12. UpToDate'
  BY <1>1 DEF Kept, UpToDate, Newest, Begun, Event
<1>13. QED
  BY <1>1, <1>2, <1>5, <1>8, <1>11, <1>12, HandlerKeepsSubscription DEF Newest, Event

\* CheckoutSync begins while nothing excuses the row only when there is a
\* subscription.
LEMMA SyncKeepsSubscription ==
  ASSUME BillingInv, Kept, NEW h \in Handlers, NEW s \in Sessions, Sync(h, s),
         SubscriptionRow \notin excused'
  PROVE  Kept'
<1> DEFINE e == Event("sync", s, 0)
<1>1. /\ pc[h] = "idle" /\ job' = [job EXCEPT ![h] = Job(e)]
      /\ Go(h, IF s = Sub /\ stripe[s] = "completed" THEN "retrieve" ELSE "default")
      /\ version' = version /\ events' = events /\ current' = current
      /\ SubscriptionRow \notin BeginExcuses(h, e)
  BY DEF Sync, stripeVars, tables
<1>2. e.type = "sync" /\ e.session = s /\ WritesSubscription(e)
  BY DEF Event, WritesSubscription
<1> HIDE DEF e
<1>3. version # 0 /\ s = Sub /\ \A g \in Handlers : g # h => ~ Writes(g)
  BY <1>1, <1>2 DEF BeginExcuses, Busy, Writes
<1>4. version > 0 /\ stripe[Sub] = "completed"
  BY <1>3 DEF BillingInv, StripeInv
<1>5. pc'[h] = "retrieve" /\ \A g \in Handlers : g # h => job'[g] = job[g]
  BY <1>1, <1>3, <1>4 DEF BillingInv, HandlersInv, Go
<1>6. CarriesNewest(h)'
  BY <1>1, <1>4, <1>5 DEF CarriesNewest
<1>7. UpToDate'
  BY <1>1 DEF Kept, UpToDate, Newest, Begun, Event
<1>8. QED
  BY <1>1, <1>3, <1>5, <1>6, <1>7, HandlerKeepsSubscription DEF Newest, Event

\* No step leaves the subscription's row behind without an excuse.
LEMMA SubscriptionStep ==
  ASSUME BillingInv, [Next]_vars, Kept, SubscriptionRow \notin excused'
  PROVE  Kept'
<1>0. /\ version \in Nat /\ pc \in [Handlers -> Phases] /\ job = [h \in Handlers |-> job[h]]
      /\ \A h \in Handlers : CarriesNewest(h)
  BY BillingAssumption DEF BillingInv, StripeInv, HandlersInv, Kept
<1>1. ASSUME UNCHANGED <<pc, job, current, version>>, events \subseteq events'
      PROVE  Kept'
  BY <1>1, StripeKeepsSubscription
<1>2. ASSUME NEW s \in Sessions, SessionEnds(s)
      PROVE  Kept'
  <2>1. PICK end \in Ends :
          /\ events' = events \union {Event(end, s, 0)}
          /\ version' = IF s = Sub /\ end = "completed" THEN 1 ELSE version
    BY <1>2 DEF SessionEnds, Emit, Ends
  <2>2. UNCHANGED <<pc, job, current>> /\ stripe[s] = "open"
    BY <1>2 DEF SessionEnds, tables
  <2>3. CASE s = Sub /\ end = "completed"
    <3>1. Begun \in events' /\ version' = 1
      BY <2>1, <2>3 DEF Begun
    <3>2. ~ (version > 0)
      BY <2>2, <2>3 DEF BillingInv, StripeInv
    <3>3. \A h \in Handlers : ~ Writes(h)
      BY <1>0, <3>2 DEF CarriesNewest
    <3>4. QED
      BY <2>1, <2>2, <3>1, <3>3, StripeKeepsSubscription
  <2>4. CASE ~ (s = Sub /\ end = "completed")
    BY <1>1, <2>1, <2>2, <2>4
  <2>5. QED
    BY <2>3, <2>4
<1>3. ASSUME SubscriptionChanges
      PROVE  Kept'
  <2>1. /\ version' = version + 1 /\ events' = events \union {Newest'}
        /\ UNCHANGED <<pc, job, current>>
    BY <1>3 DEF SubscriptionChanges, Emit, Newest, tables
  <2>2. Newest'.type = "updated" /\ Newest'.version = version + 1
    BY <2>1 DEF Newest, Event
  <2>3. ASSUME NEW h \in Handlers, pc[h] # "idle"
        PROVE  job[h].event # Newest'
    <3>1. job[h].event \in sent \union OwnWork
      BY <2>3, BusyFacts DEF JobFits
    <3>2. CASE job[h].event \in sent
      <4>1. job[h].event.type = "updated" => job[h].event.version <= version
        BY <3>2 DEF BillingInv, StripeInv
      <4>2. QED
        BY <1>0, <2>2, <4>1
    <3>3. CASE job[h].event \in OwnWork
      BY <2>2, <3>3, EventTypes
    <3>4. QED
      BY <3>1, <3>2, <3>3
  <2>4. QED
    BY <1>0, <2>1, <2>3, StripeKeepsSubscription
<1>4. CASE \/ \E s \in Links : LinkMadeElsewhere(s) \/ \E t \in Reversals : ChargeReversed(s, t)
           \/ \E m \in marker : Expire(m)
           \/ UNCHANGED vars
  <2>1. UNCHANGED <<pc, job, current, version>> /\ events \subseteq events'
    BY <1>4 DEF LinkMadeElsewhere, ChargeReversed, Expire, Emit, vars, stripeVars, tables
  <2>2. QED
    BY <1>1, <2>1
<1>5. ASSUME NEW h \in Handlers, NEW p, Go(h, p), \A g \in Handlers : g # h => job'[g] = job[g],
             UNCHANGED <<version, events, current>>, ~ Writes(h)', p \notin {"default", "upsert"}
      PROVE  Kept'
  <2>1. CarriesNewest(h)'
    BY <1>0, <1>5 DEF CarriesNewest, Go
  <2>2. UpToDate'
    BY <1>5 DEF Kept, UpToDate, Newest, Begun, Event
  <2>3. QED
    BY <1>5, <2>1, <2>2, HandlerKeepsSubscription DEF Newest, Event
<1>6. ASSUME NEW h \in Handlers, NEW s \in Sessions, CreateSession(h, s)
      PROVE  Kept'
  <2>1. /\ Go(h, "record") /\ UNCHANGED <<version, events, current>>
        /\ job' = [job EXCEPT ![h] = Job(Event("create", s, 0))]
    BY <1>6 DEF CreateSession, tables
  <2>2. job'[h].event = Event("create", s, 0) /\ \A g \in Handlers : g # h => job'[g] = job[g]
    BY <1>0, <2>1 DEF Job
  <2>3. ~ Writes(h)'
    BY <2>2 DEF Writes, WritesSubscription, Event
  <2>4. QED
    BY <1>5, <2>1, <2>2, <2>3
<1>7. ASSUME NEW h \in Handlers, Record(h) \/ Interrupted(h)
      PROVE  Kept'
  <2>1. Finish(h) /\ UNCHANGED <<version, events, current>>
    BY <1>7 DEF Record, Interrupted, stripeVars, tables
  <2>2. Go(h, "idle") /\ ~ Writes(h)' /\ \A g \in Handlers : g # h => job'[g] = job[g]
    BY <1>0, <2>1 DEF Finish, Go, Writes
  <2>3. QED
    BY <1>5, <2>1, <2>2
<1>8. ASSUME NEW h \in Handlers, job' = job, UNCHANGED <<version, events, current>>,
             pc[h] = "session", Go(h, AfterSession(job[h].event))
      PROVE  Kept'
  <2>1. pc'[h] = AfterSession(job[h].event)
    BY <1>0, <1>8 DEF Go
  <2>2. AfterSession(job[h].event) \notin {"default", "upsert", "idle"}
    BY DEF AfterSession
  <2>3. Writes(h)' <=> Writes(h)
    BY <1>8, <2>1, <2>2 DEF Writes, WritesSubscription, Event
  <2>4. CASE ~ Writes(h)
    BY <1>5, <1>8, <2>2, <2>3, <2>4
  <2>5. CASE Writes(h)
    <3>1. AfterSession(job[h].event) = "retrieve"
      BY <1>8, <2>5, WritersPhases
    <3>2. CarriesNewest(h)'
      BY <1>0, <1>8, <2>1, <2>5, <3>1 DEF CarriesNewest
    <3>3. UpToDate'
      BY <1>8 DEF Kept, UpToDate, Newest, Begun, Event
    <3>4. QED
      BY <1>8, <2>5, <3>2, <3>3, HandlerKeepsSubscription
  <2>6. QED
    BY <2>4, <2>5
<1>9. ASSUME NEW h \in Handlers, Retrieve(h)
      PROVE  Kept'
  <2>1. pc[h] # "default"
    BY <1>0 DEF CarriesNewest
  <2>2. /\ pc[h] = "retrieve" /\ job' = [job EXCEPT ![h].read = version] /\ Go(h, "upsert")
        /\ UNCHANGED <<version, events, current>>
    BY <1>9, <2>1 DEF Retrieve, stripeVars, tables
  <2>3. Writes(h) /\ JobFits(h)
    BY <2>2, WritersPhases, BusyFacts
  <2>4. /\ job'[h].read = version /\ pc'[h] = "upsert"
        /\ \A g \in Handlers : g # h => job'[g] = job[g]
    BY <1>0, <2>2, <2>3 DEF JobFits, Go
  <2>5. CarriesNewest(h)'
    BY <1>0, <2>2, <2>3, <2>4 DEF CarriesNewest
  <2>6. UpToDate'
    BY <2>2 DEF Kept, UpToDate, Newest, Begun, Event
  <2>7. QED
    BY <2>2, <2>3, <2>4, <2>5, <2>6, HandlerKeepsSubscription
<1>10. ASSUME NEW h \in Handlers, Upsert(h)
       PROVE  Kept'
  <2>1. /\ pc[h] = "upsert" /\ current' = job[h].read /\ Go(h, "answer") /\ job' = job
        /\ UNCHANGED <<version, events>>
    BY <1>10 DEF Upsert, stripeVars
  <2>2. Writes(h) /\ pc'[h] = "answer"
    BY <1>0, <2>1, WritersPhases DEF Go
  <2>3. job[h].read = version \/ (Newest \in events /\ job[h].event # Newest)
    BY <1>0, <2>1 DEF CarriesNewest
  <2>4. CarriesNewest(h)' /\ UpToDate'
    BY <1>0, <2>1, <2>2, <2>3 DEF CarriesNewest, UpToDate, Newest, Event
  <2>5. QED
    BY <2>1, <2>2, <2>4, HandlerKeepsSubscription
<1>11. ASSUME NEW h \in Handlers, job' = job, UNCHANGED <<version, events, current>>,
              pc[h] \in {"check", "commit", "mark"}, NEW p \in {"commit", "mark", "answer"}, Go(h, p)
       PROVE  Kept'
  <2>1. ~ Writes(h)'
    BY <1>0, <1>11, WritersPhases DEF Writes, WritesSubscription, Event, Go
  <2>2. QED
    BY <1>5, <1>11, <2>1
<1>12. ASSUME NEW h \in Handlers, Check(h) \/ Commit(h) \/ SetMarker(h)
       PROVE  Kept'
  <2>1. /\ job' = job /\ UNCHANGED <<version, events, current>> /\ pc[h] \in {"check", "commit", "mark"}
        /\ \E p \in {"commit", "mark", "answer"} : Go(h, p)
    BY <1>12 DEF Check, Commit, SetMarker, stripeVars, tables
  <2>2. QED
    BY <1>11, <2>1
<1>13. ASSUME NEW h \in Handlers, Answer(h)
       PROVE  Kept'
  <2>1. /\ pc[h] = "answer" /\ events' = events \ {job[h].event} /\ Finish(h)
        /\ UNCHANGED <<version, current>>
    BY <1>13 DEF Answer, tables
  <2>2. /\ Go(h, "idle") /\ pc'[h] = "idle" /\ ~ Writes(h)'
        /\ \A g \in Handlers : g # h => job'[g] = job[g]
    BY <1>0, <2>1 DEF Finish, Go, Writes
  <2>3. CarriesNewest(h)'
    BY <2>2 DEF CarriesNewest
  <2>4. CASE Writes(h)
    <3>1. current = version \/ (Newest \in events /\ job[h].event # Newest)
      BY <1>0, <2>1, <2>4 DEF CarriesNewest
    <3>2. UpToDate'
      BY <2>1, <3>1 DEF UpToDate, Newest, Event
    <3>3. QED
      BY <2>1, <2>2, <2>3, <2>4, <3>2, HandlerKeepsSubscription
  <2>5. CASE ~ Writes(h)
    <3>1. job[h].event # Newest /\ job[h].event # Begun
      BY <2>1, <2>5 DEF Writes, WritesSubscription, Newest, Begun, Event
    <3>2. UpToDate'
      BY <2>1, <3>1 DEF Kept, UpToDate, Newest, Begun, Event
    <3>3. Newest \in events => Newest \in events'
      BY <2>1, <3>1
    <3>4. QED
      BY <2>1, <2>2, <2>3, <3>2, <3>3, HandlerKeepsSubscription
  <2>6. QED
    BY <2>4, <2>5
<1>14. ASSUME NEW h \in Handlers, CallFails(h)
       PROVE  Kept'
  <2>1. UNCHANGED <<version, events, current>>
    BY <1>14 DEF CallFails, stripeVars, tables
  <2>2. \/ pc[h] = "session" /\ Go(h, AfterSession(job[h].event)) /\ job' = job
        \/ pc[h] \in {"check", "commit", "mark"} /\ Go(h, "answer") /\ job' = job
    BY <1>14 DEF CallFails
  <2>3. QED
    BY <1>8, <1>11, <2>1, <2>2
<1>15. ASSUME NEW h \in Handlers, UpdateSession(h)
       PROVE  Kept'
  BY <1>8, <1>15 DEF UpdateSession, stripeVars
<1>16. QED
  BY <1>2, <1>3, <1>4, <1>6, <1>7, <1>9, <1>10, <1>12, <1>13, <1>14, <1>15,
     DeliverKeepsSubscription, SyncKeepsSubscription DEF Next, HandlerStep, Mishap

\* When all is handled, the subscription a user is shown is the one Stripe has,
\* also if the end of the checkout is heard of after later changes, unless
\* changes overtook each other, overlapped, or a call failed.
THEOREM TheSubscriptionCatchesUp == Spec => []SubscriptionCatchesUp
<1>1. Init => SubscriptionInv
  BY DEF Init, SubscriptionInv, Kept, UpToDate, CarriesNewest, Writes
<1>2. BillingInv /\ [Next]_vars /\ SubscriptionInv => SubscriptionInv'
  <2>1. SUFFICES ASSUME BillingInv, [Next]_vars, SubscriptionInv, SubscriptionRow \notin excused'
                 PROVE  Kept'
    BY DEF SubscriptionInv, SubscriptionRow
  <2>2. Kept
    BY <2>1, ExcusesStay DEF SubscriptionInv
  <2>3. QED
    BY <2>1, <2>2, SubscriptionStep
<1>3. SubscriptionInv => SubscriptionCatchesUp
  <2>1. WritesSubscription(Newest) /\ WritesSubscription(Begun)
    BY DEF WritesSubscription, Newest, Begun, Event
  <2>2. QED
    BY <2>1 DEF SubscriptionInv, Kept, UpToDate, SubscriptionCatchesUp, SubscriptionQuiet
<1>4. QED
  BY <1>1, <1>2, <1>3, BillingFits, PTL DEF Spec

=============================================================================
