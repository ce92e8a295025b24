------------------------------ MODULE Billing ------------------------------
(***************************************************************************)
(* Billing: one console user's checkout sessions and subscription, kept in *)
(* step with Stripe by the webhook and by CheckoutSync.  Stripe's events   *)
(* arrive in any order, again when their answer is lost, and overlap.  The *)
(* webhook ignores the errors of every write and answers 200.              *)
(*                                                                         *)
(* The subscription's state is abstracted to a version number: 1 is the    *)
(* "active" it starts with, each later change at Stripe (a cancellation    *)
(* among them) adds one.  All the fields of a user's one row are that      *)
(* version, the plan and the number of the subscription among them, which  *)
(* a top-up's session overwrites with the rest.  Definitions named         *)
(* Mutant_... are no part of the specification (see module Ledger).        *)
(***************************************************************************)
EXTENDS Integers, FiniteSets

CONSTANTS
  Handlers,     \* bound: requests in progress at once
  Sub,          \* the checkout session of the subscription
  Links,        \* checkout sessions of one-time top-ups (payment_link)
  Reversals,    \* types of event about a link's charge: refunds and disputes
  MaxVersion,   \* bound: the versions of the subscription
  MaxMishaps,   \* bound: what goes wrong (see Mishap)
  NoJob         \* what an idle handler works on

Sessions == {Sub} \union Links
Versions == 1 .. MaxVersion

ASSUME BillingAssumption ==
  /\ Sub \notin Links
  /\ Reversals \subseteq {"charge.refunded", "charge.dispute.created"}
  /\ MaxVersion \in Nat \ {0} /\ MaxMishaps \in Nat
  /\ LET types == {"completed", "expired", "updated", "create", "sync"} \union Reversals
     IN  NoJob \notin
           [event : [type : types, session : Sessions, version : Nat], read : Nat]

VARIABLES
  stripe,     \* Stripe: the state of each session
  version,    \* Stripe: the version of the subscription, 0 before it exists
  sent,       \* Stripe: the events there have been
  events,     \* Stripe: those that have not been answered
  va,         \* Stripe: the links that name a VA account in their metadata
  complete,   \* Stripe: those of them that name the user and the amount as well
  row,        \* billing_checkout_session.status of each session
  current,    \* the version that the row of billing_subscription shows, 0 for no row
  marker,     \* Redis: the moves of Recharge that are remembered
  moved,      \* how often Recharge made each move
  pc,         \* where each request is
  job,        \* the event each handler works on, and the version it has read
  excused,    \* history: rows and moves that had a cause to fall behind
  causes,     \* history: causes for a move to be made once more
  mishaps     \* what has gone wrong so far

stripeVars == <<stripe, version, sent, events, va, complete>>
tables == <<row, current, marker, moved>>
history == <<excused, causes, mishaps>>
vars == <<stripeVars, tables, pc, job, history>>

Event(type, s, v) == [type |-> type, session |-> s, version |-> v]

\* One idempotency key each: stripe_payment_link_<session>, stripe_reverse_<type>_<charge>.
Moves == {"completed", "charge.refunded"} \X Links
MoveOf(e) == <<e.type, e.session>>

Job(e) == [event |-> e, read |-> e.version]

Events ==
  {Event(t, s, 0) : t \in {"completed", "expired"}, s \in Sessions}
    \union {Event("updated", Sub, v) : v \in Versions \ {1}}
    \union {Event(t, s, 0) : t \in Reversals, s \in Links}

Init ==
  /\ stripe = [s \in Sessions |-> "none"]
  /\ version = 0
  /\ sent = {} /\ events = {} /\ va = {} /\ complete = {}
  /\ row = [s \in Sessions |-> "none"]
  /\ current = 0
  /\ marker = {}
  /\ moved = [m \in Moves |-> 0]
  /\ pc = [h \in Handlers |-> "idle"]
  /\ job = [h \in Handlers |-> NoJob]
  /\ excused = {}
  /\ causes = [m \in Moves |-> 0]
  /\ mishaps = 0

Go(h, phase) == pc' = [pc EXCEPT ![h] = phase]

\* Finish that keeps the event.
Mutant_Finish(h) == Go(h, "idle") /\ job' = job

Finish(h) == Go(h, "idle") /\ job' = [job EXCEPT ![h] = NoJob]

-----------------------------------------------------------------------------
(* Stripe *)

Emit(e) == sent' = sent \union {e} /\ events' = events \union {e}

\* The customer pays, and a subscription begins, or the session runs out.
SessionEnds(s) ==
  /\ stripe[s] = "open"
  /\ \E end \in {"completed", "expired"} :
       /\ stripe' = [stripe EXCEPT ![s] = end]
       /\ Emit(Event(end, s, 0))
       /\ version' = IF s = Sub /\ end = "completed" THEN 1 ELSE version
  /\ UNCHANGED <<va, complete, tables, pc, job, history>>

SubscriptionChanges ==
  /\ version \in 1 .. MaxVersion - 1
  /\ version' = version + 1
  /\ Emit(Event("updated", Sub, version + 1))
  /\ UNCHANGED <<stripe, va, complete, tables, pc, job, history>>

ChargeReversed(s, t) ==
  /\ stripe[s] = "completed"
  /\ Event(t, s, 0) \notin sent
  /\ Emit(Event(t, s, 0))
  /\ UNCHANGED <<stripe, version, va, complete, tables, pc, job, history>>

\* A link that was made with Stripe's own tools names its VA account, and the
\* user and the amount or not.
LinkMadeElsewhere(s) ==
  /\ stripe[s] = "none"
  /\ stripe' = [stripe EXCEPT ![s] = "open"]
  /\ va' = va \union {s}
  /\ complete' \in {complete, complete \union {s}}
  /\ UNCHANGED <<version, sent, events, tables, pc, job, history>>

-----------------------------------------------------------------------------
(* Creating a session *)

\* The metadata handleBillingCheckoutCreate sends never names a VA account.
CreateSession(h, s) ==
  /\ pc[h] = "idle"
  /\ stripe[s] = "none"
  /\ stripe' = [stripe EXCEPT ![s] = "open"]
  /\ Go(h, "record")
  /\ job' = [job EXCEPT ![h] = Job(Event("create", s, 0))]
  /\ UNCHANGED <<version, sent, events, va, complete, tables, history>>

Record(h) ==
  /\ pc[h] = "record"
  /\ row' = [row EXCEPT ![job[h].event.session] = "open"]
  /\ Finish(h)
  /\ UNCHANGED <<stripeVars, current, marker, moved, history>>

-----------------------------------------------------------------------------
(* The webhook and CheckoutSync *)

WritesSubscription(e) ==
  e.type \in {"updated", "sync"} \/ e = Event("completed", Sub, 0)

Busy(g) == pc[g] # "idle"

\* What fell behind, if something did: <<which row or move, session>>.
SubscriptionRow == <<"subscription", Sub>>

\* An event that a later one has overtaken.
Overtaken(e) == e.type = "updated" /\ \E f \in sent \ events :
                                         f.type = "updated" /\ f.version > e.version

\* The cause there is, when h begins e, for the subscription to fall behind.
BeginExcuses(h, e) ==
  IF /\ WritesSubscription(e)
     /\ \/ Overtaken(e)
        \/ \E g \in Handlers \ {h} : Busy(g) /\ WritesSubscription(job[g].event)
        \/ e.type = "sync" /\ (version = 0 \/ e.session # Sub)
  THEN {SubscriptionRow} ELSE {}

\* FirstPhase without a case for checkout.session.expired.
Mutant_FirstPhase(e) ==
  CASE e.type = "completed" -> "session"
    [] e.type = "updated" -> "upsert"
    [] e.type = "charge.refunded" /\ e.session \in va -> "check"
    [] OTHER -> "answer"

\* The object of a charge.dispute.created is the dispute: its number is that of
\* no charge, and RetrieveChargeMetadata finds nothing to reverse.
FirstPhase(e) ==
  CASE e.type \in {"completed", "expired"} -> "session"
    [] e.type = "updated" -> "upsert"
    [] e.type = "charge.refunded" /\ e.session \in va -> "check"
    [] OTHER -> "answer"

\* Stripe may send an event that is being handled once more.
Deliver(h, e) ==
  LET again == \E g \in Handlers : Busy(g) /\ job[g].event = e IN
  /\ pc[h] = "idle"
  /\ again => mishaps < MaxMishaps
  /\ Go(h, FirstPhase(e))
  /\ job' = [job EXCEPT ![h] = Job(e)]
  /\ excused' = excused \union BeginExcuses(h, e)
  /\ mishaps' = IF again THEN mishaps + 1 ELSE mishaps
  /\ causes' = [m \in Moves |-> IF again /\ m = MoveOf(e) THEN causes[m] + 1 ELSE causes[m]]
  /\ UNCHANGED <<stripeVars, tables>>

\* AfterSession that takes "active" for granted.
Mutant_AfterSession(e) ==
  CASE e.type = "completed" /\ e.session = Sub -> "default"
    [] e.type = "completed" /\ e.session \in complete -> "check"
    [] OTHER -> "answer"

\* What follows the update of the session row.
AfterSession(e) ==
  CASE e.type = "completed" /\ e.session = Sub -> "retrieve"
    [] e.type = "completed" /\ e.session \in complete -> "check"
    [] OTHER -> "answer"

\* UpdateBillingCheckoutSessionByProviderSession changes nothing without a row.
UpdateSession(h) ==
  LET e == job[h].event IN
  /\ pc[h] = "session"
  /\ IF row[e.session] = "none"
     THEN row' = row /\ excused' = excused \union {<<"row", e.session>>}
     ELSE row' = [row EXCEPT ![e.session] = e.type] /\ excused' = excused
  /\ Go(h, AfterSession(e))
  /\ UNCHANGED <<stripeVars, current, marker, moved, job, causes, mishaps>>

\* CheckoutSync calls RetrieveCheckoutSession for any session of the user,
\* whatever its mode: without a subscription the row is written as "active".
\* The page does so with the session a top-up returns to it.
Sync(h, s) ==
  /\ pc[h] = "idle"
  /\ stripe[s] # "none"
  /\ Go(h, IF s = Sub /\ stripe[s] = "completed" THEN "retrieve" ELSE "default")
  /\ job' = [job EXCEPT ![h] = Job(Event("sync", s, 0))]
  /\ excused' = excused \union BeginExcuses(h, Event("sync", s, 0))
  /\ UNCHANGED <<stripeVars, tables, causes, mishaps>>

\* RetrieveSubscription, or the default where it is not called.
Retrieve(h) ==
  /\ \/ pc[h] = "retrieve" /\ job' = [job EXCEPT ![h].read = version]
     \/ pc[h] = "default" /\ job' = [job EXCEPT ![h].read = 1]
  /\ Go(h, "upsert")
  /\ UNCHANGED <<stripeVars, tables, history>>

\* UpsertBillingSubscription: the last writer wins.
Upsert(h) ==
  /\ pc[h] = "upsert"
  /\ current' = job[h].read
  /\ Go(h, "answer")
  /\ UNCHANGED <<stripeVars, row, marker, moved, job, history>>

-----------------------------------------------------------------------------
(* Recharge, called for a link and for the reversal of its charge *)

\* Marked under a key without the operation.
Mutant_Marked(m) == \E n \in marker : n[2] = m[2]
Marked(m) == m \in marker

Check(h) ==
  /\ pc[h] = "check"
  /\ Go(h, IF Marked(MoveOf(job[h].event)) THEN "answer" ELSE "commit")
  /\ UNCHANGED <<stripeVars, tables, job, history>>

Commit(h) ==
  /\ pc[h] = "commit"
  /\ moved' = [moved EXCEPT ![MoveOf(job[h].event)] = @ + 1]
  /\ Go(h, "mark")
  /\ UNCHANGED <<stripeVars, row, current, marker, job, history>>

\* SetMarker under the key of the link's payment, whatever the event.
Mutant_SetMarker(h) ==
  /\ pc[h] = "mark"
  /\ marker' = marker \union {<<"completed", job[h].event.session>>}
  /\ Go(h, "answer")
  /\ UNCHANGED <<stripeVars, row, current, moved, job, history>>

SetMarker(h) ==
  /\ pc[h] = "mark"
  /\ marker' = marker \union {MoveOf(job[h].event)}
  /\ Go(h, "answer")
  /\ UNCHANGED <<stripeVars, row, current, moved, job, history>>

\* 200, whatever the writes did; Stripe does not send the event again.
Answer(h) ==
  /\ pc[h] = "answer"
  /\ events' = events \ {job[h].event}
  /\ Finish(h)
  /\ UNCHANGED <<stripe, version, sent, va, complete, tables, history>>

-----------------------------------------------------------------------------
(* What goes wrong *)

\* An error of the database, of Redis or of RetrieveSubscription is logged at
\* most; the handler goes on.
CallFails(h) ==
  LET e == job[h].event
      m == MoveOf(e)
      On(phase, next, excuse) ==
        /\ pc[h] = phase
        /\ Go(h, next)
        /\ excused' = excused \union excuse
  IN
  /\ \/ On("session", AfterSession(e), {<<"row", e.session>>}) /\ UNCHANGED <<job, causes>>
     \/ On("upsert", "answer", {SubscriptionRow}) /\ UNCHANGED <<job, causes>>
     \/ On("check", "answer", {m}) /\ UNCHANGED <<job, causes>>
     \/ On("commit", "answer", {m}) /\ UNCHANGED <<job, causes>>
     \/ /\ On("retrieve", "upsert", {SubscriptionRow})
        /\ job' = [job EXCEPT ![h].read = 1]
        /\ UNCHANGED causes
     \/ /\ On("mark", "answer", {})
        /\ causes' = [causes EXCEPT ![m] = @ + 1]
        /\ UNCHANGED job
  /\ UNCHANGED <<stripeVars, tables>>

\* The process stops, or Stripe does not get the answer: the event is sent again.
Interrupted(h) ==
  /\ pc[h] # "idle"
  /\ Finish(h)
  /\ causes' = [m \in Moves |-> IF pc[h] = "mark" /\ m = MoveOf(job[h].event)
                                 THEN causes[m] + 1 ELSE causes[m]]
  /\ UNCHANGED <<stripeVars, tables, excused>>

\* The marker's 24 hours are over.
Expire(m) ==
  /\ marker' = marker \ {m}
  /\ causes' = [causes EXCEPT ![m] = @ + 1]
  /\ UNCHANGED <<stripeVars, row, current, moved, pc, job, excused>>

Mishap ==
  /\ mishaps < MaxMishaps
  /\ mishaps' = mishaps + 1
  /\ \/ \E h \in Handlers : CallFails(h) \/ Interrupted(h)
     \/ \E m \in marker : Expire(m)

HandlerStep(h) ==
  \/ \E s \in Sessions : CreateSession(h, s) \/ Sync(h, s)
  \/ Record(h)
  \/ \E e \in events : Deliver(h, e)
  \/ UpdateSession(h) \/ Retrieve(h) \/ Upsert(h)
  \/ Check(h) \/ Commit(h) \/ SetMarker(h) \/ Answer(h)

Next ==
  \/ \E s \in Sessions : SessionEnds(s)
  \/ SubscriptionChanges
  \/ \E s \in Links : LinkMadeElsewhere(s) \/ \E t \in Reversals : ChargeReversed(s, t)
  \/ \E h \in Handlers : HandlerStep(h)
  \/ Mishap

Spec == Init /\ [][Next]_vars

-----------------------------------------------------------------------------
(* Properties *)

TypeOK ==
  /\ stripe \in [Sessions -> {"none", "open", "completed", "expired"}]
  /\ version \in 0 .. MaxVersion
  /\ events \subseteq sent /\ sent \subseteq Events
  /\ complete \subseteq va /\ va \subseteq Links
  /\ row \in [Sessions -> {"none", "open", "completed", "expired"}]
  /\ current \in 0 .. MaxVersion
  /\ marker \subseteq Moves
  /\ moved \in [Moves -> Nat]
  /\ \A h \in Handlers : pc[h] = "idle" <=> job[h] = NoJob
  /\ excused \subseteq ({"row", "subscription"} \X Sessions) \union Moves
  /\ causes \in [Moves -> Nat]
  /\ mishaps \in 0 .. MaxMishaps

Handled(e) == e \in sent /\ e \notin events

\* Nothing that writes the subscription is pending or in progress.
SubscriptionQuiet ==
  /\ \A e \in events : ~ WritesSubscription(e)
  /\ \A h \in Handlers : Busy(h) => ~ WritesSubscription(job[h].event)

\* When all is handled, the subscription a user is shown is the one Stripe has,
\* also if the end of the checkout is heard of after later changes, unless
\* changes overtook each other, overlapped, or a call failed, or a session was
\* synced that is no subscription's or whose customer had not paid: that one
\* is written as "active", over a cancellation as well.
SubscriptionCatchesUp ==
  SubscriptionQuiet => current = version \/ SubscriptionRow \in excused

\* A session's row shows how the session ended once that is handled, unless the
\* webhook came before the row or its update failed.
SessionCatchesUp ==
  \A s \in Sessions, end \in {"completed", "expired"} :
    Handled(Event(end, s, 0)) => row[s] \in {end, "none"} \/ <<"row", s>> \in excused

\* A link's payment is credited, and its charge reversed, once for each event,
\* and once more only for an event that was handled twice at a time or whose
\* marker was not written or had expired.
MovedPerCause == \A m \in Moves : moved[m] <= 1 + causes[m]

\* The paid link that names its VA account, its user and its amount has been
\* credited when Stripe is told so, unless a call failed.
AnsweredMeansCredited ==
  \A s \in complete :
    Handled(Event("completed", s, 0)) =>
      moved[<<"completed", s>>] > 0 \/ <<"completed", s>> \in excused

=============================================================================
