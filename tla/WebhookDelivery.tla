-------------------------- MODULE WebhookDelivery --------------------------
(***************************************************************************)
(* The webhook delivery job: every server instance selects the due tasks   *)
(* of webhook_delivery_task, posts each to its URL and writes the outcome  *)
(* back.  Nobody claims a task, and the write-back is unconditional and    *)
(* counts from the number of attempts that was read with the batch, so     *)
(* instances, and an operator who replays a task, overwrite each other.    *)
(*                                                                         *)
(* Tasks are numbered in the order of created_at.  Definitions named       *)
(* Mutant_... are no part of the specification (see module Ledger).        *)
(***************************************************************************)
EXTENDS Integers, FiniteSets

CONSTANTS
  MaxTasks,      \* bound: the tasks ever enqueued
  Jobs,          \* server instances, each running the delivery job
  MaxAttempts,   \* max_attempts, 5 in every row the code inserts
  Limit,         \* tasks selected at once, 100 for the ticker
  MaxEvents      \* bound: tasks enqueued, replays by an operator, and runs of the
                 \* job that an error or the end of a process cut short, together

Tasks == 1 .. MaxTasks

ASSUME DeliveryAssumption ==
  /\ MaxTasks \in Nat /\ IsFiniteSet(Jobs)
  /\ MaxAttempts \in Nat \ {0}
  /\ Limit \in Nat \ {0}
  /\ MaxEvents \in Nat

VARIABLES
  task,       \* webhook_delivery_task: status, attempts, and whether next_retry_at has come
  batch,      \* what each job selected and has not handled: <<task, attempts read>>
  answer,     \* what the POST of the first task of a job's batch gave, or "none"
  arrived,    \* history: the events the receiver took
  allowed,    \* history: how often the receiver may still get each event, for
              \* the causes there have been so far
  events      \* tasks enqueued, replays and runs cut short so far

vars == <<task, batch, answer, arrived, allowed, events>>

Statuses == {"NONE", "PENDING", "RETRYING", "SENT", "DEAD"}
Open == {"PENDING", "RETRYING"}

TaskRow(s, n, due) == [status |-> s, attempts |-> n, due |-> due]

Init ==
  /\ task = [t \in Tasks |-> TaskRow("NONE", 0, FALSE)]
  /\ batch = [j \in Jobs |-> {}]
  /\ answer = [j \in Jobs |-> "none"]
  /\ arrived = {}
  /\ allowed = [t \in Tasks |-> 1]
  /\ events = 0

-----------------------------------------------------------------------------
Happens == events < MaxEvents /\ events' = events + 1

\* enqueueWebhookEventTx inserts a task that is due at once.
Enqueue(t) ==
  /\ task[t].status = "NONE"
  /\ \A s \in Tasks : s < t => task[s].status # "NONE"
  /\ Happens
  /\ task' = [task EXCEPT ![t] = TaskRow("PENDING", 0, TRUE)]
  /\ UNCHANGED <<batch, answer, arrived, allowed>>

\* ReplayWebhookDelivery takes a task in any status.
Replay(t) ==
  /\ task[t].status # "NONE"
  /\ Happens
  /\ task' = [task EXCEPT ![t] = TaskRow("PENDING", 0, TRUE)]
  /\ allowed' = [allowed EXCEPT ![t] = @ + 1]
  /\ UNCHANGED <<batch, answer, arrived>>

\* The back-off of a task is over: next_retry_at has come.
BecomesDue(t) ==
  /\ task[t].status \in Open /\ ~ task[t].due
  /\ task' = [task EXCEPT ![t].due = TRUE]
  /\ UNCHANGED <<batch, answer, arrived, allowed, events>>

-----------------------------------------------------------------------------
\* Due that also selects what was delivered already.
Mutant_Due == {t \in Tasks : task[t].status \in Open \union {"SENT"} /\ task[t].due}

\* Due that forgets the tasks that were tried before.
Mutant_Due_PendingOnly == {t \in Tasks : task[t].status = "PENDING" /\ task[t].due}

Due == {t \in Tasks : task[t].status \in Open /\ task[t].due}

\* ORDER BY created_at ASC LIMIT ?
Selected == {t \in Due : Cardinality({s \in Due : s < t}) < Limit}

\* The tasks that some job is about to post.
Taken == {e[1] : e \in UNION {batch[i] : i \in Jobs}}

Scan(j) ==
  /\ batch[j] = {}
  /\ Due # {}
  /\ batch' = [batch EXCEPT ![j] = {<<t, task[t].attempts>> : t \in Selected}]
  /\ allowed' = [t \in Tasks |-> allowed[t] + (IF t \in Selected \intersect Taken THEN 1 ELSE 0)]
  /\ UNCHANGED <<task, answer, arrived, events>>

\* The row of a batch that its job works on.
First(b) == CHOOSE e \in b : \A f \in b : e[1] <= f[1]

\* Post that takes the absence of an answer for a good one.
Mutant_Post(j) ==
  LET t == First(batch[j])[1] IN
  /\ batch[j] # {} /\ answer[j] = "none"
  /\ answer' = [answer EXCEPT ![j] = "ok"]
  /\ \/ arrived' = arrived \union {t} /\ allowed' = [allowed EXCEPT ![t] = @ - 1]
     \/ UNCHANGED <<arrived, allowed>>
  /\ UNCHANGED <<task, batch, events>>

(***************************************************************************)
(* The POST.  The receiver takes the event and the job learns it ("ok"),   *)
(* or does not (an answer other than 2xx, or none at all), or the event    *)
(* does not arrive, or the request cannot even be built.                   *)
(***************************************************************************)
Post(j) ==
  LET t == First(batch[j])[1] IN
  /\ batch[j] # {} /\ answer[j] = "none"
  /\ \/ /\ answer' = [answer EXCEPT ![j] = "ok"]
        /\ arrived' = arrived \union {t}
        /\ allowed' = [allowed EXCEPT ![t] = @ - 1]
     \/ /\ answer' = [answer EXCEPT ![j] = "failed"]
        /\ arrived' \in {arrived, arrived \union {t}}
        /\ UNCHANGED allowed  \* if it arrived: one delivery, and a cause for one more
  /\ UNCHANGED <<task, batch, events>>

\* The job has written the outcome of row e back and goes on to the next one.
Handled(j, e) ==
  /\ batch' = [batch EXCEPT ![j] = @ \ {e}]
  /\ answer' = [answer EXCEPT ![j] = "none"]
  /\ UNCHANGED <<arrived, allowed, events>>

\* MarkSent that takes the attempt off the count.
Mutant_MarkSent(j) ==
  LET e == First(batch[j]) IN
  /\ answer[j] = "ok"
  /\ task' = [task EXCEPT ![e[1]].status = "SENT", ![e[1]].attempts = @ - 1]
  /\ Handled(j, e)

\* The outcome of a POST answered with 2xx.
MarkSent(j) ==
  LET e == First(batch[j]) IN
  /\ answer[j] = "ok"
  /\ task' = [task EXCEPT ![e[1]].status = "SENT", ![e[1]].attempts = @ + 1]
  /\ Handled(j, e)

\* markWebhookTaskFailure, with the attempts read at the selection.
MarkFailure(j) ==
  LET e == First(batch[j])
      n == e[2] + 1
  IN
  /\ answer[j] = "failed"
  /\ task' = [task EXCEPT ![e[1]] =
                IF n >= MaxAttempts
                THEN [@ EXCEPT !.status = "DEAD", !.attempts = n]
                ELSE TaskRow("RETRYING", n, FALSE)]
  /\ Handled(j, e)

\* An error of the database ends the run of the job; so does the end of its
\* process.  What was posted and not written back will be posted again.
Abort(j) ==
  /\ batch[j] # {}
  /\ Happens
  /\ allowed' = IF answer[j] = "ok"
                THEN [allowed EXCEPT ![First(batch[j])[1]] = @ + 1]
                ELSE allowed
  /\ batch' = [batch EXCEPT ![j] = {}]
  /\ answer' = [answer EXCEPT ![j] = "none"]
  /\ UNCHANGED <<task, arrived>>

JobStep(j) == Scan(j) \/ Post(j) \/ MarkSent(j) \/ MarkFailure(j)

Next ==
  \/ \E t \in Tasks : Enqueue(t) \/ Replay(t) \/ BecomesDue(t)
  \/ \E j \in Jobs : JobStep(j) \/ Abort(j)

Spec == Init /\ [][Next]_vars

\* Time passes, and the ticker of every instance fires again and again.
Fairness ==
  /\ \A t \in Tasks : WF_vars(BecomesDue(t))
  /\ \A j \in Jobs : WF_vars(JobStep(j))

FairSpec == Spec /\ Fairness

-----------------------------------------------------------------------------
(* Properties *)

TypeOK ==
  /\ task \in [Tasks -> [status : Statuses, attempts : Nat, due : BOOLEAN]]
  /\ batch \in [Jobs -> SUBSET (Tasks \X Nat)]
  /\ answer \in [Jobs -> {"none", "ok", "failed"}]
  /\ arrived \subseteq Tasks
  /\ allowed \in [Tasks -> Int]
  /\ events \in 0 .. MaxEvents

\* A task that is SENT did arrive, whichever instances and replays wrote over
\* each other.
SentMeansReceived == \A t \in Tasks : task[t].status = "SENT" => t \in arrived

\* The receiver gets an event once, and once more only for each answer that was
\* lost, success that could not be written, replay, or selection of a task that
\* another instance had already selected.
OneDeliveryPerCause == \A t \in Tasks : allowed[t] >= 0

\* No task is retried for ever, or starved by the tasks before it: it is SENT
\* or becomes a dead letter and stays so, although several instances that
\* work on it may set its count back or take it up again on the way.
EveryTaskEnds ==
  \A t \in Tasks : task[t].status \in Open ~> [](task[t].status \in {"SENT", "DEAD"})
=============================================================================
